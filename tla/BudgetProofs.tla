----------------------------- MODULE BudgetProofs -----------------------------
(***************************************************************************)
(* Proofs that a run's row covers what was billed for it, that runs and    *)
(* days stay within their caps and phases within their shares, and that    *)
(* all of it implements one purse: for any number of workers, runs,        *)
(* requests and retries, with workers that die or are paused past their    *)
(* lease at any step, and providers that bill more than was reserved.      *)
(***************************************************************************)
EXTENDS Budget, FiniteSetTheorems, TLAPS

USE BudgetConstants

\* The part of the state this argument is about is well typed.
Accounts ==
    /\ cost \in [Runs -> Nat] /\ pending \in [Runs -> Nat] /\ billed \in [Runs -> Nat]
    /\ usage \in [Workers -> Nat]
    /\ created \in 0 .. MaxRuns
    /\ pc \in [Workers -> Steps]
    /\ run \in [Workers -> 0 .. created]

\* A run has one worker, the one that created it; only that worker's requests
\* are billed to it.
OneOwner == \A v, w \in Workers : run[v] = run[w] /\ run[w] # 0 => v = w

HasRun == \A w \in Workers : pc[w] \in UnderWay \cup {"daily", "ready"} => run[w] # 0

\* Before a request is sent, what was billed is settled; once it is sent, the
\* reservation covers it, and its usage is what separates the two.
RequestIsReserved ==
    \A w \in Workers : run[w] \notin Overbilled =>
        /\ pc[w] = "send" => billed[run[w]] <= cost[run[w]]
        /\ pc[w] \in {"wait", "settle"} => billed[run[w]] <= cost[run[w]] + usage[w]

Covered == \A r \in Runs \ Overbilled : billed[r] <= cost[r] + pending[r]

Inv == Accounts /\ OneOwner /\ HasRun /\ RequestIsReserved /\ Covered

LEMMA InvInit == Init => Inv
  BY DEF Init, Inv, Accounts, OneOwner, HasRun, UnderWay, RequestIsReserved, Covered, Runs, Steps

\* A worker that has a run has one of the runs there are.
LEMMA RunOf ==
  ASSUME Inv, NEW w \in Workers, pc[w] \in UnderWay \cup {"daily", "ready"}
  PROVE  run[w] \in Runs /\ run[w] # 0
  BY DEF Inv, Accounts, HasRun, Runs

\* How a step ends: the worker goes on to `next` or stops, nobody else moves.
LEMMA Going ==
  ASSUME pc \in [Workers -> Steps], NEW w \in Workers, NEW next \in Steps,
         Go(w, next) \/ Halt(w)
  PROVE  /\ pc' \in [Workers -> Steps]
         /\ \A v \in Workers : v # w => pc'[v] = pc[v]
         /\ pc'[w] \in {next, "idle"}
  BY DEF Go, Halt, Steps

\* Steps that touch neither the accounts nor a run's owner keep the invariant,
\* as long as they do not lead a worker to a request that was not reserved.
LEMMA Bystander ==
  ASSUME Inv, NEW w \in Workers, pc' \in [Workers -> Steps],
         UNCHANGED <<cost, pending, created, run, usage, billed>>,
         \A v \in Workers : v # w => pc'[v] = pc[v],
         \/ pc'[w] \notin UnderWay \cup {"daily", "ready"}
         \/ pc[w] \in {"daily", "ready"} /\ pc'[w] = "ready"
         \/ pc'[w] = pc[w]
         \/ pc[w] = "wait" /\ pc'[w] \in {"settle", "record"}
         \/ pc[w] = "record" /\ pc'[w] = "failed"
  PROVE  Inv'
  BY DEF Inv, Accounts, OneOwner, HasRun, UnderWay, RequestIsReserved, Covered, Runs

\* A step on the worker's own run keeps it if it keeps it there: nobody else's
\* request is billed to that run.
LEMMA OwnRun ==
  ASSUME Inv, NEW w \in Workers, run[w] \in Runs, run[w] # 0,
         NEW c \in Nat, NEW p \in Nat, NEW b \in Nat, NEW u \in Nat,
         cost' = [cost EXCEPT ![run[w]] = c], pending' = [pending EXCEPT ![run[w]] = p],
         billed' = [billed EXCEPT ![run[w]] = b], usage' = [usage EXCEPT ![w] = u],
         UNCHANGED <<created, run>>,
         pc' \in [Workers -> Steps],
         \A v \in Workers : v # w => pc'[v] = pc[v],
         run[w] \notin Overbilled =>
            /\ b <= c + p
            /\ pc'[w] = "send" => b <= c
            /\ pc'[w] \in {"wait", "settle"} => b <= c + u
  PROVE  Inv'
<1>1. Accounts'
  BY DEF Inv, Accounts
<1>2. OneOwner'
  BY DEF Inv, OneOwner
<1>3. HasRun'
  BY DEF Inv, HasRun
<1>4. Covered'
  BY DEF Inv, Covered, Accounts
<1>5. RequestIsReserved'
  <2> SUFFICES ASSUME NEW v \in Workers, run[v] \notin Overbilled
               PROVE  /\ pc'[v] = "send" => billed'[run[v]] <= cost'[run[v]]
                      /\ pc'[v] \in {"wait", "settle"} =>
                            billed'[run[v]] <= cost'[run[v]] + usage'[v]
    BY DEF RequestIsReserved
  <2>1. CASE v = w
    BY <2>1 DEF Inv, Accounts
  <2>2. CASE v # w
    <3>1. run[v] # run[w]
      BY <2>2 DEF Inv, OneOwner
    <3>2. pc'[v] \in {"send", "wait", "settle"} => run[v] \in Runs
      BY <2>2, RunOf DEF UnderWay
    <3>3. QED
      BY <2>2, <3>1, <3>2 DEF Inv, Accounts, RequestIsReserved
  <2>3. QED
    BY <2>1, <2>2
<1>6. QED
  BY <1>1, <1>2, <1>3, <1>4, <1>5 DEF Inv

LEMMA RequestKeeps ==
  ASSUME Inv, NEW w \in Workers, RequestStep(w)
  PROVE  Inv'
<1> USE DEF rows, memory, locals
<1>0. pc \in [Workers -> Steps]
  BY DEF Inv, Accounts
<1>1. CASE reserve(w)
  <2>1. run[w] \in Runs /\ run[w] # 0
    BY <1>1, RunOf DEF reserve
  <2>2. PICK c \in Requests : pending' = [pending EXCEPT ![run[w]] = c]
    BY <1>1 DEF reserve
  <2>3. /\ cost[run[w]] \in Nat /\ billed[run[w]] \in Nat /\ usage[w] \in Nat
        /\ run[w] \notin Overbilled =>
              billed[run[w]] <= cost[run[w]] /\ billed[run[w]] <= cost[run[w]] + c
    BY <1>1, <2>1 DEF reserve, Inv, Accounts, Covered
  <2>4. /\ pc' \in [Workers -> Steps] /\ pc'[w] = "send"
        /\ \A v \in Workers : v # w => pc'[v] = pc[v]
    BY <1>0, <1>1 DEF reserve, Steps
  <2>5. /\ cost' = [cost EXCEPT ![run[w]] = cost[run[w]]]
        /\ billed' = [billed EXCEPT ![run[w]] = billed[run[w]]]
        /\ usage' = [usage EXCEPT ![w] = usage[w]]
        /\ UNCHANGED <<created, run>>
    BY <1>1, <2>1 DEF reserve, Inv, Accounts
  <2>6. QED
    BY <2>1, <2>2, <2>3, <2>4, <2>5, OwnRun
<1>2. CASE Send(w)
  <2>1. run[w] \in Runs /\ run[w] # 0
    BY <1>2, RunOf DEF Send, UnderWay
  <2>2. PICK u \in Bills : /\ u <= pending[run[w]] + ExcessOf(run[w])
                           /\ usage' = [usage EXCEPT ![w] = u]
                           /\ billed' = [billed EXCEPT ![run[w]] = @ + u]
    BY <1>2 DEF Send
  <2>3. /\ cost[run[w]] \in Nat /\ billed[run[w]] \in Nat /\ pending[run[w]] \in Nat
        /\ run[w] \notin Overbilled => billed[run[w]] <= cost[run[w]]
    BY <1>2, <2>1 DEF Send, Inv, Accounts, RequestIsReserved
  <2>4. /\ billed[run[w]] + u \in Nat
        /\ run[w] \notin Overbilled =>
              /\ billed[run[w]] + u <= cost[run[w]] + pending[run[w]]
              /\ billed[run[w]] + u <= cost[run[w]] + u
    <3>1. u \in Nat
      OBVIOUS
    <3>2. run[w] \notin Overbilled => u <= pending[run[w]]
      BY <2>2, <2>3, <3>1 DEF ExcessOf
    <3>3. QED
      BY <2>3, <3>1, <3>2
  <2>5. /\ pc' \in [Workers -> Steps] /\ pc'[w] = "wait"
        /\ \A v \in Workers : v # w => pc'[v] = pc[v]
    BY <1>0, <1>2 DEF Send, Steps
  <2>6. /\ cost' = [cost EXCEPT ![run[w]] = cost[run[w]]]
        /\ pending' = [pending EXCEPT ![run[w]] = pending[run[w]]]
        /\ UNCHANGED <<created, run>>
    BY <1>2, <2>1 DEF Send, Inv, Accounts
  <2>7. u \in Nat
    OBVIOUS
  <2>8. billed' = [billed EXCEPT ![run[w]] = billed[run[w]] + u]
    BY <2>2
  <2>9. QED
    BY <2>1, <2>2, <2>3, <2>4, <2>5, <2>6, <2>7, <2>8, OwnRun
<1>3. CASE Answered(w)
  BY <1>0, <1>3, Bystander, Going DEF Answered, Steps, UnderWay
<1>4. CASE RequestFails(w)
  BY <1>0, <1>4, Bystander, Going DEF RequestFails, Steps, UnderWay
<1>5. CASE record_failure(w)
  BY <1>0, <1>5, Bystander, Going DEF record_failure, Steps, UnderWay
<1>6. CASE GiveUp(w)
  BY <1>0, <1>6, Bystander, Going DEF GiveUp, Steps, UnderWay
\* Charging an amount that covers what was billed settles the run's account.
<1>7. ASSUME NEW amount \in Nat, pc[w] \in UnderWay, Charge(w, amount),
             run[w] \notin Overbilled => billed[run[w]] <= cost[run[w]] + amount,
             \E next \in {"fail", "ready"} : Go(w, next),
             UNCHANGED <<created, run, usage, billed>>
      PROVE  Inv'
  <2>1. run[w] \in Runs /\ run[w] # 0
    BY <1>7, RunOf
  <2>2. /\ pc' \in [Workers -> Steps] /\ pc'[w] \in {"fail", "ready", "idle"}
        /\ \A v \in Workers : v # w => pc'[v] = pc[v]
    BY <1>0, <1>7, Going DEF Steps
  <2>3. /\ cost[run[w]] + amount \in Nat /\ billed[run[w]] \in Nat /\ usage[w] \in Nat
        /\ run[w] \notin Overbilled => billed[run[w]] <= (cost[run[w]] + amount) + 0
    BY <1>7, <2>1 DEF Inv, Accounts
  <2>4. /\ cost' = [cost EXCEPT ![run[w]] = cost[run[w]] + amount]
        /\ pending' = [pending EXCEPT ![run[w]] = 0]
        /\ billed' = [billed EXCEPT ![run[w]] = billed[run[w]]]
        /\ usage' = [usage EXCEPT ![w] = usage[w]]
    BY <1>7, <2>1 DEF Charge, Inv, Accounts
  <2>5. pc'[w] # "send" /\ pc'[w] \notin {"wait", "settle"} /\ UNCHANGED <<created, run>>
    BY <1>7, <2>2
  <2>6. 0 \in Nat
    OBVIOUS
  <2>7. QED
    BY <2>1, <2>2, <2>3, <2>4, <2>5, <2>6, OwnRun
<1>8. CASE settle(w)
  <2>1. /\ usage[w] \in Nat
        /\ run[w] \notin Overbilled => billed[run[w]] <= cost[run[w]] + usage[w]
    BY <1>8 DEF settle, Inv, Accounts, RequestIsReserved
  <2>2. \E next \in {"fail", "ready"} : Go(w, next)
    BY <1>8 DEF settle
  <2>3. QED
    BY <1>7, <1>8, <2>1, <2>2 DEF settle, UnderWay
<1>9. CASE charge_for_retry(w) \/ charge_failed_request(w)
  <2>1. pc[w] = "failed"
    BY <1>9 DEF charge_for_retry, charge_failed_request
  <2>2. /\ pending[run[w]] \in Nat
        /\ run[w] \notin Overbilled => billed[run[w]] <= cost[run[w]] + pending[run[w]]
    BY <2>1, RunOf DEF UnderWay, Inv, Accounts, Covered
  <2>3. Charge(w, pending[run[w]]) /\ Go(w, "ready") /\ UNCHANGED <<created, run, usage, billed>>
    BY <1>9 DEF charge_for_retry, charge_failed_request
  <2>4. QED
    BY <1>7, <2>1, <2>2, <2>3 DEF UnderWay
<1>10. QED
  BY <1>1, <1>2, <1>3, <1>4, <1>5, <1>6, <1>8, <1>9 DEF RequestStep

LEMMA RunKeeps ==
  ASSUME Inv, NEW w \in Workers, RunStep(w)
  PROVE  Inv'
<1> USE DEF rows, memory, locals
<1>0. pc \in [Workers -> Steps]
  BY DEF Inv, Accounts
<1>1. CASE create_run(w)
  <2>1. /\ pc' \in [Workers -> Steps] /\ pc'[w] \in {"daily", "idle"}
        /\ \A v \in Workers : v # w => pc'[v] = pc[v]
    BY <1>0, <1>1, Going DEF create_run, Steps
  <2>2. /\ created' = created + 1 /\ created' \in 0 .. MaxRuns
        /\ run' = [run EXCEPT ![w] = created'] /\ created' # 0
        /\ \A v \in Workers : run[v] \in 0 .. created /\ run[v] # created'
        /\ UNCHANGED <<cost, pending, usage, billed>>
    BY <1>1 DEF create_run, Inv, Accounts
  <2>3. Accounts'
    BY <2>1, <2>2 DEF Inv, Accounts
  <2>4. OneOwner'
    BY <2>2 DEF Inv, OneOwner, Accounts
  <2>5. HasRun'
    BY <2>1, <2>2 DEF Inv, HasRun, Accounts
  <2>6. RequestIsReserved'
    BY <2>1, <2>2 DEF Inv, RequestIsReserved, Accounts
  <2>7. QED
    BY <2>2, <2>3, <2>4, <2>5, <2>6 DEF Inv, Covered
<1>2. CASE Start(w)
  BY <1>0, <1>2, Bystander DEF Start, Steps, UnderWay
<1>3. CASE recover_stale_runs(w)
  BY <1>0, <1>3, Bystander, Going DEF recover_stale_runs, Steps, UnderWay
<1>4. CASE daily_budget_left(w)
  <2>1. pc[w] = "daily" /\ (Go(w, "ready") \/ Halt(w))
        /\ UNCHANGED <<cost, pending, created, run, usage, billed>>
    BY <1>4 DEF daily_budget_left
  <2>2. QED
    BY <1>0, <2>1, Bystander, Going DEF Steps, UnderWay
<1>5. CASE NextPhase(w)
  BY <1>0, <1>5, Bystander, Going DEF NextPhase, Steps, UnderWay
<1>6. CASE EndRun(w) \/ Raise(w) \/ RecordRunFailure(w)
  <2>1. Go(w, "fail") \/ Halt(w)
    BY <1>6 DEF EndRun, Raise, RecordRunFailure
  <2>2. pc' \in [Workers -> Steps] /\ pc'[w] \in {"fail", "idle"}
        /\ \A v \in Workers : v # w => pc'[v] = pc[v]
    BY <1>0, <2>1, Going DEF Steps
  <2>3. QED
    BY <1>6, <2>2, Bystander DEF EndRun, Raise, RecordRunFailure, UnderWay
<1>7. CASE Die(w)
  BY <1>0, <1>7, Bystander DEF Die, Steps, UnderWay
<1>8. QED
  BY <1>1, <1>2, <1>3, <1>4, <1>5, <1>6, <1>7 DEF RunStep

\* Every amount a provider bills within a reservation is on the run's row
\* before it can be billed, and stays there (reserve, settle,
\* charge_for_retry, charge_failed_request, recover_stale_runs).
THEOREM BillsAreCovered == Spec => []BilledIsCovered
<1>1. Inv /\ [Next]_vars => Inv'
  <2> SUFFICES ASSUME Inv, [Next]_vars PROVE Inv'
    OBVIOUS
  <2>1. CASE Lapse \/ DayPasses \/ UNCHANGED vars
    BY <2>1 DEF Lapse, DayPasses, vars, rows, memory, locals, Inv, Accounts, OneOwner, HasRun,
                UnderWay, RequestIsReserved, Covered, Runs
  <2>2. QED
    BY <2>1, RequestKeeps, RunKeeps DEF Next
<1>2. Inv => BilledIsCovered
  BY DEF Inv, Covered, BilledIsCovered
<1>3. QED
  BY <1>1, <1>2, InvInit, PTL DEF Spec

(***************************************************************************)
(* Sums over finite sets of runs.                                          *)
(***************************************************************************)
Units(f, r) == {r} \X (1 .. f[r])

LEMMA RunsAreFinite == ASSUME NEW S \in SUBSET Runs PROVE IsFiniteSet(S)
<1>1. 1 \in Int /\ MaxRuns \in Int
  OBVIOUS
<1>2. IsFiniteSet(Runs)
  BY <1>1, FS_Interval DEF Runs
<1>3. QED
  BY <1>2, FS_Subset

LEMMA UnitsOfOne ==
  ASSUME NEW f \in [Runs -> Nat], NEW r \in Runs
  PROVE  IsFiniteSet(Units(f, r)) /\ Cardinality(Units(f, r)) = f[r]
<1>1. f[r] \in Nat
  OBVIOUS
<1>2. IsFiniteSet(1 .. f[r]) /\ Cardinality(1 .. f[r]) = f[r]
  BY <1>1, FS_Interval
<1>3. IsFiniteSet({r}) /\ Cardinality({r}) = 1
  BY FS_Singleton
<1>4. IsFiniteSet(Units(f, r)) /\ Cardinality(Units(f, r)) = 1 * f[r]
  BY <1>2, <1>3, FS_Product DEF Units
<1>5. QED
  BY <1>1, <1>4

LEMMA UnitsAreFinite ==
  ASSUME NEW f \in [Runs -> Nat], NEW S \in SUBSET Runs
  PROVE  IsFiniteSet(UNION {Units(f, r) : r \in S})
<1> DEFINE T == {Units(f, r) : r \in S}
           g == [r \in S |-> Units(f, r)]
<1>1. g \in Surjection(S, T)
  BY DEF Surjection
<1>2. IsFiniteSet(T)
  BY <1>1, RunsAreFinite, FS_Surjection
<1>3. \A U \in T : IsFiniteSet(U)
  BY UnitsOfOne
<1>4. QED
  BY <1>2, <1>3, FS_UNION

\* A sum is a number.
LEMMA SumType ==
  ASSUME NEW f \in [Runs -> Nat], NEW S \in SUBSET Runs
  PROVE  SumOf(f, S) \in Nat
  BY UnitsAreFinite, FS_CardinalityType DEF SumOf, Units

\* Fewer runs have spent no more.
LEMMA SumSubset ==
  ASSUME NEW f \in [Runs -> Nat], NEW S \in SUBSET Runs, NEW T \in SUBSET S
  PROVE  SumOf(f, T) <= SumOf(f, S)
<1>1. UNION {Units(f, r) : r \in T} \subseteq UNION {Units(f, r) : r \in S}
  OBVIOUS
<1>2. QED
  BY <1>1, UnitsAreFinite, FS_Subset DEF SumOf, Units

\* One run's part of a sum.
LEMMA SumSplit ==
  ASSUME NEW f \in [Runs -> Nat], NEW S \in SUBSET Runs, NEW r \in S
  PROVE  SumOf(f, S) = SumOf(f, S \ {r}) + f[r]
<1> DEFINE U == UNION {Units(f, q) : q \in S \ {r}}
           V == UNION {Units(f, q) : q \in S}
<1>1. V = U \cup Units(f, r)
  OBVIOUS
<1>2. U \cap Units(f, r) = {}
  BY DEF Units
<1>3. IsFiniteSet(U) /\ IsFiniteSet(Units(f, r)) /\ Cardinality(Units(f, r)) = f[r]
  BY UnitsAreFinite, UnitsOfOne
<1>4. Cardinality(U \cap Units(f, r)) = 0
  BY <1>2, FS_EmptySet
<1> HIDE DEF U, V
<1>5. Cardinality(V) = Cardinality(U) + f[r] - 0
  BY <1>1, <1>3, <1>4, FS_Union
<1>6. Cardinality(U) \in Nat /\ f[r] \in Nat
  BY <1>3, FS_CardinalityType
<1>7. Cardinality(V) = Cardinality(U) + f[r]
  BY <1>5, <1>6
<1>8. QED
  BY <1>7 DEF U, V, SumOf, Units

\* A sum depends on the summands only.
LEMMA SumSame ==
  ASSUME NEW f \in [Runs -> Nat], NEW g \in [Runs -> Nat], NEW S \in SUBSET Runs,
         \A r \in S : f[r] = g[r]
  PROVE  SumOf(f, S) = SumOf(g, S)
<1>1. {{r} \X (1 .. f[r]) : r \in S} = {{r} \X (1 .. g[r]) : r \in S}
  OBVIOUS
<1>2. QED
  BY <1>1 DEF SumOf

(***************************************************************************)
(* The caps, whatever a provider may bill above a reservation.  Only one   *)
(* worker at a time has a run that may still spend: a worker creates its    *)
(* run after it recovered every other, and goes on only while it has the   *)
(* lease.  Such a run has its cap set aside in the day's.                  *)
(***************************************************************************)
Live == UnderWay \cup {"daily", "ready"}
Capped == Live \ {"daily"}

Types ==
    /\ Accounts
    /\ status \in [Runs -> {"absent", "active", "over"}]
    /\ counted \in [Runs -> BOOLEAN]
    /\ cap \in [Runs -> Nat]
    /\ spent \in [Runs -> [Scopes -> Nat]]
    /\ scope \in [Workers -> Scopes]

\* A run that was not created yet has spent nothing.
Untouched ==
    \A r \in Runs : r > created =>
        /\ status[r] = "absent" /\ ~counted[r]
        /\ cost[r] = 0 /\ pending[r] = 0 /\ cap[r] = 0
        /\ \A s \in Scopes : spent[r][s] = 0

ActiveIsCounted == \A r \in Runs : status[r] = "active" => counted[r]

Spending(w) == pc[w] \in Live /\ status[run[w]] = "active"

OneSpender ==
    /\ \A v, w \in Workers : Spending(v) /\ Spending(w) => v = w
    /\ \A v, w \in Workers : lease = w /\ pc[w] = "create" => ~Spending(v)

\* What a worker's request may still cost its run fits in the run's cap, and in
\* the phase's share of it.
Fits(w) ==
    /\ pc[w] = "daily" =>
          /\ cost[run[w]] = 0 /\ pending[run[w]] = 0 /\ cap[run[w]] = 0
          /\ \A s \in Scopes : spent[run[w]][s] = 0
    /\ pc[w] \in Capped => cost[run[w]] + pending[run[w]] <= cap[run[w]]
    /\ pc[w] \in {"wait", "settle"} => usage[w] <= pending[run[w]] + ExcessOf(run[w])
    /\ \A s \in DOMAIN CapShare : pc[w] \in UnderWay /\ scope[w] = s =>
          100 * (spent[run[w]][s] + pending[run[w]]) <= CapShare[s] * cap[run[w]]

RequestsFit == \A w \in Workers : Fits(w)

SharesKept ==
    \A r \in Runs \ Overbilled :
        \A s \in DOMAIN CapShare : 100 * spent[r][s] <= CapShare[s] * cap[r]

Counted == {r \in Runs : counted[r]}

CapIsSetAside ==
    \A w \in Workers : Spending(w) /\ pc[w] # "daily" =>
        SumOf(Committed, Counted \ {run[w]}) + cap[run[w]] <= DayCap

CapsInv ==
    /\ Types /\ OneOwner /\ HasRun /\ Untouched
    /\ ActiveIsCounted /\ OneSpender
    /\ RequestsFit /\ SharesKept
    /\ CapIsSetAside /\ WithinCaps

LEMMA CapsInit == Init => CapsInv
<1> SUFFICES ASSUME Init PROVE CapsInv
  OBVIOUS
<1> USE DEF Init
<1>1. Types
  BY DEF Types, Accounts, Steps, Scopes
<1>2. OneOwner /\ HasRun /\ Untouched /\ ActiveIsCounted /\ OneSpender
  BY DEF OneOwner, HasRun, Untouched, ActiveIsCounted, OneSpender, Spending, Live, UnderWay
<1>3. RequestsFit /\ CapIsSetAside
  BY DEF RequestsFit, Fits, CapIsSetAside, Spending, Live, Capped, UnderWay
<1>4. SharesKept
  BY DEF SharesKept, CapShare, Scopes
<1>5. RunWithinCap
  BY DEF RunWithinCap
<1>6. DayWithinCap
  <2>1. {r \in Runs : counted[r]} = {}
    OBVIOUS
  <2>2. SumOf(Committed, {}) = 0
    <3>1. UNION {{r} \X (1 .. Committed[r]) : r \in {}} = {}
      OBVIOUS
    <3>2. QED
      BY <3>1, FS_EmptySet DEF SumOf
  <2>3. SumOf(Committed, {r \in Runs : counted[r]}) = 0
    BY <2>1, <2>2, Zenon
  <2>4. DayCap + Excess >= 0
    OBVIOUS
  <2>5. QED
    BY <2>3, <2>4 DEF DayWithinCap
<1>7. QED
  BY <1>1, <1>2, <1>3, <1>4, <1>5, <1>6 DEF CapsInv, WithinCaps

LEMMA CommittedType == ASSUME Types PROVE Committed \in [Runs -> Nat]
  BY DEF Types, Accounts, Committed

\* A worker that has a run has one of the runs there are.
LEMMA LiveRun ==
  ASSUME CapsInv, NEW w \in Workers, pc[w] \in Live
  PROVE  run[w] \in Runs /\ run[w] # 0 /\ run[w] <= created
  BY DEF CapsInv, Types, Accounts, HasRun, Live, Runs

\* Steps that leave what runs have spent, and their caps, alone.
LEMMA Quiet ==
  ASSUME CapsInv, Types', HasRun',
         UNCHANGED <<cost, pending, spent, cap, counted, created, run>>,
         \A r \in Runs : /\ status'[r] = "active" => status[r] = "active"
                         /\ status[r] = "absent" => status'[r] = "absent",
         \A v \in Workers :
            /\ pc'[v] \in Live => pc[v] \in Live
            /\ pc'[v] \in Capped => pc[v] \in Capped
            /\ pc'[v] = "daily" => pc[v] = "daily"
            /\ pc'[v] \in {"wait", "settle"} => usage'[v] <= pending[run[v]] + ExcessOf(run[v])
            /\ pc'[v] \in UnderWay => pc[v] \in UnderWay /\ scope'[v] = scope[v]
            /\ lease' = v /\ pc'[v] = "create" =>
                  (lease = v /\ pc[v] = "create") \/ \A u \in Workers : ~Spending(u)'
  PROVE  CapsInv'
<1> USE DEF CapsInv
<1>1. OneOwner' /\ Untouched' /\ ActiveIsCounted'
  BY DEF OneOwner, Untouched, ActiveIsCounted
<1>2. \A v \in Workers : Spending(v)' => Spending(v)
  BY LiveRun DEF Spending
<1>3. OneSpender'
  BY <1>2 DEF OneSpender
<1>4. RequestsFit'
  BY DEF RequestsFit, Fits
<1>5. SharesKept'
  BY DEF SharesKept
<1>6. UNCHANGED <<Committed, Counted>>
  BY DEF Committed, Counted
<1>7. CapIsSetAside'
  BY <1>2, <1>6 DEF CapIsSetAside, Spending, Capped
<1>8. WithinCaps'
  BY <1>6 DEF WithinCaps, RunWithinCap, DayWithinCap, Counted
<1>9. QED
  BY <1>1, <1>3, <1>4, <1>5, <1>7, <1>8

\* A step on the row of the worker's own run, which is the one that may spend.
LEMMA OnOwnRow ==
  ASSUME CapsInv, Types', HasRun', NEW w \in Workers,
         pc[w] \in Capped, status[run[w]] = "active",
         UNCHANGED <<status, cap, counted, created, run>>,
         \A r \in Runs \ {run[w]} :
            cost'[r] = cost[r] /\ pending'[r] = pending[r] /\ spent'[r] = spent[r],
         \A v \in Workers \ {w} : pc'[v] = pc[v] /\ usage'[v] = usage[v] /\ scope'[v] = scope[v],
         pc'[w] \notin {"daily", "create"},
         lease' \in {lease, NoWorker},
         Fits(w)', SharesKept',
         cost'[run[w]] + pending'[run[w]] <= cap[run[w]] + Excess
  PROVE  CapsInv'
<1> USE DEF CapsInv
<1> DEFINE r == run[w]
           others == Counted \ {r}
<1>0. r \in Runs /\ r # 0 /\ r <= created /\ pc[w] \in Live
  BY LiveRun DEF Capped
<1>1. OneOwner' /\ ActiveIsCounted'
  BY DEF OneOwner, ActiveIsCounted
<1>2. Untouched'
  BY <1>0 DEF Untouched, Types, Accounts
<1>3. \A v \in Workers : Spending(v)' => Spending(v)
  BY <1>0 DEF Spending
<1>4. OneSpender'
  <2>1. \A v \in Workers : lease' = v /\ pc'[v] = "create" => lease = v /\ pc[v] = "create"
    OBVIOUS
  <2>2. QED
    BY <1>3, <2>1 DEF OneSpender
<1>5. RequestsFit'
  <2> SUFFICES ASSUME NEW v \in Workers, v # w PROVE Fits(v)'
    BY DEF RequestsFit
  <2>1. CASE pc[v] \in Live
    <3>1. run[v] \in Runs /\ run[v] # 0 /\ run[v] # r
      BY <2>1, <1>0, LiveRun DEF OneOwner
    <3>2. Fits(v)
      BY DEF RequestsFit
    <3>3. QED
      BY <3>1, <3>2 DEF Fits
  <2>2. CASE pc[v] \notin Live
    BY <2>2 DEF Fits, Live, Capped, UnderWay
  <2>3. QED
    BY <2>1, <2>2
<1>6. Committed \in [Runs -> Nat] /\ Committed' \in [Runs -> Nat] /\ Counted \in SUBSET Runs
  BY CommittedType DEF Types, Accounts, Committed, Counted
<1>7. Counted' = Counted
  BY DEF Counted
<1>8. \A q \in Runs \ {r} : Committed'[q] = Committed[q]
  BY DEF Committed
<1>9. SumOf(Committed', others) = SumOf(Committed, others)
  BY <1>6, <1>8, SumSame
<1>10. CapIsSetAside'
  <2> SUFFICES ASSUME NEW v \in Workers, Spending(v)', pc'[v] # "daily"
               PROVE  SumOf(Committed', Counted' \ {run'[v]}) + cap'[run'[v]] <= DayCap
    BY DEF CapIsSetAside
  <2>1. v = w
    BY <1>0, <1>3 DEF OneSpender, Spending
  <2>2. SumOf(Committed, others) + cap[r] <= DayCap
    BY <1>0 DEF CapIsSetAside, Spending, Capped
  <2>3. QED
    BY <1>7, <1>9, <2>1, <2>2
<1>11. RunWithinCap'
  BY DEF WithinCaps, RunWithinCap, Types, Accounts
<1>12. DayWithinCap'
  <2>1. r \in Counted
    BY <1>0 DEF ActiveIsCounted, Counted
  <2>2. SumOf(Committed', Counted) = SumOf(Committed', others) + Committed'[r]
    BY <1>6, <2>1, SumSplit
  <2>3. Committed'[r] <= cap[r] + Excess /\ Committed'[r] \in Nat
    BY <1>0, <1>6 DEF Committed
  <2>4. SumOf(Committed, others) + cap[r] <= DayCap
    BY <1>0 DEF CapIsSetAside, Spending, Capped
  <2>5. SumOf(Committed, others) \in Nat /\ cap[r] \in Nat
    BY <1>0, <1>6, SumType DEF Types
  <2>6. SumOf(Committed', Counted) <= DayCap + Excess
    BY <1>9, <2>2, <2>3, <2>4, <2>5
  <2>7. QED
    BY <1>7, <2>6 DEF DayWithinCap, Counted
<1>13. QED
  BY <1>1, <1>2, <1>4, <1>5, <1>10, <1>11, <1>12 DEF WithinCaps

LEMMA RunIsARun ==
  ASSUME Accounts, HasRun, NEW w \in Workers, pc[w] \in UnderWay \cup {"daily", "ready"}
  PROVE  run[w] \in Runs /\ run[w] # 0
  BY DEF Accounts, HasRun, Runs

\* A run gets no cap, or one that is a number and within what the day has left.
LEMMA DailyCap ==
  ASSUME Types, HasRun, NEW w \in Workers, daily_budget_left(w)
  PROVE  \/ Halt(w) /\ UNCHANGED cap
         \/ /\ UNCHANGED status /\ Go(w, "ready")
            /\ \E c \in 1 .. RunCap : /\ cap' = [cap EXCEPT ![run[w]] = c]
                                    /\ SumOf(Committed, Counted) + c <= DayCap
<1> DEFINE left == DayCap - SumOf(Committed, Counted)
<1>1. model_cost_since = SumOf(Committed, Counted) /\ SumOf(Committed, Counted) \in Nat
  BY CommittedType, SumType DEF model_cost_since, Counted
<1>2. CASE Halt(w) /\ UNCHANGED cap
  BY <1>2
<1>3. CASE /\ 4 * left >= RunCap
           /\ cap' = [cap EXCEPT ![run[w]] = IF left < RunCap THEN left ELSE RunCap]
           /\ Go(w, "ready") /\ UNCHANGED status
  <2> DEFINE c == IF left < RunCap THEN left ELSE RunCap
  <2>1. c \in 1 .. RunCap /\ SumOf(Committed, Counted) + c <= DayCap
    BY <1>1, <1>3
  <2>2. QED
    BY <1>3, <2>1
<1>4. QED
  BY <1>1, <1>2, <1>3 DEF daily_budget_left

LEMMA ChargeType ==
  ASSUME Types, NEW w \in Workers, run[w] \in Runs, NEW amount \in Nat, Charge(w, amount)
  PROVE  /\ cost' \in [Runs -> Nat] /\ pending' \in [Runs -> Nat]
         /\ spent' \in [Runs -> [Scopes -> Nat]]
<1>1. cost' \in [Runs -> Nat] /\ pending' \in [Runs -> Nat]
  BY DEF Types, Accounts, Charge
<1>2. scope[w] \in Scopes /\ spent[run[w]] \in [Scopes -> Nat]
  BY DEF Types
<1>3. [spent[run[w]] EXCEPT ![scope[w]] = @ + amount] \in [Scopes -> Nat]
  BY <1>2
<1>4. spent' = [spent EXCEPT ![run[w]] = [spent[run[w]] EXCEPT ![scope[w]] = @ + amount]]
  BY DEF Charge
<1>5. spent' \in [Runs -> [Scopes -> Nat]]
  BY <1>3, <1>4 DEF Types
<1>6. QED
  BY <1>1, <1>5

LEMMA RequestTypes ==
  ASSUME Types, HasRun, NEW w \in Workers, RequestStep(w)
  PROVE  Types' /\ HasRun'
<1> USE DEF rows, memory, locals
<1>0. /\ pc \in [Workers -> Steps] /\ UnderWay \subseteq Steps
      /\ {"ready", "fail", "idle"} \subseteq Steps
  BY DEF Types, Accounts, UnderWay, Steps
<1>1. pc[w] \in UnderWay \cup {"ready"} /\ run[w] \in Runs /\ run[w] # 0
  <2>1. pc[w] \in UnderWay \cup {"ready"}
    BY DEF RequestStep, reserve, Send, Answered, RequestFails, settle, record_failure,
           charge_for_retry, charge_failed_request, GiveUp, UnderWay
  <2>2. QED
    BY <2>1, RunIsARun DEF Types
<1>2. pc' \in [Workers -> Steps] /\ \A v \in Workers : v # w => pc'[v] = pc[v]
  BY <1>0 DEF RequestStep, reserve, Send, Answered, RequestFails, settle, record_failure,
         charge_for_retry, charge_failed_request, GiveUp, Go, Halt, Steps
<1>3. UNCHANGED <<status, counted, created, cap, run, scope>>
  BY DEF RequestStep, reserve, Send, Answered, RequestFails, settle, record_failure,
         charge_for_retry, charge_failed_request, GiveUp
<1>4. HasRun'
  BY <1>1, <1>2, <1>3 DEF HasRun
<1>5. SUFFICES /\ cost' \in [Runs -> Nat] /\ pending' \in [Runs -> Nat]
               /\ spent' \in [Runs -> [Scopes -> Nat]]
               /\ billed' \in [Runs -> Nat] /\ usage' \in [Workers -> Nat]
  BY <1>2, <1>3, <1>4 DEF Types, Accounts
<1>6. CASE reserve(w)
  BY <1>6 DEF reserve, Types, Accounts
<1>7. CASE Send(w)
  <2>1. PICK u \in Bills : /\ usage' = [usage EXCEPT ![w] = u]
                           /\ billed' = [billed EXCEPT ![run[w]] = @ + u]
    BY <1>7 DEF Send
  <2>2. u \in Nat
    OBVIOUS
  <2>3. QED
    BY <1>1, <1>7, <2>1, <2>2 DEF Send, Types, Accounts
<1>8. CASE settle(w)
  <2>1. usage[w] \in Nat /\ Charge(w, usage[w]) /\ UNCHANGED <<usage, billed>>
    BY <1>8 DEF settle, Types, Accounts
  <2>2. QED
    BY <1>1, <2>1, ChargeType DEF Types, Accounts
<1>9. CASE charge_for_retry(w) \/ charge_failed_request(w)
  <2>1. pending[run[w]] \in Nat /\ Charge(w, pending[run[w]]) /\ UNCHANGED <<usage, billed>>
    BY <1>1, <1>9 DEF charge_for_retry, charge_failed_request, Types, Accounts
  <2>2. QED
    BY <1>1, <2>1, ChargeType DEF Types, Accounts
<1>10. CASE Answered(w) \/ RequestFails(w) \/ record_failure(w) \/ GiveUp(w)
  BY <1>10 DEF Answered, RequestFails, record_failure, GiveUp, Types, Accounts
<1>11. QED
  BY <1>6, <1>7, <1>8, <1>9, <1>10 DEF RequestStep

LEMMA RunTypes ==
  ASSUME Types, HasRun, NEW w \in Workers, RunStep(w)
  PROVE  Types' /\ HasRun'
<1> USE DEF rows, memory, locals
<1>0. /\ pc \in [Workers -> Steps]
      /\ {"recover", "create", "daily", "ready", "fail", "idle"} \subseteq Steps
  BY DEF Types, Accounts, Steps
<1>1. pc' \in [Workers -> Steps] /\ \A v \in Workers : v # w => pc'[v] = pc[v]
  BY <1>0 DEF RunStep, Start, recover_stale_runs, create_run, daily_budget_left, NextPhase, EndRun,
         Raise, RecordRunFailure, Die, Go, Halt, Steps
<1>2. CASE create_run(w)
  <2>1. /\ created + 1 \in Runs /\ created + 1 # 0
        /\ created' = created + 1 /\ run' = [run EXCEPT ![w] = created + 1]
    BY <1>2 DEF create_run, Types, Accounts, Runs
  <2>2. HasRun'
    BY <1>2, <2>1, <1>1 DEF create_run, HasRun, Types, Accounts
  <2>3. Accounts'
    <3>1. created' \in 0 .. MaxRuns /\ run' \in [Workers -> 0 .. created']
      BY <1>2, <2>1 DEF create_run, Types, Accounts
    <3>2. QED
      BY <1>1, <1>2, <3>1 DEF create_run, Types, Accounts
  <2>4. QED
    BY <1>2, <2>1, <2>2, <2>3 DEF create_run, Types, Scopes
<1>3. CASE daily_budget_left(w)
  <2>1. HasRun' /\ Accounts'
    BY <1>1, <1>3 DEF daily_budget_left, HasRun, Types, Accounts, UnderWay
  <2>2. status' \in [Runs -> {"absent", "active", "over"}]
    BY <1>3 DEF daily_budget_left, Types
  <2>3. cap' \in [Runs -> Nat]
    BY <1>3, DailyCap DEF Types
  <2>4. QED
    BY <1>3, <2>1, <2>2, <2>3 DEF daily_budget_left, Types
<1>4. CASE recover_stale_runs(w)
  <2>1. status' \in [Runs -> {"absent", "active", "over"}]
    BY <1>4 DEF recover_stale_runs, Types
  <2>2. HasRun'
    BY <1>1, <1>4 DEF recover_stale_runs, HasRun, UnderWay, Go, Halt, Types, Accounts
  <2>3. QED
    BY <1>1, <1>4, <2>1, <2>2 DEF recover_stale_runs, Types, Accounts
<1>5. CASE NextPhase(w)
  <2>1. scope' \in [Workers -> Scopes]
    BY <1>5 DEF NextPhase, Types, Scopes
  <2>2. QED
    BY <1>1, <1>5, <2>1 DEF NextPhase, Types, Accounts, HasRun
<1>6. CASE Start(w) \/ Raise(w) \/ Die(w)
  BY <1>1, <1>6 DEF Start, Raise, Die, Go, Halt, Types, Accounts, HasRun, UnderWay
<1>7. CASE EndRun(w) \/ RecordRunFailure(w)
  BY <1>1, <1>7 DEF EndRun, RecordRunFailure, Halt, Types, Accounts, HasRun, UnderWay
<1>8. QED
  BY <1>2, <1>3, <1>4, <1>5, <1>6, <1>7 DEF RunStep

\* Charging what was reserved, or what an answer within it cost, keeps the shares.
LEMMA ChargeKeeps ==
  ASSUME CapsInv, Types', HasRun', NEW w \in Workers, NEW amount \in Nat,
         pc[w] \in UnderWay, MaySave(w), Charge(w, amount),
         amount <= pending[run[w]] + ExcessOf(run[w]),
         UNCHANGED <<status, cap, counted, created, run, scope, usage, billed>>,
         \/ Go(w, "fail")
         \/ Go(w, "ready") /\ cost[run[w]] + amount <= cap[run[w]]
  PROVE  CapsInv'
<1> DEFINE r == run[w]
<1>1. r \in Runs /\ pc[w] \in Capped /\ status[r] = "active"
  BY LiveRun DEF Live, Capped, MaySave, UnderWay
<1>2. /\ cost'[r] = cost[r] + amount /\ pending'[r] = 0
      /\ \A q \in Runs \ {r} :
            cost'[q] = cost[q] /\ pending'[q] = pending[q] /\ spent'[q] = spent[q]
      /\ spent'[r] = [spent[r] EXCEPT ![scope[w]] = @ + amount]
  BY <1>1 DEF Charge, CapsInv, Types, Accounts
<1>3. /\ cost[r] \in Nat /\ pending[r] \in Nat /\ cap[r] \in Nat
      /\ spent[r] \in [Scopes -> Nat] /\ scope[w] \in Scopes
      /\ cost[r] + pending[r] <= cap[r]
  BY <1>1 DEF CapsInv, Types, Accounts, RequestsFit, Fits
<1>4. /\ \A v \in Workers : v # w => pc'[v] = pc[v]
      /\ pc'[w] \in {"fail", "ready", "idle"} /\ lease' \in {lease, NoWorker}
      /\ pc'[w] = "ready" => cost[r] + amount <= cap[r]
  BY DEF Go, Halt, CapsInv, Types, Accounts
<1>5. Fits(w)'
  BY <1>2, <1>3, <1>4 DEF Fits, Capped, Live, UnderWay
<1>6. SharesKept'
  <2> SUFFICES ASSUME NEW q \in Runs \ Overbilled, NEW s \in DOMAIN CapShare
               PROVE  100 * spent'[q][s] <= CapShare[s] * cap[q]
    BY DEF SharesKept
  <2>1. 100 * spent[q][s] <= CapShare[s] * cap[q]
    BY DEF CapsInv, SharesKept
  <2>2. CASE q = r /\ s = scope[w]
    <3>1. 100 * (spent[r][s] + pending[r]) <= CapShare[s] * cap[r]
      BY <2>2 DEF CapsInv, RequestsFit, Fits
    <3>2. s \in Scopes
      BY <2>2, <1>3
    <3>3. spent'[r][s] = spent[r][s] + amount /\ spent[r][s] \in Nat
      BY <1>2, <1>3, <2>2, <3>2
    <3>4. spent[r][s] + amount <= spent[r][s] + pending[r]
      <4>1. q = r => amount <= pending[r]
        BY <1>3 DEF ExcessOf
      <4>2. QED
        BY <1>3, <2>2, <3>3, <4>1
    <3>5. 100 * (spent[r][s] + amount) <= 100 * (spent[r][s] + pending[r])
      BY <1>3, <3>3, <3>4
    <3>6. CapShare[s] * cap[r] \in Nat
      BY <1>3 DEF CapShare
    <3>7. QED
      BY <1>3, <2>2, <3>1, <3>3, <3>5, <3>6
  <2>3. CASE ~(q = r /\ s = scope[w])
    <3>1. s \in Scopes
      BY DEF CapShare, Scopes
    <3>2. spent'[q][s] = spent[q][s]
      BY <1>2, <1>3, <2>3, <3>1
    <3>3. QED
      BY <2>1, <3>2
  <2>4. QED
    BY <2>2, <2>3
<1>7. cost'[r] + pending'[r] <= cap[r] + Excess
  BY <1>2, <1>3 DEF ExcessOf
<1>8. QED
  BY <1>1, <1>2, <1>4, <1>5, <1>6, <1>7, OnOwnRow

LEMMA RequestCaps ==
  ASSUME CapsInv, NEW w \in Workers, RequestStep(w)
  PROVE  CapsInv'
<1> USE DEF rows, memory, locals
<1>0. Types' /\ HasRun' /\ pc \in [Workers -> Steps]
  BY RequestTypes DEF CapsInv, Types, Accounts
<1>1. CASE reserve(w)
  <2> DEFINE r == run[w]
  <2>1. /\ r \in Runs /\ pc[w] \in Capped /\ status[r] = "active" /\ pending[r] = 0
        /\ cost[r] \in Nat /\ cap[r] \in Nat /\ spent[r] \in [Scopes -> Nat]
    BY <1>1, LiveRun DEF reserve, MaySave, Live, Capped, CapsInv, Types, Accounts
  <2>2. PICK c \in Requests : Affordable(r, scope[w], c) /\ pending' = [pending EXCEPT ![r] = c]
    BY <1>1 DEF reserve
  <2>3. pending'[r] = c /\ c \in Nat /\ \A q \in Runs \ {r} : pending'[q] = pending[q]
    BY <2>1, <2>2 DEF CapsInv, Types, Accounts
  <2>4. /\ \A v \in Workers : v # w => pc'[v] = pc[v]
        /\ pc'[w] = "send"
        /\ UNCHANGED <<status, cost, counted, created, lease, cap, spent, run, scope, usage>>
    BY <1>0, <1>1 DEF reserve
  <2>5. cost[r] + c <= cap[r]
    BY <2>1, <2>2, <2>3 DEF Affordable
  <2>6. Fits(w)'
    BY <2>1, <2>2, <2>3, <2>4, <2>5 DEF Fits, Affordable
  <2>7. SharesKept'
    BY <2>4 DEF CapsInv, SharesKept
  <2>8. cost'[r] + pending'[r] <= cap[r] + Excess
    BY <2>1, <2>3, <2>4, <2>5
  <2>9. QED
    BY <1>0, <2>1, <2>3, <2>4, <2>6, <2>7, <2>8, OnOwnRow
<1>2. CASE Send(w)
  <2>1. PICK u \in Bills : /\ u <= pending[run[w]] + ExcessOf(run[w])
                           /\ usage' = [usage EXCEPT ![w] = u]
    BY <1>2 DEF Send
  <2>2. /\ usage'[w] <= pending[run[w]] + ExcessOf(run[w])
        /\ \A v \in Workers : v # w => usage'[v] = usage[v]
    BY <2>1 DEF CapsInv, Types, Accounts
  <2>3. /\ pc[w] = "send" /\ pc'[w] = "wait" /\ \A v \in Workers : v # w => pc'[v] = pc[v]
        /\ UNCHANGED <<status, cost, pending, spent, cap, counted, created, run, scope, lease>>
    BY <1>0, <1>2 DEF Send
  <2>4. \A v \in Workers : pc'[v] \in {"wait", "settle"} =>
          usage'[v] <= pending[run[v]] + ExcessOf(run[v])
    BY <2>2, <2>3 DEF CapsInv, RequestsFit, Fits
  <2>5. QED
    BY <1>0, <2>3, <2>4, Quiet DEF Live, Capped, UnderWay
<1>3. CASE Answered(w) \/ RequestFails(w) \/ record_failure(w) \/ GiveUp(w)
  <2>1. /\ pc[w] \in {"wait", "record", "failed"}
        /\ pc'[w] \in {"settle", "record", "failed", "fail", "idle"}
        /\ pc'[w] \in {"settle", "record"} => pc[w] = "wait"
        /\ lease' \in {lease, NoWorker} /\ \A v \in Workers : v # w => pc'[v] = pc[v]
        /\ UNCHANGED <<status, cost, pending, spent, cap, counted, created, run, scope, usage>>
    BY <1>0, <1>3 DEF Answered, RequestFails, record_failure, GiveUp, Go, Halt
  <2>2. \A v \in Workers : pc'[v] \in {"wait", "settle"} =>
          usage'[v] <= pending[run[v]] + ExcessOf(run[v])
    BY <2>1 DEF CapsInv, RequestsFit, Fits
  <2>3. QED
    BY <1>0, <2>1, <2>2, Quiet DEF Live, Capped, UnderWay
<1>4. CASE settle(w)
  <2>1. /\ usage[w] \in Nat /\ usage[w] <= pending[run[w]] + ExcessOf(run[w])
        /\ run[w] \in Runs /\ cost[run[w]] \in Nat /\ cap[run[w]] \in Nat
    BY <1>4, LiveRun DEF settle, CapsInv, RequestsFit, Fits, Types, Accounts, Live, UnderWay
  <2>2. \/ Go(w, "fail")
        \/ Go(w, "ready") /\ cost[run[w]] + usage[w] <= cap[run[w]]
    BY <1>4, <2>1 DEF settle
  <2>3. QED
    BY <1>0, <1>4, <2>1, <2>2, ChargeKeeps DEF settle, UnderWay
<1>5. CASE charge_for_retry(w) \/ charge_failed_request(w)
  <2>1. /\ pc[w] = "failed" /\ MaySave(w) /\ Charge(w, pending[run[w]]) /\ Go(w, "ready")
        /\ UNCHANGED <<status, cap, counted, created, run, scope, usage, billed>>
    BY <1>5 DEF charge_for_retry, charge_failed_request
  <2>2. pending[run[w]] \in Nat /\ cost[run[w]] + pending[run[w]] <= cap[run[w]]
    BY <2>1, LiveRun DEF CapsInv, RequestsFit, Fits, Types, Accounts, Live, Capped, UnderWay
  <2>3. pending[run[w]] <= pending[run[w]] + ExcessOf(run[w])
    BY <2>2 DEF ExcessOf
  <2>4. QED
    BY <1>0, <2>1, <2>2, <2>3, ChargeKeeps DEF UnderWay
<1>6. QED
  BY <1>1, <1>2, <1>3, <1>4, <1>5 DEF RequestStep

LEMMA RunCaps ==
  ASSUME CapsInv, NEW w \in Workers, RunStep(w)
  PROVE  CapsInv'
<1> USE DEF rows, memory, locals
<1>1. Types' /\ HasRun' /\ pc \in [Workers -> Steps]
  BY RunTypes DEF CapsInv, Types, Accounts
<1>2. \A v \in Workers : pc[v] \in {"wait", "settle"} =>
        usage[v] <= pending[run[v]] + ExcessOf(run[v])
  BY DEF CapsInv, RequestsFit, Fits
<1>3. CASE Start(w)
  BY <1>1, <1>2, <1>3, Quiet DEF Start, Live, Capped, UnderWay
<1>4. CASE recover_stale_runs(w)
  <2>1. \A r \in Runs : /\ status'[r] # "active"
                        /\ status[r] = "absent" => status'[r] = "absent"
    BY <1>4 DEF recover_stale_runs, CapsInv, Types
  <2>2. \A v \in Workers : pc'[v] \in Live => pc[v] \in Live
    BY <1>1, <1>4 DEF recover_stale_runs, Go, Halt, Live, UnderWay
  <2>3. \A v \in Workers : ~Spending(v)'
    BY <1>1, <1>4, <2>1, <2>2, LiveRun DEF recover_stale_runs, Spending
  <2>4. QED
    BY <1>1, <1>2, <1>4, <2>1, <2>2, <2>3, Quiet
       DEF recover_stale_runs, Go, Halt, Live, Capped, UnderWay
<1>5. CASE NextPhase(w)
  <2>1. /\ pc[w] = "ready" /\ pc'[w] \in {"ready", "idle"} /\ lease' \in {lease, NoWorker}
        /\ \A v \in Workers : v # w => pc'[v] = pc[v] /\ scope'[v] = scope[v]
        /\ UNCHANGED <<status, cost, pending, spent, cap, counted, created, run, usage>>
    BY <1>1, <1>5 DEF NextPhase, Go, Halt, CapsInv, Types
  <2>2. QED
    BY <1>1, <1>2, <2>1, Quiet DEF Live, Capped, UnderWay
<1>6. CASE EndRun(w) \/ Raise(w) \/ RecordRunFailure(w) \/ Die(w)
  <2>1. /\ pc'[w] \in {"fail", "idle"} /\ lease' \in {lease, NoWorker}
        /\ \A v \in Workers : v # w => pc'[v] = pc[v]
        /\ UNCHANGED <<cost, pending, spent, cap, counted, created, run, usage, scope>>
    BY <1>1, <1>6 DEF EndRun, Raise, RecordRunFailure, Die, Go, Halt
  <2>2. \/ UNCHANGED status
        \/ status[run[w]] = "active" /\ status' = [status EXCEPT ![run[w]] = "over"]
    BY <1>6 DEF EndRun, Raise, RecordRunFailure, Die, MaySave
  <2>3. \A r \in Runs : /\ status'[r] = "active" => status[r] = "active"
                        /\ status[r] = "absent" => status'[r] = "absent"
    BY <2>2 DEF CapsInv, Types
  <2>4. QED
    BY <1>1, <1>2, <2>1, <2>3, Quiet DEF Live, Capped, UnderWay
<1>7. CASE daily_budget_left(w)
  <2>1. CASE Halt(w) /\ UNCHANGED cap
    <3>1. \A r \in Runs : /\ status'[r] = "active" => status[r] = "active"
                          /\ status[r] = "absent" => status'[r] = "absent"
      BY <1>7 DEF daily_budget_left, MaySave, CapsInv, Types
    <3>2. QED
      BY <1>1, <1>2, <1>7, <2>1, <3>1, Quiet
         DEF daily_budget_left, Halt, Live, Capped, UnderWay
  <2>2. CASE /\ UNCHANGED status /\ Go(w, "ready")
             /\ \E c \in 1 .. RunCap : /\ cap' = [cap EXCEPT ![run[w]] = c]
                                     /\ SumOf(Committed, Counted) + c <= DayCap
    <3> DEFINE r == run[w]
    <3>1. PICK c \in 1 .. RunCap : /\ cap' = [cap EXCEPT ![r] = c]
                                   /\ SumOf(Committed, Counted) + c <= DayCap
      BY <2>2
    <3>2. /\ pc[w] = "daily" /\ status[r] = "active" /\ r \in Runs
          /\ cost[r] = 0 /\ pending[r] = 0 /\ cap[r] = 0 /\ \A s \in Scopes : spent[r][s] = 0
          /\ UNCHANGED <<status, cost, pending, spent, counted, created, run, usage, scope>>
      BY <1>7, <2>2, LiveRun DEF daily_budget_left, MaySave, Live, CapsInv, RequestsFit, Fits
    <3>3. /\ cap'[r] = c /\ \A q \in Runs \ {r} : cap'[q] = cap[q]
          /\ pc'[w] \in {"ready", "idle"} /\ lease' \in {lease, NoWorker}
          /\ \A v \in Workers : v # w => pc'[v] = pc[v]
      BY <1>1, <2>2, <3>1, <3>2 DEF Go, Halt, CapsInv, Types
    <3>4. OneOwner' /\ Untouched' /\ ActiveIsCounted'
      <4>1. r <= created
        BY <3>2, LiveRun DEF Live
      <4>2. Untouched'
        <5>1. \A q \in Runs : q > created => q # r
          BY <3>2, <4>1 DEF CapsInv, Types, Accounts
        <5>2. QED
          BY <3>2, <3>3, <5>1 DEF CapsInv, Untouched
      <4>3. OneOwner' /\ ActiveIsCounted'
        BY <3>2 DEF CapsInv, OneOwner, ActiveIsCounted
      <4>4. QED
        BY <4>2, <4>3
    <3>5. \A v \in Workers : Spending(v)' => Spending(v)
      BY <3>2, <3>3 DEF Spending, Live
    <3>6. OneSpender'
      BY <3>2, <3>3, <3>5 DEF CapsInv, OneSpender
    <3>7. RequestsFit'
      <4> SUFFICES ASSUME NEW v \in Workers PROVE Fits(v)'
        BY DEF RequestsFit
      <4>1. CASE v = w
        BY <3>2, <3>3, <4>1 DEF Fits, Capped, Live, UnderWay
      <4>2. CASE v # w /\ pc[v] \in Live
        <5>1. run[v] \in Runs /\ run[v] # r
          BY <3>2, <4>2, LiveRun DEF CapsInv, OneOwner
        <5>2. Fits(v)
          BY DEF CapsInv, RequestsFit
        <5>3. QED
          BY <3>2, <3>3, <4>2, <5>1, <5>2 DEF Fits
      <4>3. CASE v # w /\ pc[v] \notin Live
        BY <3>2, <3>3, <4>3 DEF Fits, Live, Capped, UnderWay
      <4>4. QED
        BY <4>1, <4>2, <4>3
    <3>8. SharesKept'
      <4> SUFFICES ASSUME NEW q \in Runs \ Overbilled, NEW s \in DOMAIN CapShare
                   PROVE  100 * spent[q][s] <= CapShare[s] * cap'[q]
        BY <3>2 DEF SharesKept
      <4>1. CASE q = r
        <5>1. spent[q][s] = 0 /\ cap'[q] \in Nat
          BY <3>2, <3>3, <4>1 DEF CapShare, Scopes
        <5>2. CapShare[s] * cap'[q] \in Nat
          BY <5>1 DEF CapShare
        <5>3. QED
          BY <5>1, <5>2
      <4>2. CASE q # r
        BY <3>3, <4>2 DEF CapsInv, SharesKept
      <4>3. QED
        BY <4>1, <4>2
    <3>9. Committed' = Committed /\ Counted' = Counted
      BY <3>2 DEF Committed, Counted
    <3>10. CapIsSetAside'
      <4> SUFFICES ASSUME NEW v \in Workers, Spending(v)'
                   PROVE  SumOf(Committed, Counted \ {run[v]}) + cap'[run[v]] <= DayCap
        BY <3>2, <3>9 DEF CapIsSetAside
      <4>1. v = w
        BY <3>2, <3>5 DEF CapsInv, OneSpender, Spending, Live
      <4>2. Committed \in [Runs -> Nat] /\ Counted \in SUBSET Runs
        BY CommittedType DEF CapsInv, Counted
      <4>3. /\ SumOf(Committed, Counted \ {r}) <= SumOf(Committed, Counted)
            /\ SumOf(Committed, Counted \ {r}) \in Nat /\ SumOf(Committed, Counted) \in Nat
        BY <4>2, SumSubset, SumType
      <4>4. QED
        BY <3>1, <3>3, <4>1, <4>3
    <3>11. WithinCaps'
      <4>1. RunWithinCap'
        <5> SUFFICES ASSUME NEW q \in Runs PROVE cost[q] + pending[q] <= cap'[q] + Excess
          BY <3>2 DEF RunWithinCap
        <5>1. cost[q] + pending[q] <= cap[q] + Excess
          BY DEF CapsInv, WithinCaps, RunWithinCap
        <5>2. QED
          BY <3>2, <3>3, <5>1
      <4>2. DayWithinCap'
        BY <3>9 DEF CapsInv, WithinCaps, DayWithinCap, Counted
      <4>3. QED
        BY <4>1, <4>2 DEF WithinCaps
    <3>12. QED
      BY <1>1, <3>4, <3>6, <3>7, <3>8, <3>10, <3>11 DEF CapsInv
  <2>3. QED
    BY <1>7, <2>1, <2>2, DailyCap DEF CapsInv
<1>8. CASE create_run(w)
  <2> DEFINE r == created + 1
  <2>0. /\ pc[w] = "create" /\ r \in Runs /\ r # 0 /\ created' = r /\ created \in Nat
        /\ run \in [Workers -> 0 .. created] /\ scope \in [Workers -> Scopes]
    <3>1. /\ created \in 0 .. MaxRuns /\ MaxRuns \in Nat
          /\ run \in [Workers -> 0 .. created] /\ scope \in [Workers -> Scopes]
      BY DEF CapsInv, Types, Accounts
    <3>2. pc[w] = "create" /\ created < MaxRuns /\ created' = r
      BY <1>8 DEF create_run
    <3>3. created \in Nat /\ r \in 1 .. MaxRuns /\ r # 0
      BY <3>1, <3>2
    <3>4. QED
      BY <3>1, <3>2, <3>3 DEF Runs
  <2>1. /\ pc[w] = "create" /\ r \in Runs /\ r # 0 /\ created' = r /\ created \in Nat
        /\ \A v \in Workers : v # w => run'[v] = run[v] /\ scope'[v] = scope[v] /\ pc'[v] = pc[v]
        /\ run'[w] = r /\ pc'[w] \in {"daily", "idle"} /\ lease' \in {lease, NoWorker}
        /\ pc'[w] = "daily" => lease = w
        /\ UNCHANGED <<cost, pending, spent, cap, usage>>
    <3>1. /\ run' = [run EXCEPT ![w] = r] /\ scope' = [scope EXCEPT ![w] = "triage"]
          /\ Go(w, "daily") /\ UNCHANGED <<cost, pending, spent, cap, usage>>
      BY <1>8 DEF create_run
    <3>2. /\ run'[w] = r
          /\ \A v \in Workers : v # w => run'[v] = run[v] /\ scope'[v] = scope[v]
      BY <2>0, <3>1
    <3>3. /\ pc'[w] \in {"daily", "idle"} /\ lease' \in {lease, NoWorker}
          /\ pc'[w] = "daily" => lease = w
          /\ \A v \in Workers : v # w => pc'[v] = pc[v]
      BY <1>1, <3>1 DEF Go, Halt
    <3>4. QED
      BY <2>0, <3>1, <3>2, <3>3
  <2>2. /\ status'[r] = "active" /\ counted'[r]
        /\ \A q \in Runs \ {r} : status'[q] = status[q] /\ counted'[q] = counted[q]
    BY <1>8, <2>1 DEF create_run, CapsInv, Types
  <2>3. /\ ~counted[r] /\ cost[r] = 0 /\ pending[r] = 0 /\ cap[r] = 0
        /\ \A s \in Scopes : spent[r][s] = 0
    BY <2>1 DEF CapsInv, Untouched
  <2>4. \A v \in Workers : run[v] \in 0 .. created /\ run[v] # r
    BY <2>1 DEF CapsInv, Types, Accounts
  <2>5. OneOwner'
    BY <2>1, <2>4 DEF CapsInv, OneOwner
  <2>6. Untouched' /\ ActiveIsCounted'
    <3>1. ActiveIsCounted'
      BY <2>2 DEF CapsInv, ActiveIsCounted
    <3>2. Untouched'
      <4> SUFFICES ASSUME NEW q \in Runs, q > created'
                   PROVE  /\ status'[q] = "absent" /\ ~counted'[q]
                          /\ cost'[q] = 0 /\ pending'[q] = 0 /\ cap'[q] = 0
                          /\ \A s \in Scopes : spent'[q][s] = 0
        BY DEF Untouched
      <4>1. q \in Nat
        BY DEF Runs
      <4>2. q > created /\ q # r
        BY <2>0, <4>1
      <4>3. QED
        BY <2>1, <2>2, <4>2 DEF CapsInv, Untouched
    <3>3. QED
      BY <3>1, <3>2
  <2>7. \A v \in Workers : v # w /\ Spending(v)' => Spending(v)
    <3> SUFFICES ASSUME NEW v \in Workers, v # w, Spending(v)' PROVE Spending(v)
      OBVIOUS
    <3>1. pc[v] \in Live /\ run'[v] = run[v] /\ status'[run[v]] = "active"
      BY <2>1 DEF Spending
    <3>2. run[v] \in Runs /\ run[v] # r
      BY <2>4, <3>1, LiveRun
    <3>3. QED
      BY <2>2, <3>1, <3>2 DEF Spending
  <2>8. OneSpender'
    <3>1. Spending(w)' => \A v \in Workers : ~Spending(v)
      BY <2>1 DEF CapsInv, OneSpender, Spending, Live, UnderWay
    <3>2. \A u \in Workers :
             lease' = u /\ pc'[u] = "create" => lease = u /\ pc[u] = "create" /\ u # w
      BY <2>1
    <3>3. \A v, u \in Workers : lease' = u /\ pc'[u] = "create" => ~Spending(v)'
      BY <2>1, <2>7, <3>2 DEF CapsInv, OneSpender, Spending, Live, UnderWay
    <3>4. QED
      BY <2>7, <3>1, <3>3 DEF CapsInv, OneSpender
  <2>9. RequestsFit'
    <3> SUFFICES ASSUME NEW v \in Workers PROVE Fits(v)'
      BY DEF RequestsFit
    <3>1. Fits(v)
      BY DEF CapsInv, RequestsFit
    <3>2. QED
      BY <2>1, <2>3, <3>1 DEF Fits, Capped, Live, UnderWay
  <2>10. SharesKept'
    BY <2>1 DEF CapsInv, SharesKept
  <2>11. /\ Committed' = Committed /\ Counted' = Counted \cup {r} /\ r \notin Counted
         /\ Committed \in [Runs -> Nat] /\ Committed[r] = 0 /\ Counted' \in SUBSET Runs
    BY <2>1, <2>2, <2>3, CommittedType DEF Committed, Counted, CapsInv
  <2>12. ASSUME NEW S \in SUBSET Runs, r \in S PROVE SumOf(Committed, S) = SumOf(Committed, S \ {r})
    BY <2>11, <2>12, SumSplit, SumType
  <2>13. CapIsSetAside'
    <3> SUFFICES ASSUME NEW v \in Workers, Spending(v)', pc'[v] # "daily"
                 PROVE  SumOf(Committed', Counted' \ {run'[v]}) + cap'[run'[v]] <= DayCap
      BY DEF CapIsSetAside
    <3>1. v # w /\ Spending(v) /\ pc[v] # "daily" /\ run'[v] = run[v]
      BY <2>1, <2>7 DEF Spending, Live, UnderWay
    <3>2. run[v] # r
      BY <2>4
    <3>3. Counted' \ {run[v]} \in SUBSET Runs /\ r \in Counted' \ {run[v]}
          /\ (Counted' \ {run[v]}) \ {r} = Counted \ {run[v]}
      BY <2>11, <3>2
    <3>4. SumOf(Committed, Counted' \ {run[v]}) = SumOf(Committed, Counted \ {run[v]})
      BY <2>12, <3>3
    <3>5. QED
      BY <2>1, <2>11, <3>1, <3>4 DEF CapsInv, CapIsSetAside
  <2>14. WithinCaps'
    <3>1. SumOf(Committed, Counted') = SumOf(Committed, Counted)
      <4>1. r \in Counted' /\ Counted' \ {r} = Counted
        BY <2>11
      <4>2. QED
        BY <2>11, <2>12, <4>1
    <3>2. QED
      BY <2>1, <2>11, <3>1 DEF CapsInv, WithinCaps, RunWithinCap, DayWithinCap, Counted
  <2>15. QED
    BY <1>1, <2>5, <2>6, <2>8, <2>9, <2>10, <2>13, <2>14 DEF CapsInv
<1>9. QED
  BY <1>3, <1>4, <1>5, <1>6, <1>7, <1>8 DEF RunStep


\* The oldest run of a finished preparation leaves the window.
LEMMA DayCaps == ASSUME CapsInv, DayPasses PROVE CapsInv'
<1> USE DEF memory, locals
<1>1. PICK r \in Runs : counted[r] /\ status[r] = "over" /\ counted' = [counted EXCEPT ![r] = FALSE]
  BY DEF DayPasses
<1>2. UNCHANGED <<status, cost, pending, calls, created, lease, cap, spent, pc, run, scope,
                  failures, usage, billed>>
  BY DEF DayPasses
<1>3. counted \in [Runs -> BOOLEAN]
  BY DEF CapsInv, Types
<1>4. Types' /\ HasRun' /\ OneOwner'
  BY <1>1, <1>2, <1>3 DEF CapsInv, Types, Accounts, HasRun, OneOwner
<1>5. /\ ~counted'[r] /\ \A q \in Runs : q # r => counted'[q] = counted[q]
      /\ Counted' \in SUBSET Counted /\ Counted \in SUBSET Runs
  BY <1>1, <1>3 DEF Counted
<1>6. Untouched' /\ ActiveIsCounted'
  <2>1. ActiveIsCounted'
    BY <1>1, <1>2, <1>5 DEF CapsInv, ActiveIsCounted
  <2>2. Untouched'
    BY <1>1, <1>2, <1>5 DEF CapsInv, Untouched
  <2>3. QED
    BY <2>1, <2>2
<1>7. OneSpender' /\ RequestsFit' /\ SharesKept'
  BY <1>2 DEF CapsInv, OneSpender, Spending, RequestsFit, Fits, SharesKept
<1>8. Committed' = Committed /\ Committed \in [Runs -> Nat]
  BY <1>2, CommittedType DEF Committed, CapsInv
<1>9. CapIsSetAside'
  <2> SUFFICES ASSUME NEW v \in Workers, Spending(v), pc[v] # "daily"
               PROVE  SumOf(Committed, Counted' \ {run[v]}) + cap[run[v]] <= DayCap
    BY <1>2, <1>8 DEF CapIsSetAside, Spending
  <2>1. SumOf(Committed, Counted \ {run[v]}) + cap[run[v]] <= DayCap
    BY DEF CapsInv, CapIsSetAside
  <2>2. /\ SumOf(Committed, Counted' \ {run[v]}) \in Nat
        /\ SumOf(Committed, Counted \ {run[v]}) \in Nat
    BY <1>5, <1>8, SumType
  <2>3. run[v] \in Runs /\ cap[run[v]] \in Nat
    BY LiveRun DEF Spending, CapsInv, Types
  <2>4. SumOf(Committed, Counted' \ {run[v]}) <= SumOf(Committed, Counted \ {run[v]})
    BY <1>5, <1>8, SumSubset
  <2>5. QED
    BY <2>1, <2>2, <2>3, <2>4
<1>10. WithinCaps'
  <2>1. RunWithinCap'
    BY <1>2 DEF CapsInv, WithinCaps, RunWithinCap
  <2>2. SumOf(Committed, Counted) <= DayCap + Excess
    BY DEF CapsInv, WithinCaps, DayWithinCap, Counted
  <2>3. /\ SumOf(Committed, Counted') <= SumOf(Committed, Counted)
        /\ SumOf(Committed, Counted') \in Nat /\ SumOf(Committed, Counted) \in Nat
    BY <1>5, <1>8, SumSubset, SumType
  <2>4. SumOf(Committed, Counted') <= DayCap + Excess
    BY <2>2, <2>3
  <2>5. DayWithinCap'
    BY <1>8, <2>4 DEF DayWithinCap, Counted
  <2>6. QED
    BY <2>1, <2>5 DEF WithinCaps
<1>11. QED
  BY <1>4, <1>6, <1>7, <1>9, <1>10 DEF CapsInv

\* The caps' invariant holds in every state, for every Excess: the caps of the
\* runs, the shares of the phases, and what is set aside of the day's cap
\* (daily_budget_left, RunBudget.reserve and its callers).
THEOREM CapsHold == Spec => []CapsInv
<1>1. CapsInv /\ [Next]_vars => CapsInv'
  <2> SUFFICES ASSUME CapsInv, [Next]_vars PROVE CapsInv'
    OBVIOUS
  <2>1. ASSUME NEW w \in Workers, RequestStep(w) PROVE CapsInv'
    BY <2>1, RequestCaps
  <2>2. ASSUME NEW w \in Workers, RunStep(w) PROVE CapsInv'
    BY <2>2, RunCaps
  <2>3. CASE Lapse
    <3>1. UNCHANGED <<status, cost, pending, calls, counted, created, cap, spent, pc, run, scope,
                      failures, usage, billed>> /\ lease' = NoWorker
      BY <2>3 DEF Lapse, rows, memory, locals
    <3>2. Types' /\ HasRun'
      BY <3>1 DEF CapsInv, Types, Accounts, HasRun
    <3>3. \A v \in Workers : pc[v] \in {"wait", "settle"} =>
            usage[v] <= pending[run[v]] + ExcessOf(run[v])
      BY DEF CapsInv, RequestsFit, Fits
    <3>4. QED
      BY <3>1, <3>2, <3>3, Quiet
  <2>4. CASE DayPasses
    BY <2>4, DayCaps
  <2>5. CASE UNCHANGED vars
    <3>1. UNCHANGED <<status, cost, pending, calls, counted, created, cap, spent, pc, run, scope,
                      failures, usage, billed, lease>>
      BY <2>5 DEF vars, rows, memory, locals
    <3>2. Types' /\ HasRun'
      BY <3>1 DEF CapsInv, Types, Accounts, HasRun
    <3>3. \A v \in Workers : pc[v] \in {"wait", "settle"} =>
            usage[v] <= pending[run[v]] + ExcessOf(run[v])
      BY DEF CapsInv, RequestsFit, Fits
    <3>4. QED
      BY <3>1, <3>2, <3>3, Quiet
  <2>6. QED
    BY <2>1, <2>2, <2>3, <2>4, <2>5 DEF Next
<1>2. QED
  BY CapsInit, <1>1, PTL DEF Spec

\* Whatever the provider bills above its reservations, a run stays within its
\* cap, and the runs of a day within the day's, but for one request's excess:
\* settle fails the run before its next request.
THEOREM WithinCapsHolds == Spec => []WithinCaps
<1>1. CapsInv => WithinCaps
  BY DEF CapsInv
<1>2. QED
  BY CapsHold, <1>1, PTL

\* The shares of the other phases leave the critic a fifth of the run's cap,
\* a reservation of one of them included (CapShare, Affordable).
THEOREM CriticKeepsItsFloorHolds == Spec => []CriticKeepsItsFloor
<1>1. CapsInv => CriticKeepsItsFloor
  <2> SUFFICES ASSUME CapsInv, NEW r \in Runs \ Overbilled
               PROVE  LET rest == spent[r]["triage"] + spent[r]["setup"] + spent[r]["agent"] IN
                      /\ 5 * rest <= 4 * cap[r]
                      /\ \A w \in Workers :
                            run[w] = r /\ scope[w] # "critic" /\ pc[w] \in UnderWay =>
                            5 * (rest + pending[r]) <= 4 * cap[r]
    BY DEF CriticKeepsItsFloor, UnderWay
  <2> DEFINE t == spent[r]["triage"]
             s == spent[r]["setup"]
             a == spent[r]["agent"]
  <2>1. t \in Nat /\ s \in Nat /\ a \in Nat /\ cap[r] \in Nat /\ pending[r] \in Nat
    BY DEF CapsInv, Types, Accounts, Scopes
  <2>2. 100 * t <= 10 * cap[r] /\ 100 * s <= 15 * cap[r] /\ 100 * a <= 55 * cap[r]
    BY DEF CapsInv, SharesKept, CapShare
  <2>3. ASSUME NEW w \in Workers, run[w] = r, scope[w] # "critic", pc[w] \in UnderWay
        PROVE  5 * (t + s + a + pending[r]) <= 4 * cap[r]
    <3>1. scope[w] \in {"triage", "setup", "agent"}
      BY <2>3 DEF CapsInv, Types, Scopes
    <3>2. \A p \in DOMAIN CapShare : scope[w] = p =>
             100 * (spent[r][p] + pending[r]) <= CapShare[p] * cap[r]
      BY <2>3 DEF CapsInv, RequestsFit, Fits
    <3>3. CASE scope[w] = "triage"
      <4>1. 100 * (t + pending[r]) <= 10 * cap[r]
        BY <3>2, <3>3 DEF CapShare
      <4> HIDE DEF t, s, a
      <4>2. QED
        BY <2>1, <2>2, <4>1
    <3>4. CASE scope[w] = "setup"
      <4>1. 100 * (s + pending[r]) <= 15 * cap[r]
        BY <3>2, <3>4 DEF CapShare
      <4> HIDE DEF t, s, a
      <4>2. QED
        BY <2>1, <2>2, <4>1
    <3>5. CASE scope[w] = "agent"
      <4>1. 100 * (a + pending[r]) <= 55 * cap[r]
        BY <3>2, <3>5 DEF CapShare
      <4> HIDE DEF t, s, a
      <4>2. QED
        BY <2>1, <2>2, <4>1
    <3>6. QED
      BY <3>1, <3>3, <3>4, <3>5
  <2>4. 5 * (t + s + a) <= 4 * cap[r]
    <3> HIDE DEF t, s, a
    <3> QED
      BY <2>1, <2>2
  <2>5. QED
    BY <2>3, <2>4
<1>2. QED
  BY CapsHold, <1>1, PTL

(***************************************************************************)
(* The budget implements the purse.  A worker in the middle of its run, on *)
(* an open row, is the only one: what it does to its row is what the purse *)
(* lets the one spender do.  Any other step takes spenders away at most.   *)
(***************************************************************************)
Purse == <<Spenders, cost, pending, cap, {r \in Runs : counted[r]}>>

LEMMA Capping == Capped = UnderWay \cup {"ready"}
  BY DEF Capped, Live, UnderWay

\* The purse's sums are the budget's.
LEMMA PurseSums == Paid!Used = Committed /\ Paid!UsedToday = SumOf(Committed, Counted)
<1>1. Paid!Used = Committed
  BY DEF Paid!Used, Committed
<1>2. ASSUME NEW S PROVE Paid!Cardinality(S) = Cardinality(S)
  BY DEF Paid!Cardinality, Cardinality
<1>3. QED
  BY <1>1, <1>2 DEF Paid!UsedToday, SumOf, Counted

LEMMA SpenderHasWorker ==
  ASSUME CapsInv, NEW r \in Spenders
  PROVE  \E w \in Workers : run[w] = r /\ pc[w] \in Capped /\ Spending(w)
  BY Capping DEF Spenders, Spending, Capped, Live

\* At most one run may spend; the worker at it is the only one to have it.
LEMMA TheSpender ==
  ASSUME CapsInv, NEW w \in Workers, pc[w] \in Live, MaySave(w)
  PROVE  /\ pc[w] \in Capped => Spenders = {run[w]}
         /\ pc[w] = "daily" => Spenders = {}
<1>1. Spending(w) /\ run[w] \in Runs
  BY LiveRun DEF Spending, MaySave
<1>2. ASSUME NEW r \in Spenders PROVE r = run[w] /\ pc[w] \in Capped
  <2>1. PICK v \in Workers : run[v] = r /\ pc[v] \in Capped /\ Spending(v)
    BY <1>2, SpenderHasWorker
  <2>2. v = w
    BY <1>1, <2>1 DEF CapsInv, OneSpender
  <2>3. QED
    BY <2>1, <2>2
<1>3. pc[w] \in Capped => run[w] \in Spenders
  BY <1>1, Capping DEF Spenders, MaySave
<1>4. "daily" \notin Capped
  BY DEF Capped
<1>5. QED
  BY <1>2, <1>3, <1>4

\* Fewer spenders are none, or the same.
LEMMA FewerSpenders ==
  ASSUME CapsInv, Spenders' \subseteq Spenders
  PROVE  Spenders' \in {{}, Spenders}
<1>1. ASSUME NEW q \in Spenders, NEW r \in Spenders PROVE q = r
  <2>1. PICK v \in Workers : run[v] = q /\ Spending(v)
    BY SpenderHasWorker
  <2>2. PICK w \in Workers : run[w] = r /\ Spending(w)
    BY SpenderHasWorker
  <2>3. QED
    BY <2>1, <2>2 DEF CapsInv, OneSpender
<1>2. QED
  BY <1>1

\* Nobody becomes a spender when no worker comes to its requests, no row opens
\* and no run changes hands.
LEMMA NobodyComes ==
  ASSUME CapsInv, UNCHANGED run,
         \A r \in Runs : status'[r] = "active" => status[r] = "active",
         \A v \in Workers : pc'[v] \in Capped => pc[v] \in Capped
  PROVE  Spenders' \in {{}, Spenders}
<1>1. Spenders' \subseteq Spenders
  BY Capping DEF Spenders
<1>2. QED
  BY <1>1, FewerSpenders

LEMMA QuietForPurse ==
  ASSUME CapsInv, UNCHANGED <<cost, pending, cap, counted, run>>,
         \A r \in Runs : status'[r] = "active" => status[r] = "active",
         \A v \in Workers : pc'[v] \in Capped => pc[v] \in Capped
  PROVE  Paid!Stop \/ UNCHANGED Purse
<1>1. Spenders' \in {{}, Spenders}
  BY NobodyComes
<1>2. QED
  BY <1>1 DEF Paid!Stop, Purse

\* Charging the request is the purse's settling; an amount above what was
\* reserved is the run's last.
LEMMA ChargeSettles ==
  ASSUME CapsInv, NEW w \in Workers, NEW amount \in Nat,
         pc[w] \in UnderWay, MaySave(w), Charge(w, amount),
         amount <= pending[run[w]] + ExcessOf(run[w]),
         UNCHANGED <<status, cap, counted, run>>,
         Go(w, "fail") \/ (Go(w, "ready") /\ amount <= pending[run[w]])
  PROVE  Paid!Settle(run[w])
<1> DEFINE r == run[w]
<1>1. r \in Runs /\ pc[w] \in Capped /\ pc[w] \in Live /\ pending[r] \in Nat
  BY LiveRun DEF UnderWay, Live, Capped, CapsInv, Types, Accounts
<1>2. Spenders = {r}
  BY <1>1, TheSpender
<1>3. /\ \A v \in Workers : v # w => pc'[v] = pc[v]
      /\ pc'[w] \in {"fail", "ready", "idle"}
      /\ pc'[w] = "ready" => amount <= pending[r]
  BY DEF Go, Halt, CapsInv, Types, Accounts
<1>4. Spenders' \in {{}, Spenders}
  BY <1>1, <1>3, NobodyComes
<1>5. CASE amount <= pending[r]
  <2>1. amount \in 0 .. pending[r] + Excess
    BY <1>1, <1>5
  <2>2. QED
    BY <1>2, <1>4, <1>5, <2>1 DEF Paid!Settle, Charge
<1>6. CASE ~(amount <= pending[r])
  <2>1. r \in Overbilled /\ amount \in 0 .. pending[r] + Excess
    BY <1>1, <1>6 DEF ExcessOf
  <2>2. pc'[w] \notin Capped
    BY <1>3, <1>6, Capping DEF UnderWay
  <2>3. r \notin Spenders'
    <3>1. \A v \in Workers : run[v] = r => v = w
      BY <1>1, LiveRun DEF CapsInv, OneOwner
    <3>2. QED
      BY <2>2, <3>1, Capping DEF Spenders
  <2>4. Spenders' = {}
    BY <1>2, <1>4, <2>3
  <2>5. QED
    BY <1>2, <2>1, <2>4 DEF Paid!Settle, Charge
<1>7. QED
  BY <1>5, <1>6

LEMMA RequestPays ==
  ASSUME CapsInv, NEW w \in Workers, RequestStep(w)
  PROVE  [Paid!Next]_Purse
<1> USE DEF rows, memory, locals
<1>0. pc \in [Workers -> Steps]
  BY DEF CapsInv, Types, Accounts
<1>1. CASE reserve(w)
  <2> DEFINE r == run[w]
  <2>1. /\ pc[w] \in Capped /\ pc[w] \in Live /\ MaySave(w) /\ pending[r] = 0
        /\ \A v \in Workers : v # w => pc'[v] = pc[v]
        /\ pc'[w] \in Capped
        /\ UNCHANGED <<status, cost, counted, cap, run>>
    BY <1>0, <1>1 DEF reserve, Live, Capped, UnderWay
  <2>2. r \in Runs /\ Spenders = {r} /\ cost[r] \in Nat /\ cap[r] \in Nat
    BY <2>1, TheSpender, LiveRun DEF CapsInv, Types, Accounts
  <2>3. PICK c \in Requests : Affordable(r, scope[w], c) /\ pending' = [pending EXCEPT ![r] = c]
    BY <1>1 DEF reserve
  <2>4. c \in 1 .. cap[r] - cost[r]
    <3>1. cost[r] + 0 + c <= cap[r]
      BY <2>1, <2>3, Zenon DEF Affordable
    <3>2. c \in Nat \ {0}
      OBVIOUS
    <3>3. QED
      BY <2>2, <3>1, <3>2
  <2>5. Spenders' = Spenders
    BY <2>1, <2>2, Capping DEF Spenders
  <2>6. Paid!SetAside(r)
    BY <2>1, <2>2, <2>3, <2>4, <2>5 DEF Paid!SetAside
  <2>7. QED
    BY <2>2, <2>6 DEF Paid!Next
<1>2. CASE settle(w)
  <2>1. /\ usage[w] \in Nat /\ usage[w] <= pending[run[w]] + ExcessOf(run[w])
        /\ run[w] \in Runs /\ pending[run[w]] \in Nat
    BY <1>2, LiveRun DEF settle, CapsInv, RequestsFit, Fits, Types, Accounts, Live, UnderWay
  <2>2. Go(w, "fail") \/ (Go(w, "ready") /\ usage[w] <= pending[run[w]])
    BY <1>2, <2>1 DEF settle
  <2>3. Paid!Settle(run[w])
    BY <1>2, <2>1, <2>2, ChargeSettles DEF settle, UnderWay
  <2>4. QED
    BY <2>1, <2>3 DEF Paid!Next
<1>3. CASE charge_for_retry(w) \/ charge_failed_request(w)
  <2>1. /\ pc[w] = "failed" /\ MaySave(w) /\ Charge(w, pending[run[w]]) /\ Go(w, "ready")
        /\ UNCHANGED <<status, cap, counted, run>>
    BY <1>3 DEF charge_for_retry, charge_failed_request
  <2>2. run[w] \in Runs /\ pending[run[w]] \in Nat
    BY <2>1, LiveRun DEF CapsInv, Types, Accounts, Live, UnderWay
  <2>3. pending[run[w]] <= pending[run[w]] + ExcessOf(run[w])
    BY <2>2 DEF ExcessOf
  <2>4. Paid!Settle(run[w])
    BY <2>1, <2>2, <2>3, ChargeSettles DEF UnderWay
  <2>5. QED
    BY <2>2, <2>4 DEF Paid!Next
<1>4. CASE Send(w) \/ Answered(w) \/ RequestFails(w) \/ record_failure(w) \/ GiveUp(w)
  <2>1. /\ pc[w] \in UnderWay /\ \A v \in Workers : v # w => pc'[v] = pc[v]
        /\ UNCHANGED <<status, cost, pending, cap, counted, run>>
    BY <1>0, <1>4
       DEF Send, Answered, RequestFails, record_failure, GiveUp, Go, Halt, UnderWay
  <2>2. Paid!Stop \/ UNCHANGED Purse
    BY <2>1, Capping, QuietForPurse
  <2>3. QED
    BY <2>2 DEF Paid!Next
<1>5. QED
  BY <1>1, <1>2, <1>3, <1>4 DEF RequestStep

LEMMA RunPays ==
  ASSUME CapsInv, NEW w \in Workers, RunStep(w)
  PROVE  [Paid!Next]_Purse
<1> USE DEF rows, memory, locals
<1>0. pc \in [Workers -> Steps]
  BY DEF CapsInv, Types, Accounts
<1>1. CASE create_run(w)
  <2>0. PICK r \in Runs : r = created + 1
    BY <1>1 DEF create_run, CapsInv, Types, Accounts, Runs
  <2>1. /\ r > created /\ pc[w] = "create" /\ pc'[w] \in {"daily", "idle"}
        /\ \A v \in Workers : v # w => pc'[v] = pc[v] /\ run'[v] = run[v]
        /\ \A v \in Workers : run[v] # r
        /\ status' = [status EXCEPT ![r] = "active"]
        /\ counted' = [counted EXCEPT ![r] = TRUE]
        /\ UNCHANGED <<cost, pending, cap>>
    <3>1. /\ created \in 0 .. MaxRuns /\ run \in [Workers -> 0 .. created]
          /\ pc[w] = "create" /\ created < MaxRuns /\ Go(w, "daily")
          /\ run' = [run EXCEPT ![w] = r]
          /\ status' = [status EXCEPT ![r] = "active"]
          /\ counted' = [counted EXCEPT ![r] = TRUE]
          /\ UNCHANGED <<cost, pending, cap>>
      BY <1>1, <2>0 DEF create_run, CapsInv, Types, Accounts
    <3>2. r > created /\ \A v \in Workers : run[v] # r
      BY <2>0, <3>1
    <3>3. /\ pc'[w] \in {"daily", "idle"}
          /\ \A v \in Workers : v # w => pc'[v] = pc[v]
      BY <1>0, <3>1 DEF Go, Halt
    <3>4. \A v \in Workers : v # w => run'[v] = run[v]
      BY <3>1
    <3>5. QED
      BY <3>1, <3>2, <3>3, <3>4
  <2>2. ~counted[r] /\ cost[r] = 0 /\ pending[r] = 0 /\ cap[r] = 0
    BY <2>1 DEF CapsInv, Untouched
  <2>3. {q \in Runs : counted'[q]} = {q \in Runs : counted[q]} \cup {r}
    BY <2>1 DEF CapsInv, Types
  <2>4. Spenders' = Spenders
    <3>1. pc[w] \notin Capped /\ pc'[w] \notin Capped
      BY <2>1, Capping DEF UnderWay
    <3>2. \A q \in Runs, v \in Workers :
             (run'[v] = q /\ pc'[v] \in Capped) <=> (run[v] = q /\ pc[v] \in Capped)
      BY <2>1, <3>1
    <3>3. \A q \in Runs \ {r} : status'[q] = status[q]
      BY <2>1
    <3>4. QED
      BY <2>1, <3>2, <3>3, Capping DEF Spenders
  <2>5. Committed[r] = 0
    BY <2>1, <2>2 DEF Committed
  <2>6. Paid!Begin(r)
    BY <2>1, <2>2, <2>3, <2>4, <2>5, PurseSums DEF Paid!Begin
  <2>7. QED
    BY <2>6 DEF Paid!Next
<1>2. CASE daily_budget_left(w)
  <2> DEFINE r == run[w]
  <2>1. /\ pc[w] = "daily" /\ MaySave(w) /\ UNCHANGED <<cost, pending, counted, run>>
    BY <1>2 DEF daily_budget_left
  <2>2. r \in Runs /\ Spenders = {}
    BY <2>1, TheSpender, LiveRun DEF Live
  <2>3. CASE Halt(w) /\ UNCHANGED cap
    <3>1. \A q \in Runs : status'[q] = "active" => status[q] = "active"
      BY <1>2, <2>1 DEF daily_budget_left, CapsInv, Types
    <3>2. \A v \in Workers : pc'[v] \in Capped => pc[v] \in Capped
      BY <1>0, <2>3, Capping DEF Halt, UnderWay
    <3>3. Paid!Stop \/ UNCHANGED Purse
      BY <2>1, <2>3, <3>1, <3>2, QuietForPurse
    <3>4. QED
      BY <3>3 DEF Paid!Next
  <2>4. CASE /\ UNCHANGED status /\ Go(w, "ready")
             /\ \E c \in 1 .. RunCap : /\ cap' = [cap EXCEPT ![r] = c]
                                       /\ SumOf(Committed, Counted) + c <= DayCap
    <3>1. cost[r] = 0 /\ pending[r] = 0 /\ cap[r] = 0 /\ counted[r] /\ Committed[r] = 0
      BY <2>1, <2>2 DEF CapsInv, RequestsFit, Fits, ActiveIsCounted, MaySave, Committed
    <3>2. Spenders' \subseteq {r}
      <4>1. \A v \in Workers : v # w => pc'[v] = pc[v]
        BY <1>0, <2>4 DEF Go, Halt
      <4>2. QED
        BY <2>1, <2>2, <2>4, <4>1 DEF Spenders
    <3>3. Spenders' \in {{}, {r}}
      BY <3>2
    <3>4. Paid!Allot(r)
      BY <2>1, <2>2, <2>4, <3>1, <3>3, PurseSums DEF Paid!Allot
    <3>5. QED
      BY <2>2, <3>4 DEF Paid!Next
  <2>5. QED
    BY <1>2, <2>3, <2>4, DailyCap DEF CapsInv
<1>3. CASE recover_stale_runs(w)
  <2>1. /\ \A r \in Runs : status'[r] # "active"
        /\ UNCHANGED <<cost, pending, cap, counted, run>>
    BY <1>3 DEF recover_stale_runs, CapsInv, Types
  <2>2. \A v \in Workers : pc'[v] \in Capped => pc[v] \in Capped
    BY <1>0, <1>3, Capping DEF recover_stale_runs, Go, Halt, UnderWay
  <2>3. Paid!Stop \/ UNCHANGED Purse
    BY <2>1, <2>2, QuietForPurse
  <2>4. QED
    BY <2>3 DEF Paid!Next
<1>4. CASE \/ Start(w) \/ NextPhase(w) \/ EndRun(w) \/ Raise(w)
           \/ RecordRunFailure(w) \/ Die(w)
  <2>1. UNCHANGED <<cost, pending, cap, counted, run>>
    BY <1>4 DEF Start, NextPhase, EndRun, Raise, RecordRunFailure, Die
  <2>2. \A v \in Workers : pc'[v] \in Capped => pc[v] \in Capped
    BY <1>0, <1>4, Capping
       DEF Start, NextPhase, EndRun, Raise, RecordRunFailure, Die, Go, Halt, UnderWay
  <2>3. \A r \in Runs : status'[r] = "active" => status[r] = "active"
    BY <1>4 DEF Start, NextPhase, EndRun, Raise, RecordRunFailure, Die, CapsInv, Types
  <2>4. Paid!Stop \/ UNCHANGED Purse
    BY <2>1, <2>2, <2>3, QuietForPurse
  <2>5. QED
    BY <2>4 DEF Paid!Next
<1>5. QED
  BY <1>1, <1>2, <1>3, <1>4 DEF RunStep

LEMMA DayPays == ASSUME CapsInv, DayPasses PROVE [Paid!Next]_Purse
<1>1. PICK r \in Runs : counted[r] /\ status[r] = "over" /\ counted' = [counted EXCEPT ![r] = FALSE]
  BY DEF DayPasses
<1>2. UNCHANGED <<status, cost, pending, cap, pc, run>>
  BY DEF DayPasses, memory, locals
<1>3. Spenders' = Spenders /\ r \notin Spenders
  BY <1>1, <1>2 DEF Spenders
<1>4. {q \in Runs : counted'[q]} = {q \in Runs : counted[q]} \ {r}
  BY <1>1 DEF CapsInv, Types
<1>5. Paid!DayPasses(r)
  BY <1>1, <1>2, <1>3, <1>4 DEF Paid!DayPasses
<1>6. QED
  BY <1>5 DEF Paid!Next

LEMMA PurseInit == Init => Paid!Init
<1> SUFFICES ASSUME Init PROVE Paid!Init
  OBVIOUS
<1>1. Spenders = {} /\ {r \in Runs : counted[r]} = {}
  BY DEF Init, Spenders
<1>2. QED
  BY <1>1 DEF Init, Paid!Init

LEMMA PurseStep == ASSUME CapsInv, [Next]_vars PROVE [Paid!Next]_Purse
<1>1. CASE \E w \in Workers : RequestStep(w) \/ RunStep(w)
  BY <1>1, RequestPays, RunPays
<1>2. CASE DayPasses
  BY <1>2, DayPays
<1>3. CASE Lapse \/ UNCHANGED vars
  <2>1. UNCHANGED <<status, cost, pending, cap, counted, run, pc>>
    BY <1>3 DEF Lapse, vars, rows, memory, locals
  <2>2. UNCHANGED Purse
    BY <2>1 DEF Purse, Spenders
  <2>3. QED
    BY <2>2
<1>4. QED
  BY <1>1, <1>2, <1>3 DEF Next

\* Rows, leases, reservations, retries and recoveries implement one purse, for
\* any workers, runs, requests and excess: at most one run may spend at a time,
\* within what the day had left when it got its cap, and one that was billed
\* above its reservation never reserves again (create_run, daily_budget_left,
\* reserve, settle, recover_stale_runs).
THEOREM BudgetIsAPurse == Spec => SpendsFromOnePurse
<1>1. Spec => Paid!Spec
  BY PurseInit, PurseStep, CapsHold, PTL DEF Spec, Paid!Spec, Purse
<1>2. QED
  BY <1>1, WithinCapsHolds, PTL DEF SpendsFromOnePurse
===============================================================================
