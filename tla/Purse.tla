-------------------------------- MODULE Purse --------------------------------
(***************************************************************************)
(* What the model budget promises whoever pays, with no workers, leases,   *)
(* rows or requests: a purse for the runs of a day.  At most one run at a  *)
(* time may spend from it, what that run may spend is set aside when it    *)
(* begins to, once, and fits in what the day has left, and a run that is   *)
(* found to have cost more than it set aside does not spend again.         *)
(***************************************************************************)
EXTENDS Integers, FiniteSets

CONSTANTS
    Runs,
    RunCap,
    DayCap,
    Overbilled,     \* the runs that may turn out to cost more
    Excess          \* by how much

VARIABLES
    spenders,   \* the run that may spend, if any
    spent,      \* run -> what it has spent
    held,       \* run -> what is set aside for its request; 0 when there is none
    limit,      \* run -> what it may spend; 0 before it may spend anything
    today       \* the runs of the last day

Init ==
    /\ spenders = {}
    /\ spent = [r \in Runs |-> 0]
    /\ held = [r \in Runs |-> 0]
    /\ limit = [r \in Runs |-> 0]
    /\ today = {}

Used == [r \in Runs |-> spent[r] + held[r]]
UsedToday == Cardinality(UNION {{r} \X (1 .. Used[r]) : r \in today})

Begin(r) ==
    /\ r \notin today /\ Used[r] = 0 /\ limit[r] = 0
    /\ today' = today \cup {r}
    /\ UNCHANGED <<spenders, spent, held, limit>>

\* A run may also be over as soon as it has its limit.
Allot(r) ==
    /\ spenders = {} /\ r \in today /\ Used[r] = 0 /\ limit[r] = 0
    /\ \E n \in 1 .. RunCap :
          /\ UsedToday + n <= DayCap
          /\ limit' = [limit EXCEPT ![r] = n]
    /\ spenders' \in {{}, {r}}
    /\ UNCHANGED <<spent, held, today>>

SetAside(r) ==
    /\ r \in spenders /\ held[r] = 0
    /\ \E n \in 1 .. limit[r] - spent[r] : held' = [held EXCEPT ![r] = n]
    /\ UNCHANGED <<spenders, spent, limit, today>>

\* A request that cost more than was set aside is the run's last.
Settle(r) ==
    /\ r \in spenders
    /\ \E n \in 0 .. held[r] + Excess :
          /\ spent' = [spent EXCEPT ![r] = @ + n]
          /\ \/ n <= held[r] /\ spenders' \in {{}, spenders}
             \/ r \in Overbilled /\ spenders' = {}
    /\ held' = [held EXCEPT ![r] = 0]
    /\ UNCHANGED <<limit, today>>

Stop ==
    /\ spenders' = {}
    /\ UNCHANGED <<spent, held, limit, today>>

DayPasses(r) ==
    /\ r \in today \ spenders
    /\ today' = today \ {r}
    /\ UNCHANGED <<spenders, spent, held, limit>>

Next ==
    \/ \E r \in Runs : Begin(r) \/ Allot(r) \/ SetAside(r) \/ Settle(r) \/ DayPasses(r)
    \/ Stop

Spec == Init /\ [][Next]_<<spenders, spent, held, limit, today>>
===============================================================================
