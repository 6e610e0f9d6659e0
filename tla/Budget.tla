-------------------------------- MODULE Budget --------------------------------
(***************************************************************************)
(* The model budget of preparation runs: what a run may still spend        *)
(* (budget.py, RunBudget), the day's cap (daily_budget_left), the requests *)
(* an agent loop sends against it (agent_loop.py, _request; triage.py,     *)
(* ask), and the part of Orchestrator.run that decides which worker may    *)
(* spend: the run lease, recover_stale_runs, create_run.                   *)
(*                                                                         *)
(* Costs are in small integer units.  What the provider bills for a        *)
(* request is decided when it is sent; the worker learns it only from an   *)
(* answer.  Every save is a compare-and-swap on the run's row, whose only  *)
(* other writer is another worker's recover_stale_runs.                    *)
(***************************************************************************)
EXTENDS Integers, FiniteSets

CONSTANTS
    Workers,        \* processes
    NoWorker,       \* the run lease is free
    MaxRuns,        \* bound: runs ever created
    Requests,       \* worst-case costs a request may be reserved at
    Bills,          \* what a provider may bill for a request
    Overbilled,     \* the runs whose provider may bill above a reservation
    Excess,         \* how far above
    RunCap,         \* budget.max_cost_usd_per_run
    DayCap,         \* budget.max_cost_usd_per_day
    MaxCalls,       \* budget.max_model_calls_per_run
    MaxAttempts,    \* model_retry.MAX_ATTEMPTS
    LeaseMayLapse   \* may a worker be paused past its lease and wake up?

Runs == 1 .. MaxRuns

ASSUME BudgetConstants ==
    /\ NoWorker \notin Workers
    /\ MaxRuns \in Nat
    /\ Requests \subseteq Nat \ {0}
    /\ Bills \subseteq Nat
    /\ Overbilled \subseteq Runs
    /\ Excess \in Nat
    /\ RunCap \in Nat \ {0}
    /\ DayCap \in Nat \ {0}
    /\ MaxCalls \in Nat \ {0}
    /\ MaxAttempts \in Nat \ {0}
    /\ LeaseMayLapse \in BOOLEAN

\* SCOPES: percent of the run's cap; the critic has what the run has left.
Scopes == {"triage", "setup", "agent", "critic"}
CapShare == [triage |-> 10, setup |-> 15, agent |-> 55]

VARIABLES
    \* the store: one row per run
    status,     \* "absent", "active" (preparing), "over"
    cost,       \* model_cost_usd
    pending,    \* model_reservation.cost_usd; 0 when there is none
    calls,      \* model_calls
    counted,    \* created within the last 24 hours
    created,    \* number of runs created
    lease,      \* holder of lease autocontribute.run
    \* a run's RunBudget, in the memory of the worker that created the run
    cap,        \* max_cost_usd
    spent,      \* _spent, per scope
    \* workers
    pc,         \* the step a worker takes next
    run,        \* its run
    scope,      \* the phase it is in
    failures,   \* failed attempts of the current turn
    usage,      \* what the provider billed for its request under way
    \* the provider
    billed      \* what was billed for a run's requests, all together

rows == <<status, cost, pending, calls, counted, created>>
memory == <<cap, spent>>
locals == <<run, scope, failures, usage>>
vars == <<rows, lease, memory, pc, locals, billed>>

Init ==
    /\ status = [r \in Runs |-> "absent"]
    /\ cost = [r \in Runs |-> 0]
    /\ pending = [r \in Runs |-> 0]
    /\ calls = [r \in Runs |-> 0]
    /\ counted = [r \in Runs |-> FALSE]
    /\ created = 0
    /\ lease = NoWorker
    /\ cap = [r \in Runs |-> 0]
    /\ spent = [r \in Runs |-> [s \in Scopes |-> 0]]
    /\ pc = [w \in Workers |-> "idle"]
    /\ run = [w \in Workers |-> 0]
    /\ scope = [w \in Workers |-> "triage"]
    /\ failures = [w \in Workers |-> 0]
    /\ usage = [w \in Workers |-> 0]
    /\ billed = [r \in Runs |-> 0]

------------------------------------------------------------------------------
(* How a step ends, and what saving needs. *)

Halt(w) ==
    /\ pc' = [pc EXCEPT ![w] = "idle"]
    /\ lease' = IF lease = w THEN NoWorker ELSE lease

\* The next step asserts the lease before it saves.
Go(w, next) ==
    IF lease = w THEN pc' = [pc EXCEPT ![w] = next] /\ UNCHANGED lease ELSE Halt(w)

\* save finds the row as this worker left it.
MaySave(w) == status[run[w]] = "active"

------------------------------------------------------------------------------
(* Orchestrator.run, up to the budget. *)

Start(w) ==
    /\ pc[w] = "idle"
    /\ lease = NoWorker
    /\ created < MaxRuns
    /\ lease' = w
    /\ pc' = [pc EXCEPT ![w] = "recover"]
    /\ UNCHANGED <<rows, memory, locals, billed>>

\* Mutant: a recovered run's reservation is written off.
recover_stale_runs_forgives(w) ==
    /\ pc[w] = "recover"
    /\ status' = [r \in Runs |-> IF status[r] = "active" THEN "over" ELSE status[r]]
    /\ pending' = [r \in Runs |-> IF status[r] = "active" THEN 0 ELSE pending[r]]
    /\ Go(w, "create")
    /\ UNCHANGED <<cost, calls, counted, created, memory, locals, billed>>

\* Every run still in preparation belongs to a worker that stopped: it fails,
\* and keeps its reservation.
recover_stale_runs(w) ==
    /\ pc[w] = "recover"
    /\ status' = [r \in Runs |-> IF status[r] = "active" THEN "over" ELSE status[r]]
    /\ Go(w, "create")
    /\ UNCHANGED <<cost, pending, calls, counted, created, memory, locals, billed>>

create_run(w) ==
    /\ pc[w] = "create"
    /\ created < MaxRuns
    /\ created' = created + 1
    /\ status' = [status EXCEPT ![created + 1] = "active"]
    /\ counted' = [counted EXCEPT ![created + 1] = TRUE]
    /\ run' = [run EXCEPT ![w] = created + 1]
    /\ scope' = [scope EXCEPT ![w] = "triage"]
    /\ failures' = [failures EXCEPT ![w] = 0]
    /\ Go(w, "daily")
    /\ UNCHANGED <<cost, pending, calls, memory, usage, billed>>

\* The sum of f over some runs: one element for each unit.
SumOf(f, some) == Cardinality(UNION {{r} \X (1 .. f[r]) : r \in some})

\* What a run has spent and reserved.
Committed == [r \in Runs |-> cost[r] + pending[r]]

\* model_cost_since of the last 24 hours, pending reservations included.
model_cost_since == SumOf(Committed, {r \in Runs : counted[r]})

\* daily_budget_left: too little ends the run, skipped; otherwise the run's cap
\* is the smaller of the per-run cap and what the day has left.
daily_budget_left(w) ==
    /\ pc[w] = "daily"
    /\ MaySave(w)
    /\ LET left == DayCap - model_cost_since IN
       \/ /\ 4 * left < RunCap
          /\ status' = [status EXCEPT ![run[w]] = "over"]
          /\ Halt(w)
          /\ UNCHANGED cap
       \/ /\ 4 * left >= RunCap
          /\ cap' = [cap EXCEPT ![run[w]] = IF left < RunCap THEN left ELSE RunCap]
          /\ Go(w, "ready")
          /\ UNCHANGED status
    /\ UNCHANGED <<cost, pending, calls, counted, created, spent, locals, billed>>

------------------------------------------------------------------------------
(* One request: RunBudget and AgentLoop._request. *)

\* Mutant: only the run's own cap is looked at.
Affordable_unscoped(r, s, c) == cost[r] + pending[r] + c <= cap[r]

\* A request of worst-case cost c fits in cost_left(s); its output limit was
\* lowered until it did, or the reservation is refused.
Affordable(r, s, c) ==
    /\ cost[r] + pending[r] + c <= cap[r]
    /\ s \in DOMAIN CapShare => 100 * (spent[r][s] + c) <= CapShare[s] * cap[r]

\* The call is counted and its worst case saved before the request is sent.
reserve(w) ==
    /\ pc[w] = "ready"
    /\ MaySave(w)
    /\ pending[run[w]] = 0
    /\ calls[run[w]] < MaxCalls
    /\ \E c \in Requests :
          /\ Affordable(run[w], scope[w], c)
          /\ pending' = [pending EXCEPT ![run[w]] = c]
    /\ calls' = [calls EXCEPT ![run[w]] = @ + 1]
    /\ pc' = [pc EXCEPT ![w] = "send"]
    /\ UNCHANGED <<status, cost, counted, created, lease, memory, locals, billed>>

ExcessOf(r) == IF r \in Overbilled THEN Excess ELSE 0

\* step: the request goes out with the reserved limits.
Send(w) ==
    /\ pc[w] = "send"
    /\ \E u \in Bills :
          /\ u <= pending[run[w]] + ExcessOf(run[w])
          /\ usage' = [usage EXCEPT ![w] = u]
          /\ billed' = [billed EXCEPT ![run[w]] = @ + u]
    /\ pc' = [pc EXCEPT ![w] = "wait"]
    /\ UNCHANGED <<rows, lease, memory, run, scope, failures>>

Answered(w) ==
    /\ pc[w] = "wait"
    /\ Go(w, "settle")
    /\ UNCHANGED <<rows, memory, locals, billed>>

RequestFails(w) ==
    /\ pc[w] = "wait"
    /\ Go(w, "record")
    /\ UNCHANGED <<rows, memory, locals, billed>>

Charge(w, amount) ==
    /\ cost' = [cost EXCEPT ![run[w]] = @ + amount]
    /\ spent' = [spent EXCEPT ![run[w]][scope[w]] = @ + amount]
    /\ pending' = [pending EXCEPT ![run[w]] = 0]

\* Mutant: only the cap fails the run, not usage above the reservation.
settle_to_the_cap(w) ==
    /\ pc[w] = "settle"
    /\ MaySave(w)
    /\ Charge(w, usage[w])
    /\ IF cost[run[w]] + usage[w] > cap[run[w]] THEN Go(w, "fail") ELSE Go(w, "ready")
    /\ failures' = [failures EXCEPT ![w] = 0]
    /\ UNCHANGED <<status, calls, counted, created, cap, run, scope, usage, billed>>

\* The usage is charged and saved first; usage above the reservation, or a
\* total above the cap, then fails the run.
settle(w) ==
    /\ pc[w] = "settle"
    /\ MaySave(w)
    /\ Charge(w, usage[w])
    /\ IF usage[w] > pending[run[w]] \/ cost[run[w]] + usage[w] > cap[run[w]]
       THEN Go(w, "fail") ELSE Go(w, "ready")
    /\ failures' = [failures EXCEPT ![w] = 0]
    /\ UNCHANGED <<status, calls, counted, created, cap, run, scope, usage, billed>>

\* The failure is saved; the reservation stays.
record_failure(w) ==
    /\ pc[w] = "record"
    /\ MaySave(w)
    /\ failures' = [failures EXCEPT ![w] = @ + 1]
    /\ Go(w, "failed")
    /\ UNCHANGED <<rows, memory, run, scope, usage, billed>>

charge_for_retry(w) ==
    /\ pc[w] = "failed"
    /\ failures[w] < MaxAttempts
    /\ MaySave(w)
    /\ Charge(w, pending[run[w]])
    /\ Go(w, "ready")
    /\ UNCHANGED <<status, calls, counted, created, cap, locals, billed>>

\* No retry (an error that is not retried, the last attempt, no time left):
\* the run outlives a triage question, so its reservation is charged in full;
\* any other phase fails the run with the reservation pending.
charge_failed_request(w) ==
    /\ pc[w] = "failed"
    /\ scope[w] = "triage"
    /\ MaySave(w)
    /\ Charge(w, pending[run[w]])
    /\ failures' = [failures EXCEPT ![w] = 0]
    /\ Go(w, "ready")
    /\ UNCHANGED <<status, calls, counted, created, cap, run, scope, usage, billed>>

GiveUp(w) ==
    /\ pc[w] = "failed"
    /\ scope[w] # "triage"
    /\ Go(w, "fail")
    /\ UNCHANGED <<rows, memory, locals, billed>>

------------------------------------------------------------------------------
(* The rest of a run. *)

\* Discovery, then setup, then agent and critic rounds.
NextPhase(w) ==
    /\ pc[w] = "ready"
    /\ scope' = [scope EXCEPT ![w] =
                   CASE @ = "triage" -> "setup"
                     [] @ = "critic" -> "agent"
                     [] @ = "setup" -> "agent"
                     [] OTHER -> "critic"]
    /\ failures' = [failures EXCEPT ![w] = 0]
    /\ Go(w, "ready")
    /\ UNCHANGED <<rows, memory, run, usage, billed>>

\* The run ends: skipped, rejected or ready for approval.
EndRun(w) ==
    /\ pc[w] = "ready"
    /\ MaySave(w)
    /\ status' = [status EXCEPT ![run[w]] = "over"]
    /\ Halt(w)
    /\ UNCHANGED <<cost, pending, calls, counted, created, memory, locals, billed>>

\* Any step of a run may raise; a save that finds the row changed does.
Raise(w) ==
    /\ pc[w] \notin {"idle", "recover", "create", "fail"}
    /\ Go(w, "fail")
    /\ UNCHANGED <<rows, memory, locals, billed>>

\* _record_failure: the run fails, with its reservation as it is.
RecordRunFailure(w) ==
    /\ pc[w] = "fail"
    /\ \/ MaySave(w) /\ status' = [status EXCEPT ![run[w]] = "over"]
       \/ ~MaySave(w) /\ UNCHANGED status
    /\ Halt(w)
    /\ UNCHANGED <<cost, pending, calls, counted, created, memory, locals, billed>>

\* The process dies with its lease.
Die(w) ==
    /\ pc[w] # "idle"
    /\ pc' = [pc EXCEPT ![w] = "idle"]
    /\ UNCHANGED <<rows, lease, memory, locals, billed>>

\* The lease of a dead or, if that may happen, paused worker expires.
Lapse ==
    /\ lease # NoWorker
    /\ LeaseMayLapse \/ pc[lease] = "idle"
    /\ lease' = NoWorker
    /\ UNCHANGED <<rows, memory, pc, locals, billed>>

\* The oldest run leaves the window.  A run is never prepared for a day
\* (max_run_minutes is at most 360).
DayPasses ==
    /\ \E r \in Runs :
          /\ counted[r] /\ status[r] = "over"
          /\ \A q \in Runs : q < r => ~counted[q]
          /\ counted' = [counted EXCEPT ![r] = FALSE]
    /\ UNCHANGED <<status, cost, pending, calls, created, lease, memory, pc, locals, billed>>

RequestStep(w) ==
    \/ reserve(w) \/ Send(w) \/ Answered(w) \/ RequestFails(w) \/ settle(w)
    \/ record_failure(w) \/ charge_for_retry(w) \/ charge_failed_request(w) \/ GiveUp(w)

RunStep(w) ==
    \/ Start(w) \/ recover_stale_runs(w) \/ create_run(w) \/ daily_budget_left(w)
    \/ NextPhase(w) \/ EndRun(w) \/ Raise(w) \/ RecordRunFailure(w) \/ Die(w)

Next ==
    \/ \E w \in Workers : RequestStep(w) \/ RunStep(w)
    \/ Lapse \/ DayPasses

Spec == Init /\ [][Next]_vars

------------------------------------------------------------------------------
(* Properties. *)

Steps == {"idle", "recover", "create", "daily", "ready", "send", "wait", "settle", "record",
          "failed", "fail"}

\* Where a worker is with a request reserved.
UnderWay == {"send", "wait", "settle", "record", "failed"}

\* What a run's row says it spent, its pending reservation included, covers
\* what the provider really billed for it, at every moment: with requests in
\* flight, answers lost, retries, dead workers and recovered runs ("the
\* provider may have billed anything up to it", record_failure).
BilledIsCovered ==
    \A r \in Runs \ Overbilled : billed[r] <= cost[r] + pending[r]

\* A run commits no more than its cap; a provider that bills more than was
\* reserved takes it past the cap by one request's excess at most (reserve,
\* settle).
RunWithinCap == \A r \in Runs : cost[r] + pending[r] <= cap[r] + Excess

\* The runs of the last 24 hours together stay within the day's cap, also when
\* one worker takes over from another that is dead or merely late.
DayWithinCap == SumOf(Committed, {r \in Runs : counted[r]}) <= DayCap + Excess

\* The two caps together: neither a run nor a day of runs costs more than it may.
WithinCaps == RunWithinCap /\ DayWithinCap

\* The critic's floor: whatever order the phases spend in, what triage, setup
\* and agent have spent and reserved leaves the critic a fifth of the cap
\* ("the other caps leave it at least its floor").
CriticKeepsItsFloor ==
    \A r \in Runs \ Overbilled :
        /\ 5 * (spent[r]["triage"] + spent[r]["setup"] + spent[r]["agent"]) <= 4 * cap[r]
        /\ \A w \in Workers :
              /\ run[w] = r /\ scope[w] # "critic" /\ pc[w] \in UnderWay
              => 5 * (spent[r]["triage"] + spent[r]["setup"] + spent[r]["agent"]
                      + pending[r]) <= 4 * cap[r]

\* The run that may reserve for requests: its worker is at it, its row is open.
Spenders == {r \in Runs : status[r] = "active"
                          /\ \E w \in Workers : run[w] = r /\ pc[w] \in UnderWay \cup {"ready"}}

Paid == INSTANCE Purse WITH
    spenders <- Spenders, spent <- cost, held <- pending, limit <- cap,
    today <- {r \in Runs : counted[r]}

\* Rows, reservations, retries, recoveries and leases together spend from one
\* purse for the day: at most one run at a time, late workers included, within a
\* limit that the day has left; and a run that was billed above a reservation
\* commits nothing after that, also below its cap, where nothing but the failed
\* settlement stops it (create_run, daily_budget_left, reserve, settle,
\* recover_stale_runs).
SpendsFromOnePurse == Paid!Spec /\ []WithinCaps
===============================================================================
