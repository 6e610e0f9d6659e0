-------------------------------- MODULE Lease --------------------------------
(***************************************************************************)
(* The fenced lease of the run store (store.py, tables `leases` and        *)
(* `lease_generations`) and the guard a worker holds it with               *)
(* (coordination.py, LeaseHeartbeatGuard).  One lease name is modelled:    *)
(* leases of different names share nothing.                                *)
(*                                                                         *)
(* Each store operation is one SQLite BEGIN IMMEDIATE transaction, hence   *)
(* one action.  A guard draws a fresh owner name, so the guard is the      *)
(* owner.  `now` is the wall clock that every worker of one state          *)
(* directory reads.                                                        *)
(***************************************************************************)
EXTENDS Integers

CONSTANTS
    Guards,                 \* LeaseHeartbeatGuard objects, one owner name each
    NoRow,                  \* the lease has no row in table `leases`
    TTL,                    \* lease ttl, in clock units
    MaxTime,                \* bound: last instant of the clock
    MaxGeneration           \* _MAX_GENERATION

ASSUME LeaseConstants ==
    /\ NoRow \notin Guards
    /\ TTL \in Nat \ {0}
    /\ MaxTime \in Nat
    /\ MaxGeneration \in Nat \ {0}

VARIABLES
    now,        \* the wall clock
    owner,      \* row: owner, or NoRow when there is no row
    generation, \* row: fencing generation
    heartbeatAt,\* row: heartbeat_at
    expiresAt,  \* row: expires_at
    counter,    \* lease_generations.generation; 0 when there is no counter row
    phase,      \* guard: "idle" | "active" | "working" | "closed" | "dead"
    held,       \* guard: self._lease.generation; 0 when self._lease is None
    lost,       \* guard: self._lost_reason is not None
    permit,     \* guard: expiry of the lease that assert_owned last returned
    calm        \* history: no clock stepped back, no restore met a holder

row == <<owner, generation, heartbeatAt, expiresAt>>
guard == <<phase, held, lost, permit>>
vars == <<now, owner, generation, heartbeatAt, expiresAt, counter, phase, held, lost, permit, calm>>

Running(g) == phase[g] \in {"active", "working"}

Init ==
    /\ now = 0
    /\ owner = NoRow
    /\ generation = 0
    /\ heartbeatAt = 0
    /\ expiresAt = 0
    /\ counter = 0
    /\ phase = [g \in Guards |-> "idle"]
    /\ held = [g \in Guards |-> 0]
    /\ lost = [g \in Guards |-> FALSE]
    /\ permit = [g \in Guards |-> 0]
    /\ calm = TRUE

------------------------------------------------------------------------------
(* The operations of the store. *)

Later(a, b) == IF a > b THEN a ELSE b

\* Mutant: the generation restarts with every row, as if no counter were kept.
InsertRow_restarts(g) ==
    /\ owner = NoRow
    /\ owner' = g
    /\ generation' = 1
    /\ counter' = 1
    /\ heartbeatAt' = now
    /\ expiresAt' = now + TTL

\* acquire_lease with no row: the counter outlives every row, so the
\* generation is one that no earlier holder ever had.
InsertRow(g) ==
    /\ owner = NoRow
    /\ counter < MaxGeneration
    /\ owner' = g
    /\ generation' = counter + 1
    /\ counter' = counter + 1
    /\ heartbeatAt' = now
    /\ expiresAt' = now + TTL

\* Mutant: a row is taken over without looking at its expiry.
TakeOver_live(g) ==
    /\ owner # NoRow
    /\ generation < MaxGeneration
    /\ owner' = g
    /\ generation' = generation + 1
    /\ counter' = generation + 1
    /\ heartbeatAt' = now
    /\ expiresAt' = now + TTL

\* acquire_lease of an expired row, whoever owns it.  (The third outcome of the
\* code, renewal of a live row by its own owner, needs an owner name used
\* again while its row is live: a guard's name is fresh, and its row is gone
\* once it is closed, so no guard reaches it.)
TakeOver(g) ==
    /\ owner # NoRow
    /\ generation = counter
    /\ expiresAt <= now
    /\ generation < MaxGeneration
    /\ owner' = g
    /\ generation' = generation + 1
    /\ counter' = generation + 1
    /\ heartbeatAt' = now
    /\ expiresAt' = now + TTL

acquire_lease(g) == InsertRow(g) \/ TakeOver(g)

\* The row is the caller's: same owner, same fencing generation.
RowIs(g) == owner = g /\ generation = held[g]

\* The update heartbeat_lease makes when it does not return None.
heartbeat_lease(g) ==
    /\ RowIs(g)
    /\ generation = counter
    /\ expiresAt > now
    /\ heartbeatAt <= now
    /\ heartbeatAt' = now
    /\ expiresAt' = Later(expiresAt, now + TTL)
    /\ UNCHANGED <<owner, generation, counter>>

DropRow ==
    /\ owner' = NoRow
    /\ generation' = 0
    /\ heartbeatAt' = 0
    /\ expiresAt' = 0
    /\ UNCHANGED counter

\* Mutant: a holder that closes deletes whatever row there is.
release_lease_any(g) == owner # NoRow /\ DropRow

\* release_lease deletes the row of the exact owner and generation; the
\* counter stays.
release_lease(g) == RowIs(g) /\ generation = counter /\ DropRow

\* assert_lease: the condition under which it returns the lease.
assert_lease(g) == RowIs(g) /\ generation = counter /\ expiresAt > now

------------------------------------------------------------------------------
(* The guard. *)

\* __enter__, the lease obtained.
Enter(g) ==
    /\ phase[g] \in {"idle", "closed"}
    /\ acquire_lease(g)
    /\ phase' = [phase EXCEPT ![g] = "active"]
    /\ held' = [held EXCEPT ![g] = generation']
    /\ lost' = [lost EXCEPT ![g] = FALSE]
    /\ permit' = [permit EXCEPT ![g] = 0]
    /\ UNCHANGED <<now, calm>>

\* _heartbeat_loop, one iteration: the thread stops for good once it marks
\* the lease lost.
HeartbeatOk(g) ==
    /\ Running(g)
    /\ ~lost[g]
    /\ heartbeat_lease(g)
    /\ UNCHANGED <<now, phase, held, lost, permit, calm>>

HeartbeatLost(g) ==
    /\ Running(g)
    /\ ~lost[g]
    /\ ~ (RowIs(g) /\ expiresAt > now /\ heartbeatAt <= now)
    /\ lost' = [lost EXCEPT ![g] = TRUE]
    /\ UNCHANGED <<now, row, counter, phase, held, permit, calm>>

\* assert_owned succeeds: the worker goes on to work that it believes is
\* protected until the expiry it was shown.
AssertOwned(g) ==
    /\ Running(g)
    /\ ~lost[g]
    /\ assert_lease(g)
    /\ phase' = [phase EXCEPT ![g] = "working"]
    /\ permit' = [permit EXCEPT ![g] = expiresAt]
    /\ UNCHANGED <<now, row, counter, held, lost, calm>>

\* assert_owned raises: the worker abandons its work.
AssertFails(g) ==
    /\ Running(g)
    /\ lost[g] \/ ~assert_lease(g)
    /\ phase' = [phase EXCEPT ![g] = "active"]
    /\ lost' = [lost EXCEPT ![g] = TRUE]
    /\ permit' = [permit EXCEPT ![g] = 0]
    /\ UNCHANGED <<now, row, counter, held, calm>>

\* close(): joins the heartbeat thread, then releases exactly the generation
\* this guard acquired, or nothing.
Close(g) ==
    /\ Running(g)
    /\ \/ release_lease(g)
       \/ ~RowIs(g) /\ UNCHANGED <<row, counter>>
    /\ phase' = [phase EXCEPT ![g] = "closed"]
    /\ held' = [held EXCEPT ![g] = 0]
    /\ permit' = [permit EXCEPT ![g] = 0]
    /\ UNCHANGED <<now, lost, calm>>

\* The process dies: its row stays, its heartbeat thread goes with it.
Die(g) ==
    /\ Running(g)
    /\ phase' = [phase EXCEPT ![g] = "dead"]
    /\ permit' = [permit EXCEPT ![g] = 0]
    /\ UNCHANGED <<now, row, counter, held, lost, calm>>

\* release_all_leases, on state restored from an archive; nothing in the store
\* keeps it from running while a holder lives.
release_all_leases ==
    /\ owner # NoRow
    /\ DropRow
    /\ calm' = (calm /\ \A g \in Guards : ~Running(g))
    /\ UNCHANGED <<now, guard>>

Tick ==
    /\ now < MaxTime
    /\ now' = now + 1
    /\ UNCHANGED <<row, counter, guard, calm>>

SetClockBack ==
    /\ \E t \in 0 .. MaxTime : t < now /\ now' = t
    /\ calm' = FALSE
    /\ UNCHANGED <<row, counter, guard>>

GuardStep(g) ==
    \/ Enter(g)
    \/ HeartbeatOk(g)
    \/ HeartbeatLost(g)
    \/ AssertOwned(g)
    \/ AssertFails(g)
    \/ Close(g)
    \/ Die(g)

Next ==
    \/ \E g \in Guards : GuardStep(g)
    \/ release_all_leases
    \/ Tick
    \/ SetClockBack

Spec == Init /\ [][Next]_vars

------------------------------------------------------------------------------
(* Properties. *)

\* Every variable has its type.
TypeOK ==
    /\ now \in 0 .. MaxTime
    /\ owner \in Guards \cup {NoRow}
    /\ generation \in 0 .. MaxGeneration
    /\ heartbeatAt \in 0 .. MaxTime
    /\ expiresAt \in 0 .. MaxTime + TTL
    /\ counter \in 0 .. MaxGeneration
    /\ phase \in [Guards -> {"idle", "active", "working", "closed", "dead"}]
    /\ held \in [Guards -> 0 .. MaxGeneration]
    /\ lost \in [Guards -> BOOLEAN]
    /\ permit \in [Guards -> 0 .. MaxTime + TTL]
    /\ calm \in BOOLEAN

\* Fencing: a live row carries the counter's generation, and no two guards
\* were ever given the same generation, whatever expiries, releases, restores
\* and clock changes lie between their acquisitions (acquire_lease,
\* release_lease, release_all_leases).
UniqueGenerations ==
    /\ owner # NoRow => generation = counter /\ held[owner] = counter
    /\ \A g, h \in Guards : g # h /\ held[g] # 0 => held[g] # held[h]

\* Nobody takes a live lease from its holder: while a running guard's row has
\* not expired, the row goes only when that guard closes or state is restored;
\* in particular not when an earlier holder, late, renews or closes
\* (acquire_lease, heartbeat_lease, release_lease: "only for its current owner
\* and fencing generation").
LiveLeaseIsKept ==
    [][\A g \in Guards :
          Running(g) /\ RowIs(g) /\ expiresAt > now /\ ~RowIs(g)' =>
              Close(g) \/ release_all_leases]_vars

\* Within one generation neither the heartbeat nor the expiry moves back,
\* even when the wall clock does (heartbeat_lease, "monotonically extend").
RenewalNeverShortens ==
    [][owner # NoRow /\ owner' # NoRow /\ generation' = generation =>
          heartbeatAt' >= heartbeatAt /\ expiresAt' >= expiresAt]_vars

\* The protection the workers count on: a worker whose last assert_owned
\* showed an expiry that has not passed is alone in that, so remote work done
\* within the shown expiry never overlaps another worker's.  It needs a clock
\* that has not stepped back and restores that found no holder running.
WorkIsExclusive ==
    calm =>
        \A g, h \in Guards :
            /\ phase[g] = "working" /\ now < permit[g]
            /\ phase[h] = "working" /\ now < permit[h]
            => g = h

Lock == INSTANCE FencedLock WITH
    Clients <- Guards,
    last <- counter,
    current <- IF owner = NoRow THEN 0 ELSE generation,
    token <- held

\* The rows, the counter and the guards implement a fenced lock: every lease
\* that is obtained carries the next generation, and a guard that closes, however
\* late, removes its own lease and no other's (acquire_lease, release_lease,
\* release_all_leases).
ImplementsFencedLock == Lock!Spec
=============================================================================
