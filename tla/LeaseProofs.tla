----------------------------- MODULE LeaseProofs -----------------------------
(***************************************************************************)
(* Proofs about Lease, for any set of guards, any ttl and any bound on the *)
(* clock and the generations, under clock changes and restores.            *)
(***************************************************************************)
EXTENDS Lease, TLAPS

USE LeaseConstants

(***************************************************************************)
(* Type correctness.                                                       *)
(***************************************************************************)
LEMMA TypeInit == Init => TypeOK
  BY DEF Init, TypeOK

LEMMA TypeNext == TypeOK /\ [Next]_vars => TypeOK'
<1> SUFFICES ASSUME TypeOK, [Next]_vars PROVE TypeOK'
  OBVIOUS
<1> USE DEF TypeOK, row, guard
<1>1. ASSUME NEW g \in Guards, Enter(g) PROVE TypeOK'
  <2>1. CASE InsertRow(g)
    BY <1>1, <2>1 DEF Enter, InsertRow
  <2>2. CASE TakeOver(g)
    BY <1>1, <2>2 DEF Enter, TakeOver
  <2>3. QED
    BY <1>1, <2>1, <2>2 DEF Enter, acquire_lease
<1>2. ASSUME NEW g \in Guards, HeartbeatOk(g) PROVE TypeOK'
  BY <1>2 DEF HeartbeatOk, heartbeat_lease, Later
<1>3. ASSUME NEW g \in Guards, HeartbeatLost(g) PROVE TypeOK'
  BY <1>3 DEF HeartbeatLost
<1>4. ASSUME NEW g \in Guards, AssertOwned(g) PROVE TypeOK'
  BY <1>4 DEF AssertOwned
<1>5. ASSUME NEW g \in Guards, AssertFails(g) PROVE TypeOK'
  BY <1>5 DEF AssertFails
<1>6. ASSUME NEW g \in Guards, Close(g) PROVE TypeOK'
  <2>1. CASE release_lease(g)
    BY <1>6, <2>1 DEF Close, release_lease, DropRow
  <2>2. CASE UNCHANGED <<row, counter>>
    BY <1>6, <2>2 DEF Close
  <2>3. QED
    BY <1>6, <2>1, <2>2 DEF Close
<1>7. ASSUME NEW g \in Guards, Die(g) PROVE TypeOK'
  BY <1>7 DEF Die
<1>8. CASE release_all_leases
  BY <1>8 DEF release_all_leases, DropRow
<1>9. CASE Tick
  BY <1>9 DEF Tick
<1>10. CASE SetClockBack
  BY <1>10 DEF SetClockBack
<1>11. CASE UNCHANGED vars
  BY <1>11 DEF vars
<1>12. QED
  BY <1>1, <1>2, <1>3, <1>4, <1>5, <1>6, <1>7, <1>8, <1>9, <1>10, <1>11 DEF Next, GuardStep

\* Every reachable state of the lease is well typed; in particular the
\* generations stay within _MAX_GENERATION.
THEOREM TypeCorrect == Spec => []TypeOK
  BY TypeInit, TypeNext, PTL DEF Spec

(***************************************************************************)
(* Fencing.  UniqueGenerations is not inductive by itself: a new row must  *)
(* also get a generation above every one ever given, which is what the     *)
(* counter, kept when the row goes, provides.                              *)
(***************************************************************************)
CounterIsAhead == \A g \in Guards : held[g] <= counter

Fenced == TypeOK /\ UniqueGenerations /\ CounterIsAhead

LEMMA FencedInit == Init => Fenced
  BY TypeInit DEF Init, Fenced, UniqueGenerations, CounterIsAhead

LEMMA FencedNext == Fenced /\ [Next]_vars => Fenced'
<1> SUFFICES ASSUME Fenced, [Next]_vars PROVE UniqueGenerations' /\ CounterIsAhead'
  BY TypeNext DEF Fenced
<1> USE DEF Fenced, UniqueGenerations, CounterIsAhead, TypeOK, row, guard
<1>1. ASSUME NEW g \in Guards, Enter(g) PROVE UniqueGenerations' /\ CounterIsAhead'
  <2>1. CASE InsertRow(g)
    BY <1>1, <2>1 DEF Enter, InsertRow
  <2>2. CASE TakeOver(g)
    BY <1>1, <2>2 DEF Enter, TakeOver
  <2>3. QED
    BY <1>1, <2>1, <2>2 DEF Enter, acquire_lease
<1>2. ASSUME NEW g \in Guards, HeartbeatOk(g) PROVE UniqueGenerations' /\ CounterIsAhead'
  BY <1>2 DEF HeartbeatOk, heartbeat_lease
<1>3. ASSUME NEW g \in Guards, HeartbeatLost(g) PROVE UniqueGenerations' /\ CounterIsAhead'
  BY <1>3 DEF HeartbeatLost
<1>4. ASSUME NEW g \in Guards, AssertOwned(g) PROVE UniqueGenerations' /\ CounterIsAhead'
  BY <1>4 DEF AssertOwned
<1>5. ASSUME NEW g \in Guards, AssertFails(g) PROVE UniqueGenerations' /\ CounterIsAhead'
  BY <1>5 DEF AssertFails
<1>6. ASSUME NEW g \in Guards, Close(g) PROVE UniqueGenerations' /\ CounterIsAhead'
  <2>1. CASE release_lease(g)
    BY <1>6, <2>1 DEF Close, release_lease, DropRow
  <2>2. CASE ~RowIs(g) /\ UNCHANGED <<row, counter>>
    BY <1>6, <2>2 DEF Close, RowIs
  <2>3. QED
    BY <1>6, <2>1, <2>2 DEF Close
<1>7. ASSUME NEW g \in Guards, Die(g) PROVE UniqueGenerations' /\ CounterIsAhead'
  BY <1>7 DEF Die
<1>8. CASE release_all_leases
  BY <1>8 DEF release_all_leases, DropRow
<1>9. CASE Tick
  BY <1>9 DEF Tick
<1>10. CASE SetClockBack
  BY <1>10 DEF SetClockBack
<1>11. CASE UNCHANGED vars
  BY <1>11 DEF vars
<1>12. QED
  BY <1>1, <1>2, <1>3, <1>4, <1>5, <1>6, <1>7, <1>8, <1>9, <1>10, <1>11 DEF Next, GuardStep

\* No two guards ever hold the same generation, and the live row has the
\* newest, under every clock change and restore.
THEOREM GenerationsAreUnique == Spec => []UniqueGenerations
<1>1. Fenced => UniqueGenerations
  BY DEF Fenced
<1>2. QED
  BY FencedInit, FencedNext, <1>1, PTL DEF Spec

(***************************************************************************)
(* A live lease is its holder's: a takeover waits for the expiry, and      *)
(* whoever renews or releases is the holder.                               *)
(***************************************************************************)
LEMMA KeptStep ==
  ASSUME Fenced, [Next]_vars, NEW g \in Guards,
         Running(g), RowIs(g), expiresAt > now, ~RowIs(g)'
  PROVE  Close(g) \/ release_all_leases
<1> USE DEF Fenced, UniqueGenerations, CounterIsAhead, TypeOK, RowIs, row, guard
<1>1. ASSUME NEW h \in Guards, Enter(h) PROVE FALSE
  BY <1>1 DEF Enter, acquire_lease, InsertRow, TakeOver
<1>2. ASSUME NEW h \in Guards, HeartbeatOk(h) PROVE FALSE
  BY <1>2 DEF HeartbeatOk, heartbeat_lease
<1>3. ASSUME NEW h \in Guards, Close(h) PROVE h = g
  BY <1>3 DEF Close, release_lease
<1>4. ASSUME UNCHANGED <<row, held>> PROVE FALSE
  BY <1>4
<1>5. QED
  BY <1>1, <1>2, <1>3, <1>4
     DEF Next, GuardStep, HeartbeatLost, AssertOwned, AssertFails, Die, Tick, SetClockBack, vars

\* While a running guard's row has not expired, nobody but that guard and a
\* restore removes or replaces it, on any clock.
THEOREM LiveLeaseStays == Spec => LiveLeaseIsKept
<1>1. Fenced /\ [Next]_vars =>
        [\A g \in Guards :
           Running(g) /\ RowIs(g) /\ expiresAt > now /\ ~RowIs(g)' =>
               Close(g) \/ release_all_leases]_vars
  BY KeptStep
<1>2. QED
  BY FencedInit, FencedNext, <1>1, PTL DEF Spec, LiveLeaseIsKept

(***************************************************************************)
(* Exclusive work.  The expiry shown to a worker stays covered by the row, *)
(* because renewals never shorten it and a takeover waits for it to pass.  *)
(***************************************************************************)
PermitIsCovered ==
    calm =>
        \A g \in Guards :
            phase[g] = "working" /\ now < permit[g] => RowIs(g) /\ permit[g] <= expiresAt

Protected == Fenced /\ PermitIsCovered

LEMMA PermitNext == Protected /\ [Next]_vars => PermitIsCovered'
<1> SUFFICES ASSUME Protected, [Next]_vars, calm',
                    NEW h \in Guards, phase'[h] = "working", now' < permit'[h]
             PROVE  RowIs(h)' /\ permit'[h] <= expiresAt'
  BY DEF PermitIsCovered, RowIs
<1> USE DEF Protected, Fenced, UniqueGenerations, CounterIsAhead, TypeOK, PermitIsCovered, RowIs,
            row, guard
<1>1. ASSUME NEW g \in Guards, Enter(g) PROVE RowIs(h)' /\ permit'[h] <= expiresAt'
  <2>1. CASE InsertRow(g)
    BY <1>1, <2>1 DEF Enter, InsertRow
  <2>2. CASE TakeOver(g)
    BY <1>1, <2>2 DEF Enter, TakeOver
  <2>3. QED
    BY <1>1, <2>1, <2>2 DEF Enter, acquire_lease
<1>2. ASSUME NEW g \in Guards, HeartbeatOk(g) PROVE RowIs(h)' /\ permit'[h] <= expiresAt'
  BY <1>2 DEF HeartbeatOk, heartbeat_lease, Later
<1>3. ASSUME NEW g \in Guards, HeartbeatLost(g) PROVE RowIs(h)' /\ permit'[h] <= expiresAt'
  BY <1>3 DEF HeartbeatLost
<1>4. ASSUME NEW g \in Guards, AssertOwned(g) PROVE RowIs(h)' /\ permit'[h] <= expiresAt'
  <2>1. UNCHANGED <<now, row, held>> /\ RowIs(g)
    BY <1>4 DEF AssertOwned, assert_lease
  <2>2. CASE h = g
    BY <1>4, <2>1, <2>2 DEF AssertOwned
  <2>3. CASE h # g
    BY <1>4, <2>1, <2>3 DEF AssertOwned
  <2>4. QED
    BY <2>2, <2>3
<1>5. ASSUME NEW g \in Guards, AssertFails(g) PROVE RowIs(h)' /\ permit'[h] <= expiresAt'
  BY <1>5 DEF AssertFails
<1>6. ASSUME NEW g \in Guards, Close(g) PROVE RowIs(h)' /\ permit'[h] <= expiresAt'
  BY <1>6 DEF Close, release_lease, DropRow
<1>7. ASSUME NEW g \in Guards, Die(g) PROVE RowIs(h)' /\ permit'[h] <= expiresAt'
  BY <1>7 DEF Die
<1>8. CASE release_all_leases
  BY <1>8 DEF release_all_leases, Running
<1>9. CASE Tick
  BY <1>9 DEF Tick
<1>10. CASE SetClockBack
  BY <1>10 DEF SetClockBack
<1>11. CASE UNCHANGED vars
  BY <1>11 DEF vars
<1>12. QED
  BY <1>1, <1>2, <1>3, <1>4, <1>5, <1>6, <1>7, <1>8, <1>9, <1>10, <1>11 DEF Next, GuardStep

\* As long as no clock has stepped back and no restore has met a live
\* holder, no two workers act within an expiry they were shown.
THEOREM WorkExcludes == Spec => []WorkIsExclusive
<1>1. Init => Protected
  BY FencedInit DEF Init, Protected, PermitIsCovered
<1>2. Protected /\ [Next]_vars => Protected'
  BY FencedNext, PermitNext DEF Protected
<1>3. Protected => WorkIsExclusive
  BY DEF Protected, PermitIsCovered, WorkIsExclusive, RowIs
<1>4. QED
  BY <1>1, <1>2, <1>3, PTL DEF Spec

(***************************************************************************)
(* Renewal.                                                                *)
(***************************************************************************)
\* Neither the heartbeat nor the expiry of a generation ever moves back.
THEOREM RenewalIsMonotone == Spec => RenewalNeverShortens
<1>1. ASSUME Fenced, [Next]_vars
      PROVE  [owner # NoRow /\ owner' # NoRow /\ generation' = generation =>
                heartbeatAt' >= heartbeatAt /\ expiresAt' >= expiresAt]_vars
  <2> USE DEF Fenced, UniqueGenerations, TypeOK, row, guard
  <2>1. ASSUME NEW g \in Guards, Enter(g), owner # NoRow PROVE generation' # generation
    BY <1>1, <2>1 DEF Enter, acquire_lease, InsertRow, TakeOver
  <2>2. ASSUME NEW g \in Guards, HeartbeatOk(g)
        PROVE  heartbeatAt' >= heartbeatAt /\ expiresAt' >= expiresAt
    BY <1>1, <2>2 DEF HeartbeatOk, heartbeat_lease, Later
  <2>3. ASSUME NEW g \in Guards, Close(g), owner' # NoRow
        PROVE  UNCHANGED row
    BY <2>3 DEF Close, release_lease, DropRow
  <2>4. CASE UNCHANGED row
    BY <1>1, <2>4
  <2>5. QED
    BY <1>1, <2>1, <2>2, <2>3, <2>4
       DEF Next, GuardStep, HeartbeatLost, AssertOwned, AssertFails, Die, Tick, SetClockBack,
           release_all_leases, DropRow, vars
<1>2. QED
  BY FencedInit, FencedNext, <1>1, PTL DEF Spec, RenewalNeverShortens

(***************************************************************************)
(* The lease implements the fenced lock.  That a closing guard invalidates *)
(* its own token and no other rests on the generations being unique.       *)
(***************************************************************************)
LEMMA LockInit == Init => Lock!Init
  BY DEF Init, Lock!Init

LEMMA LockStep ==
  ASSUME Fenced, [Next]_vars
  PROVE  [Lock!Next]_<<counter, IF owner = NoRow THEN 0 ELSE generation, held>>
<1> DEFINE Valid == IF owner = NoRow THEN 0 ELSE generation
<1> USE DEF Fenced, UniqueGenerations, CounterIsAhead, TypeOK, row, guard
<1>1. ASSUME NEW g \in Guards, Enter(g) PROVE Lock!Grant(g)
  <2>1. CASE InsertRow(g)
    BY <1>1, <2>1 DEF Enter, InsertRow, Lock!Grant
  <2>2. CASE TakeOver(g)
    BY <1>1, <2>2 DEF Enter, TakeOver, Lock!Grant
  <2>3. QED
    BY <1>1, <2>1, <2>2 DEF Enter, acquire_lease
<1>2. ASSUME NEW g \in Guards, Close(g) PROVE Lock!LetGo(g)
  <2>1. CASE release_lease(g)
    BY <1>2, <2>1 DEF Close, release_lease, RowIs, DropRow, Lock!LetGo
  <2>2. CASE ~RowIs(g) /\ UNCHANGED <<row, counter>>
    BY <1>2, <2>2 DEF Close, RowIs, Lock!LetGo
  <2>3. QED
    BY <1>2, <2>1, <2>2 DEF Close
<1>3. ASSUME release_all_leases PROVE Lock!Revoke
  BY <1>3 DEF release_all_leases, DropRow, Lock!Revoke
<1>4. ASSUME UNCHANGED <<owner, generation, counter, held>>
      PROVE  UNCHANGED <<counter, Valid, held>>
  BY <1>4
<1>5. QED
  BY <1>1, <1>2, <1>3, <1>4
     DEF Next, GuardStep, HeartbeatOk, heartbeat_lease, HeartbeatLost, AssertOwned, AssertFails,
         Die, Tick, SetClockBack, vars, Lock!Next

\* The lease implements the fenced lock for any guards, any ttl and any clock:
\* each of its steps is a grant, a letting go or a revocation, or changes
\* nothing that the lock shows.
THEOREM LeaseImplementsLock == Spec => ImplementsFencedLock
  BY LockInit, LockStep, FencedInit, FencedNext, PTL
     DEF Spec, ImplementsFencedLock, Lock!Spec
=============================================================================
