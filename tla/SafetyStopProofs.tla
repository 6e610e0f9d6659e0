--------------------------- MODULE SafetyStopProofs ---------------------------
(***************************************************************************)
(* Proofs about SafetyStop, for any number of repositories, operators,     *)
(* triggers, days and runs; and about Lifecycle, which uses it, for any    *)
(* number of workers, pull requests and changes of them.                   *)
(***************************************************************************)
EXTENDS Lifecycle, FiniteSetTheorems, SequenceTheorems, WellFoundedInduction, TLAPS

USE SafetyStopConstants

Event == [epoch : Nat, trigger : Trigger]
HoldRow == [trigger : Trigger, created : Nat, expires : Nat, released : BOOLEAN]

TypeOK ==
    /\ tripped \in BOOLEAN
    /\ epoch \in Nat
    /\ trips \in Seq(Event)
    /\ holds \subseteq HoldRow
    /\ DOMAIN shown = Operators
    /\ {streak, started, now, stops, runs, reports, inARow} \subseteq Nat

(***************************************************************************)
(* The inductive invariant, beside the properties.                         *)
(***************************************************************************)
\* No trigger is of an epoch to come: a resume leaves none of this epoch.
EpochsPassed == \A i \in DOMAIN trips : trips[i].epoch <= epoch

\* A revision an operator holds is made of triggers that were shown.
ShownIsSeen == \A o \in Operators : \A i \in DOMAIN shown[o] : shown[o][i] \in seen

HoldsArePast == \A h \in holds : h.created <= now

\* The streak counts the limits in a row, and has a start while it is on.
StreakCounts ==
    /\ streak = inARow % 3
    /\ streak = 0 <=> started = 0
    /\ started <= runs

\* A streak started after every incident on record, so that the trigger of the
\* next incident is a new one.
IncidentsArePast ==
    \A i \in DOMAIN trips :
        trips[i].trigger.kind = "rate_limits" =>
            /\ trips[i].trigger.version <= runs
            /\ started # 0 => trips[i].trigger.version < started

\* The two halves of ResumedStaysQuiet.
EventsOnce == \A i, j \in DOMAIN trips : trips[i].trigger = trips[j].trigger => i = j

HoldsOnce == \A g, h \in holds : g.trigger = h.trigger => g = h

BreakerInv == EpochsPassed /\ ReviewedBeforeResume /\ RowMatchesEvents /\ EventsOnce

Inv ==
    /\ TypeOK
    /\ BreakerInv /\ ShownIsSeen
    /\ HoldsOnce /\ HoldsArePast /\ TwoRepositoriesStop
    /\ StreakCounts /\ IncidentsArePast

------------------------------------------------------------------------------
(***************************************************************************)
(* What the transactions do.                                               *)
(***************************************************************************)
\* A trip keeps every earlier event, adds at most its own, and leaves its
\* trigger among the events.
LEMMA TripEffect ==
  ASSUME TypeOK, NEW t \in Trigger, _trip_circuit_breaker(t)
  PROVE  /\ trips' \in Seq(Event) /\ tripped' \in BOOLEAN /\ epoch' = epoch
         /\ DOMAIN trips \subseteq DOMAIN trips' /\ Len(trips) <= Len(trips')
         /\ \A i \in DOMAIN trips : trips'[i] = trips[i]
         /\ \A i \in DOMAIN trips' :
               i \notin DOMAIN trips => trips'[i] = [epoch |-> epoch, trigger |-> t]
         /\ Len(trips') > Len(trips) => trips'[Len(trips')].trigger = t
         /\ Tripped(t)'
<1>1. CASE Tripped(t)
  <2>1. UNCHANGED <<trips, tripped, epoch>>
    BY <1>1 DEF _trip_circuit_breaker, breaker
  <2>2. trips \in Seq(Event) /\ tripped \in BOOLEAN /\ Len(trips) \in Nat
    BY DEF TypeOK
  <2>3. Tripped(t)'
    BY <1>1, <2>1 DEF Tripped
  <2>4. Len(trips) <= Len(trips') /\ ~(Len(trips') > Len(trips))
    BY <2>1, <2>2
  <2>5. QED
    BY <2>1, <2>2, <2>3, <2>4
<1>2. CASE ~Tripped(t)
  <2> DEFINE e == [epoch |-> epoch, trigger |-> t]
  <2>1. trips' = Append(trips, e) /\ tripped' = TRUE /\ epoch' = epoch
    BY <1>2 DEF _trip_circuit_breaker
  <2>2. e \in Event /\ trips \in Seq(Event)
    BY DEF TypeOK, Event
  <2>3. /\ trips' \in Seq(Event) /\ Len(trips') = Len(trips) + 1
        /\ \A i \in 1..Len(trips) : trips'[i] = trips[i]
        /\ trips'[Len(trips) + 1] = e
    BY <2>1, <2>2
  <2>4. DOMAIN trips = 1..Len(trips) /\ DOMAIN trips' = 1..(Len(trips) + 1)
        /\ Len(trips) \in Nat
    BY <2>2, <2>3
  <2>5. Tripped(t)'
    BY <2>3, <2>4 DEF Tripped
  <2>6. \A i \in DOMAIN trips' : i \notin DOMAIN trips => trips'[i] = e
    BY <2>3, <2>4
  <2>7. DOMAIN trips \subseteq DOMAIN trips' /\ Len(trips) <= Len(trips')
        /\ trips'[Len(trips')].trigger = t
    BY <2>3, <2>4
  <2> HIDE DEF e
  <2>8. \A i \in DOMAIN trips : trips'[i] = trips[i]
    BY <2>3, <2>4
  <2>9. QED
    BY <2>1, <2>3, <2>5, <2>6, <2>7, <2>8 DEF e
<1>3. QED
  BY <1>1, <1>2

\* A trip keeps the row and the events in agreement, and every trigger once.
LEMMA TripKeeps ==
  ASSUME TypeOK, BreakerInv, NEW t \in Trigger, _trip_circuit_breaker(t),
         seen \subseteq seen'
  PROVE  BreakerInv'
<1>1. CASE Tripped(t)
  BY <1>1 DEF BreakerInv, EpochsPassed, ReviewedBeforeResume, RowMatchesEvents,
              _verify_circuit_breaker_evidence, EventsOnce, Active, breaker,
              _trip_circuit_breaker
<1>2. CASE ~Tripped(t)
  <2>1. /\ tripped' = TRUE /\ latest' = <<t>> /\ epoch' = epoch
        /\ trips' = Append(trips, [epoch |-> epoch, trigger |-> t])
    BY <1>2 DEF _trip_circuit_breaker
  <2> DEFINE last == Len(trips) + 1
  <2>2. /\ Len(trips) \in Nat /\ DOMAIN trips = 1..Len(trips) /\ DOMAIN trips' = 1..last
        /\ \A i \in 1..Len(trips) : trips'[i] = trips[i]
        /\ trips'[last] = [epoch |-> epoch, trigger |-> t]
    <3> DEFINE e == [epoch |-> epoch, trigger |-> t]
    <3>1. trips \in Seq(Event) /\ e \in Event
      BY DEF TypeOK, Event
    <3> HIDE DEF e
    <3>2. /\ Len(trips) \in Nat /\ DOMAIN trips = 1..Len(trips)
          /\ DOMAIN Append(trips, e) = 1..last
          /\ \A i \in 1..Len(trips) : Append(trips, e)[i] = trips[i]
          /\ Append(trips, e)[last] = e
      BY <3>1
    <3>3. QED
      BY <2>1, <3>2 DEF e
  <2> HIDE DEF last
  <2>0. trips'[last].epoch = epoch /\ trips'[last].trigger = t
    BY <2>2
  <2>3. DOMAIN trips' = DOMAIN trips \cup {last} /\ last \notin DOMAIN trips
        /\ \A i \in DOMAIN trips' : i <= last
    BY <2>2 DEF last
  <2>4. EpochsPassed'
    <3> SUFFICES ASSUME NEW i \in DOMAIN trips' PROVE trips'[i].epoch <= epoch
      BY <2>1 DEF EpochsPassed
    <3>1. CASE i = last
      <4>1. epoch \in Nat
        BY DEF TypeOK
      <4>2. QED
        BY <2>0, <3>1, <4>1
    <3>2. CASE i \in DOMAIN trips
      <4>1. trips'[i] = trips[i]
        BY <2>2, <3>2
      <4>2. QED
        BY <3>2, <4>1 DEF BreakerInv, EpochsPassed
    <3>3. QED
      BY <2>3, <3>1, <3>2
  <2>5. ReviewedBeforeResume'
    BY <2>1, <2>2, <2>3 DEF BreakerInv, ReviewedBeforeResume, TypeOK
  <2>6. last \in Active' /\ \A j \in Active' : j <= last
    <3>1. Active' = {i \in DOMAIN trips' : trips'[i].epoch = epoch'}
      BY DEF Active
    <3>2. QED
      BY <2>0, <2>1, <2>3, <3>1
  <2>7. RowMatchesEvents'
    <3>1. \E i \in Active' : latest' = <<trips'[i].trigger>> /\ \A j \in Active' : j <= i
      BY <2>0, <2>1, <2>6
    <3>2. Active' # {}
      BY <2>6
    <3>3. QED
      BY <2>1, <3>1, <3>2 DEF RowMatchesEvents, _verify_circuit_breaker_evidence
  <2>8. EventsOnce'
    BY <1>2, <2>0, <2>2, <2>3 DEF BreakerInv, EventsOnce, Tripped
  <2>9. QED
    BY <2>4, <2>5, <2>7, <2>8 DEF BreakerInv
<1>3. QED
  BY <1>1, <1>2

\* A row that does not change keeps what is said of it.
LEMMA BreakerStays ==
  ASSUME BreakerInv, UNCHANGED breaker, seen \subseteq seen'
  PROVE  BreakerInv'
  BY DEF BreakerInv, EpochsPassed, ReviewedBeforeResume, RowMatchesEvents,
         _verify_circuit_breaker_evidence, EventsOnce, Active, breaker

LEMMA HoldType ==
  ASSUME TypeOK, NEW t \in Trigger
  PROVE  /\ Hold(t) \in HoldRow /\ Hold(t).trigger = t /\ Hold(t).created = now
         /\ ~Hold(t).released
  BY DEF TypeOK, Hold, HoldRow, Expires

\* The escalation of a trigger is a trigger.
LEMMA EscalationType ==
  ASSUME NEW t \in Trigger
  PROVE  /\ [t EXCEPT !.kind = "escalation"] \in Trigger
         /\ [t EXCEPT !.kind = "escalation"].kind = "escalation"
         /\ [t EXCEPT !.kind = "escalation"].repo = t.repo
  BY DEF Trigger, Kinds, GlobalKinds

\* record_stop in three: the whole stop, a hold on record already, or a new hold
\* with or without its escalation.
LEMMA RecordCases ==
  ASSUME TypeOK, NEW t \in Trigger, record_stop(t)
  PROVE  \/ t.kind \in GlobalKinds /\ _trip_circuit_breaker(t) /\ UNCHANGED holds
         \/ UNCHANGED <<breaker, holds>>
         \/ /\ ~Recorded(t) /\ holds' = holds \cup {Hold(t)}
            /\ Escalates(t) /\ _trip_circuit_breaker([t EXCEPT !.kind = "escalation"])
         \/ /\ ~Recorded(t) /\ holds' = holds \cup {Hold(t)}
            /\ ~Escalates(t) /\ UNCHANGED breaker
  BY DEF record_stop

LEMMA RecordType ==
  ASSUME TypeOK, NEW t \in Trigger, record_stop(t)
  PROVE  /\ trips' \in Seq(Event) /\ tripped' \in BOOLEAN /\ epoch' = epoch
         /\ holds' \subseteq HoldRow
<1>1. trips \in Seq(Event) /\ tripped \in BOOLEAN /\ holds \subseteq HoldRow
  BY DEF TypeOK
<1>2. trips' \in Seq(Event) /\ tripped' \in BOOLEAN /\ epoch' = epoch
  <2>1. CASE UNCHANGED breaker
    BY <1>1, <2>1 DEF breaker
  <2>2. CASE _trip_circuit_breaker(t)
    BY <2>2, TripEffect
  <2>3. CASE _trip_circuit_breaker([t EXCEPT !.kind = "escalation"])
    BY <2>3, TripEffect, EscalationType
  <2>4. QED
    BY <2>1, <2>2, <2>3, RecordCases
<1>3. holds' \subseteq HoldRow
  <2>1. holds' = holds \/ holds' = holds \cup {Hold(t)}
    BY RecordCases
  <2>2. QED
    BY <1>1, <2>1, HoldType
<1>4. QED
  BY <1>2, <1>3

LEMMA RecordKeepsBreaker ==
  ASSUME TypeOK, BreakerInv, HoldsOnce, NEW t \in Trigger, record_stop(t), UNCHANGED seen
  PROVE  BreakerInv' /\ HoldsOnce'
<1>1. BreakerInv'
  BY RecordCases, TripKeeps, BreakerStays, EscalationType
<1>2. HoldsOnce'
  <2>1. CASE UNCHANGED holds
    BY <2>1 DEF HoldsOnce
  <2>2. CASE ~Recorded(t) /\ holds' = holds \cup {Hold(t)}
    BY <2>2, HoldType DEF HoldsOnce, Recorded
  <2>3. QED
    BY <2>1, <2>2, RecordCases
<1>3. QED
  BY <1>1, <1>2

------------------------------------------------------------------------------
(***************************************************************************)
(* Two repositories.                                                       *)
(***************************************************************************)
LEMMA AgainstFinite ==
  ASSUME NEW H \in SUBSET HoldRow
  PROVE  IsFiniteSet(Against(H)) /\ Cardinality(Against(H)) \in Nat
<1>1. IsFiniteSet(Repositories \cup {NoRepository})
  BY FS_AddElement
<1>2. Against(H) \subseteq Repositories \cup {NoRepository}
  BY DEF Against, HoldRow, Trigger
<1>3. QED
  BY <1>1, <1>2, FS_Subset, FS_CardinalityType

LEMMA TwoElements ==
  ASSUME NEW S, IsFiniteSet(S), NEW x \in S, NEW y \in S, x # y
  PROVE  Cardinality(S) >= 2
<1>1. IsFiniteSet({x}) /\ Cardinality({x}) = 1
  BY FS_Singleton
<1>2. IsFiniteSet({x} \cup {y}) /\ Cardinality({x} \cup {y}) = 2
  <2>1. /\ IsFiniteSet({x} \cup {y})
        /\ Cardinality({x} \cup {y}) =
              IF y \in {x} THEN Cardinality({x}) ELSE Cardinality({x}) + 1
    BY <1>1, FS_AddElement
  <2>2. QED
    BY <1>1, <2>1
<1>3. {x} \cup {y} \subseteq S
  OBVIOUS
<1>4. Cardinality({x} \cup {y}) <= Cardinality(S) /\ Cardinality(S) \in Nat
  BY <1>3, FS_Subset, FS_CardinalityType
<1>5. QED
  BY <1>2, <1>4

LEMMA AnotherElement ==
  ASSUME NEW S, NEW x, IsFiniteSet(S), Cardinality(S) >= 2
  PROVE  ~(S \subseteq {x})
<1>1. SUFFICES ASSUME S \subseteq {x} PROVE FALSE
  OBVIOUS
<1>2. IsFiniteSet({x}) /\ Cardinality({x}) = 1
  BY FS_Singleton
<1>3. Cardinality(S) <= 1
  BY <1>1, <1>2, FS_Subset
<1>4. Cardinality(S) \in Nat
  BY FS_CardinalityType
<1>5. QED
  BY <1>3, <1>4

\* What a step that only adds events says of every trigger.
LEMMA TrippedStays ==
  ASSUME DOMAIN trips \subseteq DOMAIN trips',
         \A i \in DOMAIN trips : trips'[i] = trips[i]
  PROVE  \A t : Tripped(t) => Tripped(t)'
  BY DEF Tripped

LEMMA TwoStay ==
  ASSUME TwoRepositoriesStop, UNCHANGED holds,
         DOMAIN trips \subseteq DOMAIN trips',
         \A i \in DOMAIN trips : trips'[i] = trips[i]
  PROVE  TwoRepositoriesStop'
  BY TrippedStays DEF TwoRepositoriesStop, Counts

\* Any other hold that stands makes a new one escalate, when both count and
\* the other is of the last days.
LEMMA SecondEscalates ==
  ASSUME TypeOK, HoldsArePast, NEW t \in Trigger, Counts(t), NEW g \in holds,
         Counts(g.trigger), ~g.released, g.trigger.repo # t.repo,
         now <= g.created + Window
  PROVE  Escalates(t)
<1> DEFINE H == holds \cup {Hold(t)}
<1>1. H \subseteq HoldRow
  BY HoldType DEF TypeOK
<1>2. t.repo \in Against(H)
  <2>1. Hold(t).created + Window >= now
    BY HoldType DEF TypeOK
  <2>2. QED
    BY <2>1, HoldType DEF Against
<1>3. g.trigger.repo \in Against(H)
  BY DEF Against, TypeOK, HoldRow
<1>4. Cardinality(Against(H)) >= 2
  BY <1>1, <1>2, <1>3, AgainstFinite, TwoElements
<1>5. QED
  BY <1>4 DEF Escalates

LEMMA RecordKeepsTwo ==
  ASSUME TypeOK, HoldsArePast, TwoRepositoriesStop, NEW t \in Trigger, record_stop(t)
  PROVE  TwoRepositoriesStop'
<1> DEFINE esc(u) == [u EXCEPT !.kind = "escalation"]
<1>1. /\ DOMAIN trips \subseteq DOMAIN trips'
      /\ \A i \in DOMAIN trips : trips'[i] = trips[i]
  <2>1. CASE UNCHANGED breaker
    BY <2>1 DEF breaker
  <2>2. CASE _trip_circuit_breaker(t)
    BY <2>2, TripEffect
  <2>3. CASE _trip_circuit_breaker(esc(t))
    BY <2>3, TripEffect, EscalationType
  <2>4. QED
    BY <2>1, <2>2, <2>3, RecordCases
<1>2. CASE UNCHANGED holds
  BY <1>1, <1>2, TwoStay
<1>3. CASE /\ ~Recorded(t) /\ holds' = holds \cup {Hold(t)}
           /\ Escalates(t) => Tripped(esc(t))'
  <2> SUFFICES ASSUME NEW g \in holds', NEW h \in holds',
                      Counts(g.trigger), Counts(h.trigger),
                      g.trigger.repo # h.trigger.repo, ~g.released, ~h.released,
                      g.created <= h.created, h.created <= g.created + Window
               PROVE  \/ Tripped(esc(h.trigger))'
                      \/ g.created = h.created /\ Tripped(esc(g.trigger))'
    BY DEF TwoRepositoriesStop, Counts
  <2>1. CASE g \in holds /\ h \in holds
    <3>1. Tripped(esc(h.trigger)) \/ (g.created = h.created /\ Tripped(esc(g.trigger)))
      BY <2>1 DEF TwoRepositoriesStop
    <3>2. QED
      BY <1>1, <3>1, TrippedStays
  <2>2. CASE g \in holds /\ h = Hold(t)
    <3>1. Escalates(t)
      BY <2>2, HoldType, SecondEscalates
    <3>2. QED
      BY <1>3, <2>2, <3>1, HoldType
  <2>3. CASE g = Hold(t) /\ h \in holds
    <3>1. h.created = now /\ g.created = now
      BY <2>3, HoldType DEF HoldsArePast, TypeOK, HoldRow
    <3>2. now <= h.created + Window
      BY <3>1 DEF TypeOK
    <3>3. Escalates(t)
      BY <2>3, <3>2, HoldType, SecondEscalates
    <3>4. QED
      BY <1>3, <2>3, <3>1, <3>3, HoldType
  <2>4. CASE g = Hold(t) /\ h = Hold(t)
    BY <2>4
  <2>5. QED
    BY <1>3, <2>1, <2>2, <2>3, <2>4
<1>4. QED
  <2>1. _trip_circuit_breaker(esc(t)) => Tripped(esc(t))'
    BY TripEffect, EscalationType
  <2>2. QED
    BY <1>2, <1>3, <2>1, RecordCases

\* Recording anything but an escalation itself escalates only on another
\* repository's hold that stands.
LEMMA RecordEscalates ==
  ASSUME TypeOK, NEW t \in Trigger, t.kind # "escalation", record_stop(t),
         Len(trips') > Len(trips), trips'[Len(trips')].trigger.kind = "escalation"
  PROVE  \E g \in holds' : /\ Counts(g.trigger) /\ ~g.released
                           /\ g.trigger.repo # trips'[Len(trips')].trigger.repo
<1> DEFINE e == [t EXCEPT !.kind = "escalation"]
<1>1. ~_trip_circuit_breaker(t)
  BY TripEffect
<1>2. ~UNCHANGED breaker
  BY DEF breaker, TypeOK
<1>3. holds' = holds \cup {Hold(t)} /\ Escalates(t) /\ _trip_circuit_breaker(e)
  BY <1>1, <1>2, RecordCases
<1>4. trips'[Len(trips')].trigger.repo = t.repo
  BY <1>3, TripEffect, EscalationType
<1> DEFINE H == holds \cup {Hold(t)}
<1>5. IsFiniteSet(Against(H)) /\ Cardinality(Against(H)) >= 2
  <2>1. H \in SUBSET HoldRow
    BY HoldType DEF TypeOK
  <2>2. QED
    BY <1>3, <2>1, AgainstFinite DEF Escalates
<1> HIDE DEF H
<1>6. PICK y \in Against(H) : y # t.repo
  <2>1. ~(Against(H) \subseteq {t.repo})
    BY <1>5, AnotherElement
  <2>2. QED
    BY <2>1
<1>7. PICK g \in holds' : Counts(g.trigger) /\ ~g.released /\ y = g.trigger.repo
  BY <1>3, <1>6 DEF Against, H
<1>8. QED
  BY <1>4, <1>6, <1>7

------------------------------------------------------------------------------
(***************************************************************************)
(* Rate limits.                                                            *)
(***************************************************************************)
LEMMA ThirdOfThree ==
  ASSUME NEW n \in Nat
  PROVE  /\ n % 3 \in 0..2
         /\ n % 3 = 2 => (n + 1) % 3 = 0
         /\ n % 3 # 2 => (n + 1) % 3 = (n % 3) + 1
         /\ 0 % 3 = 0
  OBVIOUS

\* A trip of another kind is no incident.
LEMMA TripIncidents ==
  ASSUME TypeOK, IncidentsArePast, NEW t \in Trigger, t.kind # "rate_limits",
         _trip_circuit_breaker(t), UNCHANGED <<started, runs>>
  PROVE  IncidentsArePast'
<1>1. /\ \A i \in DOMAIN trips : trips'[i] = trips[i]
      /\ \A i \in DOMAIN trips' : i \notin DOMAIN trips => trips'[i].trigger = t
  BY TripEffect
<1>2. QED
  BY <1>1 DEF IncidentsArePast

LEMMA RecordIncidents ==
  ASSUME TypeOK, IncidentsArePast, NEW t \in Trigger, t.kind # "rate_limits",
         record_stop(t), UNCHANGED <<started, runs>>
  PROVE  IncidentsArePast'
<1>1. CASE UNCHANGED breaker
  BY <1>1 DEF IncidentsArePast, breaker
<1>2. QED
  BY <1>1, RecordCases, TripIncidents, EscalationType

------------------------------------------------------------------------------
(***************************************************************************)
(* The steps.  Each keeps the invariant and turns the stop on with its     *)
(* evidence.                                                               *)
(***************************************************************************)
Escalated ==
    Len(trips') > Len(trips) /\ trips'[Len(trips')].trigger.kind = "escalation"
    => \E g \in holds' : /\ Counts(g.trigger) /\ ~g.released
                         /\ g.trigger.repo # trips'[Len(trips')].trigger.repo

ThirdStops == inARow' > inARow /\ inARow' % 3 = 0 => tripped'

LEMMA InitInv == Init => Inv
<1> SUFFICES ASSUME Init PROVE Inv
  OBVIOUS
<1> USE DEF Init
<1>1. TypeOK
  <2>1. tripped \in BOOLEAN
    OBVIOUS
  <2>2. trips \in Seq(Event) /\ holds \subseteq HoldRow /\ DOMAIN shown = Operators
    OBVIOUS
  <2>3. epoch \in Nat /\ {streak, started, now, stops, runs, reports, inARow} \subseteq Nat
    OBVIOUS
  <2>4. QED
    BY <2>1, <2>2, <2>3 DEF TypeOK
<1>2. DOMAIN trips = {} /\ Active = {}
  BY DEF Active
<1>3. BreakerInv
  BY <1>2 DEF BreakerInv, EpochsPassed, ReviewedBeforeResume, RowMatchesEvents,
              _verify_circuit_breaker_evidence, EventsOnce
<1>4. ShownIsSeen
  BY DEF ShownIsSeen
<1>5. HoldsOnce /\ HoldsArePast /\ TwoRepositoriesStop
  BY DEF HoldsOnce, HoldsArePast, TwoRepositoriesStop
<1>6. StreakCounts
  BY ThirdOfThree DEF StreakCounts
<1>7. IncidentsArePast
  BY <1>2 DEF IncidentsArePast
<1>8. QED
  BY <1>1, <1>3, <1>4, <1>5, <1>6, <1>7 DEF Inv

\* record_stop, with anything but an escalation or an incident.
LEMMA RecordStep ==
  ASSUME Inv, NEW t \in Trigger, t.kind \notin {"escalation", "rate_limits"}, record_stop(t),
         UNCHANGED <<limits, shown, now, stops, runs, seen, inARow>>, reports' \in Nat
  PROVE  Inv' /\ Escalated /\ ThirdStops
<1> USE DEF Inv, limits
<1>1. TypeOK'
  BY RecordType DEF TypeOK
<1>2. BreakerInv' /\ HoldsOnce'
  BY RecordKeepsBreaker
<1>3. ShownIsSeen' /\ StreakCounts'
  BY DEF ShownIsSeen, StreakCounts
<1>4. HoldsArePast'
  <2>1. holds' = holds \/ holds' = holds \cup {Hold(t)}
    BY RecordCases
  <2>2. now <= now
    <3>1. now \in Nat
      BY DEF TypeOK
    <3>2. QED
      BY <3>1
  <2>3. QED
    BY <2>1, <2>2, HoldType DEF HoldsArePast
<1>5. TwoRepositoriesStop'
  BY RecordKeepsTwo
<1>6. IncidentsArePast'
  BY RecordIncidents
<1>7. Escalated
  BY RecordEscalates DEF Escalated
<1>8. ThirdStops
  BY SMTT(40) DEF ThirdStops, TypeOK
<1>9. QED
  BY <1>1, <1>2, <1>3, <1>4, <1>5, <1>6, <1>7, <1>8

LEMMA ObserveStep ==
  ASSUME Inv, NEW t \in Evidence, Observe(t)
  PROVE  Inv' /\ Escalated /\ ThirdStops
<1>1. t \in Trigger /\ t.kind \notin {"escalation", "rate_limits"}
  OBVIOUS
<1>2. reports' \in Nat
  BY DEF Observe, world, Inv, TypeOK
<1>3. QED
  BY <1>1, <1>2, RecordStep DEF Observe, world

LEMMA ContentBlockedStep ==
  ASSUME Inv, ContentBlocked
  PROVE  Inv' /\ Escalated /\ ThirdStops
<1> DEFINE t == [kind |-> "content_blocked", repo |-> NoRepository, version |-> now]
<1>1. t \in Trigger /\ t.kind \notin {"escalation", "rate_limits"}
  BY DEF Trigger, Kinds, PublicationKinds, Inv, TypeOK
<1>2. reports' \in Nat
  BY SMTT(30) DEF ContentBlocked, Inv, TypeOK
<1>3. QED
  BY <1>1, <1>2, RecordStep DEF ContentBlocked

LEMMA SafetyStopStep ==
  ASSUME Inv, safety_stop
  PROVE  Inv' /\ Escalated /\ ThirdStops
<1> DEFINE t == [kind |-> "operator", repo |-> NoRepository, version |-> stops + 1]
<1> USE DEF Inv, limits
<1>1. _trip_circuit_breaker(t) /\ stops' = stops + 1
      /\ UNCHANGED <<holds, limits, shown, now, runs, reports, seen, inARow>>
  BY DEF safety_stop
<1>2. t \in Trigger /\ t.kind = "operator"
  BY DEF Trigger, Kinds, GlobalKinds, TypeOK
<1> HIDE DEF t
<1>3. TypeOK'
  <2>1. trips' \in Seq(Event) /\ tripped' \in BOOLEAN /\ epoch' = epoch
    BY <1>1, <1>2, TripEffect
  <2>2. stops' \in Nat
    <3>1. stops \in Nat /\ stops' = stops + 1
      BY <1>1 DEF TypeOK
    <3>2. QED
      BY <3>1
  <2>3. QED
    BY <1>1, <2>1, <2>2 DEF TypeOK
<1>4. BreakerInv'
  BY <1>1, <1>2, TripKeeps
<1>5. ShownIsSeen' /\ HoldsOnce' /\ HoldsArePast' /\ StreakCounts'
  BY <1>1 DEF ShownIsSeen, HoldsOnce, HoldsArePast, StreakCounts
<1>6. TwoRepositoriesStop'
  BY <1>1, <1>2, TripEffect, TwoStay
<1>7. IncidentsArePast'
  BY <1>1, <1>2, TripIncidents
<1>8. Escalated
  BY <1>1, <1>2, TripEffect DEF Escalated
<1>9. ThirdStops
  BY SMTT(40), <1>1 DEF ThirdStops, TypeOK
<1>10. QED
  BY <1>3, <1>4, <1>5, <1>6, <1>7, <1>8, <1>9

LEMMA StatusStep ==
  ASSUME Inv, NEW o \in Operators, circuit_breaker_status(o)
  PROVE  Inv' /\ Escalated /\ ThirdStops
<1> USE DEF Inv, circuit_breaker_status, breaker, limits, world
<1>1. TypeOK'
  BY DEF TypeOK
<1>2. BreakerInv'
  BY BreakerStays
<1>3. ShownIsSeen'
  <2> SUFFICES ASSUME NEW p \in Operators, NEW i \in DOMAIN shown'[p]
               PROVE  shown'[p][i] \in seen'
    BY DEF ShownIsSeen
  <2>1. CASE p = o
    <3>1. shown'[p] = Revision
      BY <2>1 DEF TypeOK
    <3>2. i \in Active /\ shown'[p][i] = trips[i].trigger
      BY <3>1 DEF Revision
    <3>3. QED
      BY <3>2
  <2>2. CASE p # o
    BY <2>2 DEF ShownIsSeen, TypeOK
  <2>3. QED
    BY <2>1, <2>2
<1>4. HoldsOnce' /\ HoldsArePast' /\ StreakCounts' /\ IncidentsArePast'
  BY DEF HoldsOnce, HoldsArePast, StreakCounts, IncidentsArePast
<1>5. TwoRepositoriesStop'
  BY TwoStay
<1>6. Escalated /\ ThirdStops
  BY DEF Escalated, ThirdStops, TypeOK
<1>7. QED
  BY <1>1, <1>2, <1>3, <1>4, <1>5, <1>6

LEMMA EventTypes ==
  ASSUME TypeOK
  PROVE  \A i \in DOMAIN trips : trips[i].epoch \in Nat /\ trips[i].trigger \in Trigger
<1>1. trips \in Seq(Event)
  BY DEF TypeOK
<1>2. \A i \in DOMAIN trips : trips[i] \in Event
  BY <1>1
<1>3. QED
  BY <1>2 DEF Event

LEMMA ResumeStep ==
  ASSUME Inv, NEW o \in Operators, resume_circuit_breaker(o)
  PROVE  Inv' /\ Escalated /\ ThirdStops
<1> USE DEF Inv, resume_circuit_breaker, limits, world
<1>1. TypeOK'
  <2>1. tripped' \in BOOLEAN
    OBVIOUS
  <2>2. epoch' \in Nat
    BY DEF TypeOK
  <2>3. QED
    BY <2>1, <2>2 DEF TypeOK
<1> USE DEF BreakerInv
<1>2. /\ epoch \in Nat /\ epoch' = epoch + 1 /\ trips' = trips /\ tripped' = FALSE
      /\ \A i \in DOMAIN trips : trips[i].epoch \in Nat /\ trips[i].epoch <= epoch
  BY EventTypes DEF EpochsPassed, TypeOK
<1>3. EpochsPassed'
  <2> SUFFICES ASSUME NEW i \in DOMAIN trips PROVE trips[i].epoch <= epoch + 1
    BY <1>2 DEF EpochsPassed
  <2> DEFINE n == trips[i].epoch
  <2>1. n \in Nat /\ n <= epoch
    BY <1>2
  <2> HIDE DEF n
  <2>2. n <= epoch + 1
    BY <1>2, <2>1
  <2>3. QED
    BY <2>2 DEF n
<1>4. ReviewedBeforeResume'
  <2> SUFFICES ASSUME NEW i \in DOMAIN trips PROVE trips[i].trigger \in seen
    BY DEF ReviewedBeforeResume
  <2>1. CASE trips[i].epoch = epoch
    <3>1. i \in Active
      BY <2>1 DEF Active
    <3>2. i \in DOMAIN shown[o] /\ shown[o][i] = trips[i].trigger
      BY <3>1 DEF Revision
    <3>3. QED
      BY <3>2 DEF ShownIsSeen
  <2>2. CASE trips[i].epoch # epoch
    <3>1. trips[i].epoch < epoch
      BY SMTT(40), <1>2, <2>2
    <3>2. QED
      BY <3>1 DEF ReviewedBeforeResume
  <2>3. QED
    BY <2>1, <2>2
<1>5. RowMatchesEvents'
  <2>1. Active' = {}
    <3>1. \A i \in DOMAIN trips : trips[i].epoch # epoch + 1
      BY SMTT(40), <1>2
    <3>2. Active' = {i \in DOMAIN trips : trips[i].epoch = epoch + 1}
      BY <1>2 DEF Active
    <3>3. QED
      BY <3>1, <3>2
  <2>2. QED
    BY <2>1 DEF RowMatchesEvents, _verify_circuit_breaker_evidence
<1>6. BreakerInv'
  BY <1>3, <1>4, <1>5 DEF BreakerInv, EventsOnce
<1>7. ShownIsSeen' /\ HoldsOnce' /\ HoldsArePast' /\ StreakCounts' /\ IncidentsArePast'
  BY DEF ShownIsSeen, HoldsOnce, HoldsArePast, StreakCounts, IncidentsArePast
<1>8. TwoRepositoriesStop'
  BY TwoStay
<1>9. Escalated /\ ThirdStops
  BY SMTT(30) DEF Escalated, ThirdStops, TypeOK
<1>10. QED
  BY <1>1, <1>6, <1>7, <1>8, <1>9

LEMMA ReleaseStep ==
  ASSUME Inv, NEW h \in holds, release_hold(h)
  PROVE  Inv' /\ Escalated /\ ThirdStops
<1> USE DEF Inv, limits, world
<1> DEFINE r == [h EXCEPT !.released = TRUE]
<1>1. /\ r \in HoldRow /\ r.trigger = h.trigger /\ r.created = h.created /\ r.released = TRUE
  BY DEF TypeOK, HoldRow
<1>2. /\ holds' = (holds \ {h}) \cup {r} /\ holds' \subseteq HoldRow
      /\ UNCHANGED <<breaker, limits, shown, world, seen, inARow>>
  BY <1>1 DEF release_hold, TypeOK
<1> HIDE DEF r
<1>3. TypeOK'
  BY <1>2 DEF TypeOK, breaker
<1>4. BreakerInv'
  BY <1>2, BreakerStays
<1>5. ShownIsSeen' /\ StreakCounts' /\ IncidentsArePast'
  BY <1>2 DEF ShownIsSeen, StreakCounts, IncidentsArePast, breaker
<1>6. HoldsOnce' /\ HoldsArePast'
  BY <1>1, <1>2 DEF HoldsOnce, HoldsArePast
<1>7. \A g \in holds' : ~g.released => g \in holds
  BY <1>1, <1>2
<1>8. TwoRepositoriesStop'
  BY <1>2, <1>7 DEF TwoRepositoriesStop, Counts, Tripped, breaker
<1>9. Escalated /\ ThirdStops
  BY SMTT(30), <1>2 DEF Escalated, ThirdStops, TypeOK, breaker
<1>10. QED
  BY <1>3, <1>4, <1>5, <1>6, <1>8, <1>9

LEMMA NextDayStep ==
  ASSUME Inv, NextDay
  PROVE  Inv' /\ Escalated /\ ThirdStops
<1> USE DEF Inv, NextDay, breaker, limits
<1>1. TypeOK'
  BY DEF TypeOK
<1>2. BreakerInv'
  BY BreakerStays
<1>3. ShownIsSeen' /\ StreakCounts' /\ IncidentsArePast' /\ HoldsOnce'
  BY DEF ShownIsSeen, StreakCounts, IncidentsArePast, HoldsOnce
<1>4. HoldsArePast'
  <2>1. \A h \in holds : h.created \in Nat
    BY DEF TypeOK, HoldRow
  <2>2. QED
    BY SMTT(30), <2>1 DEF HoldsArePast, TypeOK
<1>5. TwoRepositoriesStop'
  BY TwoStay
<1>6. Escalated /\ ThirdStops
  BY SMTT(30) DEF Escalated, ThirdStops, TypeOK
<1>7. QED
  BY <1>1, <1>2, <1>3, <1>4, <1>5, <1>6

\* The third limit in a row finds a streak on, so the trigger of its incident is
\* a new one and turns the stop on.
LEMMA RateLimitStep ==
  ASSUME Inv, NEW limited \in BOOLEAN, record_run_rate_limits(limited)
  PROVE  Inv' /\ Escalated /\ ThirdStops
<1> DEFINE from == IF started = 0 THEN runs + 1 ELSE started
           t == [kind |-> "rate_limits", repo |-> NoRepository, version |-> from]
<1> USE DEF Inv, limits
<1>1. /\ runs' = runs + 1 /\ inARow' = IF limited THEN inARow + 1 ELSE 0
      /\ UNCHANGED <<holds, shown, now, stops, reports, seen>>
  BY DEF record_run_rate_limits
<1>4. {started, runs, inARow, streak} \subseteq Nat
  BY DEF TypeOK
<1>2. /\ from \in Nat /\ from # 0 /\ from <= runs'
      /\ t \in Trigger /\ t.kind = "rate_limits" /\ t.version = from
  <2>1. started <= runs /\ runs' \in Nat
    BY <1>1, <1>4 DEF StreakCounts
  <2>2. from \in Nat /\ from # 0 /\ from <= runs'
    BY <1>1, <1>4, <2>1
  <2> HIDE DEF from
  <2>3. QED
    BY <2>2 DEF Trigger, Kinds, GlobalKinds
<1>3. \A i \in DOMAIN trips : trips[i].trigger.version \in Nat
  BY EventTypes DEF Trigger
<1>5. /\ streak = inARow % 3 /\ streak \in 0..2 /\ 0 % 3 = 0
      /\ streak = 2 => (inARow + 1) % 3 = 0
      /\ streak # 2 => (inARow + 1) % 3 = streak + 1
  BY <1>4, ThirdOfThree DEF StreakCounts
<1>6. CASE limited /\ streak + 1 < 3
  <2>1. /\ streak' = streak + 1 /\ started' = from /\ UNCHANGED breaker
        /\ inARow' = inARow + 1
    BY <1>1, <1>6 DEF record_run_rate_limits
  <2> HIDE DEF t
  <2>2. TypeOK'
    <3>1. streak' \in Nat /\ started' \in Nat /\ inARow' \in Nat /\ runs' \in Nat
      BY <1>1, <1>2, <1>4, <2>1
    <3>2. UNCHANGED <<tripped, epoch, trips>>
      BY <2>1 DEF breaker
    <3>3. QED
      BY <1>1, <3>1, <3>2 DEF TypeOK
  <2>3. BreakerInv'
    BY <1>1, <2>1, BreakerStays
  <2>4. streak # 2 /\ inARow' % 3 = streak + 1
    BY <1>4, <1>5, <1>6, <2>1
  <2>5. StreakCounts'
    BY <1>2, <1>4, <2>1, <2>4 DEF StreakCounts
  <2>6. IncidentsArePast'
    <3> SUFFICES ASSUME NEW i \in DOMAIN trips, trips[i].trigger.kind = "rate_limits"
                 PROVE  trips[i].trigger.version <= runs + 1
                        /\ trips[i].trigger.version < from
      BY <1>1, <2>1 DEF IncidentsArePast, breaker
    <3> DEFINE v == trips[i].trigger.version
    <3>1. v \in Nat /\ v <= runs /\ (started # 0 => v < started)
      BY <1>3 DEF IncidentsArePast
    <3> HIDE DEF v
    <3>2. v <= runs + 1 /\ v < from
      BY <1>4, <3>1
    <3>3. QED
      BY <3>2 DEF v
  <2>7. ThirdStops
    BY <1>4, <2>4 DEF ThirdStops
  <2>8. ShownIsSeen' /\ HoldsOnce' /\ HoldsArePast' /\ TwoRepositoriesStop' /\ Escalated
    BY <1>1, <2>1, TwoStay
       DEF ShownIsSeen, HoldsOnce, HoldsArePast, Escalated, TypeOK, breaker
  <2>9. QED
    BY <2>2, <2>3, <2>5, <2>6, <2>7, <2>8
<1>7. CASE limited /\ ~(streak + 1 < 3)
  <2>1. /\ streak' = 0 /\ started' = 0 /\ _trip_circuit_breaker(t)
        /\ inARow' = inARow + 1
    BY <1>1, <1>7 DEF record_run_rate_limits
  <2>2. streak = 2 /\ inARow' % 3 = 0
    BY <1>4, <1>5, <1>7, <2>1
  <2>3. started # 0 /\ from = started
    BY <2>2 DEF StreakCounts
  <2> HIDE DEF t
  <2>4. TypeOK'
    <3>1. trips' \in Seq(Event) /\ tripped' \in BOOLEAN /\ epoch' = epoch
      BY <1>2, <2>1, TripEffect
    <3>2. {started', runs', inARow', streak'} \subseteq Nat
      BY <1>1, <1>4, <2>1
    <3>3. QED
      BY <1>1, <3>1, <3>2 DEF TypeOK
  <2>5. BreakerInv'
    BY <1>1, <1>2, <2>1, TripKeeps
  <2>6. StreakCounts'
    BY <1>1, <1>4, <2>1, <2>2 DEF StreakCounts
  <2>7. /\ \A i \in DOMAIN trips : trips'[i] = trips[i]
        /\ \A i \in DOMAIN trips' : i \notin DOMAIN trips => trips'[i].trigger = t
    BY <1>2, <2>1, TripEffect
  <2>8. IncidentsArePast'
    <3> SUFFICES ASSUME NEW i \in DOMAIN trips', trips'[i].trigger.kind = "rate_limits"
                 PROVE  trips'[i].trigger.version <= runs'
      BY <2>1 DEF IncidentsArePast
    <3>1. CASE i \in DOMAIN trips
      <4> DEFINE v == trips[i].trigger.version
      <4>1. trips'[i] = trips[i]
        BY <2>7, <3>1
      <4>2. v \in Nat /\ v <= runs
        BY <1>3, <3>1, <4>1 DEF IncidentsArePast
      <4> HIDE DEF v
      <4>3. v <= runs'
        BY <1>1, <1>4, <4>2
      <4>4. QED
        BY <4>1, <4>3 DEF v
    <3>2. CASE i \notin DOMAIN trips
      BY <1>2, <2>7, <3>2
    <3>3. QED
      BY <3>1, <3>2
  <2>9. ~Tripped(t)
    <3> SUFFICES ASSUME NEW i \in DOMAIN trips, trips[i].trigger = t PROVE FALSE
      BY DEF Tripped
    <3>1. t.version < started
      BY <1>2, <2>3 DEF IncidentsArePast
    <3>2. QED
      BY <1>2, <1>4, <2>3, <3>1
  <2>10. ThirdStops
    BY <2>1, <2>9 DEF ThirdStops, _trip_circuit_breaker
  <2>11. TwoRepositoriesStop' /\ Escalated
    BY <1>1, <1>2, <2>1, TripEffect, TwoStay DEF Escalated
  <2>12. ShownIsSeen' /\ HoldsOnce' /\ HoldsArePast'
    BY <1>1 DEF ShownIsSeen, HoldsOnce, HoldsArePast
  <2>13. QED
    BY <2>4, <2>5, <2>6, <2>8, <2>10, <2>11, <2>12
<1>8. CASE ~limited
  <2>1. streak' = 0 /\ started' = 0 /\ inARow' = 0 /\ UNCHANGED breaker
    BY <1>1, <1>8 DEF record_run_rate_limits
  <2> HIDE DEF t
  <2>2. TypeOK'
    <3>1. streak' \in Nat /\ started' \in Nat /\ inARow' \in Nat /\ runs' \in Nat
      BY <1>1, <1>4, <2>1
    <3>2. UNCHANGED <<tripped, epoch, trips>>
      BY <2>1 DEF breaker
    <3>3. QED
      BY <1>1, <3>1, <3>2 DEF TypeOK
  <2>3. BreakerInv'
    BY <1>1, <2>1, BreakerStays
  <2>4. StreakCounts'
    BY <1>1, <1>4, <1>5, <2>1 DEF StreakCounts
  <2>5. IncidentsArePast'
    <3> SUFFICES ASSUME NEW i \in DOMAIN trips, trips[i].trigger.kind = "rate_limits"
                 PROVE  trips[i].trigger.version <= runs + 1
      BY <1>1, <2>1 DEF IncidentsArePast, breaker
    <3> DEFINE v == trips[i].trigger.version
    <3>1. v \in Nat /\ v <= runs
      BY <1>3 DEF IncidentsArePast
    <3> HIDE DEF v
    <3>2. v <= runs + 1
      BY <1>4, <3>1
    <3>3. QED
      BY <3>2 DEF v
  <2>6. ThirdStops
    BY <1>4, <2>1 DEF ThirdStops
  <2>7. ShownIsSeen' /\ HoldsOnce' /\ HoldsArePast' /\ TwoRepositoriesStop' /\ Escalated
    BY <1>1, <2>1, TwoStay
       DEF ShownIsSeen, HoldsOnce, HoldsArePast, Escalated, TypeOK, breaker
  <2>8. QED
    BY <2>2, <2>3, <2>4, <2>5, <2>6, <2>7
<1>9. QED
  BY <1>6, <1>7, <1>8

\* What a step must do: keep the invariant, and turn the stop on with its evidence.
LEMMA NextStep ==
  ASSUME Inv, [Next]_vars
  PROVE  Inv' /\ (Next => Escalated /\ ThirdStops)
<1>1. ASSUME NEW t \in Evidence, Observe(t) PROVE Inv' /\ Escalated /\ ThirdStops
  BY <1>1, ObserveStep
<1>2. ASSUME NEW o \in Operators, circuit_breaker_status(o) \/ resume_circuit_breaker(o)
      PROVE  Inv' /\ Escalated /\ ThirdStops
  BY <1>2, StatusStep, ResumeStep
<1>3. ASSUME NEW h \in holds, release_hold(h) PROVE Inv' /\ Escalated /\ ThirdStops
  BY <1>3, ReleaseStep
<1>4. ASSUME safety_stop \/ ContentBlocked \/ NextDay
      PROVE  Inv' /\ Escalated /\ ThirdStops
  BY <1>4, SafetyStopStep, ContentBlockedStep, NextDayStep
<1>5. ASSUME NEW limited \in BOOLEAN, record_run_rate_limits(limited)
      PROVE  Inv' /\ Escalated /\ ThirdStops
  BY <1>5, RateLimitStep
<1>6. Next => Inv' /\ Escalated /\ ThirdStops
  BY <1>1, <1>2, <1>3, <1>4, <1>5 DEF Next
<1>7. CASE UNCHANGED vars
  <2> USE <1>7 DEF vars, breaker, limits, world, Inv
  <2>1. TypeOK' /\ BreakerInv'
    BY BreakerStays DEF TypeOK
  <2>2. ShownIsSeen' /\ HoldsOnce' /\ HoldsArePast' /\ StreakCounts' /\ IncidentsArePast'
    BY DEF ShownIsSeen, HoldsOnce, HoldsArePast, StreakCounts, IncidentsArePast
  <2>3. TwoRepositoriesStop'
    BY TwoStay
  <2>4. Inv'
    BY <2>1, <2>2, <2>3
  <2>5. QED
    BY <1>6, <2>4
<1>8. QED
  BY <1>6, <1>7

\* The types, the shape of stop and epoch, what an operator was shown, the holds, the
\* rate-limit streak and the incidents that stop everything, in every reachable state
\* (_trip_circuit_breaker, record_stop, resume_circuit_breaker).
THEOREM InvHolds == Spec => []Inv
<1>1. Inv /\ [Next]_vars => Inv'
  BY NextStep
<1>2. QED
  BY InitInv, <1>1, PTL DEF Spec

------------------------------------------------------------------------------
(***************************************************************************)
(* Theorems.                                                               *)
(***************************************************************************)
\* The stop is lifted only by someone who was shown all of it
\* (resume_circuit_breaker): a revision an operator holds is made of triggers that
\* were shown, and it is compared with every trigger of the epoch.
THEOREM ReviewedBeforeResumeHolds == Spec => []ReviewedBeforeResume
<1>1. Inv => ReviewedBeforeResume
  BY DEF Inv, BreakerInv
<1>2. QED
  BY InvHolds, <1>1, PTL

\* The row agrees with the events, and a trigger or a hold is recorded once, for
\* ever (_verify_circuit_breaker_evidence, _trip_circuit_breaker, record_stop).
THEOREM EvidenceIsKeptHolds == Spec => []EvidenceIsKept
<1>1. Inv => EvidenceIsKept
  BY DEF Inv, BreakerInv, EvidenceIsKept, EventsOnce, HoldsOnce, ResumedStaysQuiet
<1>2. QED
  BY InvHolds, <1>1, PTL

\* Two repositories that turned automated work away within the window stop
\* everything (record_stop), for any number of repositories and holds.
THEOREM TwoRepositoriesStopHolds == Spec => []TwoRepositoriesStop
<1>1. Inv => TwoRepositoriesStop
  BY DEF Inv
<1>2. QED
  BY InvHolds, <1>1, PTL

\* The stop comes on with its evidence: an escalation with another repository's
\* hold that stands, and each third limit in a row, whose trigger is never an old
\* one (record_stop, record_run_rate_limits).
THEOREM StopsOnItsEvidenceHolds == Spec => StopsOnItsEvidence
<1>1. Inv /\ [Next]_vars => [Escalated]_vars
  BY NextStep
<1>2. Inv /\ [Next]_vars => [ThirdStops]_vars
  BY NextStep
<1>3. Spec => EscalationStands
  BY InvHolds, <1>1, PTL DEF Spec, EscalationStands, Escalated
<1>4. Spec => EveryThirdLimitStops
  BY InvHolds, <1>2, PTL DEF Spec, EveryThirdLimitStops, ThirdStops
<1>5. QED
  BY <1>3, <1>4 DEF StopsOnItsEvidence

------------------------------------------------------------------------------
(***************************************************************************)
(* Lifecycle: types.  Of holds only what their expiry needs.               *)
(***************************************************************************)
USE LifecycleConstants

SignalKinds == {"automation_stop", "maintainer_stop", "reverted", "changes_requested", "ci_failed"}
Signal == [kind : SignalKinds, version : Nat]
PullRequest == [state : {"open", "closed", "merged"}, changes : Nat, closing : Nat,
                mergedOn : Nat, on : SUBSET Signal]
Reading == {"lists", "confirm", "record", "failed"}
SyncSteps == Reading \cup {"idle", "next", "post"}

Lasts(h) == DOMAIN h = {"trigger", "created", "expires", "released"} /\ h.expires \in Nat

SyncTypes ==
    /\ now \in Nat
    /\ \A h \in holds : Lasts(h)
    /\ pr \in [Repositories -> PullRequest]
    /\ DOMAIN ended = Repositories
    /\ DOMAIN row = Repositories
    /\ \A p \in Repositories : DOMAIN row[p] = {"state", "mergedOn", "attention"}
    /\ lease \in Workers \cup {NoWorker}
    /\ pc \in [Workers -> SyncSteps]
    /\ fresh \in [Workers -> SUBSET Repositories]
    /\ todo \in [Workers -> [open : SUBSET Repositories, merged : SUBSET Repositories]]
    /\ at \in [Workers -> Repositories \cup {NoRepository}]
    /\ \A w \in Workers : pc[w] \in Reading => at[w] \in Repositories
    /\ first \in [Workers -> PullRequest]
    /\ DOMAIN found = Workers /\ DOMAIN left = Workers

------------------------------------------------------------------------------
(***************************************************************************)
(* Lifecycle: the inductive invariant.                                     *)
(***************************************************************************)
\* An old copy of the manifest is marked so before its pull request could be
\* observed again.
OpenWhenListed ==
    \A w \in Workers : \A p \in fresh[w] \cap todo[w].open : row[p].state = "open"

Alone == mishap # "pause" => \A w \in Workers : pc[w] # "idle" => lease = w

NoneHeld == mishap # "pause" => \A w \in Workers : pc[w] = "post" => ~PublicationHeld(at[w])

\* A pull request was closed or merged: the stops it had then stay what they are.
Fixed(p) == pr[p].closing # 0 \/ pr[p].state = "merged"

\* The signals that maintainers write, and the one behind a stop.
Written == {"automation_stop", "maintainer_stop"}
Source(kind) == IF kind = "maintainer_stop_here" THEN "maintainer_stop" ELSE kind

\* A stop of an end is still to be seen, if only by a later edit or another closing.
StillSeen(p, t) ==
    /\ t.version \in Nat
    /\ \/ t.kind = "closed_unmerged" /\ t.version <= pr[p].closing
       \/ /\ t.kind \in Written \cup {"maintainer_stop_here"}
          /\ \E s \in pr[p].on : s.kind = Source(t.kind) /\ t.version <= s.version

EndStays ==
    \A p \in Repositories :
        /\ pr[p].state = "closed" => pr[p].closing # 0
        /\ pr[p].closing <= pr[p].changes
        /\ \A s \in pr[p].on : s.kind \in Written => s.version <= pr[p].changes
        /\ ~Fixed(p) => ended[p] = {}
        /\ \A t \in ended[p] : StillSeen(p, t)

Covers(u, p, t) == u.kind = t.kind /\ u.repo = p /\ u.version >= t.version

\* A stop of the end is recorded, or need not be.
OnRecord(H, state, p, t) ==
    \/ t.kind = "closed_unmerged" /\ state = "merged"
    \/ \E h \in H : Covers(h.trigger, p, t)

\* What a reading that GitHub's count of changes will confirm has seen.
ReadingIsTrue(w) ==
    LET p == at[w] IN
    /\ first[w].changes <= pr[p].changes
    /\ first[w].changes = pr[p].changes =>
          /\ first[w].state = pr[p].state /\ first[w].closing = pr[p].closing
          /\ pc[w] = "confirm" => \A s \in pr[p].on : s.kind \in Written => s \in found[w]
    /\ pc[w] = "confirm" /\ first[w].state = "closed" =>
          [kind |-> "closed_unmerged", version |-> first[w].closing] \in found[w]

RecordingIsWhole(w) ==
    first[w].state # "open" =>
        /\ Fixed(at[w])
        /\ \A t \in ended[at[w]] :
              OnRecord(holds, first[w].state, at[w], t) \/ \E u \in left[w] : Covers(u, at[w], t)

ReadingOk(w) ==
    ~Watching(w) => /\ pc[w] \in {"lists", "confirm"} => ReadingIsTrue(w)
                    /\ pc[w] = "record" => RecordingIsWhole(w)

Readings == \A w \in Workers : ReadingOk(w)

RowsAreRight ==
    \A p \in Repositories :
        row[p].state # "open" =>
            Fixed(p) /\ \A t \in ended[p] : OnRecord(holds, row[p].state, p, t)

Synced == SyncTypes /\ OpenWhenListed /\ Alone /\ NoneHeld /\ EndStays /\ Readings /\ RowsAreRight

----------------------------------------------------------------------------
(***************************************************************************)
(* Lifecycle: what a step leaves alone.                                    *)
(***************************************************************************)
LEMMA SyncInitial == SyncInit => Synced
<1> SUFFICES ASSUME SyncInit PROVE Synced
  OBVIOUS
<1> USE DEF SyncInit, Init, NothingRead
<1>1. SyncTypes
  BY DEF SyncTypes, PullRequest, SyncSteps, Reading
<1>2. OpenWhenListed /\ Alone /\ NoneHeld /\ Readings /\ RowsAreRight
  BY DEF OpenWhenListed, Alone, NoneHeld, Readings, ReadingOk, RowsAreRight, Reading
<1>3. EndStays
  BY DEF EndStays, Fixed
<1>4. QED
  BY <1>1, <1>2, <1>3 DEF Synced

\* A hold is released, never dropped, and every expiry is a day.
HoldsGrow ==
    /\ \A h \in holds : \E g \in holds' : g.trigger = h.trigger
    /\ \A h \in holds' : Lasts(h)

LEMMA SameHolds == ASSUME SyncTypes, holds' = holds PROVE HoldsGrow
  BY DEF HoldsGrow, SyncTypes

LEMMA RecordGrows ==
  ASSUME SyncTypes, NEW t, record_stop(t)
  PROVE  HoldsGrow /\ (t.kind \notin GlobalKinds => \E h \in holds' : h.trigger = t)
<1>1. Hold(t).trigger = t /\ Lasts(Hold(t))
  BY DEF Hold, Lasts, Expires, SyncTypes
<1>2. holds' = holds \/ (holds' = holds \cup {Hold(t)} /\ ~Recorded(t))
  BY DEF record_stop
<1>3. HoldsGrow
  BY <1>1, <1>2 DEF HoldsGrow, SyncTypes
<1>4. ASSUME t.kind \notin GlobalKinds PROVE \E h \in holds' : h.trigger = t
  BY <1>1, <1>4 DEF record_stop, Recorded
<1>5. QED
  BY <1>3, <1>4

LEMMA ReleaseGrows ==
  ASSUME SyncTypes, NEW h \in holds, release_hold(h)
  PROVE  HoldsGrow /\ active_holds' \subseteq active_holds
<1> DEFINE g == [h EXCEPT !.released = TRUE]
<1>1. /\ holds' = (holds \ {h}) \cup {g} /\ now' = now
  BY DEF release_hold, world
<1>2. g.trigger = h.trigger /\ Lasts(g) /\ g.released
  BY DEF SyncTypes, Lasts
<1>3. QED
  BY <1>1, <1>2 DEF HoldsGrow, SyncTypes, active_holds

\* What is on record stays so.
LEMMA OnRecordStays ==
  ASSUME HoldsGrow
  PROVE  \A state, p, t : OnRecord(holds, state, p, t) => OnRecord(holds', state, p, t)
<1> SUFFICES ASSUME NEW state, NEW p, NEW t, NEW h \in holds, Covers(h.trigger, p, t)
             PROVE  OnRecord(holds', state, p, t)
  BY DEF OnRecord
<1> QED
  BY DEF HoldsGrow, OnRecord, Covers

\* Another worker's reading is as true as it was.
LEMMA ReadingFrame ==
  ASSUME Synced, HoldsGrow, UNCHANGED github, NEW v \in Workers, pc'[v] = pc[v],
         at'[v] = at[v], todo'[v] = todo[v], first'[v] = first[v], found'[v] = found[v],
         left'[v] = left[v]
  PROVE  ReadingOk(v)'
<1>1. ReadingOk(v)
  BY DEF Synced, Readings
<1>2. pr' = pr /\ ended' = ended
  BY DEF github
<1>3. Watching(v)' <=> Watching(v)
  BY DEF Watching
<1>4. ReadingIsTrue(v) => ReadingIsTrue(v)'
  BY <1>2 DEF ReadingIsTrue
<1>5. ASSUME RecordingIsWhole(v), first[v].state # "open",
             NEW t \in ended[at[v]]
      PROVE  OnRecord(holds', first[v].state, at[v], t) \/ \E u \in left[v] : Covers(u, at[v], t)
  <2>1. CASE OnRecord(holds, first[v].state, at[v], t)
    BY <2>1, OnRecordStays
  <2>2. QED
    BY <1>5, <2>1 DEF RecordingIsWhole
<1>6. RecordingIsWhole(v) => RecordingIsWhole(v)'
  <2> SUFFICES ASSUME RecordingIsWhole(v), first[v].state # "open"
               PROVE  RecordingIsWhole(v)'
    BY DEF RecordingIsWhole
  <2>1. Fixed(at[v])'
    BY <1>2 DEF RecordingIsWhole, Fixed
  <2>2. ASSUME NEW t \in ended'[at'[v]]
        PROVE  OnRecord(holds', first'[v].state, at'[v], t) \/ \E u \in left'[v] : Covers(u, at'[v], t)
    BY <1>2, <1>5
  <2>3. QED
    BY <2>1, <2>2 DEF RecordingIsWhole
<1>7. QED
  BY <1>1, <1>3, <1>4, <1>6 DEF ReadingOk

\* A row that stays, and an end that stays, with the holds that were there.
LEMMA RowsFrame ==
  ASSUME Synced, HoldsGrow, UNCHANGED github, NEW p \in Repositories, row'[p].state = row[p].state
  PROVE  row'[p].state # "open" =>
             Fixed(p)' /\ \A t \in ended'[p] : OnRecord(holds', row'[p].state, p, t)
<1>1. pr' = pr /\ ended' = ended
  BY DEF github
<1>2. ASSUME NEW t \in ended[p], OnRecord(holds, row[p].state, p, t)
      PROVE  OnRecord(holds', row'[p].state, p, t)
  BY <1>2, OnRecordStays
<1>3. QED
  BY <1>1, <1>2 DEF Synced, RowsAreRight, Fixed

LEMMA EndFrame == ASSUME Synced, UNCHANGED github PROVE EndStays'
  BY DEF Synced, EndStays, github, Fixed, StillSeen

\* A worker goes on under its lease, or gives up; nobody publishes meanwhile.
LEMMA GoAlone ==
  ASSUME Synced, NEW w \in Workers, NEW next \in SyncSteps \ {"post"}, Go(w, next) \/ Quit(w),
         pc[w] # "idle", mishap' = mishap
  PROVE  /\ pc' \in [Workers -> SyncSteps] /\ lease' \in Workers \cup {NoWorker}
         /\ pc'[w] \in {next, "idle"}
         /\ \A v \in Workers \ {w} : pc'[v] = pc[v]
         /\ Alone' /\ NoneHeld'
<1> USE DEF Synced, SyncTypes
<1>1. /\ pc' \in [Workers -> SyncSteps] /\ lease' \in Workers \cup {NoWorker}
      /\ pc'[w] \in {next, "idle"}
      /\ \A v \in Workers \ {w} : pc'[v] = pc[v]
      /\ lease' = lease \/ (lease = w /\ lease' = NoWorker /\ pc'[w] = "idle")
      /\ lease = w \/ pc'[w] = "idle"
  BY DEF Go, Quit, SyncSteps
<1>2. Alone'
  <2> SUFFICES ASSUME mishap # "pause", NEW v \in Workers, pc'[v] # "idle" PROVE lease' = v
    BY DEF Alone
  <2>1. CASE v = w
    BY <1>1, <2>1
  <2>2. CASE v # w
    BY <1>1, <2>2 DEF Alone
  <2>3. QED
    BY <2>1, <2>2
<1>3. NoneHeld'
  <2> SUFFICES ASSUME mishap # "pause", NEW v \in Workers, pc'[v] = "post" PROVE FALSE
    BY DEF NoneHeld
  <2>1. v # w /\ pc[v] = "post"
    BY <1>1
  <2>2. QED
    BY <2>1 DEF Alone
<1>4. QED
  BY <1>1, <1>2, <1>3

------------------------------------------------------------------------------
(***************************************************************************)
(* Lifecycle: the steps of a sync.                                         *)
(***************************************************************************)
LEMMA StartSyncKeeps == ASSUME Synced, NEW w \in Workers, StartSync(w) PROVE Synced'
<1> USE DEF StartSync
<1>1. HoldsGrow
  BY SameHolds DEF Synced, vars
<1>2. SyncTypes'
  BY DEF Synced, SyncTypes, SyncSteps, Reading, vars, world, github
<1>3. OpenWhenListed'
  <2> SUFFICES ASSUME NEW v \in Workers, NEW p \in fresh'[v] \cap todo'[v].open
               PROVE  row[p].state = "open"
    BY DEF OpenWhenListed
  <2>1. CASE v = w
    BY <2>1 DEF Synced, SyncTypes
  <2>2. CASE v # w
    BY <2>2 DEF Synced, SyncTypes, OpenWhenListed
  <2>3. QED
    BY <2>1, <2>2
<1>4. \A v \in Workers : mishap # "pause" => pc[v] = "idle"
  BY DEF Synced, Alone
<1>5. Alone' /\ NoneHeld'
  BY <1>4 DEF Synced, SyncTypes, Alone, NoneHeld
<1>6. ASSUME NEW v \in Workers PROVE ReadingOk(v)'
  <2>1. CASE v = w
    BY <2>1 DEF Synced, SyncTypes, ReadingOk
  <2>2. CASE v # w
    <3>1. pc'[v] = pc[v] /\ todo'[v] = todo[v]
      BY <2>2 DEF Synced, SyncTypes
    <3>2. QED
      BY <1>1, <3>1, ReadingFrame
  <2>3. QED
    BY <2>1, <2>2
<1>7. EndStays' /\ RowsAreRight'
  BY <1>1, EndFrame, RowsFrame DEF RowsAreRight
<1>8. QED
  BY <1>2, <1>3, <1>5, <1>6, <1>7 DEF Synced, Readings

\* A step of one worker that leaves the rows and GitHub alone.
LEMMA ReadStep ==
  ASSUME Synced, NEW w \in Workers, NEW next \in SyncSteps \ {"post"}, Go(w, next) \/ Quit(w),
         pc[w] # "idle", HoldsGrow, UNCHANGED <<now, github, row, fresh, todo, mishap>>,
         at' \in [Workers -> Repositories \cup {NoRepository}],
         at'[w] \in Repositories \/ next \notin Reading,
         first' \in [Workers -> PullRequest], DOMAIN found' = Workers, DOMAIN left' = Workers,
         \A v \in Workers \ {w} : /\ at'[v] = at[v] /\ first'[v] = first[v]
                                  /\ found'[v] = found[v] /\ left'[v] = left[v],
         pc'[w] = next => ReadingOk(w)'
  PROVE  Synced'
<1>1. /\ pc' \in [Workers -> SyncSteps] /\ lease' \in Workers \cup {NoWorker}
      /\ pc'[w] \in {next, "idle"}
      /\ \A v \in Workers \ {w} : pc'[v] = pc[v]
      /\ Alone' /\ NoneHeld'
  BY GoAlone
<1>2. SyncTypes'
  <2>1. ASSUME NEW v \in Workers, pc'[v] \in Reading PROVE at'[v] \in Repositories
    BY <1>1, <2>1 DEF Synced, SyncTypes, Reading
  <2>2. QED
    BY <1>1, <2>1 DEF Synced, SyncTypes, github, HoldsGrow
<1>3. OpenWhenListed'
  BY DEF Synced, OpenWhenListed
<1>4. ASSUME NEW v \in Workers PROVE ReadingOk(v)'
  <2>1. CASE v = w
    <3>1. CASE pc'[w] = "idle"
      BY <2>1, <3>1 DEF ReadingOk
    <3>2. QED
      BY <1>1, <2>1, <3>1
  <2>2. CASE v # w
    BY <1>1, <2>2, ReadingFrame
  <2>3. QED
    BY <2>1, <2>2
<1>5. EndStays' /\ RowsAreRight'
  BY EndFrame, RowsFrame DEF RowsAreRight
<1>6. QED
  BY <1>1, <1>2, <1>3, <1>4, <1>5 DEF Synced, Readings

LEMMA ReadPullRequestKeeps ==
  ASSUME Synced, NEW w \in Workers, ReadPullRequest(w) PROVE Synced'
<1> DEFINE T == IF todo[w].open # {} THEN todo[w].open ELSE todo[w].merged
<1>1. PICK p \in T : /\ at' = [at EXCEPT ![w] = p]
                     /\ first' = [first EXCEPT ![w] = pr[p]]
                     /\ Go(w, IF p \in Unreadable THEN "failed" ELSE "lists")
  BY DEF ReadPullRequest
<1>2. /\ pc[w] = "next"
      /\ UNCHANGED <<vars, github, row, fresh, todo, found, left, posted, events, mishap>>
  BY DEF ReadPullRequest
<1>3. p \in Repositories
  BY DEF Synced, SyncTypes
<1>4. PICK next \in {"failed", "lists"} : Go(w, next)
  BY <1>1
<1>5. /\ at' \in [Workers -> Repositories \cup {NoRepository}] /\ at'[w] = p
      /\ first' \in [Workers -> PullRequest] /\ first'[w] = pr[p]
      /\ \A v \in Workers \ {w} : at'[v] = at[v] /\ first'[v] = first[v]
  BY <1>1, <1>3 DEF Synced, SyncTypes
<1>6. /\ DOMAIN found' = Workers /\ DOMAIN left' = Workers
      /\ UNCHANGED <<now, github, row, fresh, todo, mishap>>
  BY <1>2 DEF Synced, SyncTypes, vars, world
<1>7. ASSUME pc'[w] = next PROVE ReadingOk(w)'
  BY <1>2, <1>3, <1>5, <1>7 DEF ReadingOk, ReadingIsTrue, Synced, SyncTypes, PullRequest, github
<1>8. HoldsGrow
  BY <1>2, SameHolds DEF Synced, vars
<1>9. QED
  BY <1>2, <1>3, <1>4, <1>5, <1>6, <1>7, <1>8, ReadStep DEF SyncSteps, Reading

LEMMA EndSyncKeeps == ASSUME Synced, NEW w \in Workers, EndSync(w) PROVE Synced'
<1>1. /\ pc[w] = "next" /\ Quit(w)
      /\ UNCHANGED <<vars, github, row, fresh, todo, at, first, found, left, posted, events, mishap>>
  BY DEF EndSync
<1>2. HoldsGrow
  BY <1>1, SameHolds DEF Synced, vars
<1>3. pc'[w] = "idle"
  BY <1>1 DEF Quit, Synced, SyncTypes
<1>4. QED
  BY <1>1, <1>2, <1>3, ReadStep
     DEF Synced, SyncTypes, SyncSteps, Reading, ReadingOk, vars, world

LEMMA ReadListsKeeps == ASSUME Synced, NEW w \in Workers, ReadLists(w) PROVE Synced'
<1>1. /\ pc[w] = "lists" /\ Go(w, "confirm")
      /\ UNCHANGED <<vars, github, row, fresh, todo, at, first, left, posted, events, mishap>>
  BY DEF ReadLists
<1> DEFINE p == at[w]
           read == [first[w] EXCEPT !.on = pr[p].on]
<1>2. PICK recorded \in BOOLEAN :
          found' = [found EXCEPT ![w] =
                      IF Watching(w) THEN {s \in pr[p].on : s.kind = "reverted"}
                      ELSE {s \in classify_lifecycle(p, read, recorded) :
                               s.kind = "reverted" => first[w].state = "merged"}]
  BY DEF ReadLists
<1>3. p \in Repositories /\ pr[p] \in PullRequest /\ first[w] \in PullRequest
  BY <1>1 DEF Synced, SyncTypes, Reading
<1>4. HoldsGrow
  BY <1>1, SameHolds DEF Synced, vars
<1>5. ASSUME ~Watching(w)
      PROVE  /\ \A s \in pr[p].on : s.kind \in Written => s \in found'[w]
             /\ first[w].state = "closed" =>
                   [kind |-> "closed_unmerged", version |-> first[w].closing] \in found'[w]
  <2>1. read.on = pr[p].on /\ read.state = first[w].state /\ read.closing = first[w].closing
    BY <1>3 DEF PullRequest
  <2>2. /\ pr[p].on \subseteq classify_lifecycle(p, read, recorded)
        /\ first[w].state = "closed" =>
              [kind |-> "closed_unmerged", version |-> first[w].closing]
                  \in classify_lifecycle(p, read, recorded)
    BY <2>1 DEF classify_lifecycle
  <2>3. found'[w] = {s \in classify_lifecycle(p, read, recorded) :
                        s.kind = "reverted" => first[w].state = "merged"}
    BY <1>2, <1>5 DEF Synced, SyncTypes
  <2>4. QED
    BY <2>2, <2>3 DEF Written
<1>6. ASSUME pc'[w] = "confirm" PROVE ReadingOk(w)'
  <2>1. Watching(w)' <=> Watching(w)
    BY <1>1 DEF Watching
  <2>2. ~Watching(w) => ReadingIsTrue(w)
    BY <1>1 DEF Synced, Readings, ReadingOk
  <2>3. ~Watching(w) => ReadingIsTrue(w)'
    BY <1>1, <1>5, <2>2 DEF ReadingIsTrue, github
  <2>4. QED
    BY <1>6, <2>1, <2>3 DEF ReadingOk
<1>7. DOMAIN found' = Workers /\ \A v \in Workers \ {w} : found'[v] = found[v]
  BY <1>2 DEF Synced, SyncTypes
<1>8. QED
  BY <1>1, <1>3, <1>4, <1>6, <1>7, ReadStep DEF Synced, SyncTypes, SyncSteps, Reading, vars, world

\* The stops that a signal asks for.
LEMMA TriggersOf ==
  ASSUME NEW p, NEW S, NEW s \in S, NEW kind,
         \/ kind \in {"automation_stop", "maintainer_stop", "maintainer_stop_here"}
            /\ s.kind = Source(kind)
         \/ kind = "closed_unmerged" /\ s.kind = kind
  PROVE  [kind |-> kind, repo |-> p, version |-> s.version] \in Triggers(p, S)
<1>1. \E i \in DOMAIN Scopes[s.kind] : Scopes[s.kind][i] = kind
  <2>1. CASE s.kind = "maintainer_stop"
    <3>1. Scopes[s.kind] = <<"maintainer_stop_here", "maintainer_stop">>
      BY <2>1 DEF Scopes
    <3>2. CASE kind = "maintainer_stop_here"
      <4>1. 1 \in DOMAIN Scopes[s.kind] /\ Scopes[s.kind][1] = kind
        BY <3>1, <3>2
      <4>2. QED
        BY <4>1
    <3>3. CASE kind = "maintainer_stop"
      <4>1. 2 \in DOMAIN Scopes[s.kind] /\ Scopes[s.kind][2] = kind
        BY <3>1, <3>3
      <4>2. QED
        BY <4>1
    <3>4. QED
      BY <2>1, <3>2, <3>3 DEF Source
  <2>2. CASE s.kind \in {"automation_stop", "closed_unmerged"}
    <3>1. Scopes[s.kind] = <<s.kind>> /\ kind = s.kind
      BY <2>2 DEF Scopes, Source
    <3>2. 1 \in DOMAIN Scopes[s.kind] /\ Scopes[s.kind][1] = kind
      BY <3>1
    <3>3. QED
      BY <3>2
  <2>3. QED
    BY <2>1, <2>2 DEF Source
<1>2. PICK i \in DOMAIN Scopes[s.kind] : Scopes[s.kind][i] = kind
  BY <1>1
<1>3. [kind |-> kind, repo |-> p, version |-> s.version]
         \in {[kind |-> Scopes[s.kind][j], repo |-> p, version |-> s.version] :
                 j \in DOMAIN Scopes[s.kind]}
  BY <1>2
<1>4. QED
  BY <1>3 DEF Triggers

LEMMA ConfirmKeeps == ASSUME Synced, NEW w \in Workers, Confirm(w) PROVE Synced'
<1> DEFINE p == at[w]
<1>1. /\ pc[w] = "confirm"
      /\ UNCHANGED <<vars, github, row, fresh, todo, at, first, found, posted, events, mishap>>
  BY DEF Confirm
<1>2. PICK next \in {"record", "failed"} : Go(w, next)
  BY DEF Confirm
<1>3. HoldsGrow
  BY <1>1, SameHolds DEF Synced, vars
<1>4. p \in Repositories /\ pr[p] \in PullRequest /\ first[w] \in PullRequest
  BY <1>1 DEF Synced, SyncTypes, Reading
<1>5. DOMAIN left' = Workers /\ \A v \in Workers \ {w} : left'[v] = left[v]
  BY DEF Confirm, Synced, SyncTypes
<1>6. ASSUME pc'[w] = next PROVE ReadingOk(w)'
  <2> SUFFICES ASSUME next = "record", ~Watching(w), first[w].state # "open"
               PROVE  RecordingIsWhole(w)'
    BY <1>1, <1>6 DEF ReadingOk, RecordingIsWhole, Watching
  <2>1. pr[p].changes = first[w].changes /\ left'[w] = Triggers(p, found[w])
    BY <1>1, <1>6 DEF Confirm, Go, Quit, Synced, SyncTypes
  <2>2. ReadingIsTrue(w)
    BY <1>1 DEF Synced, Readings, ReadingOk
  <2>3. /\ first[w].state = pr[p].state /\ first[w].closing = pr[p].closing
        /\ \A s \in pr[p].on : s.kind \in Written => s \in found[w]
        /\ first[w].state = "closed" =>
              [kind |-> "closed_unmerged", version |-> first[w].closing] \in found[w]
    BY <1>1, <2>1, <2>2 DEF ReadingIsTrue
  <2>4. Fixed(p)
    BY <1>4, <2>3 DEF Fixed, Synced, EndStays, PullRequest
  <2>5. ASSUME NEW t \in ended[p]
        PROVE  OnRecord(holds, first[w].state, p, t) \/ \E u \in left'[w] : Covers(u, p, t)
    <3>1. StillSeen(p, t)
      BY <1>4 DEF Synced, EndStays
    <3>2. CASE t.kind = "closed_unmerged" /\ t.version <= pr[p].closing
      <4>1. CASE first[w].state = "merged"
        BY <3>2, <4>1 DEF OnRecord
      <4>2. CASE first[w].state = "closed"
        <5> DEFINE u == [kind |-> "closed_unmerged", repo |-> p, version |-> first[w].closing]
        <5>1. u \in left'[w]
          BY <2>1, <2>3, <4>2, TriggersOf
        <5>2. Covers(u, p, t)
          BY <2>3, <3>2 DEF Covers
        <5>3. QED
          BY <5>1, <5>2
      <4>3. QED
        BY <1>4, <4>1, <4>2 DEF PullRequest
    <3>3. ASSUME t.kind \in Written \cup {"maintainer_stop_here"}, NEW s \in pr[p].on,
                 s.kind = Source(t.kind), t.version <= s.version
          PROVE  \E u \in left'[w] : Covers(u, p, t)
      <4> DEFINE u == [kind |-> t.kind, repo |-> p, version |-> s.version]
      <4>1. s \in found[w]
        BY <2>3, <3>3 DEF Source, Written
      <4>2. u \in left'[w]
        BY <2>1, <3>3, <4>1, TriggersOf DEF Written
      <4>3. Covers(u, p, t)
        BY <3>1, <3>3, <1>4 DEF Covers, StillSeen, PullRequest, Signal
      <4>4. QED
        BY <4>2, <4>3
    <3>4. QED
      BY <3>1, <3>2, <3>3 DEF StillSeen
  <2>6. QED
    BY <1>1, <2>4, <2>5 DEF RecordingIsWhole, Fixed, github, vars
<1>7. QED
  BY <1>1, <1>2, <1>3, <1>4, <1>5, <1>6, ReadStep DEF Synced, SyncTypes, SyncSteps, Reading, vars, world

LEMMA RecordStopsKeep == ASSUME Synced, NEW w \in Workers, _record_stops(w) PROVE Synced'
<1> DEFINE p == at[w]
<1>1. /\ pc[w] = "record" /\ Go(w, "record")
      /\ UNCHANGED <<now, github, row, fresh, todo, at, first, found, mishap>>
  BY DEF _record_stops
<1>2. PICK t \in left[w] : record_stop(t) /\ left' = [left EXCEPT ![w] = @ \ {t}]
  BY DEF _record_stops
<1>3. HoldsGrow /\ (t.kind \notin GlobalKinds => \E h \in holds' : h.trigger = t)
  BY <1>2, RecordGrows DEF Synced
<1>4. /\ DOMAIN left' = Workers /\ left'[w] = left[w] \ {t}
      /\ \A v \in Workers \ {w} : left'[v] = left[v]
  BY <1>2 DEF Synced, SyncTypes
<1>5. p \in Repositories
  BY <1>1 DEF Synced, SyncTypes, Reading
<1>6. ReadingOk(w)'
  <2> SUFFICES ASSUME ~Watching(w), first[w].state # "open" PROVE RecordingIsWhole(w)'
    BY <1>1 DEF ReadingOk, RecordingIsWhole, Watching, Go, Quit, Synced, SyncTypes
  <2>1. RecordingIsWhole(w)
    BY <1>1 DEF Synced, Readings, ReadingOk
  <2>2. ASSUME NEW s \in ended[p]
        PROVE  OnRecord(holds', first[w].state, p, s) \/ \E u \in left'[w] : Covers(u, p, s)
    <3>1. CASE OnRecord(holds, first[w].state, p, s)
      BY <1>3, <3>1, OnRecordStays
    <3>2. ASSUME NEW u \in left[w], Covers(u, p, s), u = t
          PROVE  OnRecord(holds', first[w].state, p, s)
      <4>1. StillSeen(p, s)
        BY <1>5 DEF Synced, EndStays
      <4>2. t.kind \notin GlobalKinds
        BY <3>2, <4>1 DEF Covers, StillSeen, GlobalKinds, Written
      <4>3. QED
        BY <1>3, <3>2, <4>2 DEF OnRecord
    <3>3. QED
      BY <1>4, <2>1, <3>1, <3>2 DEF RecordingIsWhole
  <2>3. Fixed(p)'
    BY <1>1, <2>1 DEF RecordingIsWhole, Fixed, github
  <2>4. QED
    BY <1>1, <2>2, <2>3 DEF RecordingIsWhole, github
<1>7. QED
  BY <1>1, <1>3, <1>4, <1>5, <1>6, ReadStep DEF Synced, SyncTypes, SyncSteps, Reading

\* What a row says of an end stays.
EndsStand ==
    \A p \in Repositories :
        row[p].state # "open" => row'[p].state = row[p].state /\ row'[p].mergedOn = row[p].mergedOn

\* A save, or a pull request that is done without one.
LEMMA SaveStep ==
  ASSUME Synced, NEW w \in Workers, pc[w] \in {"record", "failed"}, NEW new,
         \/ Save(w, at[w], new)
         \/ Go(w, "next") /\ Done(w) /\ UNCHANGED <<row, fresh>>,
         UNCHANGED <<vars, github, at, first, found, left, posted, events, mishap>>,
         DOMAIN new = {"state", "mergedOn", "attention"},
         \/ new.state = row[at[w]].state /\ new.mergedOn = row[at[w]].mergedOn
         \/ /\ at[w] \in fresh[w] => row[at[w]].state = "open"
            /\ new.state # "open" =>
                  Fixed(at[w]) /\ \A t \in ended[at[w]] : OnRecord(holds, new.state, at[w], t)
  PROVE  Synced' /\ EndsStand
<1> DEFINE p == at[w]
<1>1. p \in Repositories /\ pc[w] # "idle"
  BY DEF Synced, SyncTypes, Reading
<1>2. HoldsGrow /\ holds' = holds /\ now' = now
  BY SameHolds DEF Synced, vars, world
<1>3. \/ /\ p \in fresh[w] /\ row' = [row EXCEPT ![p] = new] /\ Done(w)
         /\ fresh' = [x \in Workers |-> IF x = w THEN fresh[x] ELSE fresh[x] \ {p}]
      \/ UNCHANGED <<row, fresh>> /\ (Done(w) \/ UNCHANGED todo)
  BY DEF Save
<1>4. Go(w, "next") \/ Quit(w)
  BY DEF Save
<1>5. /\ pc' \in [Workers -> SyncSteps] /\ lease' \in Workers \cup {NoWorker}
      /\ pc'[w] \in {"next", "idle"}
      /\ \A v \in Workers \ {w} : pc'[v] = pc[v]
      /\ Alone' /\ NoneHeld'
  <2>1. "next" \in SyncSteps \ {"post"} /\ mishap' = mishap
    BY DEF SyncSteps
  <2>2. QED
    BY <1>1, <1>4, <2>1, GoAlone
<1>6. Done(w) =>
         /\ todo' \in [Workers -> [open : SUBSET Repositories, merged : SUBSET Repositories]]
         /\ todo'[w].open = todo[w].open \ {p}
         /\ \A v \in Workers \ {w} : todo'[v] = todo[v]
  <2>1. todo \in [Workers -> [open : SUBSET Repositories, merged : SUBSET Repositories]]
    BY DEF Synced, SyncTypes
  <2>2. QED
    BY <2>1 DEF Done
<1>7. /\ DOMAIN row' = Repositories
      /\ \A q \in Repositories : DOMAIN row'[q] = {"state", "mergedOn", "attention"}
      /\ fresh' \in [Workers -> SUBSET Repositories]
      /\ \A q \in Repositories \ {p} : row'[q] = row[q]
      /\ row'[p] = row[p] \/ (row'[p] = new /\ p \in fresh[w])
  <2>1. /\ DOMAIN row = Repositories
        /\ \A q \in Repositories : DOMAIN row[q] = {"state", "mergedOn", "attention"}
        /\ fresh \in [Workers -> SUBSET Repositories]
    BY DEF Synced, SyncTypes
  <2>2. fresh' \in [Workers -> SUBSET Repositories]
    BY <1>3, <2>1
  <2>3. QED
    BY <1>1, <1>3, <2>1, <2>2
<1>8. SyncTypes'
  <2>1. ASSUME NEW v \in Workers, pc'[v] \in Reading PROVE at'[v] \in Repositories
    BY <1>5, <2>1 DEF Synced, SyncTypes, Reading
  <2>2. QED
    BY <1>2, <1>3, <1>5, <1>6, <1>7, <2>1 DEF Synced, SyncTypes, github, HoldsGrow
<1>9. OpenWhenListed'
  <2> SUFFICES ASSUME NEW v \in Workers, NEW q \in fresh'[v] \cap todo'[v].open
               PROVE  row'[q].state = "open"
    BY DEF OpenWhenListed
  <2>1. q \in fresh[v] /\ q \in todo[v].open
    BY <1>3, <1>6 DEF Synced, SyncTypes
  <2>2. row[q].state = "open"
    BY <2>1 DEF Synced, OpenWhenListed
  <2>3. CASE q # p \/ row' = row
    BY <1>7, <2>1, <2>2, <2>3 DEF Synced, SyncTypes
  <2>4. CASE q = p /\ row' # row
    <3>1. /\ fresh' = [x \in Workers |-> IF x = w THEN fresh[x] ELSE fresh[x] \ {p}]
          /\ Done(w)
      BY <1>3, <2>4
    <3>2. v = w
      BY <2>4, <3>1
    <3>3. QED
      BY <1>6, <2>4, <3>1, <3>2
  <2>5. QED
    BY <2>3, <2>4
<1>10. ASSUME NEW v \in Workers PROVE ReadingOk(v)'
  <2>1. CASE v = w
    BY <1>5, <2>1 DEF ReadingOk
  <2>2. CASE v # w
    <3>1. todo'[v] = todo[v] /\ pc'[v] = pc[v]
      BY <1>3, <1>5, <1>6, <2>2
    <3>2. QED
      BY <1>2, <3>1, ReadingFrame
  <2>3. QED
    BY <2>1, <2>2
<1>11. ASSUME NEW q \in Repositories
       PROVE  row'[q].state # "open" =>
                  Fixed(q)' /\ \A t \in ended'[q] : OnRecord(holds', row'[q].state, q, t)
  <2>1. CASE row'[q].state = row[q].state
    BY <1>2, <2>1, RowsFrame
  <2>2. CASE row'[q].state # row[q].state
    <3>1. q = p /\ row'[p] = new /\ new.state # row[p].state
      BY <1>7, <2>2
    <3>2. QED
      BY <1>2, <3>1 DEF Fixed, github
  <2>3. QED
    BY <2>1, <2>2
<1>12. EndStays'
  BY EndFrame
<1>13. EndsStand
  BY <1>7 DEF EndsStand
<1>14. QED
  BY <1>5, <1>8, <1>9, <1>10, <1>11, <1>12, <1>13 DEF Synced, Readings, RowsAreRight

LEMMA RecordOnRunKeeps ==
  ASSUME Synced, NEW w \in Workers, _record_on_run(w) PROVE Synced' /\ EndsStand
<1> DEFINE p == at[w]
           new == [state |-> first[w].state, mergedOn |-> first[w].mergedOn,
                   attention |-> row[p].attention \cup Attention(found[w])]
<1>1. /\ pc[w] = "record" /\ left[w] = {}
      /\ UNCHANGED <<vars, github, at, first, found, left, posted, events, mishap>>
  BY DEF _record_on_run, AllRecorded
<1>2. CASE Watching(w)
  <2> DEFINE old == [state |-> row[p].state, mergedOn |-> row[p].mergedOn, attention |-> {}]
  <2>1. Go(w, "next") /\ Done(w) /\ UNCHANGED <<row, fresh>>
    BY <1>2 DEF _record_on_run
  <2>2. old.state = row[p].state /\ old.mergedOn = row[p].mergedOn
    OBVIOUS
  <2>3. DOMAIN old = {"state", "mergedOn", "attention"}
    OBVIOUS
  <2> HIDE DEF old
  <2>4. QED
    BY <1>1, <2>1, <2>2, <2>3, SaveStep
<1>3. CASE ~Watching(w)
  <2>1. Save(w, p, new)
    BY <1>3 DEF _record_on_run
  <2>2. p \in todo[w].open
    BY <1>3 DEF Watching
  <2>3. p \in fresh[w] => row[p].state = "open"
    BY <2>2 DEF Synced, OpenWhenListed
  <2>4. RecordingIsWhole(w)
    BY <1>1, <1>3 DEF Synced, Readings, ReadingOk
  <2>5. new.state # "open" => Fixed(p) /\ \A t \in ended[p] : OnRecord(holds, new.state, p, t)
    BY <1>1, <2>4 DEF RecordingIsWhole
  <2>6. DOMAIN new = {"state", "mergedOn", "attention"}
    OBVIOUS
  <2> HIDE DEF new
  <2>7. QED
    BY <1>1, <2>1, <2>3, <2>5, <2>6, SaveStep
<1>4. QED
  BY <1>2, <1>3

LEMMA ObservationFailedKeeps ==
  ASSUME Synced, NEW w \in Workers, ObservationFailed(w) PROVE Synced' /\ EndsStand
<1> DEFINE new == [row[at[w]] EXCEPT !.attention =
                      @ \cup {[kind |-> "observation_failed", version |-> 0]}]
<1>1. /\ pc[w] = "failed" /\ Save(w, at[w], new)
      /\ UNCHANGED <<vars, github, at, first, found, left, posted, events, mishap>>
  BY DEF ObservationFailed
<1>2. DOMAIN row[at[w]] = {"state", "mergedOn", "attention"}
  BY <1>1 DEF Synced, SyncTypes, Reading
<1>3. /\ DOMAIN new = {"state", "mergedOn", "attention"}
      /\ new.state = row[at[w]].state /\ new.mergedOn = row[at[w]].mergedOn
  BY <1>2
<1> HIDE DEF new
<1>4. QED
  BY <1>1, <1>3, SaveStep

------------------------------------------------------------------------------
(***************************************************************************)
(* Lifecycle: publications, mishaps, and the world.                        *)
(***************************************************************************)
LEMMA PostKeeps == ASSUME Synced, NEW w \in Workers, Post(w) PROVE Synced'
<1>1. /\ pc[w] = "post" /\ Quit(w)
      /\ UNCHANGED <<vars, github, row, fresh, todo, at, first, found, left, events, mishap>>
  BY DEF Post
<1>2. HoldsGrow
  BY <1>1, SameHolds DEF Synced, vars
<1>3. pc'[w] = "idle"
  BY <1>1 DEF Quit, Synced, SyncTypes
<1>4. QED
  BY <1>1, <1>2, <1>3, ReadStep
     DEF Synced, SyncTypes, SyncSteps, Reading, ReadingOk, vars, world

\* Steps that touch neither rows nor GitHub nor what workers read.
LEMMA QuietStep ==
  ASSUME Synced, HoldsGrow, UNCHANGED <<github, row, fresh, todo, first, found, left>>,
         now' \in Nat, lease' \in Workers \cup {NoWorker}, pc' \in [Workers -> SyncSteps],
         at' \in [Workers -> Repositories \cup {NoRepository}],
         \A w \in Workers : (pc'[w] = pc[w] /\ at'[w] = at[w]) \/ pc'[w] \in {"idle", "post"},
         Alone', NoneHeld'
  PROVE  Synced'
<1>1. SyncTypes'
  <2>1. ASSUME NEW w \in Workers, pc'[w] \in Reading PROVE at'[w] \in Repositories
    BY <2>1 DEF Synced, SyncTypes, Reading
  <2>2. QED
    BY <2>1 DEF Synced, SyncTypes, HoldsGrow, github
<1>2. OpenWhenListed'
  BY DEF Synced, OpenWhenListed
<1>3. ASSUME NEW w \in Workers PROVE ReadingOk(w)'
  <2>1. CASE pc'[w] = pc[w] /\ at'[w] = at[w]
    BY <2>1, ReadingFrame
  <2>2. CASE pc'[w] \in {"idle", "post"}
    BY <2>2 DEF ReadingOk
  <2>3. QED
    BY <2>1, <2>2
<1>4. EndStays' /\ RowsAreRight'
  BY EndFrame, RowsFrame DEF RowsAreRight
<1>5. QED
  BY <1>1, <1>2, <1>3, <1>4 DEF Synced, Readings

LEMMA AbortKeeps == ASSUME Synced, NEW w \in Workers, Abort(w) PROVE Synced'
<1>1. /\ pc' = [pc EXCEPT ![w] = "idle"] /\ lease' \in {lease, NoWorker}
      /\ lease' = lease \/ lease = w
      /\ mishap = "none"
      /\ UNCHANGED <<vars, github, row, fresh, todo, at, first, found, left>>
  BY DEF Abort, Quit
<1>2. HoldsGrow
  BY <1>1, SameHolds DEF Synced, vars
<1>3. /\ pc' \in [Workers -> SyncSteps] /\ pc'[w] = "idle"
      /\ \A v \in Workers \ {w} : pc'[v] = pc[v]
  BY <1>1 DEF Synced, SyncTypes, SyncSteps
<1>4. Alone'
  <2> SUFFICES ASSUME NEW v \in Workers, pc'[v] # "idle" PROVE lease' = v
    BY DEF Alone
  <2>1. v # w /\ lease = v
    BY <1>1, <1>3 DEF Synced, Alone
  <2>2. QED
    BY <1>1, <2>1
<1>5. NoneHeld'
  <2> SUFFICES ASSUME NEW v \in Workers, pc'[v] = "post" PROVE ~(PublicationHeld(at[v])')
    BY DEF NoneHeld
  <2>1. v # w /\ pc[v] = "post"
    BY <1>3
  <2>2. ~PublicationHeld(at[v])
    BY <1>1, <2>1 DEF Synced, NoneHeld
  <2>3. QED
    BY <1>1, <2>2 DEF PublicationHeld, active_holds, vars, world
<1>6. QED
  BY <1>1, <1>2, <1>3, <1>4, <1>5, QuietStep DEF Synced, SyncTypes, vars, world

LEMMA LapseKeeps == ASSUME Synced, Lapse PROVE Synced'
<1>1. /\ lease # NoWorker /\ lease' = NoWorker
      /\ UNCHANGED <<vars, github, row, worker>>
      /\ mishap' = "pause" \/ (pc[lease] = "idle" /\ mishap' = mishap)
  BY DEF Lapse
<1>2. HoldsGrow
  BY <1>1, SameHolds DEF Synced, vars
<1>3. Alone' /\ NoneHeld'
  <2> SUFFICES ASSUME mishap' # "pause", NEW v \in Workers, pc'[v] # "idle" PROVE FALSE
    BY DEF Alone, NoneHeld
  <2>1. pc[lease] = "idle" /\ mishap # "pause" /\ pc[v] # "idle"
    BY <1>1 DEF worker
  <2>2. QED
    BY <2>1 DEF Synced, Alone
<1>4. QED
  BY <1>1, <1>2, <1>3, QuietStep DEF Synced, SyncTypes, vars, world, worker

LEMMA StartPublishKeeps ==
  ASSUME Synced, NEW w \in Workers, NEW p \in Repositories, StartPublish(w, p) PROVE Synced'
<1>1. /\ pc[w] = "idle" /\ lease = NoWorker /\ ~PublicationHeld(p)
      /\ lease' = w /\ pc' = [pc EXCEPT ![w] = "post"] /\ at' = [at EXCEPT ![w] = p]
      /\ UNCHANGED <<vars, github, row, fresh, todo, first, found, left, mishap>>
  BY DEF StartPublish
<1>2. HoldsGrow
  BY <1>1, SameHolds DEF Synced, vars
<1>3. /\ pc' \in [Workers -> SyncSteps] /\ pc'[w] = "post"
      /\ at' \in [Workers -> Repositories \cup {NoRepository}] /\ at'[w] = p
      /\ \A v \in Workers \ {w} : pc'[v] = pc[v] /\ at'[v] = at[v]
  BY <1>1 DEF Synced, SyncTypes, SyncSteps
<1>4. mishap # "pause" => \A v \in Workers : pc[v] = "idle"
  BY <1>1 DEF Synced, Alone
<1>5. Alone'
  BY <1>1, <1>3, <1>4 DEF Alone
<1>6. NoneHeld'
  <2> SUFFICES ASSUME mishap # "pause", NEW v \in Workers, pc'[v] = "post"
               PROVE  ~(PublicationHeld(at[v])')
    BY <1>1 DEF NoneHeld
  <2>1. at'[v] = p
    BY <1>3, <1>4
  <2>2. QED
    BY <1>1, <2>1 DEF PublicationHeld, active_holds, vars, world
<1>7. QED
  BY <1>1, <1>2, <1>3, <1>5, <1>6, QuietStep DEF Synced, SyncTypes, vars, world

LEMMA OutsideKeeps == ASSUME Synced, Outside PROVE Synced'
<1>1. UNCHANGED <<github, row, lease, worker, mishap>>
  BY DEF Outside
<1>2. HoldsGrow /\ now' \in Nat /\ active_holds' \subseteq active_holds
  <2>1. ASSUME NEW h \in holds, release_hold(h) PROVE HoldsGrow /\ now' \in Nat /\ active_holds' \subseteq active_holds
    BY <2>1, ReleaseGrows DEF Synced, SyncTypes, release_hold, world
  <2>2. ASSUME NEW o \in Operators, circuit_breaker_status(o) \/ resume_circuit_breaker(o)
        PROVE  HoldsGrow /\ now' \in Nat /\ active_holds' \subseteq active_holds
    <3>1. holds' = holds /\ now' = now
      BY <2>2 DEF circuit_breaker_status, resume_circuit_breaker, world
    <3>2. QED
      BY <3>1, SameHolds DEF Synced, SyncTypes, active_holds
  <2>3. ASSUME NextDay PROVE HoldsGrow /\ now' \in Nat /\ active_holds' \subseteq active_holds
    <3>1. holds' = holds /\ now' = now + 1
      BY <2>3 DEF NextDay
    <3>2. \A h \in holds : h.expires \in Nat
      BY DEF Synced, SyncTypes, Lasts
    <3>3. QED
      BY <3>1, <3>2, SameHolds DEF Synced, SyncTypes, active_holds
  <2>4. QED
    BY <2>1, <2>2, <2>3 DEF Outside
<1>3. Alone' /\ NoneHeld'
  <2>1. \A q : PublicationHeld(q)' => PublicationHeld(q)
    BY <1>2 DEF PublicationHeld
  <2>2. QED
    BY <1>1, <2>1 DEF Synced, Alone, NoneHeld, worker
<1>4. QED
  BY <1>1, <1>2, <1>3, QuietStep DEF Synced, SyncTypes, worker

\* Something happens to a pull request.  An end that was there keeps its stops, and
\* GitHub's count goes up unless maintainers wrote nothing and the state is the same.
LEMMA WorldStep ==
  ASSUME Synced, NEW p \in Repositories, NEW new \in PullRequest, pr' = [pr EXCEPT ![p] = new],
         UNCHANGED <<vars, row, lease, worker, mishap>>,
         DOMAIN ended' = Repositories,
         \A q \in Repositories \ {p} : ended'[q] = ended[q],
         Fixed(p) => Fixed(p)' /\ ended'[p] = ended[p],
         \/ new.changes > pr[p].changes
         \/ /\ new.changes = pr[p].changes /\ new.state = pr[p].state
            /\ new.closing = pr[p].closing
            /\ \A s \in new.on : s.kind \in Written => s \in pr[p].on,
         new.state = "closed" => new.closing # 0,
         new.closing <= new.changes,
         \A s \in new.on : s.kind \in Written => s.version <= new.changes,
         ~Fixed(p)' => ended'[p] = {},
         \A t \in ended'[p] : StillSeen(p, t)'
  PROVE  Synced'
<1>1. HoldsGrow /\ holds' = holds
  BY SameHolds DEF Synced, vars
<1>2. /\ pr' \in [Repositories -> PullRequest] /\ pr'[p] = new
      /\ \A q \in Repositories \ {p} : pr'[q] = pr[q]
  BY DEF Synced, SyncTypes
<1>3. SyncTypes' /\ OpenWhenListed' /\ Alone' /\ NoneHeld'
  <2>1. SyncTypes'
    BY <1>2 DEF Synced, SyncTypes, vars, world, worker
  <2>2. OpenWhenListed' /\ Alone'
    BY DEF Synced, OpenWhenListed, Alone, worker
  <2>3. NoneHeld'
    BY DEF Synced, NoneHeld, PublicationHeld, active_holds, vars, world, worker
  <2>4. QED
    BY <2>1, <2>2, <2>3
<1>4. EndStays'
  <2> SUFFICES ASSUME NEW q \in Repositories
               PROVE  /\ pr'[q].state = "closed" => pr'[q].closing # 0
                      /\ pr'[q].closing <= pr'[q].changes
                      /\ \A s \in pr'[q].on : s.kind \in Written => s.version <= pr'[q].changes
                      /\ ~Fixed(q)' => ended'[q] = {}
                      /\ \A t \in ended'[q] : StillSeen(q, t)'
    BY DEF EndStays
  <2>1. CASE q = p
    BY <1>2, <2>1
  <2>2. CASE q # p
    BY <1>2, <2>2 DEF Synced, EndStays, Fixed, StillSeen
  <2>3. QED
    BY <2>1, <2>2
<1>5. \A q \in Repositories : Fixed(q) => Fixed(q)' /\ ended'[q] = ended[q]
  BY <1>2 DEF Fixed
<1>6. ASSUME NEW w \in Workers PROVE ReadingOk(w)'
  <2> SUFFICES ASSUME ~Watching(w)
               PROVE  /\ pc[w] \in {"lists", "confirm"} => ReadingIsTrue(w)'
                      /\ pc[w] = "record" => RecordingIsWhole(w)'
    BY DEF ReadingOk, Watching, worker
  <2>1. ASSUME pc[w] \in {"lists", "confirm"} PROVE ReadingIsTrue(w)'
    <3>1. at[w] \in Repositories /\ first[w] \in PullRequest /\ pr[at[w]] \in PullRequest
      BY <2>1 DEF Synced, SyncTypes, Reading
    <3>2. ReadingIsTrue(w)
      BY <2>1 DEF Synced, Readings, ReadingOk
    <3>3. CASE at[w] # p
      BY <1>2, <3>1, <3>2, <3>3 DEF ReadingIsTrue, worker
    <3>4. CASE at[w] = p
      BY <1>2, <3>1, <3>2, <3>4 DEF ReadingIsTrue, worker, PullRequest
    <3>5. QED
      BY <3>3, <3>4
  <2>2. ASSUME pc[w] = "record" PROVE RecordingIsWhole(w)'
    <3>1. at[w] \in Repositories /\ RecordingIsWhole(w)
      BY <2>2 DEF Synced, SyncTypes, Reading, Readings, ReadingOk
    <3>2. QED
      BY <1>1, <1>5, <3>1 DEF RecordingIsWhole, worker
  <2>3. QED
    BY <2>1, <2>2
<1>7. RowsAreRight'
  BY <1>1, <1>5 DEF Synced, RowsAreRight
<1>8. QED
  BY <1>3, <1>4, <1>6, <1>7 DEF Synced, Readings

\* The stops of what is on a pull request and of its end come from there.
LEMMA StopsAreSeen ==
  ASSUME NEW p, NEW state, NEW n \in Nat, NEW on \in SUBSET Signal, NEW t \in Stops(p, state, n, on)
  PROVE  /\ t.version \in Nat
         /\ \/ t.kind = "closed_unmerged" /\ state = "closed" /\ t.version = n
            \/ /\ t.kind \in Written \cup {"maintainer_stop_here"}
               /\ \E s \in on : s.kind = Source(t.kind) /\ t.version = s.version
<1> DEFINE end == IF state = "closed"
                  THEN {[kind |-> "closed_unmerged", version |-> n]} ELSE {}
           S == {s \in on : s.kind # "reverted"} \cup end
<1>1. t \in Triggers(p, S)
  BY DEF Stops
<1>2. PICK s \in S : t \in {[kind |-> Scopes[s.kind][i], repo |-> p, version |-> s.version] :
                               i \in DOMAIN Scopes[s.kind]}
  BY <1>1 DEF Triggers
<1>3. PICK i \in DOMAIN Scopes[s.kind] :
         t = [kind |-> Scopes[s.kind][i], repo |-> p, version |-> s.version]
  BY <1>2
<1>4. t.kind = Scopes[s.kind][i] /\ t.version = s.version
  BY <1>3
<1>5. CASE s \in end
  <2>1. s = [kind |-> "closed_unmerged", version |-> n] /\ state = "closed"
    BY <1>5
  <2>2. Scopes[s.kind] = <<"closed_unmerged">>
    BY <2>1 DEF Scopes
  <2>3. QED
    BY <1>3, <1>4, <2>1, <2>2
<1>6. CASE s \in on /\ s.kind # "reverted"
  <2>1. s.version \in Nat /\ s.kind \in SignalKinds
    BY <1>6 DEF Signal
  <2>2. CASE s.kind = "automation_stop"
    <3>1. Scopes[s.kind] = <<"automation_stop">>
      BY <2>2 DEF Scopes
    <3>2. QED
      BY <1>3, <1>4, <1>6, <2>1, <2>2, <3>1 DEF Written, Source
  <2>3. CASE s.kind = "maintainer_stop"
    <3>1. Scopes[s.kind] = <<"maintainer_stop_here", "maintainer_stop">>
      BY <2>3 DEF Scopes
    <3>2. t.kind \in {"maintainer_stop_here", "maintainer_stop"}
      BY <1>3, <1>4, <3>1
    <3>3. QED
      BY <1>4, <1>6, <2>1, <2>3, <3>2 DEF Written, Source
  <2>4. CASE s.kind \in {"changes_requested", "ci_failed"}
    <3>1. Scopes[s.kind] = <<>>
      BY <2>4 DEF Scopes
    <3>2. QED
      BY <1>3, <3>1
  <2>5. QED
    BY <1>6, <2>1, <2>2, <2>3, <2>4 DEF SignalKinds
<1>7. QED
  BY <1>5, <1>6

LEMMA ChangeKeeps ==
  ASSUME Synced, NEW p \in Repositories, NEW state \in {"open", "closed", "merged"},
         NEW on \in SUBSET Signal, Change(p, state, on),
         state = pr[p].state \/ pr[p].state = "open" \/ (pr[p].state = "closed" /\ state = "open"),
         \A s \in on : s.kind \in Written => s.version <= pr[p].changes + 1,
         \A s \in pr[p].on : s.kind \in Written =>
             \E u \in on : u.kind = s.kind /\ s.version <= u.version
  PROVE  Synced'
<1> DEFINE n == pr[p].changes + 1
           turned == state # pr[p].state
           closing == IF turned /\ state = "closed" THEN n ELSE pr[p].closing
           day == IF turned /\ state = "merged" THEN now ELSE pr[p].mergedOn
           new == [state |-> state, changes |-> n, on |-> on, closing |-> closing,
                   mergedOn |-> day]
<1>1. /\ pr' = [pr EXCEPT ![p] = new]
      /\ ended' = [ended EXCEPT ![p] =
                     IF ~turned \/ pr[p].closing # 0 THEN @ ELSE Stops(p, state, n, on)]
      /\ UNCHANGED <<vars, row, lease, worker, mishap>>
  BY DEF Change
<1>2. pr[p] \in PullRequest /\ now \in Nat
  BY DEF Synced, SyncTypes
<1>3. /\ new \in PullRequest /\ new.state = state /\ new.changes = n /\ new.closing = closing
      /\ new.on = on /\ n \in Nat /\ n > pr[p].changes /\ n # 0
  BY <1>2 DEF PullRequest
<1> HIDE DEF new
<1>4. /\ pr'[p] = new
      /\ DOMAIN ended' = Repositories
      /\ \A q \in Repositories \ {p} : ended'[q] = ended[q]
      /\ ended'[p] = IF ~turned \/ pr[p].closing # 0 THEN ended[p] ELSE Stops(p, state, n, on)
  BY <1>1 DEF Synced, SyncTypes
<1>5. /\ pr[p].state = "closed" => pr[p].closing # 0
      /\ pr[p].closing <= pr[p].changes
      /\ ~Fixed(p) => ended[p] = {}
      /\ \A t \in ended[p] : StillSeen(p, t)
  BY DEF Synced, EndStays
<1>6. Fixed(p)' <=> (closing # 0 \/ state = "merged")
  BY <1>3, <1>4 DEF Fixed
<1>7. Fixed(p) => Fixed(p)' /\ ended'[p] = ended[p]
  BY <1>2, <1>3, <1>4, <1>6 DEF Fixed, PullRequest
<1>8. new.state = "closed" => new.closing # 0
  BY <1>3, <1>5
<1>9. new.closing <= new.changes
  BY <1>2, <1>3, <1>5 DEF PullRequest
<1>10. ~Fixed(p)' => ended'[p] = {}
  BY <1>2, <1>3, <1>4, <1>5, <1>6 DEF Fixed, PullRequest
<1>11. ASSUME NEW t \in ended'[p] PROVE StillSeen(p, t)'
  <2>1. CASE ended'[p] = ended[p]
    <3>1. StillSeen(p, t)
      BY <1>5, <2>1
    <3>2. CASE t.kind = "closed_unmerged" /\ t.version <= pr[p].closing
      BY <1>2, <1>3, <1>4, <1>5, <3>1, <3>2 DEF StillSeen, PullRequest
    <3>3. ASSUME t.kind \in Written \cup {"maintainer_stop_here"}, NEW s \in pr[p].on,
                 s.kind = Source(t.kind), t.version <= s.version
          PROVE  StillSeen(p, t)'
      <4>1. PICK u \in on : u.kind = s.kind /\ s.version <= u.version
        BY <3>3 DEF Written, Source
      <4>2. s.version \in Nat /\ u.version \in Nat /\ t.version \in Nat
        BY <1>2, <3>1 DEF StillSeen, PullRequest, Signal
      <4>3. t.version <= u.version
        BY <3>3, <4>1, <4>2
      <4>4. QED
        BY <1>3, <1>4, <3>3, <4>1, <4>2, <4>3 DEF StillSeen
    <3>4. QED
      BY <3>1, <3>2, <3>3 DEF StillSeen
  <2>2. CASE turned /\ pr[p].closing = 0
    <3>1. t \in Stops(p, state, n, on)
      BY <1>4, <2>2
    <3>2. /\ t.version \in Nat
          /\ \/ t.kind = "closed_unmerged" /\ state = "closed" /\ t.version = n
             \/ /\ t.kind \in Written \cup {"maintainer_stop_here"}
                /\ \E s \in on : s.kind = Source(t.kind) /\ t.version = s.version
      BY <1>3, <3>1, StopsAreSeen
    <3>3. QED
      BY <1>3, <1>4, <2>2, <3>2 DEF StillSeen, Signal
  <2>3. QED
    BY <1>4, <2>1, <2>2
<1>12. /\ new.changes > pr[p].changes
       /\ \A s \in new.on : s.kind \in Written => s.version <= new.changes
       /\ pr' = [pr EXCEPT ![p] = new]
  BY <1>1, <1>3
<1>13. QED
  BY <1>1, <1>3, <1>4, <1>7, <1>8, <1>9, <1>10, <1>11, <1>12, WorldStep

LEMMA GitHubKeeps ==
  ASSUME Synced, NEW p \in Repositories,
         \/ Write(p) \/ Close(p) \/ Reopen(p) \/ Merge(p) \/ Revert(p) \/ CheckFails(p) \/ Push(p)
  PROVE  Synced'
<1>1. /\ pr[p] \in PullRequest
      /\ \A s \in pr[p].on : s \in Signal /\ (s.kind \in Written => s.version <= pr[p].changes)
  BY DEF Synced, SyncTypes, EndStays, PullRequest
<1>2. /\ pr[p].state \in {"open", "closed", "merged"} /\ pr[p].changes \in Nat
      /\ pr[p].on \in SUBSET Signal
      /\ \A s \in pr[p].on : s.version \in Nat
      /\ \A s \in pr[p].on : s.kind \in Written => s.version <= pr[p].changes + 1
      /\ \A s \in pr[p].on : s.kind \in Written =>
            \E u \in pr[p].on : u.kind = s.kind /\ s.version <= u.version
  BY <1>1 DEF PullRequest, Signal
<1>3. CASE Write(p)
  <2>1. PICK k \in {"automation_stop", "maintainer_stop", "changes_requested"} :
          Change(p, pr[p].state, {s \in pr[p].on : s.kind # k}
                                 \cup {[kind |-> k, version |-> pr[p].changes + 1]})
    BY <1>3 DEF Write
  <2> DEFINE s0 == [kind |-> k, version |-> pr[p].changes + 1]
             on == {s \in pr[p].on : s.kind # k} \cup {s0}
  <2>2. s0 \in Signal /\ s0.kind = k /\ s0.version = pr[p].changes + 1
    BY <1>2 DEF Signal, SignalKinds
  <2> HIDE DEF s0
  <2>3. /\ on \in SUBSET Signal
        /\ \A s \in on : s.kind \in Written => s.version <= pr[p].changes + 1
        /\ \A s \in pr[p].on : s.kind \in Written =>
              \E u \in on : u.kind = s.kind /\ s.version <= u.version
    BY <1>2, <2>2
  <2>4. Change(p, pr[p].state, on)
    BY <2>1 DEF s0
  <2> HIDE DEF on
  <2>5. QED
    BY <1>2, <2>3, <2>4, ChangeKeeps
<1>4. CASE Close(p)
  BY <1>2, <1>4, ChangeKeeps DEF Close
<1>5. CASE Reopen(p)
  BY <1>2, <1>5, ChangeKeeps DEF Reopen
<1>6. CASE Merge(p)
  BY <1>2, <1>6, ChangeKeeps DEF Merge
<1>7. CASE Revert(p)
  <2> DEFINE on == pr[p].on \cup {[kind |-> "reverted", version |-> 1]}
  <2>1. /\ on \in SUBSET Signal
        /\ \A s \in on : s.kind \in Written => s.version <= pr[p].changes + 1
        /\ \A s \in pr[p].on : s.kind \in Written =>
              \E u \in on : u.kind = s.kind /\ s.version <= u.version
    BY <1>2 DEF Signal, SignalKinds, Written
  <2>2. Change(p, "merged", on) /\ pr[p].state = "merged"
    BY <1>7 DEF Revert
  <2> HIDE DEF on
  <2>3. QED
    BY <2>1, <2>2, ChangeKeeps
<1>8. CASE CheckFails(p)
  <2> DEFINE on == pr[p].on \cup {[kind |-> "ci_failed", version |-> 1]}
             new == [pr[p] EXCEPT !.on = on]
  <2>1. pr' = [pr EXCEPT ![p] = new] /\ ended' = ended
        /\ UNCHANGED <<vars, row, lease, worker, mishap>>
    BY <1>8 DEF CheckFails
  <2>2. /\ on \in SUBSET Signal
        /\ \A s \in on : s.kind \in Written => s \in pr[p].on
        /\ pr[p].on \subseteq on
    BY <1>2 DEF Signal, SignalKinds, Written
  <2>3. /\ new \in PullRequest /\ new.state = pr[p].state /\ new.changes = pr[p].changes
        /\ new.closing = pr[p].closing /\ new.on = on
    BY <1>1, <2>2 DEF PullRequest
  <2> HIDE DEF new, on
  <2>4. pr'[p] = new
    BY <2>1 DEF Synced, SyncTypes
  <2>5. /\ Fixed(p)' <=> Fixed(p)
        /\ \A t : StillSeen(p, t) => StillSeen(p, t)'
    BY <2>2, <2>3, <2>4 DEF Fixed, StillSeen
  <2>6. /\ pr[p].state = "closed" => pr[p].closing # 0
        /\ pr[p].closing <= pr[p].changes
        /\ \A s \in pr[p].on : s.kind \in Written => s.version <= pr[p].changes
        /\ ~Fixed(p) => ended[p] = {}
        /\ \A t \in ended[p] : StillSeen(p, t)
        /\ DOMAIN ended = Repositories
    BY DEF Synced, SyncTypes, EndStays
  <2>7. QED
    BY <2>1, <2>2, <2>3, <2>5, <2>6, WorldStep
<1>9. CASE Push(p)
  <2> DEFINE new == [pr[p] EXCEPT !.changes = @ + 1]
  <2>1. pr' = [pr EXCEPT ![p] = new] /\ ended' = ended
        /\ UNCHANGED <<vars, row, lease, worker, mishap>>
    BY <1>9 DEF Push
  <2>2. /\ new \in PullRequest /\ new.state = pr[p].state /\ new.changes = pr[p].changes + 1
        /\ new.closing = pr[p].closing /\ new.on = pr[p].on
    BY <1>1 DEF PullRequest
  <2> HIDE DEF new
  <2>3. pr'[p] = new
    BY <2>1 DEF Synced, SyncTypes
  <2>4. /\ Fixed(p)' <=> Fixed(p)
        /\ \A t : StillSeen(p, t) => StillSeen(p, t)'
    BY <2>2, <2>3 DEF Fixed, StillSeen
  <2>5. /\ pr[p].state = "closed" => pr[p].closing # 0
        /\ pr[p].closing <= pr[p].changes
        /\ ~Fixed(p) => ended[p] = {}
        /\ \A t \in ended[p] : StillSeen(p, t)
        /\ DOMAIN ended = Repositories
    BY DEF Synced, SyncTypes, EndStays
  <2>6. new.closing <= new.changes /\ new.changes > pr[p].changes
    BY <1>1, <2>2, <2>5 DEF PullRequest
  <2>7. QED
    BY <1>2, <2>1, <2>2, <2>4, <2>5, <2>6, WorldStep
<1>10. QED
  BY <1>3, <1>4, <1>5, <1>6, <1>7, <1>8, <1>9

LEMMA SyncStepKeeps == Synced /\ [SyncNext]_syncVars => Synced' /\ EndsStand
<1> SUFFICES ASSUME Synced, [SyncNext]_syncVars PROVE Synced' /\ EndsStand
  OBVIOUS
<1>1. ASSUME NEW w \in Workers,
             \/ StartSync(w) \/ ReadPullRequest(w) \/ EndSync(w) \/ ReadLists(w) \/ Confirm(w)
             \/ _record_stops(w) \/ Post(w) \/ Abort(w)
             \/ \E p \in Repositories : StartPublish(w, p)
      PROVE  Synced' /\ EndsStand
  <2>1. row' = row
    BY <1>1 DEF StartSync, ReadPullRequest, EndSync, ReadLists, Confirm, _record_stops, Post, Abort,
                StartPublish
  <2>2. Synced'
    BY <1>1, StartSyncKeeps, ReadPullRequestKeeps, EndSyncKeeps, ReadListsKeeps, ConfirmKeeps,
       RecordStopsKeep, PostKeeps, AbortKeeps, StartPublishKeeps
  <2>3. QED
    BY <2>1, <2>2 DEF EndsStand
<1>2. ASSUME NEW w \in Workers, _record_on_run(w) \/ ObservationFailed(w)
      PROVE  Synced' /\ EndsStand
  BY <1>2, RecordOnRunKeeps, ObservationFailedKeeps
<1>3. ASSUME NEW p \in Repositories,
             \/ Write(p) \/ Close(p) \/ Reopen(p) \/ Merge(p) \/ Revert(p) \/ CheckFails(p)
             \/ Push(p)
      PROVE  Synced' /\ EndsStand
  <2>1. row' = row
    BY <1>3 DEF Write, Close, Reopen, Merge, Revert, CheckFails, Push, Change
  <2>2. QED
    BY <1>3, <2>1, GitHubKeeps DEF EndsStand
<1>4. ASSUME Lapse \/ Outside PROVE Synced' /\ EndsStand
  <2>1. row' = row
    BY <1>4 DEF Lapse, Outside
  <2>2. QED
    BY <1>4, <2>1, LapseKeeps, OutsideKeeps DEF EndsStand
<1>5. ASSUME UNCHANGED syncVars PROVE Synced' /\ EndsStand
  <2>1. /\ UNCHANGED <<vars, github, row, lease, pc, fresh, todo, at, first, found, left, mishap>>
    BY <1>5 DEF syncVars, worker
  <2>2. HoldsGrow
    BY <2>1, SameHolds DEF Synced, vars
  <2>3. Alone' /\ NoneHeld'
    BY <2>1 DEF Synced, Alone, NoneHeld, PublicationHeld, active_holds, vars, world
  <2>4. QED
    BY <2>1, <2>2, <2>3, QuietStep DEF Synced, SyncTypes, vars, world, EndsStand
<1>6. QED
  BY <1>1, <1>2, <1>3, <1>4, <1>5 DEF SyncNext, Step

THEOREM SyncedHolds == SyncSpec => []Synced
<1>1. Synced /\ [SyncNext]_syncVars => Synced'
  BY SyncStepKeeps
<1>2. QED
  BY SyncInitial, <1>1, PTL DEF SyncSpec

\* Once the row says that a pull request is closed or merged, every stop it carried
\* when it ended is recorded, or a later edit of it is (observe, _record_stops,
\* _record_on_run): what is on a pull request when it ends stays there, GitHub's count
\* of changes shows a reading that missed it, and the row is saved last.
THEOREM NothingEndsUnrecordedHolds == SyncSpec => []NothingEndsUnrecorded
<1>1. Synced => NothingEndsUnrecorded
  BY DEF Synced, RowsAreRight, NothingEndsUnrecorded, OnRecord, Covers
<1>2. QED
  BY SyncedHolds, <1>1, PTL

\* What the row says about an ended pull request stays, with any number of syncs that
\* read it earlier and save later (store.save, _record_on_run).
THEOREM EndedStaysEndedHolds == SyncSpec => EndedStaysEnded
<1>1. Synced /\ [SyncNext]_syncVars => [EndsStand]_syncVars
  BY SyncStepKeeps
<1>2. QED
  BY SyncedHolds, <1>1, PTL DEF SyncSpec, EndedStaysEnded, EndsStand

\* No pull request is opened in a repository, or anywhere, that sync has put on hold by
\* then, as long as no worker outlives its lease: holds are looked at under the lease
\* under which they are recorded (assert_publication_not_held).
THEOREM HoldsComeFirstHolds == SyncSpec => HoldsComeFirst
<1> DEFINE First == posted' > posted /\ mishap # "pause" =>
                        \A w \in Workers : pc[w] = "post" => ~PublicationHeld(at[w])
<1>1. Synced => First
  BY DEF Synced, NoneHeld
<1>2. QED
  BY SyncedHolds, <1>1, PTL DEF SyncSpec, HoldsComeFirst

------------------------------------------------------------------------------
(***************************************************************************)
(* Lifecycle sync uses the stops as SafetyStop says: what holds of them    *)
(* there holds with any number of syncs.                                   *)
(***************************************************************************)
SyncSignal == [kind : DOMAIN Scopes, version : Nat]
Recordable == {t \in Trigger : t.kind \notin {"escalation", "rate_limits"}}
PushRecord == [before : Nat, after : Nat, plain : BOOLEAN, own : BOOLEAN]

Evident ==
    /\ pushes \in [Repositories -> Seq(PushRecord)]
    /\ found \in [Workers -> SUBSET SyncSignal]
    /\ left \in [Workers -> SUBSET Recordable]

LEMMA ScopeKinds ==
  \A k \in DOMAIN Scopes : \A i \in DOMAIN Scopes[k] :
      Scopes[k][i] \in Kinds \ {"escalation", "rate_limits"}
<1> SUFFICES ASSUME NEW k \in DOMAIN Scopes, NEW i \in DOMAIN Scopes[k]
             PROVE  Scopes[k][i] \in Kinds \ {"escalation", "rate_limits"}
  OBVIOUS
<1> USE DEF Kinds, GlobalKinds, RepositoryKinds, PullRequestKinds, PublicationKinds
<1>1. CASE k \in {"automation_stop", "closed_unmerged", "head_drift"}
  <2>1. Scopes[k] = <<k>>
    BY <1>1 DEF Scopes
  <2>2. QED
    BY <1>1, <2>1
<1>2. CASE k = "maintainer_stop"
  <2>1. Scopes[k] = <<"maintainer_stop_here", "maintainer_stop">>
    BY <1>2 DEF Scopes
  <2>2. QED
    BY <2>1
<1>3. CASE k = "reverted"
  <2>1. Scopes[k] = <<"reverted", "reverted_everywhere">>
    BY <1>3 DEF Scopes
  <2>2. QED
    BY <2>1
<1>4. CASE k \in {"changes_requested", "ci_failed", "maintainer_push"}
  <2>1. Scopes[k] = <<>>
    BY <1>4 DEF Scopes
  <2>2. QED
    BY <2>1
<1>5. k \in {"automation_stop", "closed_unmerged", "head_drift", "maintainer_stop", "reverted",
             "changes_requested", "ci_failed", "maintainer_push"}
  BY DEF Scopes
<1>6. QED
  BY <1>1, <1>2, <1>3, <1>4, <1>5

LEMMA TriggersRecordable ==
  ASSUME NEW p \in Repositories, NEW S \in SUBSET SyncSignal
  PROVE  Triggers(p, S) \subseteq Recordable
<1> SUFFICES ASSUME NEW t \in Triggers(p, S) PROVE t \in Recordable
  OBVIOUS
<1>1. PICK s \in S : t \in {[kind |-> Scopes[s.kind][i], repo |-> p, version |-> s.version] :
                               i \in DOMAIN Scopes[s.kind]}
  BY DEF Triggers
<1>2. PICK i \in DOMAIN Scopes[s.kind] :
         t = [kind |-> Scopes[s.kind][i], repo |-> p, version |-> s.version]
  BY <1>1
<1>3. s.kind \in DOMAIN Scopes /\ s.version \in Nat
  BY DEF SyncSignal
<1>4. Scopes[s.kind][i] \in Kinds \ {"escalation", "rate_limits"}
  BY <1>3, ScopeKinds
<1>5. QED
  BY <1>2, <1>3, <1>4 DEF Recordable, Trigger

LEMMA HeadType == ASSUME Evident, NEW p \in Repositories PROVE HeadOf(p) \in Nat
<1>1. pushes[p] \in Seq(PushRecord)
  BY DEF Evident
<1>2. CASE pushes[p] = <<>>
  BY <1>2 DEF HeadOf
<1>3. CASE pushes[p] # <<>>
  <2>1. Len(pushes[p]) \in 1 .. Len(pushes[p])
    <3> DEFINE s == pushes[p]
               n == Len(s)
    <3>1. s \in Seq(PushRecord) /\ s # <<>>
      BY <1>1, <1>3
    <3> HIDE DEF s
    <3>2. n \in Nat \ {0}
      BY <3>1, EmptySeq, Zenon
    <3> HIDE DEF n
    <3>3. n \in 1 .. n
      BY <3>2
    <3>4. QED
      BY <3>3 DEF n, s
  <2>2. pushes[p][Len(pushes[p])] \in PushRecord
    BY <1>1, <2>1, ElementOfSeq
  <2>3. QED
    BY <1>3, <2>2 DEF HeadOf, PushRecord
<1>4. QED
  BY <1>2, <1>3

LEMMA EvidentNext == ASSUME Synced, Evident, [SyncNext]_syncVars PROVE Evident'
<1>1. ASSUME NEW w \in Workers, ReadLists(w) PROVE Evident'
  <2> DEFINE p == at[w]
             read == [first[w] EXCEPT !.on = pr[p].on]
  <2>1. pc[w] = "lists" /\ UNCHANGED <<github, left>>
    BY <1>1 DEF ReadLists
  <2>2. PICK recorded \in BOOLEAN :
          found' = [found EXCEPT ![w] =
                      IF Watching(w) THEN {s \in pr[p].on : s.kind = "reverted"}
                      ELSE {s \in classify_lifecycle(p, read, recorded) :
                               s.kind = "reverted" => first[w].state = "merged"}]
    BY <1>1 DEF ReadLists
  <2>3. p \in Repositories /\ pr[p] \in PullRequest /\ first[w] \in PullRequest
    BY <2>1 DEF Synced, SyncTypes, Reading
  <2>4. SignalKinds \cup {"closed_unmerged", "head_drift", "maintainer_push"} \subseteq DOMAIN Scopes
    BY DEF SignalKinds, Scopes
  <2>5. pr[p].on \subseteq SyncSignal
    BY <2>3, <2>4 DEF PullRequest, Signal, SyncSignal
  <2>6. read.on = pr[p].on /\ read.closing \in Nat
    BY <2>3 DEF PullRequest
  <2>7. HeadOf(p) \in Nat
    BY <2>3, HeadType
  <2>8. classify_lifecycle(p, read, recorded) \subseteq SyncSignal
    BY <2>4, <2>5, <2>6, <2>7 DEF classify_lifecycle, SyncSignal
  <2>9. found' \in [Workers -> SUBSET SyncSignal]
    BY <2>2, <2>5, <2>8 DEF Evident
  <2>10. QED
    BY <2>1, <2>9 DEF Evident, github
<1>2. ASSUME NEW w \in Workers, Confirm(w) PROVE Evident'
  <2>1. pc[w] = "confirm" /\ UNCHANGED <<github, found>>
    BY <1>2 DEF Confirm
  <2>2. at[w] \in Repositories
    BY <2>1 DEF Synced, SyncTypes, Reading
  <2>3. Triggers(at[w], found[w]) \in SUBSET Recordable
    BY <2>2, TriggersRecordable DEF Evident
  <2>4. left' = left \/ left' = [left EXCEPT ![w] = Triggers(at[w], found[w])]
    BY <1>2 DEF Confirm
  <2>5. QED
    BY <2>1, <2>3, <2>4 DEF Evident, github
<1>3. ASSUME NEW w \in Workers, _record_stops(w) PROVE Evident'
  <2>1. PICK t \in left[w] : left' = [left EXCEPT ![w] = @ \ {t}]
    BY <1>3 DEF _record_stops
  <2>2. QED
    BY <1>3, <2>1 DEF _record_stops, Evident, github
<1>4. ASSUME NEW p \in Repositories, Push(p) PROVE Evident'
  <2>1. PICK c \in 0 .. MaxActivity, plain \in BOOLEAN, own \in BOOLEAN :
          pushes' = [pushes EXCEPT ![p] =
                       Append(@, [before |-> HeadOf(p), after |-> c, plain |-> plain,
                                  own |-> own])]
    BY <1>4 DEF Push
  <2>2. [before |-> HeadOf(p), after |-> c, plain |-> plain, own |-> own] \in PushRecord
    BY HeadType DEF PushRecord
  <2>3. pushes[p] \in Seq(PushRecord)
    BY DEF Evident
  <2>4. Append(pushes[p], [before |-> HeadOf(p), after |-> c, plain |-> plain, own |-> own])
           \in Seq(PushRecord)
    BY <2>2, <2>3
  <2>5. pushes' \in [Repositories -> Seq(PushRecord)]
    BY <2>1, <2>4 DEF Evident
  <2>6. QED
    BY <1>4, <2>5 DEF Evident, Push, worker
<1>5. ASSUME \/ \E w \in Workers : \/ StartSync(w) \/ ReadPullRequest(w) \/ EndSync(w)
                                   \/ _record_on_run(w) \/ ObservationFailed(w) \/ Post(w)
                                   \/ Abort(w) \/ \E p \in Repositories : StartPublish(w, p)
             \/ \E p \in Repositories : Write(p) \/ Close(p) \/ Reopen(p) \/ Merge(p)
                                        \/ Revert(p) \/ CheckFails(p)
             \/ Lapse \/ Outside \/ UNCHANGED syncVars
      PROVE  Evident'
  <2>1. UNCHANGED <<pushes, found, left>>
    BY ZenonT(40), <1>5 DEF StartSync, ReadPullRequest, EndSync, _record_on_run, ObservationFailed, Post, Abort,
                StartPublish, Write, Close, Reopen, Merge, Revert, Change, CheckFails, Lapse,
                Outside, syncVars, github, worker
  <2>2. QED
    BY <2>1 DEF Evident
<1>6. QED
  BY <1>1, <1>2, <1>3, <1>4, <1>5 DEF SyncNext, Step

\* A step of a sync is a step of SafetyStop, or none.
LEMMA SyncKeepsStops ==
  ASSUME Inv, Synced, Evident, [SyncNext]_syncVars
  PROVE  Inv' /\ [Escalated]_vars /\ [ThirdStops]_vars
<1>1. ASSUME NEW w \in Workers, _record_stops(w) PROVE Inv' /\ Escalated /\ ThirdStops
  <2>1. PICK t \in left[w] : record_stop(t)
    BY <1>1 DEF _record_stops
  <2>2. t \in Trigger /\ t.kind \notin {"escalation", "rate_limits"}
    BY DEF Evident, Recordable
  <2>3. UNCHANGED <<limits, shown, now, stops, runs, reports, seen, inARow>>
    BY <1>1 DEF _record_stops, limits
  <2>4. reports' \in Nat
    BY <2>3 DEF Inv, TypeOK
  <2>5. QED
    BY <2>1, <2>2, <2>3, <2>4, RecordStep
<1>2. ASSUME Outside PROVE Next
  BY <1>2 DEF Outside, Next
<1>3. ASSUME \/ \E w \in Workers : \/ StartSync(w) \/ ReadPullRequest(w) \/ EndSync(w)
                                   \/ ReadLists(w) \/ Confirm(w)
                                   \/ _record_on_run(w) \/ ObservationFailed(w) \/ Post(w)
                                   \/ Abort(w) \/ \E p \in Repositories : StartPublish(w, p)
             \/ \E p \in Repositories : Write(p) \/ Close(p) \/ Reopen(p) \/ Merge(p)
                                        \/ Revert(p) \/ CheckFails(p) \/ Push(p)
             \/ Lapse \/ UNCHANGED syncVars
      PROVE  UNCHANGED vars
  BY ZenonT(40), <1>3 DEF StartSync, ReadPullRequest, EndSync, ReadLists, Confirm, _record_on_run,
              ObservationFailed, Post, Abort, StartPublish, Write, Close, Reopen, Merge, Revert,
              Change, CheckFails, Push, Lapse, syncVars
<1>4. CASE \E w \in Workers : _record_stops(w)
  BY <1>1, <1>4
<1>5. CASE Outside \/ UNCHANGED vars
  BY <1>2, <1>5, NextStep
<1>6. QED
  BY <1>3, <1>4, <1>5 DEF SyncNext, Step

\* What SafetyStop promises holds while any number of syncs record what they find,
\* in any interleaving with operators (record_stop, resume_circuit_breaker,
\* _record_stops).
THEOREM StopsHoldUnderSync ==
  SyncSpec => /\ [](ReviewedBeforeResume /\ EvidenceIsKept /\ TwoRepositoriesStop)
              /\ StopsOnItsEvidence
<1>1. SyncInit => Evident
  BY DEF SyncInit, Evident
<1>2. SyncInit => Inv
  BY InitInv DEF SyncInit
<1>3. Inv => ReviewedBeforeResume /\ EvidenceIsKept /\ TwoRepositoriesStop
  BY DEF Inv, BreakerInv, EvidenceIsKept, EventsOnce, HoldsOnce, ResumedStaysQuiet
<1>4. SyncSpec => []Evident
  <2>1. Synced /\ Evident /\ [SyncNext]_syncVars => Evident'
    BY EvidentNext
  <2>2. QED
    BY SyncedHolds, <1>1, <2>1, PTL DEF SyncSpec
<1>5. SyncSpec => []Inv
  <2>1. Inv /\ Synced /\ Evident /\ [SyncNext]_syncVars => Inv'
    BY SyncKeepsStops
  <2>2. QED
    BY SyncedHolds, <1>2, <1>4, <2>1, PTL DEF SyncSpec
<1>6. SyncSpec => [][Escalated]_vars /\ [][ThirdStops]_vars
  <2>1. Inv /\ Synced /\ Evident /\ [SyncNext]_syncVars => [Escalated]_vars
    BY SyncKeepsStops
  <2>2. Inv /\ Synced /\ Evident /\ [SyncNext]_syncVars => [ThirdStops]_vars
    BY SyncKeepsStops
  <2>3. QED
    BY SyncedHolds, <1>4, <1>5, <2>1, <2>2, PTL DEF SyncSpec
<1>7. [][Escalated]_vars /\ [][ThirdStops]_vars => StopsOnItsEvidence
  BY PTL DEF StopsOnItsEvidence, EscalationStands, EveryThirdLimitStops, Escalated, ThirdStops
<1>8. QED
  BY <1>3, <1>5, <1>6, <1>7, PTL

------------------------------------------------------------------------------
(***************************************************************************)
(* The walk of _pushed_by_others, for any number of pushes.  A plain push   *)
(* leads to a commit above the one before it; so while only plain pushes    *)
(* are met, no later push leads to the commit the walk has come to, and the *)
(* walk takes the pushes one by one from the last.                          *)
(***************************************************************************)
HIDE SafetyStopConstants

\* Induction over the natural numbers.
LEMMA AllNaturals ==
  ASSUME NEW T \in SUBSET Nat, 0 \in T, \A n \in T : n + 1 \in T
  PROVE  T = Nat
<1> SUFFICES ASSUME Nat \ T # {} PROVE FALSE
  BY Zenon
<1>1. PICK R : R = OpToRel(<, Nat)
  BY Zenon
<1>2. PICK m \in Nat \ T : \A n \in Nat \ T : ~(<<n, m>> \in R)
  BY <1>1, WFMin, NatLessThanWellFounded, Zenon
<1>3. \A n, k \in Nat : n < k => <<n, k>> \in R
  BY <1>1, Zenon DEF OpToRel
<1>4. \A n \in Nat \ T : ~(n < m)
  BY <1>2, <1>3, Zenon
<1>5. m # 0 /\ m - 1 \in Nat /\ m - 1 < m /\ (m - 1) + 1 = m
  BY <1>2
<1>6. m - 1 \in T
  BY <1>4, <1>5
<1>7. QED
  BY <1>2, <1>5, <1>6

IsWalk(p, f, m) ==
    f = [n \in 0 .. m |-> IF n = 0 THEN HeadOf(p) ELSE Back(p, f[n - 1])]

LEMMA WalkIs ==
  ASSUME NEW p, NEW f, NEW m \in Nat, IsWalk(p, f, m)
  PROVE  /\ f[0] = HeadOf(p)
         /\ \A n \in 0 .. m : n # 0 => f[n] = Back(p, f[n - 1])
<1>1. 0 \in 0 .. m
  OBVIOUS
<1>2. QED
  BY <1>1 DEF IsWalk

\* There is such a walk of every length.
LEMMA WalkExists ==
  ASSUME NEW p, NEW m \in Nat
  PROVE  \E f : IsWalk(p, f, m)
<1> DEFINE T == {k \in Nat : \E f : IsWalk(p, f, k)}
<1>1. 0 \in T
  <2> DEFINE g == [n \in 0 .. 0 |-> HeadOf(p)]
  <2>1. g = [n \in 0 .. 0 |-> IF n = 0 THEN HeadOf(p) ELSE Back(p, g[n - 1])]
    OBVIOUS
  <2>2. IsWalk(p, g, 0)
    BY <2>1, Zenon DEF IsWalk
  <2>3. QED
    BY <2>2
<1>2. ASSUME NEW k \in T PROVE k + 1 \in T
  <2>1. PICK f : IsWalk(p, f, k)
    OBVIOUS
  <2>2. k \in Nat
    OBVIOUS
  <2> DEFINE g == [n \in 0 .. (k + 1) |-> IF n = k + 1 THEN Back(p, f[k]) ELSE f[n]]
  <2>3. \A n \in 0 .. (k + 1) : g[n] = IF n = 0 THEN HeadOf(p) ELSE Back(p, g[n - 1])
    <3> SUFFICES ASSUME NEW n \in 0 .. (k + 1)
                 PROVE  g[n] = IF n = 0 THEN HeadOf(p) ELSE Back(p, g[n - 1])
      OBVIOUS
    <3>1. CASE n = 0
      BY <2>1, <2>2, <3>1, WalkIs
    <3>2. CASE n = k + 1
      <4>1. n # 0 /\ n - 1 = k /\ k \in 0 .. (k + 1) /\ k # k + 1
        BY <2>2, <3>2
      <4>2. g[n] = Back(p, f[k]) /\ g[n - 1] = f[k]
        BY <3>2, <4>1
      <4>3. QED
        BY <4>1, <4>2
    <3>3. CASE n \in 0 .. k /\ n # 0
      <4>1. n - 1 \in 0 .. (k + 1) /\ n - 1 # k + 1 /\ n # k + 1
        BY <2>2, <3>3
      <4>2. g[n] = f[n] /\ g[n - 1] = f[n - 1]
        BY <4>1
      <4>3. f[n] = Back(p, f[n - 1])
        BY <2>1, <2>2, <3>3, WalkIs
      <4>4. QED
        BY <3>3, <4>2, <4>3
    <3>4. QED
      BY <2>2, <3>1, <3>2, <3>3
  <2>4. g = [n \in 0 .. (k + 1) |-> g[n]]
    OBVIOUS
  <2> HIDE DEF g
  <2>5. g = [n \in 0 .. (k + 1) |-> IF n = 0 THEN HeadOf(p) ELSE Back(p, g[n - 1])]
    BY <2>3, <2>4
  <2>6. IsWalk(p, g, k + 1)
    BY <2>5, Zenon DEF IsWalk
  <2>7. QED
    BY <2>2, <2>6
<1>3. T = Nat
  <2>1. T \in SUBSET Nat
    OBVIOUS
  <2> HIDE DEF T
  <2>2. QED
    BY <1>1, <1>2, <2>1, AllNaturals
<1>4. QED
  BY <1>3

LEMMA WalkOf ==
  ASSUME NEW p, Len(pushes[p]) \in Nat, _pushed_by_others(p)
  PROVE  \E f : IsWalk(p, f, Len(pushes[p])) /\ f[Len(pushes[p])] = 0
<1> DEFINE f == CHOOSE walk : walk = [n \in 0 .. Len(pushes[p]) |->
                                        IF n = 0 THEN HeadOf(p) ELSE Back(p, walk[n - 1])]
<1>1. f[Len(pushes[p])] = 0
  BY Zenon DEF _pushed_by_others
<1>2. \E walk : walk = [n \in 0 .. Len(pushes[p]) |->
                            IF n = 0 THEN HeadOf(p) ELSE Back(p, walk[n - 1])]
  BY WalkExists, ZenonT(30) DEF IsWalk
<1>3. IsWalk(p, f, Len(pushes[p]))
  BY <1>2, Zenon DEF IsWalk
<1>4. QED
  BY <1>1, <1>3

\* Every push begins where the one before it ended.
Chain(s) ==
    \A i \in DOMAIN s :
        /\ s[i].before = IF i = 1 THEN 0 ELSE s[i - 1].after
        /\ s[i].after <= MaxActivity
        /\ s[i].plain => s[i].after > s[i].before

Chained == \A p \in Repositories : Chain(pushes[p])

LEMMA PushesAre ==
  ASSUME Evident, NEW p \in Repositories
  PROVE  /\ Len(pushes[p]) \in Nat /\ DOMAIN pushes[p] = 1 .. Len(pushes[p])
         /\ \A i \in DOMAIN pushes[p] :
               /\ pushes[p][i].before \in Nat /\ pushes[p][i].after \in Nat
               /\ pushes[p][i].plain \in BOOLEAN /\ pushes[p][i].own \in BOOLEAN
         /\ HeadOf(p) = IF Len(pushes[p]) = 0 THEN 0 ELSE pushes[p][Len(pushes[p])].after
<1>1. pushes[p] \in Seq(PushRecord)
  BY DEF Evident
<1>2. \A i \in DOMAIN pushes[p] : pushes[p][i] \in PushRecord
  BY <1>1
<1>3. Len(pushes[p]) \in Nat /\ DOMAIN pushes[p] = 1 .. Len(pushes[p])
      /\ (pushes[p] = <<>> <=> Len(pushes[p]) = 0)
  BY <1>1
<1>4. QED
  BY <1>2, <1>3 DEF PushRecord, HeadOf

LEMMA ChainedNext == ASSUME Evident, Chained, [SyncNext]_syncVars PROVE Chained'
<1>1. ASSUME NEW p \in Repositories, Push(p) PROVE Chained'
  <2>1. PICK c \in 0 .. MaxActivity, plain \in BOOLEAN, own \in BOOLEAN :
          /\ plain => c > HeadOf(p)
          /\ pushes' = [pushes EXCEPT ![p] =
                          Append(@, [before |-> HeadOf(p), after |-> c, plain |-> plain,
                                     own |-> own])]
    BY <1>1 DEF Push
  <2> DEFINE new == [before |-> HeadOf(p), after |-> c, plain |-> plain, own |-> own]
             s == pushes[p]
             t == Append(s, new)
  <2>2. /\ new.before = HeadOf(p) /\ new.after = c /\ new.plain = plain
        /\ c \in Nat /\ c <= MaxActivity
    BY LifecycleConstants
  <2> HIDE DEF new
  <2>3. s \in Seq(PushRecord) /\ Len(s) \in Nat /\ DOMAIN s = 1 .. Len(s)
        /\ HeadOf(p) = IF Len(s) = 0 THEN 0 ELSE s[Len(s)].after
    BY PushesAre DEF Evident
  <2>4. /\ DOMAIN t = 1 .. (Len(s) + 1) /\ t[Len(s) + 1] = new
        /\ \A i \in 1 .. Len(s) : t[i] = s[i]
    <3>1. new \in PushRecord
      <4>1. HeadOf(p) \in Nat
        BY HeadType
      <4>2. QED
        BY <2>2, <4>1 DEF new, PushRecord
    <3>2. QED
      BY <2>3, <3>1
  <2> HIDE DEF t
  <2>5. Chain(t)
    <3> SUFFICES ASSUME NEW i \in DOMAIN t
                 PROVE  /\ t[i].before = IF i = 1 THEN 0 ELSE t[i - 1].after
                        /\ t[i].after <= MaxActivity
                        /\ t[i].plain => t[i].after > t[i].before
      BY Zenon DEF Chain
    <3>1. CASE i = Len(s) + 1
      <4>1. t[i] = new
        BY <2>4, <3>1
      <4>2. i # 1 => i - 1 \in 1 .. Len(s) /\ i - 1 = Len(s)
        BY <2>3, <3>1
      <4>3. t[i].before = IF i = 1 THEN 0 ELSE t[i - 1].after
        BY <2>2, <2>3, <2>4, <3>1, <4>1, <4>2
      <4>4. QED
        BY <2>1, <2>2, <4>1, <4>3
    <3>2. CASE i \in 1 .. Len(s)
      <4>1. i # 1 => i - 1 \in 1 .. Len(s)
        BY <2>3, <3>2
      <4>2. t[i] = s[i] /\ (i # 1 => t[i - 1] = s[i - 1])
        BY <2>4, <3>2, <4>1
      <4>3. Chain(s) /\ i \in DOMAIN s
        BY <2>3, <3>2 DEF Chained
      <4>4. QED
        BY <4>2, <4>3 DEF Chain
    <3>3. QED
      BY <2>3, <2>4, <3>1, <3>2
  <2>6. pushes' = [pushes EXCEPT ![p] = t] /\ pushes \in [Repositories -> Seq(PushRecord)]
    BY <2>1 DEF t, new, Evident
  <2>7. ASSUME NEW q \in Repositories PROVE Chain(pushes'[q])
    BY <2>5, <2>6 DEF Chained
  <2>8. QED
    BY <2>7 DEF Chained, Chain
<1>2. ASSUME \/ \E w \in Workers : \/ StartSync(w) \/ Step(w) \/ Abort(w)
                                   \/ \E p \in Repositories : StartPublish(w, p)
             \/ \E p \in Repositories : Write(p) \/ Close(p) \/ Reopen(p) \/ Merge(p)
                                        \/ Revert(p) \/ CheckFails(p)
             \/ Lapse \/ Outside \/ UNCHANGED syncVars
      PROVE  Chained'
  <2>1. UNCHANGED pushes
    BY ZenonT(40), <1>2 DEF StartSync, Step, ReadPullRequest, EndSync, ReadLists, Confirm, _record_stops,
                _record_on_run, ObservationFailed, Post, Abort,
                StartPublish, Write, Close, Reopen, Merge, Revert, Change, CheckFails, Lapse,
                Outside, syncVars, github, worker
  <2>2. QED
    BY <2>1 DEF Chained, Chain
<1>3. QED
  BY <1>1, <1>2 DEF SyncNext

\* The pushes since the branch was last at the prepared commit.
Since(p) == {i \in DOMAIN pushes[p] :
                 \A j \in DOMAIN pushes[p] : j >= i => pushes[p][j].after # 0}
Theirs(p, i) == pushes[p][i].plain /\ ~pushes[p][i].own

\* Where the walk is after n pushes: it has failed, or has come to the prepared
\* commit and to nobody's but the maintainers' pushes on the way, or is at the
\* commit that push Len - n led to and no later one.
Walked(p, n, c) ==
    LET L == Len(pushes[p]) IN
    \/ c = NotTheirs
    \/ c = 0 /\ \A i \in Since(p) : Theirs(p, i)
    \/ /\ n < L /\ c = pushes[p][L - n].after /\ c # 0
       /\ \A i \in DOMAIN pushes[p] : i > L - n => Theirs(p, i) /\ pushes[p][i].after > c

LEMMA StepBack ==
  ASSUME Evident, Chained, NEW p \in Repositories, NEW n \in Nat, n < Len(pushes[p]),
         NEW c, Walked(p, n, c)
  PROVE  Walked(p, n + 1, Back(p, c))
<1> DEFINE s == pushes[p]
           L == Len(s)
           i == L - n
<1>1. /\ L \in Nat /\ DOMAIN s = 1 .. L /\ i \in 1 .. L
      /\ \A j \in DOMAIN s : /\ s[j].before \in Nat /\ s[j].after \in Nat
                             /\ s[j].plain \in BOOLEAN /\ s[j].own \in BOOLEAN
      /\ MaxActivity \in Nat
  <2>1. /\ L \in Nat /\ DOMAIN s = 1 .. L
        /\ \A j \in DOMAIN s : /\ s[j].before \in Nat /\ s[j].after \in Nat
                               /\ s[j].plain \in BOOLEAN /\ s[j].own \in BOOLEAN
    BY PushesAre
  <2>2. QED
    BY <2>1, LifecycleConstants
<1>2. Chain(s)
  BY DEF Chained
<1>3. CASE c = NotTheirs
  BY <1>3 DEF Back, Walked
<1>4. CASE c = 0 /\ \A j \in Since(p) : Theirs(p, j)
  BY <1>4 DEF Back, Walked
<1>5. CASE /\ c = s[i].after /\ c # 0
           /\ \A j \in DOMAIN s : j > i => Theirs(p, j) /\ s[j].after > c
  <2>1. c \in Nat /\ c <= MaxActivity /\ c \notin {0, NotTheirs}
    BY SMTT(40), <1>1, <1>2, <1>5 DEF Chain, NotTheirs
  <2>2. PushTo(p, c) = i
    <3> DEFINE I == {j \in DOMAIN s : s[j].after = c}
    <3>1. i \in I
      BY <1>1, <1>5
    <3>2. \A j \in I : j <= i /\ j \in Nat
      BY <1>1, <1>5, <2>1
    <3>3. PushTo(p, c) = CHOOSE k \in I : \A j \in I : j <= k
      BY <3>1, Zenon DEF PushTo
    <3> HIDE DEF I
    <3>4. \A k \in I : (\A j \in I : j <= k) => k = i
      <4> SUFFICES ASSUME NEW k \in I, \A j \in I : j <= k PROVE k = i
        OBVIOUS
      <4>1. i <= k /\ k <= i /\ k \in Nat /\ i \in Nat
        BY <3>1, <3>2
      <4>2. QED
        BY <4>1
    <3>5. QED
      BY <3>1, <3>2, <3>3, <3>4
  <2>3. i # 0 /\ s[i].plain \in BOOLEAN /\ s[i].own \in BOOLEAN
    <3> HIDE DEF i
    <3>1. i # 0 /\ i \in DOMAIN s
      BY <1>1
    <3>2. QED
      BY <1>1, <3>1
  <2>4. CASE ~s[i].plain \/ s[i].own
    <3>1. Back(p, c) = NotTheirs
      BY <2>1, <2>2, <2>3, <2>4 DEF Back
    <3>2. QED
      BY <3>1 DEF Walked
  <2>5. CASE Theirs(p, i)
    <3>1. Back(p, c) = s[i].before /\ s[i].plain
      BY <2>1, <2>2, <2>3, <2>5 DEF Back, Theirs
    <3>2. s[i].after > s[i].before
      BY <1>1, <1>2, <3>1 DEF Chain
    <3>3. \A j \in DOMAIN s : j >= i => Theirs(p, j) /\ s[j].after > s[i].before
      <4> SUFFICES ASSUME NEW j \in DOMAIN s, j >= i
                   PROVE  Theirs(p, j) /\ s[j].after > s[i].before
        OBVIOUS
      <4>1. CASE j = i
        BY <2>5, <3>2, <4>1
      <4>2. CASE j > i
        <5>1. s[j].after > c /\ Theirs(p, j)
          BY <1>5, <4>2
        <5>2. s[j].after \in Nat /\ s[i].before \in Nat
          BY <1>1
        <5>3. QED
          BY SMTT(30), <1>5, <2>1, <3>2, <5>1, <5>2
      <4>3. QED
        BY SMTT(30), <1>1, <4>1, <4>2
    <3>4. CASE i = 1
      <4>1. s[i].before = 0
        BY <1>1, <1>2, <3>4 DEF Chain
      <4>2. \A j \in Since(p) : Theirs(p, j)
        BY <1>1, <3>3, <3>4 DEF Since
      <4>3. QED
        BY <3>1, <4>1, <4>2 DEF Walked
    <3>5. CASE i # 1
      <4>1. /\ s[i].before = s[i - 1].after /\ i - 1 \in 1 .. L
            /\ i - 1 = L - (n + 1) /\ n + 1 < L
        <5>1. s[i].before = s[i - 1].after
          BY <1>1, <1>2, <3>5 DEF Chain
        <5>2. L \in Nat /\ i = L - n /\ i \in 1 .. L /\ i # 1
          BY <1>1, <3>5
        <5> HIDE DEF s, i, L
        <5>3. i - 1 \in 1 .. L /\ i - 1 = L - (n + 1) /\ n + 1 < L
          BY <5>2
        <5>4. QED
          BY <5>1, <5>3
      <4>2. CASE s[i].before = 0
        <5>1. ASSUME NEW j \in Since(p) PROVE Theirs(p, j)
          <6>1. j \in DOMAIN s /\ \A k \in DOMAIN s : k >= j => s[k].after # 0
            BY DEF Since
          <6>2. ~(i - 1 >= j)
            BY <1>1, <4>1, <4>2, <6>1
          <6>3. j >= i
            BY SMTT(30), <1>1, <4>1, <6>1, <6>2
          <6>4. QED
            BY <3>3, <6>1, <6>3
        <5>2. QED
          BY <3>1, <4>2, <5>1 DEF Walked
      <4>3. CASE s[i].before # 0
        <5>1. \A j \in DOMAIN s : j > L - (n + 1) => Theirs(p, j) /\ s[j].after > s[i].before
          BY SMTT(30), <1>1, <3>3, <4>1
        <5>2. s[i].before = s[L - (n + 1)].after
          BY <4>1
        <5>3. QED
          BY <3>1, <4>1, <4>3, <5>1, <5>2 DEF Walked
      <4>4. QED
        BY <4>2, <4>3
    <3>6. QED
      BY <3>4, <3>5
  <2>6. QED
    BY <2>3, <2>4, <2>5 DEF Theirs
<1>6. QED
  BY <1>3, <1>4, <1>5, Zenon DEF Walked

LEMMA WalkOnTheirs ==
  ASSUME Evident, Chained, NEW p \in Repositories, HeadOf(p) # 0, _pushed_by_others(p)
  PROVE  \A i \in Since(p) : Theirs(p, i)
<1> DEFINE L == Len(pushes[p])
<1>1. L \in Nat /\ L # 0 /\ HeadOf(p) = pushes[p][L].after /\ DOMAIN pushes[p] = 1 .. L
      /\ MaxActivity \in Nat
  BY PushesAre, LifecycleConstants
<1>2. PICK f : IsWalk(p, f, L) /\ f[L] = 0
  BY <1>1, WalkOf
<1>3. /\ f[0] = HeadOf(p)
      /\ \A n \in 0 .. L : n # 0 => f[n] = Back(p, f[n - 1])
  BY <1>1, <1>2, WalkIs
<1> DEFINE T == {n \in Nat : n <= L => Walked(p, n, f[n])}
<1>4. 0 \in T
  <2>1. Walked(p, 0, HeadOf(p))
    <3>1. \A i \in DOMAIN pushes[p] : ~(i > L - 0)
      BY <1>1
    <3>2. 0 < L /\ L - 0 = L
      BY <1>1
    <3>3. QED
      BY <1>1, <3>1, <3>2 DEF Walked
  <2>2. QED
    BY <1>3, <2>1
<1>5. ASSUME NEW n \in T PROVE n + 1 \in T
  <2> SUFFICES ASSUME n + 1 <= L PROVE Walked(p, n + 1, f[n + 1])
    OBVIOUS
  <2>1. n \in Nat /\ n < L /\ n <= L /\ n + 1 \in 0 .. L /\ n + 1 # 0 /\ (n + 1) - 1 = n
    BY <1>1
  <2>2. Walked(p, n, f[n])
    BY <2>1
  <2>3. f[n + 1] = Back(p, f[n])
    BY <1>3, <2>1
  <2>4. QED
    BY <2>1, <2>2, <2>3, StepBack
<1>6. T = Nat
  <2>1. T \in SUBSET Nat
    OBVIOUS
  <2> HIDE DEF T
  <2>2. QED
    BY <1>4, <1>5, <2>1, AllNaturals
<1>7. Walked(p, L, 0)
  BY <1>1, <1>2, <1>6
<1>8. 0 # NotTheirs /\ ~(L < L)
  BY <1>1 DEF NotTheirs
<1>9. QED
  BY <1>7, <1>8 DEF Walked

\* Commits since the branch was last at the prepared commit are put down to
\* maintainers only if this tool's account made none of the pushes and none was
\* forced, however many pushes there are and whatever commits they return to
\* (_pushed_by_others).
THEOREM MaintainerPushHolds == SyncSpec => []MaintainerPushIsTheirs
<1>1. SyncInit => Evident /\ Chained
  BY DEF SyncInit, Evident, Chained, Chain
<1>2. Synced /\ Evident /\ Chained /\ [SyncNext]_syncVars => Evident' /\ Chained'
  BY EvidentNext, ChainedNext
<1>3. Evident /\ Chained => MaintainerPushIsTheirs
  BY WalkOnTheirs DEF MaintainerPushIsTheirs, Since, Theirs
<1>4. QED
  BY SyncedHolds, <1>1, <1>2, <1>3, PTL DEF SyncSpec
===============================================================================
