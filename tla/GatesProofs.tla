----------------------------- MODULE GatesProofs -----------------------------
(***************************************************************************)
(* Proofs about what MCGates puts side by side: the last look (Freshness),  *)
(* the client's requests (Requests), the read of an issue (IssueRead), the  *)
(* approval (Approval) and the limits (Limits), for every value of the      *)
(* constants.  A step of GatesSpec is a step of one of them and leaves the  *)
(* others alone, so an invariant of one is an invariant of the whole.       *)
(***************************************************************************)
EXTENDS MCGates, FiniteSetTheorems, SequenceTheorems, WellFoundedInduction, TLAPS

(***************************************************************************)
(* Freshness, for any number of commits and changes.                       *)
(* OneMoment is not inductive: a check that is half done must already      *)
(* promise that its moment has been, should the heads it read first turn   *)
(* out not to have moved.  They can only move up, so a head that has       *)
(* moved never comes back to what was read.                                *)
(***************************************************************************)
Types ==
    /\ base \in Nat /\ org \in Nat
    /\ fit \in BOOLEAN /\ together \in BOOLEAN
    /\ safe \subseteq Nat
    /\ first \in [fit : BOOLEAN, base : Nat, org : Nat]

\* A moment that is as approved is counted while the check runs.
MomentIsCounted == pc # "idle" /\ AsApproved => together

HeadsMoveUp ==
    /\ pc \in {"policy", "search", "organization", "final", "head"}
          => first.base \in safe /\ first.base <= base
    /\ pc \in {"search", "organization"} => first.org = 0

MomentIsComing ==
    /\ pc = "organization" /\ base = first.base /\ org = first.org => together
    /\ pc \in {"final", "head"} /\ base = first.base => together

Sound == Types /\ MomentIsCounted /\ HeadsMoveUp /\ MomentIsComing /\ OneMoment

LEMMA SoundInit == Init => Sound
<1> SUFFICES ASSUME Init PROVE Sound
  OBVIOUS
<1>1. Types
  <2>1. base \in Nat /\ org \in Nat /\ safe \subseteq Nat
    BY DEF Init
  <2>2. FALSE \in BOOLEAN /\ TRUE \in BOOLEAN /\ 0 \in Nat
    OBVIOUS
  <2>3. fit \in BOOLEAN /\ together \in BOOLEAN
    BY <2>2, Zenon DEF Init
  <2>4. first \in [fit : BOOLEAN, base : Nat, org : Nat]
    BY <2>2, Zenon DEF Init
  <2>5. QED
    BY <2>1, <2>3, <2>4 DEF Types
<1>2. MomentIsCounted /\ HeadsMoveUp /\ MomentIsComing /\ OneMoment
  BY DEF Init, MomentIsCounted, HeadsMoveUp, MomentIsComing, OneMoment
<1>3. QED
  BY <1>1, <1>2 DEF Sound

LEMMA SoundNext == Sound /\ [Next]_vars => Sound'
<1> SUFFICES ASSUME Sound, [Next]_vars PROVE Sound'
  OBVIOUS
<1> USE DEF Sound, Types, MomentIsCounted, HeadsMoveUp, MomentIsComing, OneMoment, AsApproved, world
<1>1. CASE World
  <2>1. CASE EditIssue
    BY <1>1, <2>1 DEF World, EditIssue
  <2>2. CASE PushBase
    BY <1>1, <2>2 DEF World, PushBase
  <2>3. CASE PushOrg
    BY <1>1, <2>3 DEF World, PushOrg
  <2>4. QED
    BY <1>1, <2>1, <2>2, <2>3 DEF World
<1>2. CASE Begin
  BY <1>2 DEF Begin
<1>3. CASE Refuse
  BY <1>3 DEF Refuse
<1>4. CASE ReadIssue
  BY <1>4 DEF ReadIssue, Read
<1>5. CASE ReadBase
  BY <1>5 DEF ReadBase, Read, _base_drift_is_safe
<1>6. CASE ReadPolicy
  BY <1>6 DEF ReadPolicy, Read
<1>7. CASE Search
  BY <1>7 DEF Search, Read
<1>8. CASE FinalOrganization
  BY <1>8 DEF FinalOrganization, Read
<1>9. CASE FinalIssue
  BY <1>9 DEF FinalIssue, Read
<1>10. CASE FinalBase
  BY <1>10 DEF FinalBase, Read
<1>11. CASE BoundaryOrganization \/ BoundaryBase \/ BoundaryIssue
  BY <1>11 DEF BoundaryOrganization, BoundaryBase, BoundaryIssue, Read
<1>12. CASE UNCHANGED vars
  BY <1>12 DEF vars
<1>13. QED
  BY <1>1, <1>2, <1>3, <1>4, <1>5, <1>6, <1>7, <1>8, <1>9, <1>10, <1>11, <1>12 DEF Next

\* A publication goes on only from one moment at which the issue, the base branch
\* and the organization's policy were as approved, however many changes people
\* make and in whatever order they fall between the reads (_publication_gates,
\* _final_publication_boundary).
THEOREM FreshAtOnce == GatesSpec => []OneMoment
<1>1. Sound => OneMoment
  BY DEF Sound
<1>2. GatesInit => Sound
  BY SoundInit DEF GatesInit
<1>3. Sound /\ [GatesNext]_AllVars => Sound'
  BY SoundNext DEF GatesNext, AllVars
<1>4. QED
  BY <1>1, <1>2, <1>3, PTL DEF GatesSpec

----------------------------------------------------------------------------
(***************************************************************************)
(* Requests, for any latencies, pauses and waits GitHub asks for, and any   *)
(* number of requests.  AppliedOnce is not inductive: a change whose answer *)
(* is still expected, or that is about to be sent again, must not have been *)
(* applied yet.                                                             *)
(***************************************************************************)
UnderWay == request \in {"send", "sent"}

NotYetApplied ==
    /\ applied \in Nat
    /\ UnderWay => applied = 0
    /\ UnderWay => outcome = "none"

Once == NotYetApplied /\ Client!AppliedOnce

LEMMA OnceInit == Client!Init => Once
  BY DEF Client!Init, Once, NotYetApplied, UnderWay, Client!AppliedOnce

LEMMA OnceNext == Once /\ [Client!Next]_client => Once'
<1> SUFFICES ASSUME Once, [Client!Next]_client PROVE Once'
  OBVIOUS
<1> USE DEF Once, NotYetApplied, UnderWay, Client!AppliedOnce
<1>1. CASE Client!Begin
  BY <1>1 DEF Client!Begin
<1>2. CASE Client!Send
  BY <1>2 DEF Client!Send
<1>3. CASE Client!NotSent
  BY <1>3 DEF Client!NotSent, Client!Again, Client!Ends
<1>4. CASE Client!Lost
  <2>1. CASE kind = "mutation"
    BY <1>4, <2>1 DEF Client!Lost, Client!Retried, Client!MayBeApplied, Client!Ends
  <2>2. CASE kind # "mutation"
    BY <1>4, <2>2 DEF Client!Lost, Client!Again, Client!Ends
  <2>3. QED
    BY <2>1, <2>2
<1>5. CASE Client!Refused
  BY <1>5 DEF Client!Refused, Client!Ends
<1>6. ASSUME NEW after \in RetryAfters \cup {0}, Client!SecondaryLimit(after) PROVE Once'
  BY <1>6 DEF Client!SecondaryLimit, Client!Again, Client!Ends
<1>7. ASSUME NEW after \in RetryAfters \cup {0}, Client!RateLimit(after) PROVE Once'
  BY <1>7 DEF Client!RateLimit, Client!Again, Client!Ends
<1>8. CASE Client!Answered
  BY <1>8 DEF Client!Answered, Client!Ends
<1>9. CASE Client!Finished \/ UNCHANGED client
  BY <1>9 DEF Client!Finished, client, Client!vars
<1>10. QED
  BY <1>1, <1>2, <1>3, <1>4, <1>5, <1>6, <1>7, <1>8, <1>9 DEF Client!Next

\* GitHub applies a change at most once for one call of the client, and a call that
\* ends as limited, refused or not sent may be made again (_request).
THEOREM ChangesApplyOnce == GatesSpec => []Client!AppliedOnce
<1>1. Once => Client!AppliedOnce
  BY DEF Once
<1>2. GatesInit => Once
  BY OnceInit DEF GatesInit
<1>3. Once /\ [GatesNext]_AllVars => Once'
  BY OnceNext DEF GatesNext, AllVars, client
<1>4. QED
  BY <1>1, <1>2, <1>3, PTL DEF GatesSpec

\* A set of natural numbers has a least element.
LEMMA LeastElement ==
  ASSUME NEW T \in SUBSET Nat, T # {}
  PROVE  \E m \in T : \A n \in T : m <= n
<1>1. PICK R : R = OpToRel(<, Nat)
  BY Zenon
<1>2. PICK m \in T : \A n \in T : ~(<<n, m>> \in R)
  BY <1>1, WFMin, NatLessThanWellFounded, Zenon
<1>3. \A n, k \in Nat : n < k => <<n, k>> \in R
  BY <1>1, Zenon DEF OpToRel
<1>4. \A n \in T : ~(n < m)
  BY <1>2, <1>3, Zenon
<1>5. \A n, k \in Nat : ~(n < k) => k <= n
  OBVIOUS
<1>6. QED
  BY <1>2, <1>4, <1>5, Zenon

(***************************************************************************)
(* The limit of searches.  GitHub sees a search after the client recorded   *)
(* it and before the client records the next one: counted from the end,    *)
(* GitHub's age of a search is at least the client's age of the next.       *)
(***************************************************************************)
Ages == Seq(Nat)

Aligned(theirs, ours) ==
    /\ Len(theirs) <= Len(ours) + 1
    /\ \A j \in 0 .. Len(ours) - 1 :
          j + 1 < Len(theirs) => theirs[Len(theirs) - j - 1] >= ours[Len(ours) - j]

Throttled ==
    /\ recent \in Ages /\ searches \in Ages
    /\ Len(recent) <= SearchesPerMinute
    /\ Aligned(searches, recent)
    /\ attempt \in Nat /\ limits \in Nat
    /\ UnderWay => attempt # 0

\* What AgedWithinMinute keeps of a sequence, and what it drops.
LEMMA AgedIs ==
  ASSUME NEW s \in Ages, NEW d \in Nat
  PROVE  /\ Client!Aged(s, d) \in Ages /\ Len(Client!Aged(s, d)) = Len(s)
         /\ \A i \in 1 .. Len(s) : Client!Aged(s, d)[i] = Client!Least(s[i] + d, Client!Minute)
<1>1. Len(s) \in Nat /\ DOMAIN s = 1 .. Len(s) /\ \A i \in 1 .. Len(s) : s[i] \in Nat
  BY DEF Ages
<1>2. Client!Aged(s, d) = [i \in 1 .. Len(s) |-> Client!Least(s[i] + d, Client!Minute)]
  BY <1>1 DEF Client!Aged
<1>3. \A n \in Nat : Client!Least(n + d, Client!Minute) \in Nat
  BY DEF Client!Least, Client!Minute
<1>4. \A i \in 1 .. Len(s) : Client!Least(s[i] + d, Client!Minute) \in Nat
  BY <1>1, <1>3
<1>5. QED
  BY <1>1, <1>2, <1>4 DEF Ages

LEMMA SuffixIs ==
  ASSUME NEW s \in Ages, NEW m \in 1 .. Len(s)
  PROVE  /\ SubSeq(s, m, Len(s)) \in Ages
         /\ Len(SubSeq(s, m, Len(s))) = Len(s) - (m - 1)
         /\ \A i \in 1 .. (Len(s) - (m - 1)) : SubSeq(s, m, Len(s))[i] = s[m + i - 1]
  BY SMTT(30) DEF Ages

LEMMA AppendedIs ==
  ASSUME NEW s \in Ages
  PROVE  /\ Append(s, 0) \in Ages /\ Len(Append(s, 0)) = Len(s) + 1
         /\ Append(s, 0)[Len(s) + 1] = 0
         /\ \A i \in 1 .. Len(s) : Append(s, 0)[i] = s[i]
  BY DEF Ages

LEMMA AgesAre ==
  ASSUME NEW s \in Ages
  PROVE  Len(s) \in Nat /\ \A i \in 1 .. Len(s) : s[i] \in Nat
  BY DEF Ages

\* t is what is left of s after d: all but the first k.
Kept(s, d, t, k) ==
    /\ t \in Ages /\ Len(t) = Len(s) - k
    /\ \A i \in 1 .. Len(t) : t[i] = Client!Least(s[i + k] + d, Client!Minute)
    /\ \A i \in 1 .. k : s[i] + d >= Client!Minute
    /\ k < Len(s) => s[k + 1] + d < Client!Minute

LEMMA WithinMinuteIs ==
  ASSUME NEW s \in Ages, NEW d \in Nat
  PROVE  \E k \in 0 .. Len(s) : Kept(s, d, Client!AgedWithinMinute(s, d), k)
<1> DEFINE now0 == Client!Aged(s, d)
           young == {i \in DOMAIN now0 : Client!InLastMinute(now0[i])}
           t == Client!AgedWithinMinute(s, d)
<1>1. /\ now0 \in Ages /\ Len(now0) = Len(s) /\ Len(s) \in Nat
      /\ DOMAIN now0 = 1 .. Len(s)
      /\ \A i \in 1 .. Len(s) : s[i] \in Nat
                                /\ now0[i] = Client!Least(s[i] + d, Client!Minute)
  BY AgedIs DEF Ages
<1>2. t = IF young = {} THEN <<>>
          ELSE SubSeq(now0, CHOOSE i \in young : \A j \in young : i <= j, Len(now0))
  BY Zenon DEF Client!AgedWithinMinute
<1> HIDE DEF now0
<1>3. \A i \in 1 .. Len(s) : i \in young <=> s[i] + d < Client!Minute
  BY <1>1 DEF Client!InLastMinute, Client!Least, Client!Minute
<1>4. young \in SUBSET Nat /\ young \subseteq 1 .. Len(s)
  BY <1>1
<1> HIDE DEF young, t
<1>5. CASE young = {}
  <2>1. \A i \in 1 .. Len(s) : s[i] + d >= Client!Minute
    BY <1>1, <1>3, <1>5 DEF Client!Minute
  <2>2. t = <<>> /\ t \in Ages /\ Len(t) = 0
    BY <1>2, <1>5 DEF Ages
  <2>3. Len(s) \in 0 .. Len(s) /\ Len(s) - Len(s) = 0
    BY <1>1
  <2>4. Kept(s, d, t, Len(s))
    BY <1>1, <2>1, <2>2, <2>3 DEF Kept
  <2>5. QED
    BY <2>3, <2>4 DEF t
<1>6. CASE young # {}
  <2>1. PICK m \in young : m = CHOOSE i \in young : \A j \in young : i <= j
    BY <1>4, <1>6, LeastElement
  <2>2. \A j \in young : m <= j
    BY <1>4, <1>6, <2>1, LeastElement
  <2>3. m \in 1 .. Len(s) /\ m - 1 \in 0 .. Len(s) /\ m \in Nat \ {0}
    BY <1>1, <1>4
  <2>8. t = SubSeq(now0, m, Len(now0))
    BY <1>2, <1>6, <2>1, Zenon
  <2>9. t \in Ages /\ Len(t) = Len(s) - (m - 1)
    BY <1>1, <2>3, <2>8, SuffixIs
  <2>10. ASSUME NEW i \in 1 .. Len(t)
         PROVE  t[i] = now0[i + (m - 1)] /\ i + (m - 1) \in 1 .. Len(s)
    <3>1. t[i] = now0[m + i - 1]
      BY <1>1, <2>3, <2>8, <2>9, SuffixIs
    <3>2. m + i - 1 = i + (m - 1) /\ i + (m - 1) \in 1 .. Len(s)
      BY <1>1, <2>3, <2>9
    <3>3. QED
      BY <3>1, <3>2
  <2>4. \A i \in 1 .. Len(t) : t[i] = Client!Least(s[i + (m - 1)] + d, Client!Minute)
    BY <1>1, <2>10
  <2>5. \A i \in 1 .. (m - 1) : s[i] + d >= Client!Minute
    BY SMTT(40), <1>1, <1>3, <2>2, <2>3 DEF Client!Minute
  <2>6. s[(m - 1) + 1] + d < Client!Minute
    BY <1>3, <2>1, <2>3
  <2>7. Kept(s, d, t, m - 1)
    BY <1>1, <2>4, <2>5, <2>6, <2>9 DEF Kept
  <2>11. QED
    BY <2>3, <2>7 DEF t
<1>7. QED
  BY <1>5, <1>6

LEMMA StaysAligned ==
  ASSUME NEW theirs \in Ages, NEW ours \in Ages, Aligned(theirs, ours),
         NEW d \in Nat, NEW k \in 0 .. Len(theirs), NEW t, Kept(theirs, d, t, k)
  PROVE  Aligned(t, Client!Aged(ours, d))
<1> DEFINE o == Client!Aged(ours, d)
<1>1. /\ o \in Ages /\ Len(o) = Len(ours) /\ Len(ours) \in Nat /\ Len(theirs) \in Nat
      /\ \A i \in 1 .. Len(ours) : o[i] = Client!Least(ours[i] + d, Client!Minute)
                                   /\ ours[i] \in Nat
      /\ \A i \in 1 .. Len(theirs) : theirs[i] \in Nat
  BY AgedIs DEF Ages
<1> HIDE DEF o
<1>2. Len(t) = Len(theirs) - k /\ Len(t) <= Len(o) + 1
  BY <1>1 DEF Kept, Aligned
<1>3. ASSUME NEW j \in 0 .. Len(o) - 1, j + 1 < Len(t) PROVE t[Len(t) - j - 1] >= o[Len(o) - j]
  <2>1. /\ Len(t) - j - 1 \in 1 .. Len(t) /\ (Len(t) - j - 1) + k = Len(theirs) - j - 1
        /\ j \in 0 .. Len(ours) - 1 /\ j + 1 < Len(theirs)
        /\ Len(ours) - j \in 1 .. Len(ours) /\ Len(theirs) - j - 1 \in 1 .. Len(theirs)
    BY SMTT(40), <1>1, <1>2, <1>3
  <2>2. /\ t[Len(t) - j - 1] = Client!Least(theirs[Len(theirs) - j - 1] + d, Client!Minute)
        /\ o[Len(o) - j] = Client!Least(ours[Len(ours) - j] + d, Client!Minute)
    BY <1>1, <2>1 DEF Kept
  <2>3. theirs[Len(theirs) - j - 1] >= ours[Len(ours) - j]
    BY <2>1 DEF Aligned
  <2>4. \A p, q \in Nat : p >= q =>
           Client!Least(p + d, Client!Minute) >= Client!Least(q + d, Client!Minute)
    BY DEF Client!Least, Client!Minute
  <2>5. theirs[Len(theirs) - j - 1] \in Nat /\ ours[Len(ours) - j] \in Nat
    BY <1>1, <2>1
  <2>6. QED
    BY <2>2, <2>3, <2>4, <2>5
<1>4. QED
  BY <1>2, <1>3 DEF Aligned, o
\* A search: ours is recorded when the limit lets it, theirs is seen d later.
LEMMA SearchStaysAligned ==
  ASSUME NEW theirs \in Ages, NEW ours \in Ages, Aligned(theirs, ours),
         NEW w \in Nat, NEW d \in Nat,
         NEW k \in 0 .. Len(ours), NEW o, Kept(ours, w, o, k),
         NEW l \in 0 .. Len(theirs), NEW t, Kept(theirs, w + d, t, l)
  PROVE  /\ Append(t, 0) \in Ages /\ Client!Aged(Append(o, 0), d) \in Ages
         /\ Len(Client!Aged(Append(o, 0), d)) = Len(ours) - k + 1
         /\ Aligned(Append(t, 0), Client!Aged(Append(o, 0), d))
<1> DEFINE o2 == Append(o, 0)
           o3 == Client!Aged(o2, d)
           t2 == Append(t, 0)
<1>1. /\ Len(ours) \in Nat /\ Len(theirs) \in Nat
      /\ \A i \in 1 .. Len(ours) : ours[i] \in Nat
      /\ \A i \in 1 .. Len(theirs) : theirs[i] \in Nat
  BY AgesAre
<1>2. /\ o \in Ages /\ Len(o) = Len(ours) - k /\ Len(o) \in Nat
      /\ \A i \in 1 .. Len(o) : o[i] = Client!Least(ours[i + k] + w, Client!Minute) /\ o[i] \in Nat
      /\ \A i \in 1 .. k : ours[i] + w >= Client!Minute
  BY AgesAre DEF Kept
<1>3. /\ t \in Ages /\ Len(t) = Len(theirs) - l /\ Len(t) \in Nat
      /\ \A i \in 1 .. Len(t) : t[i] = Client!Least(theirs[i + l] + (w + d), Client!Minute)
                                /\ t[i] \in Nat
      /\ l < Len(theirs) => theirs[l + 1] + (w + d) < Client!Minute
  BY AgesAre DEF Kept
<1>4. /\ o2 \in Ages /\ Len(o2) = Len(o) + 1 /\ o2[Len(o) + 1] = 0
      /\ \A i \in 1 .. Len(o) : o2[i] = o[i]
  BY <1>2, AppendedIs
<1>5. /\ t2 \in Ages /\ Len(t2) = Len(t) + 1 /\ t2[Len(t) + 1] = 0
      /\ \A i \in 1 .. Len(t) : t2[i] = t[i]
  BY <1>3, AppendedIs
<1> HIDE DEF o2, t2
<1>6. /\ o3 \in Ages /\ Len(o3) = Len(o2)
      /\ \A i \in 1 .. Len(o2) : o3[i] = Client!Least(o2[i] + d, Client!Minute)
  BY <1>4, AgedIs
<1> HIDE DEF o3
<1>11. /\ Len(ours) \in Nat /\ Len(theirs) \in Nat /\ Len(o) \in Nat /\ Len(t) \in Nat
       /\ Len(o) = Len(ours) - k /\ Len(t) = Len(theirs) - l
       /\ Len(t2) = Len(t) + 1 /\ Len(o3) = Len(o) + 1
       /\ Len(theirs) <= Len(ours) + 1
  BY <1>1, <1>2, <1>3, <1>4, <1>5, <1>6 DEF Aligned
<1>7. Len(t) <= Len(o) + 1
  <2> SUFFICES ASSUME Len(t) > Len(o) + 1 PROVE FALSE
    BY <1>11
  \* The first that GitHub keeps, and the client's next one, which is dropped.
  <2>1. /\ l < Len(theirs) /\ Len(theirs) - (l + 1) > Len(o)
        /\ Len(theirs) <= Len(ours) + 1
    BY SMTT(30), <1>11
  <2> DEFINE j == Len(theirs) - l - 2
  <2>2. /\ j \in 0 .. Len(ours) - 1 /\ j + 1 < Len(theirs)
        /\ Len(theirs) - j - 1 = l + 1
        /\ Len(ours) - j \in 1 .. k
    BY SMTT(30), <1>11, <2>1
  <2>3. theirs[l + 1] >= ours[Len(ours) - j]
    <3>1. theirs[Len(theirs) - j - 1] >= ours[Len(ours) - j]
      BY <2>2, Zenon DEF Aligned
    <3>2. QED
      BY <2>2, <3>1
  <2>4. ours[Len(ours) - j] + w >= Client!Minute
    BY <1>2, <2>2
  <2>5. theirs[l + 1] \in Nat /\ ours[Len(ours) - j] \in Nat
    <3>1. l + 1 \in 1 .. Len(theirs) /\ Len(ours) - j \in 1 .. Len(ours)
      <4> HIDE DEF j
      <4>1. Len(ours) - j \in 1 .. Len(ours)
        BY <1>11, <2>2
      <4>2. QED
        BY <1>11, <2>1, <4>1
    <3>2. QED
      BY <1>1, <3>1
  <2>6. theirs[l + 1] + (w + d) < Client!Minute
    BY <1>3, <1>11, <2>1
  <2> HIDE DEF j
  <2>7. QED
    BY SMTT(30), <2>3, <2>4, <2>5, <2>6 DEF Client!Minute
<1>8. ASSUME NEW j \in 0 .. Len(o3) - 1, j + 1 < Len(t2)
      PROVE  t2[Len(t2) - j - 1] >= o3[Len(o3) - j]
  <2>1. /\ j \in Nat /\ Len(t2) - j - 1 = Len(t) - j /\ Len(t) - j \in 1 .. Len(t)
        /\ t2[Len(t2) - j - 1] = Client!Least(theirs[(Len(t) - j) + l] + (w + d), Client!Minute)
        /\ (Len(t) - j) + l = Len(theirs) - j /\ Len(theirs) - j \in 1 .. Len(theirs)
    <3>1. /\ j \in Nat /\ Len(t2) - j - 1 = Len(t) - j /\ Len(t) - j \in 1 .. Len(t)
          /\ (Len(t) - j) + l = Len(theirs) - j /\ Len(theirs) - j \in 1 .. Len(theirs)
      BY SMTT(30), <1>8, <1>11
    <3>2. t2[Len(t) - j] = Client!Least(theirs[(Len(t) - j) + l] + (w + d), Client!Minute)
      BY <1>3, <1>5, <3>1
    <3>3. QED
      BY <3>1, <3>2
  <2>2. t2[Len(t2) - j - 1] = Client!Least(theirs[Len(theirs) - j] + (w + d), Client!Minute)
        /\ theirs[Len(theirs) - j] \in Nat
    BY <1>1, <2>1
  <2>3. CASE j = 0
    <3>1. o3[Len(o3) - j] = Client!Least(0 + d, Client!Minute)
      <4>1. Len(o3) - j = Len(o2) /\ Len(o2) \in 1 .. Len(o2) /\ o2[Len(o2)] = 0
        <5>1. Len(o2) \in Nat /\ Len(o2) >= 1 /\ Len(o3) = Len(o2) /\ j = 0
          BY <1>2, <1>4, <1>6, <2>3
        <5>2. o2[Len(o2)] = 0
          BY <1>4
        <5>3. QED
          BY <5>1, <5>2
      <4>2. o3[Len(o2)] = Client!Least(o2[Len(o2)] + d, Client!Minute)
        BY <1>6, <4>1
      <4>3. QED
        BY <4>1, <4>2
    <3>2. \A p \in Nat : Client!Least(p + (w + d), Client!Minute)
                            >= Client!Least(0 + d, Client!Minute)
      BY DEF Client!Least, Client!Minute
    <3>3. QED
      BY <2>2, <3>1, <3>2
  <2>4. CASE j # 0
    <3>1. /\ Len(o3) - j \in 1 .. Len(o) /\ (Len(o3) - j) + k = Len(ours) - (j - 1)
          /\ j - 1 \in 0 .. Len(ours) - 1 /\ (j - 1) + 1 < Len(theirs)
          /\ Len(ours) - (j - 1) \in 1 .. Len(ours)
          /\ Len(theirs) - (j - 1) - 1 = Len(theirs) - j
      BY SMTT(30), <1>8, <1>11, <2>4
    <3>2. o3[Len(o3) - j] = Client!Least(o[Len(o3) - j] + d, Client!Minute)
      <4>1. Len(o3) - j \in 1 .. Len(o2)
        BY <1>4, <1>11, <3>1
      <4>2. o2[Len(o3) - j] = o[Len(o3) - j]
        BY <1>4, <3>1
      <4>3. QED
        BY <1>6, <4>1, <4>2
    <3>3. o[Len(o3) - j] = Client!Least(ours[Len(ours) - (j - 1)] + w, Client!Minute)
      BY <1>2, <3>1
    <3>4. theirs[Len(theirs) - j] >= ours[Len(ours) - (j - 1)]
      <4>1. j - 1 \in 0 .. Len(ours) - 1 /\ (j - 1) + 1 < Len(theirs)
        BY <3>1
      <4>2. theirs[Len(theirs) - (j - 1) - 1] >= ours[Len(ours) - (j - 1)]
        BY <4>1, Zenon DEF Aligned
      <4>3. QED
        BY <3>1, <4>2
    <3>5. ours[Len(ours) - (j - 1)] \in Nat
      BY <1>1, <3>1
    <3>6. \A p, q \in Nat : p >= q =>
             Client!Least(p + (w + d), Client!Minute)
                >= Client!Least(Client!Least(q + w, Client!Minute) + d, Client!Minute)
      BY DEF Client!Least, Client!Minute
    <3>7. QED
      BY <2>2, <3>2, <3>3, <3>4, <3>5, <3>6
  <2>5. QED
    BY <2>3, <2>4
<1>9. Aligned(t2, o3)
  BY <1>7, <1>8, <1>11 DEF Aligned
<1>10. QED
  BY <1>2, <1>4, <1>5, <1>6, <1>9 DEF o2, o3, t2
\* Time passes between requests, or while an answer is awaited.
LEMMA ThrottledAges ==
  ASSUME Throttled, NEW d \in Nat,
         recent' = Client!Aged(recent, d), searches' = Client!AgedWithinMinute(searches, d)
  PROVE  /\ recent' \in Ages /\ searches' \in Ages
         /\ Len(recent') <= SearchesPerMinute /\ Aligned(searches', recent')
<1>1. recent \in Ages /\ searches \in Ages /\ Aligned(searches, recent)
      /\ Len(recent) <= SearchesPerMinute
  BY DEF Throttled
<1>2. PICK k \in 0 .. Len(searches) : Kept(searches, d, searches', k)
  BY <1>1, WithinMinuteIs
<1>3. searches' \in Ages
  BY <1>2 DEF Kept
<1>4. recent' \in Ages /\ Len(recent') = Len(recent)
  BY <1>1, AgedIs
<1>5. Aligned(searches', recent')
  BY <1>1, <1>2, StaysAligned
<1>6. QED
  BY <1>1, <1>3, <1>4, <1>5

\* The client waits until it may search, and then searches.
LEMMA ThrottledSends ==
  ASSUME Throttled, NEW d \in Nat, SearchesPerMinute \in Nat \ {0},
         LET w == Client!Throttle(recent) IN
         /\ recent' = Client!Aged(Append(Client!AgedWithinMinute(recent, w), 0), d)
         /\ searches' = Append(Client!AgedWithinMinute(searches, w + d), 0)
  PROVE  /\ recent' \in Ages /\ searches' \in Ages
         /\ Len(recent') <= SearchesPerMinute /\ Aligned(searches', recent')
<1> DEFINE w == Client!Throttle(recent)
           o == Client!AgedWithinMinute(recent, w)
           t == Client!AgedWithinMinute(searches, w + d)
<1>1. recent \in Ages /\ searches \in Ages /\ Aligned(searches, recent)
      /\ Len(recent) <= SearchesPerMinute /\ Len(recent) \in Nat
  BY AgesAre DEF Throttled
<1>2. w \in Nat /\ (Len(recent) >= SearchesPerMinute => recent[1] + w >= Client!Minute)
  <2>1. CASE Len(recent) >= SearchesPerMinute
    <3>1. recent[1] \in Nat
      BY <1>1, <2>1, AgesAre
    <3>2. QED
      BY SMTT(40), <3>1, <2>1 DEF Client!Throttle, Client!InLastMinute, Client!Minute
  <2>2. CASE ~(Len(recent) >= SearchesPerMinute)
    BY <2>2 DEF Client!Throttle
  <2>3. QED
    BY <2>1, <2>2
<1>3. recent' = Client!Aged(Append(o, 0), d) /\ searches' = Append(t, 0)
  OBVIOUS
<1> HIDE DEF w
<1>4. PICK k \in 0 .. Len(recent) : Kept(recent, w, o, k)
  BY <1>1, <1>2, WithinMinuteIs
<1>5. PICK l \in 0 .. Len(searches) : Kept(searches, w + d, t, l)
  <2>1. w + d \in Nat
    BY <1>2
  <2>2. QED
    BY <1>1, <2>1, WithinMinuteIs
<1> HIDE DEF o, t
<1>6. /\ searches' \in Ages /\ recent' \in Ages
      /\ Len(recent') = Len(recent) - k + 1
      /\ Aligned(searches', recent')
  <2>1. /\ Append(t, 0) \in Ages /\ Client!Aged(Append(o, 0), d) \in Ages
        /\ Len(Client!Aged(Append(o, 0), d)) = Len(recent) - k + 1
        /\ Aligned(Append(t, 0), Client!Aged(Append(o, 0), d))
    BY <1>1, <1>2, <1>4, <1>5, SearchStaysAligned
  <2>2. QED
    BY <1>3, <2>1
<1>7. Len(recent) >= SearchesPerMinute => k >= 1
  <2> SUFFICES ASSUME Len(recent) >= SearchesPerMinute, k = 0 PROVE FALSE
    BY <1>4
  <2>1. recent[1] + w < Client!Minute /\ recent[1] + w >= Client!Minute /\ recent[1] \in Nat
    BY <1>1, <1>2, <1>4, AgesAre DEF Kept
  <2>2. QED
    BY SMTT(30), <1>2, <2>1 DEF Client!Minute
<1>8. Len(recent') <= SearchesPerMinute
  BY SMTT(40), <1>1, <1>4, <1>6, <1>7
<1>9. QED
  BY <1>6, <1>8

LEMMA ThrottledInit == Client!Init => Throttled
<1> SUFFICES ASSUME Client!Init PROVE Throttled
  OBVIOUS
<1>1. recent = <<>> /\ searches = <<>> /\ attempt = 0 /\ limits = 0 /\ request = "idle"
  BY DEF Client!Init
<1>2. <<>> \in Ages /\ Len(<<>>) = 0
  BY DEF Ages
<1>3. Aligned(searches, recent)
  BY <1>1, <1>2 DEF Aligned
<1>4. SearchesPerMinute \in Nat
  BY GatesConstants DEF GatesConstants, Client!RequestsConstants
<1>5. QED
  BY <1>1, <1>2, <1>3, <1>4 DEF Throttled, UnderWay

\* Every request ends, or waits w and is sent again.
LEMMA ThrottledNext == Throttled /\ [Client!Next]_client => Throttled'
<1> SUFFICES ASSUME Throttled, [Client!Next]_client PROVE Throttled'
  OBVIOUS
<1>0. /\ SearchesPerMinute \in Nat \ {0}
      /\ Latencies \subseteq Nat /\ Pauses \subseteq Nat /\ RetryAfters \subseteq Nat
  BY GatesConstants DEF GatesConstants, Client!RequestsConstants
<1>1. ASSUME NEW w \in Nat, Client!Again(w), limits' \in Nat PROVE Throttled'
  BY <1>1, ThrottledAges DEF Client!Again, Throttled
<1>2. ASSUME NEW r, Client!Ends(r), limits' \in Nat PROVE Throttled'
  BY <1>2 DEF Client!Ends, Throttled, UnderWay
<1>3. attempt \in Nat /\ limits \in Nat /\ (request = "sent" => attempt # 0)
  BY DEF Throttled, UnderWay
<1>4. request = "sent" => Client!Backoff \in Nat
  BY <1>3 DEF Client!Backoff, Client!TransientBackoff, Client!Least
<1>5. CASE Client!Begin
  BY <1>0, <1>5, ThrottledAges DEF Client!Begin, Throttled
<1>6. CASE Client!Send
  <2>1. PICK d \in Latencies :
           IF kind = "search"
           THEN LET w == Client!Throttle(recent) IN
                /\ recent' = Client!Aged(Append(Client!AgedWithinMinute(recent, w), 0), d)
                /\ searches' = Append(Client!AgedWithinMinute(searches, w + d), 0)
           ELSE recent' = Client!Aged(recent, d)
                /\ searches' = Client!AgedWithinMinute(searches, d)
    BY <1>6, Zenon DEF Client!Send
  <2>2. d \in Nat
    BY <1>0
  <2>3. /\ recent' \in Ages /\ searches' \in Ages
        /\ Len(recent') <= SearchesPerMinute /\ Aligned(searches', recent')
    <3>1. CASE kind = "search"
      BY <1>0, <2>1, <2>2, <3>1, ThrottledSends
    <3>2. CASE kind # "search"
      BY <2>1, <2>2, <3>2, ThrottledAges
    <3>3. QED
      BY <3>1, <3>2
  <2>4. /\ request = "send" /\ UNCHANGED <<attempt, limits>>
    BY <1>6 DEF Client!Send
  <2>5. QED
    BY <2>3, <2>4 DEF Throttled, UnderWay
<1>7. CASE Client!NotSent
  BY <1>1, <1>2, <1>3, <1>4, <1>7 DEF Client!NotSent
<1>8. CASE Client!Lost
  BY <1>1, <1>2, <1>3, <1>4, <1>8 DEF Client!Lost
<1>9. CASE Client!Refused
  BY <1>2, <1>3, <1>9 DEF Client!Refused
<1>10. CASE Client!Answered
  BY <1>2, <1>3, <1>10 DEF Client!Answered
<1>11. ASSUME NEW after \in RetryAfters \cup {0}, Client!SecondaryLimit(after) PROVE Throttled'
  <2>1. after \in Nat /\ limits' = limits + 1 /\ limits' \in Nat \ {0}
    BY <1>0, <1>3, <1>11 DEF Client!SecondaryLimit
  <2>2. Client!SecondaryBackoff[Client!Least(limits', 3)] \in Nat
    BY <2>1 DEF Client!SecondaryBackoff, Client!Least
  <2>3. Client!Most(after, Client!SecondaryBackoff[Client!Least(limits', 3)]) \in Nat
    BY <2>1, <2>2 DEF Client!Most
  <2>4. QED
    BY <1>1, <1>2, <1>11, <2>1, <2>3 DEF Client!SecondaryLimit
<1>12. ASSUME NEW after \in RetryAfters \cup {0}, Client!RateLimit(after) PROVE Throttled'
  <2>1. (IF after = 0 THEN Client!Backoff ELSE after) \in Nat
    BY <1>0, <1>4, <1>12 DEF Client!RateLimit
  <2>2. QED
    BY <1>1, <1>2, <1>3, <1>12, <2>1 DEF Client!RateLimit
<1>13. CASE Client!Finished \/ UNCHANGED client
  BY <1>13 DEF Client!Finished, Client!vars, client, Throttled, UnderWay
<1>14. QED
  BY <1>5, <1>6, <1>7, <1>8, <1>9, <1>10, <1>11, <1>12, <1>13 DEF Client!Next

LEMMA WithinLimit == Throttled => Client!SearchesWithinLimit
<1> SUFFICES ASSUME Throttled PROVE Client!SearchesWithinLimit
  OBVIOUS
<1>1. Len(recent) \in Nat /\ Len(searches) \in Nat /\ SearchesPerMinute \in Nat
  BY AgesAre, GatesConstants DEF Throttled, GatesConstants, Client!RequestsConstants
<1>2. QED
  BY <1>1 DEF Throttled, Aligned, Client!SearchesWithinLimit

\* Together: GitHub applies a change at most once for one call, a call that ends as
\* limited, refused or not sent was not applied, and however long answers take, at
\* most one search more than the client allows itself reaches GitHub within a
\* minute (_request, _throttle_search).
THEOREM CallsAreSafeHolds == GatesSpec => []CallsAreSafe
<1>1. GatesInit => Throttled
  BY ThrottledInit DEF GatesInit
<1>2. Throttled /\ [GatesNext]_AllVars => Throttled'
  <2> SUFFICES ASSUME Throttled, [GatesNext]_AllVars PROVE Throttled'
    OBVIOUS
  <2>1. [Client!Next]_client
    BY DEF GatesNext, AllVars
  <2>2. QED
    BY <2>1, ThrottledNext
<1>3. Throttled => Client!SearchesWithinLimit
  BY WithinLimit
<1>4. Client!AppliedOnce /\ Client!SearchesWithinLimit => CallsAreSafe
  BY DEF CallsAreSafe
<1>5. QED
  BY <1>1, <1>2, <1>3, <1>4, ChangesApplyOnce, PTL DEF GatesSpec

----------------------------------------------------------------------------
(***************************************************************************)
(* IssueRead, for any page size, discussion and number of edits.  A comment *)
(* never moves away from the beginning of the discussion, and one that is   *)
(* written or edited is newer than all there was.  So one that was read at  *)
(* a place before the middle of the read, and at the same place after it,   *)
(* was there in the middle.                                                 *)
(***************************************************************************)
CommentRec == [id : Nat, version : Nat]
Discussion == Seq(CommentRec)
Newest == issueEdits + MaxComments + 1
UpTo(s, e) == \A i \in DOMAIN s : s[i].version <= e
Distinct(s) == \A i, j \in DOMAIN s : s[i].id = s[j].id => i = j

IsIssue(x) == x = [version |-> x.version, comments |-> x.comments]

ReaderTypes ==
    /\ issueEdits \in Nat
    /\ IsIssue(issue)
    /\ issue.comments \in Discussion /\ UpTo(issue.comments, Newest) /\ Distinct(issue.comments)
    /\ \A i \in DOMAIN issue.comments : issue.comments[i].id <= Newest
    /\ comments \in Discussion /\ UpTo(comments, Newest)
    /\ discussion \in Discussion /\ UpTo(discussion, Newest)
    /\ reading \in {"first", "second"} =>
          page \in Nat \ {0} /\ Len(comments) = (page - 1) * PageSize
    /\ reading \in {"idle", "middle"} => comments = <<>>
    /\ reading = "middle" => page = 1
    /\ reading \in {"first", "middle", "second", "confirm"} => issue \in seen

\* What t holds stands in s where t has it, or earlier, or no longer.
NoFurther(s, t) == \A i \in DOMAIN t : \A j \in DOMAIN s : s[j] = t[i] => j <= i

\* What stands in t is newer than e, or stood in s, there or later.
NoNearer(s, e, t) ==
    \A j \in DOMAIN t : t[j].version > e \/ \E k \in DOMAIN s : k >= j /\ s[k] = t[j]

\* The issue x was what the metadata says when the newest version was e; what was
\* read by then may have moved on, and what stands there now has come from it.
Middle(x, e) ==
    /\ IsIssue(x) /\ x.version = initial[1]
    /\ x.comments \in Discussion /\ Len(x.comments) = Len(discussion)
    /\ NoFurther(x.comments, discussion)
    /\ e \in Nat /\ e <= Newest /\ UpTo(discussion, e)
    /\ NoNearer(x.comments, e, issue.comments)
    /\ NoNearer(x.comments, e, comments)

ReadSoFar ==
    /\ reading = "first" => NoFurther(issue.comments, comments)
    /\ reading = "middle" => NoFurther(issue.comments, discussion) /\ Len(discussion) = initial[2]
    /\ reading = "second" => \E x \in seen : \E e \in Nat : Middle(x, e)
    /\ reading = "confirm" => [version |-> initial[1], comments |-> discussion] \in seen
    /\ reading = "done" => result \in seen

Reads == ReaderTypes /\ ReadSoFar

LEMMA WithoutIs ==
  ASSUME NEW s \in Discussion, NEW i \in DOMAIN s
  PROVE  /\ Reader!Without(s, i) \in Discussion
         /\ DOMAIN Reader!Without(s, i) = 1 .. (Len(s) - 1)
         /\ \A j \in 1 .. (Len(s) - 1) :
               Reader!Without(s, i)[j] = IF j < i THEN s[j] ELSE s[j + 1]
<1> DEFINE p == SubSeq(s, 1, i - 1)
           q == SubSeq(s, i + 1, Len(s))
<1>0. Len(s) \in Nat /\ i \in 1 .. Len(s)
  BY DEF Discussion
<1>1. p \in Discussion /\ Len(p) = i - 1 /\ \A j \in 1 .. (i - 1) : p[j] = s[j]
  BY DEF Discussion
<1>2. q \in Discussion /\ Len(q) = Len(s) - i /\ \A j \in 1 .. (Len(s) - i) : q[j] = s[j + i]
  BY DEF Discussion
<1>3. Reader!Without(s, i) = p \o q
  BY DEF Reader!Without
<1> HIDE DEF p, q
<1>4. p \o q \in Discussion /\ Len(p \o q) = Len(s) - 1
  BY <1>0, <1>1, <1>2 DEF Discussion
<1>5. ASSUME NEW j \in 1 .. (Len(s) - 1)
      PROVE  (p \o q)[j] = IF j < i THEN s[j] ELSE s[j + 1]
  <2>1. CASE j < i
    BY <1>0, <1>1, <1>2, <2>1 DEF Discussion
  <2>2. CASE ~(j < i)
    <3>1. (p \o q)[j] = q[j - (i - 1)]
      <4>1. /\ p \in Seq(CommentRec) /\ q \in Seq(CommentRec)
            /\ Len(p) = i - 1 /\ Len(q) = Len(s) - i
        BY <1>1, <1>2 DEF Discussion
      <4>2. j \in 1 .. (Len(p) + Len(q)) /\ ~(j <= Len(p))
        BY SMTT(40), <1>0, <2>2, <4>1
      <4>3. (p \o q)[j] = q[j - Len(p)]
        BY <4>1, <4>2, ConcatProperties
      <4>4. QED
        BY <4>1, <4>3
    <3>2. j - (i - 1) \in 1 .. (Len(s) - i) /\ (j - (i - 1)) + i = j + 1
      BY <1>0, <2>2
    <3>3. QED
      BY <1>2, <2>2, <3>1, <3>2
  <2>3. QED
    BY <2>1, <2>2
<1>6. DOMAIN (p \o q) = 1 .. (Len(s) - 1)
  BY <1>4 DEF Discussion
<1>7. QED
  BY <1>3, <1>4, <1>5, <1>6

LEMMA PageIs ==
  ASSUME NEW s \in Discussion, NEW from \in Nat, PageSize \in Nat \ {0},
         NEW n \in Nat \ {0}, (n - 1) * PageSize = from, n * PageSize = from + PageSize
  PROVE  /\ Reader!PageOf(s, n) \in Discussion
         /\ Len(Reader!PageOf(s, n)) <= PageSize
         /\ \A j \in DOMAIN Reader!PageOf(s, n) :
               /\ from + j \in DOMAIN s
               /\ Reader!PageOf(s, n)[j] = s[from + j]
<1> DEFINE upto == IF from + PageSize < Len(s) THEN from + PageSize ELSE Len(s)
<1>1. Reader!PageOf(s, n) = SubSeq(s, from + 1, upto)
  BY DEF Reader!PageOf
<1>2. upto \in Nat /\ upto <= Len(s) /\ upto <= from + PageSize
  BY DEF Discussion
<1> HIDE DEF upto
<1> DEFINE t == SubSeq(s, from + 1, upto)
<1>3. /\ t \in Discussion /\ DOMAIN t = 1 .. Len(t)
      /\ Len(t) = IF from + 1 <= upto THEN upto - (from + 1) + 1 ELSE 0
      /\ \A j \in 1 .. Len(t) : t[j] = s[from + j]
  BY SMTT(30), <1>2 DEF Discussion
<1>4. Len(s) \in Nat /\ DOMAIN s = 1 .. Len(s)
  BY DEF Discussion
<1> HIDE DEF t
<1>5. Len(t) <= PageSize /\ \A j \in 1 .. Len(t) : from + j \in 1 .. Len(s)
  BY <1>2, <1>3, <1>4
<1>6. Reader!PageOf(s, n) = t
  BY <1>1 DEF t
<1>7. QED
  BY <1>3, <1>4, <1>5, <1>6

\* However people change the issue, what stands there then is new or was there
\* before, at the same place or later.
LEMMA EditMoves ==
  ASSUME ReaderTypes, Reader!Edit, MaxComments \in Nat
  PROVE  /\ IsIssue(issue')
         /\ issue'.comments \in Discussion
         /\ UpTo(issue'.comments, Newest') /\ Distinct(issue'.comments)
         /\ \A i \in DOMAIN issue'.comments : issue'.comments[i].id <= Newest'
         /\ NoNearer(issue.comments, Newest, issue'.comments)
         /\ issueEdits' = issueEdits + 1 /\ Newest' = Newest + 1
<1> DEFINE old == issue.comments
           new == Newest'
<1>1. issueEdits' = issueEdits + 1 /\ new = Newest + 1 /\ Newest \in Nat
      /\ new = issueEdits' + MaxComments + 1
  BY DEF Reader!Edit, ReaderTypes, Newest
<1>2. /\ old \in Discussion /\ Len(old) \in Nat /\ DOMAIN old = 1 .. Len(old)
      /\ \A i \in DOMAIN old :
            /\ old[i].id \in Nat /\ old[i].version \in Nat
            /\ old[i].id <= Newest /\ old[i].version <= Newest
            /\ old[i] = [id |-> old[i].id, version |-> old[i].version]
      /\ Distinct(old)
  <2>1. /\ old \in Discussion /\ UpTo(old, Newest) /\ Distinct(old)
        /\ \A i \in DOMAIN old : old[i].id <= Newest
    BY DEF ReaderTypes
  <2>2. /\ Len(old) \in Nat /\ DOMAIN old = 1 .. Len(old)
        /\ \A i \in DOMAIN old : old[i] \in CommentRec
    BY <2>1 DEF Discussion
  <2>3. \A x \in CommentRec : x.id \in Nat /\ x.version \in Nat
                              /\ x = [id |-> x.id, version |-> x.version]
    BY DEF CommentRec
  <2>4. QED
    BY <2>1, <2>2, <2>3 DEF UpTo
<1>3. issue = [version |-> issue.version, comments |-> old]
  <2>1. IsIssue(issue)
    BY DEF ReaderTypes
  <2>2. QED
    BY <2>1, Zenon DEF IsIssue
<1>4. \/ issue' = [issue EXCEPT !.version = new]
      \/ issue' = [issue EXCEPT !.comments = Append(@, [id |-> new, version |-> new])]
      \/ \E i \in DOMAIN old : issue' = [issue EXCEPT !.comments[i].version = new]
      \/ \E i \in DOMAIN old : issue' = [issue EXCEPT !.comments = Reader!Without(@, i)]
  BY <1>1, Zenon DEF Reader!Edit, Reader!Comment
<1> DEFINE Comes(s) == /\ s \in Discussion
                       /\ UpTo(s, new) /\ Distinct(s)
                       /\ \A i \in DOMAIN s : s[i].id <= new
                       /\ NoNearer(old, Newest, s)
<1> HIDE DEF old, new
<1>5. ASSUME NEW s, issue' = [version |-> issue'.version, comments |-> s], Comes(s)
      PROVE  IsIssue(issue') /\ Comes(issue'.comments)
  <2>1. issue'.comments = s
    BY <1>5
  <2>2. QED
    BY <1>5, <2>1 DEF IsIssue
<1>6. CASE issue' = [issue EXCEPT !.version = new]
  <2>1. issue' = [version |-> new, comments |-> old]
    BY <1>3, <1>6
  <2>2. Comes(old)
    BY SMTT(40), <1>1, <1>2 DEF UpTo, NoNearer
  <2> HIDE DEF Comes
  <2>3. QED
    BY <1>1, <1>5, <2>1, <2>2 DEF old, new, Comes
<1>7. CASE issue' = [issue EXCEPT !.comments = Append(@, [id |-> new, version |-> new])]
  <2> DEFINE s == Append(old, [id |-> new, version |-> new])
  <2>1. issue' = [version |-> issue.version, comments |-> s]
    BY <1>3, <1>7 DEF old
  <2>2. /\ s \in Discussion /\ DOMAIN s = 1 .. (Len(old) + 1)
        /\ \A j \in 1 .. Len(old) : s[j] = old[j]
        /\ s[Len(old) + 1] = [id |-> new, version |-> new]
    BY <1>1, <1>2 DEF Discussion, CommentRec
  <2> HIDE DEF s
  <2>3. UpTo(s, new) /\ \A i \in DOMAIN s : s[i].id <= new
    <3>1. ASSUME NEW j \in DOMAIN s PROVE s[j].id <= new /\ s[j].version <= new
      <4>1. CASE j = Len(old) + 1
        BY <1>1, <2>2, <4>1
      <4>2. CASE j \in DOMAIN old
        <5>1. s[j] = old[j]
          BY <1>2, <2>2, <4>2
        <5>2. QED
          BY SMTT(40), <1>1, <1>2, <4>2, <5>1
      <4>3. QED
        BY <1>2, <2>2, <4>1, <4>2
    <3>2. QED
      BY <3>1 DEF UpTo
  <2>4. Distinct(s)
    BY <1>1, <1>2, <2>2 DEF Distinct
  <2>5. NoNearer(old, Newest, s)
    BY <1>1, <1>2, <2>2 DEF NoNearer
  <2>6. QED
    BY <1>1, <1>5, <2>1, <2>2, <2>3, <2>4, <2>5 DEF old, new
<1>8. ASSUME NEW i \in DOMAIN old, issue' = [issue EXCEPT !.comments[i].version = new]
      PROVE  IsIssue(issue') /\ Comes(issue'.comments)
  <2> DEFINE s == [old EXCEPT ![i] = [id |-> old[i].id, version |-> new]]
  <2>1. issue' = [version |-> issue.version, comments |-> s]
    <3>1. issue' = [version |-> issue.version, comments |-> [old EXCEPT ![i].version = new]]
      BY <1>3, <1>8
    <3>2. [old[i] EXCEPT !.version = new] = [id |-> old[i].id, version |-> new]
      BY <1>2
    <3>3. QED
      BY <3>1, <3>2
  <2>2. /\ s \in Discussion /\ DOMAIN s = DOMAIN old
        /\ \A j \in DOMAIN old : j # i => s[j] = old[j]
        /\ s[i] = [id |-> old[i].id, version |-> new]
    BY <1>1, <1>2 DEF Discussion, CommentRec
  <2> HIDE DEF s
  <2>7. ASSUME NEW j \in DOMAIN s
        PROVE  s[j].id = old[j].id /\ s[j].version = IF j = i THEN new ELSE old[j].version
    BY <2>2
  <2>3. UpTo(s, new) /\ \A j \in DOMAIN s : s[j].id <= new
    <3>1. ASSUME NEW j \in DOMAIN s PROVE s[j].id <= new /\ s[j].version <= new
      <4>1. j \in DOMAIN old
        BY <2>2
      <4>2. /\ old[j].id \in Nat /\ old[j].id <= Newest
            /\ old[j].version \in Nat /\ old[j].version <= Newest
        BY <1>2, <4>1
      <4>3. QED
        BY <1>1, <2>7, <4>2
    <3>2. QED
      BY <3>1 DEF UpTo
  <2>4. Distinct(s)
    <3>1. DOMAIN s = DOMAIN old /\ \A j \in DOMAIN s : s[j].id = old[j].id
      BY <2>2, <2>7
    <3>2. Distinct(old)
      BY <1>2
    <3>3. QED
      BY <3>1, <3>2 DEF Distinct
  <2>5. NoNearer(old, Newest, s)
    <3>1. ASSUME NEW j \in DOMAIN s
          PROVE  s[j].version > Newest \/ \E q \in DOMAIN old : q >= j /\ old[q] = s[j]
      <4>1. CASE j = i
        BY <1>1, <2>2, <4>1
      <4>2. CASE j # i
        <5>1. j \in DOMAIN old /\ old[j] = s[j] /\ j >= j
          BY <1>2, <2>2, <4>2
        <5>2. QED
          BY <5>1
      <4>3. QED
        BY <4>1, <4>2
    <3>2. QED
      BY <3>1 DEF NoNearer
  <2>6. QED
    BY <1>5, <2>1, <2>2, <2>3, <2>4, <2>5
<1>9. ASSUME NEW i \in DOMAIN old, issue' = [issue EXCEPT !.comments = Reader!Without(@, i)]
      PROVE  IsIssue(issue') /\ Comes(issue'.comments)
  <2> DEFINE s == Reader!Without(old, i)
  <2>1. issue' = [version |-> issue.version, comments |-> s]
    BY <1>3, <1>9 DEF old
  <2>2. /\ s \in Discussion /\ DOMAIN s = 1 .. (Len(old) - 1)
        /\ \A j \in 1 .. (Len(old) - 1) : s[j] = IF j < i THEN old[j] ELSE old[j + 1]
    BY <1>2, WithoutIs
  <2> DEFINE spot(j) == IF j < i THEN j ELSE j + 1
  <2> HIDE DEF s
  <2>8. ASSUME NEW j \in DOMAIN s
        PROVE  spot(j) \in DOMAIN old /\ spot(j) >= j /\ j \in Nat /\ s[j] = old[spot(j)]
    <3>1. /\ Len(old) \in Nat /\ DOMAIN old = 1 .. Len(old)
          /\ j \in 1 .. (Len(old) - 1) /\ s[j] = IF j < i THEN old[j] ELSE old[j + 1]
      BY <1>2, <2>2
    <3>2. CASE j < i
      BY <3>1, <3>2
    <3>3. CASE ~(j < i)
      BY <3>1, <3>3
    <3>4. QED
      BY <3>2, <3>3
  <2>9. \A j, k \in DOMAIN s : spot(j) = spot(k) => j = k
    <3>1. DOMAIN s \subseteq Nat /\ i \in Nat
      BY <1>2, <2>2
    <3>2. QED
      BY <3>1
  <2> HIDE DEF spot
  <2>3. UpTo(s, new) /\ \A j \in DOMAIN s : s[j].id <= new
    <3>1. ASSUME NEW j \in DOMAIN s PROVE s[j].id <= new /\ s[j].version <= new
      <4> DEFINE c == old[spot(j)]
      <4>1. /\ s[j] = c /\ c.id \in Nat /\ c.id <= Newest
            /\ c.version \in Nat /\ c.version <= Newest
        BY <1>2, <2>8
      <4> HIDE DEF c
      <4>2. QED
        BY <1>1, <4>1
    <3>2. QED
      BY <3>1 DEF UpTo
  <2>4. Distinct(s)
    BY <1>2, <2>8, <2>9 DEF Distinct
  <2>5. NoNearer(old, Newest, s)
    BY <1>2, <2>8 DEF NoNearer
  <2>6. QED
    BY <1>5, <2>1, <2>2, <2>3, <2>4, <2>5
<1>10. QED
  <2> HIDE DEF Comes
  <2>1. IsIssue(issue') /\ Comes(issue'.comments)
    BY <1>4, <1>6, <1>7, <1>8, <1>9 DEF Comes, old, new
  <2>2. QED
    BY <1>1, <2>1 DEF Comes, old, new

LEMMA EditNext == Reads /\ Reader!Edit /\ MaxComments \in Nat => Reads'
<1> SUFFICES ASSUME Reads, Reader!Edit, MaxComments \in Nat PROVE Reads'
  OBVIOUS
<1> USE DEF Reads
<1>1. /\ IsIssue(issue')
      /\ issue'.comments \in Discussion
      /\ UpTo(issue'.comments, Newest') /\ Distinct(issue'.comments)
      /\ \A i \in DOMAIN issue'.comments : issue'.comments[i].id <= Newest'
      /\ NoNearer(issue.comments, Newest, issue'.comments)
      /\ issueEdits' = issueEdits + 1 /\ Newest' = Newest + 1
  BY EditMoves
<1>2. /\ UNCHANGED <<reading, page, comments, initial, discussion, result>>
      /\ seen' = IF reading = "done" THEN seen ELSE seen \cup {issue'}
      /\ reading # "idle"
  BY DEF Reader!Edit
<1>3. Newest \in Nat
  BY DEF ReaderTypes, Newest
<1>4. \A s \in Discussion : DOMAIN s \subseteq Nat /\ \A i \in DOMAIN s : s[i].version \in Nat
  <2>1. \A s \in Discussion : DOMAIN s \subseteq Nat /\ \A i \in DOMAIN s : s[i] \in CommentRec
    BY DEF Discussion
  <2>2. \A x \in CommentRec : x.version \in Nat
    BY DEF CommentRec
  <2>3. QED
    BY <2>1, <2>2
<1>5. ASSUME NEW s \in Discussion, UpTo(s, Newest) PROVE UpTo(s, Newest')
  BY <1>1, <1>3, <1>4, <1>5 DEF UpTo
<1>6. ReaderTypes'
  BY <1>1, <1>2, <1>5 DEF ReaderTypes
<1>7. ASSUME NEW t \in Discussion, UpTo(t, Newest), NoFurther(issue.comments, t)
      PROVE  NoFurther(issue'.comments, t)
  <2> SUFFICES ASSUME NEW i \in DOMAIN t, NEW j \in DOMAIN issue'.comments,
                      issue'.comments[j] = t[i]
               PROVE  j <= i
    BY Zenon DEF NoFurther
  <2>1. t[i].version \in Nat /\ t[i].version <= Newest
    BY <1>4, <1>7 DEF UpTo
  <2>2. PICK k \in DOMAIN issue.comments : k >= j /\ issue.comments[k] = issue'.comments[j]
    BY <1>1, <1>3, <2>1 DEF NoNearer
  <2>3. k <= i
    BY <1>7, <2>2 DEF NoFurther
  <2>4. i \in Nat /\ j \in Nat /\ k \in Nat
    BY <1>1, <1>4, <1>7 DEF ReaderTypes
  <2>5. QED
    BY <2>2, <2>3, <2>4
<1>8. ASSUME NEW s \in Discussion, NEW e0 \in Nat, e0 <= Newest, NoNearer(s, e0, issue.comments)
      PROVE  NoNearer(s, e0, issue'.comments)
  <2> SUFFICES ASSUME NEW j \in DOMAIN issue'.comments, ~(issue'.comments[j].version > e0)
               PROVE  \E k \in DOMAIN s : k >= j /\ s[k] = issue'.comments[j]
    BY Zenon DEF NoNearer
  <2>1. issue'.comments[j].version \in Nat
    BY <1>1, <1>4
  <2>2. PICK k \in DOMAIN issue.comments : k >= j /\ issue.comments[k] = issue'.comments[j]
    BY <1>1, <1>3, <1>8, <2>1 DEF NoNearer
  <2>3. PICK l \in DOMAIN s : l >= k /\ s[l] = issue.comments[k]
    BY <1>8, <2>2 DEF NoNearer
  <2>4. j \in Nat /\ k \in Nat /\ l \in Nat
    BY <1>1, <1>4 DEF ReaderTypes
  <2>5. l >= j
    BY <2>2, <2>3, <2>4
  <2>6. QED
    BY <2>2, <2>3, <2>5
<1>9. reading' = "second" => \E x \in seen' : \E e \in Nat : Middle(x, e)'
  <2> SUFFICES ASSUME reading = "second" PROVE \E x \in seen' : \E e \in Nat : Middle(x, e)'
    BY <1>2
  <2>1. PICK x \in seen : \E e \in Nat : Middle(x, e)
    BY DEF ReadSoFar
  <2>2. PICK e1 \in Nat : Middle(x, e1)
    BY <2>1
  <2>3. Middle(x, e1)'
    BY <1>1, <1>2, <1>3, <1>8, <2>2 DEF Middle
  <2>4. x \in seen'
    BY <1>2
  <2>5. QED
    BY <2>3, <2>4
<1>10. ReadSoFar'
  BY <1>2, <1>7, <1>9 DEF ReadSoFar, ReaderTypes
<1>11. QED
  BY <1>6, <1>10

\* A failed read has read nothing.
LEMMA FailNext == Reads /\ Reader!Fail /\ UNCHANGED <<issue, issueEdits, seen>> => Reads'
<1> SUFFICES ASSUME Reads, Reader!Fail, UNCHANGED <<issue, issueEdits, seen>> PROVE Reads'
  OBVIOUS
<1>1. /\ reading' = "failed" /\ comments' = <<>> /\ discussion' = discussion
      /\ Newest' = Newest
  BY DEF Reader!Fail, Newest
<1>2. comments' \in Discussion /\ UpTo(comments', Newest)
  BY <1>1 DEF Discussion, UpTo
<1>3. QED
  BY <1>1, <1>2 DEF Reads, ReaderTypes, ReadSoFar

LEMMA StartNext == Reads /\ Reader!Start /\ PageSize \in Nat => Reads'
<1> SUFFICES ASSUME Reads, Reader!Start, PageSize \in Nat PROVE Reads'
  OBVIOUS
<1>1. /\ UNCHANGED <<issue, issueEdits, comments, discussion, result>>
      /\ seen' = {issue}
      /\ comments = <<>>
      /\ reading' = "failed" \/ (reading' = "first" /\ page' = 1)
  <2>1. reading = "idle" /\ comments = <<>>
    BY DEF Reads, ReaderTypes, Reader!Start
  <2>2. QED
    BY <2>1, Zenon DEF Reader!Start
<1>2. Len(comments) = 0 /\ DOMAIN comments = {}
  BY <1>1
<1>3. ReaderTypes'
  <2>1. (page' - 1) * PageSize = 0 \/ reading' = "failed"
    BY <1>1
  <2>2. QED
    BY <1>1, <1>2, <2>1 DEF Reads, ReaderTypes, UpTo, Newest
<1>4. ReadSoFar'
  BY <1>1, <1>2 DEF ReadSoFar, NoFurther
<1>5. QED
  BY <1>3, <1>4 DEF Reads

LEMMA MetadataNext == Reads /\ Reader!ReadMetadata /\ GatesConstants => Reads'
<1> SUFFICES ASSUME Reads, Reader!ReadMetadata, GatesConstants PROVE Reads'
  OBVIOUS
<1>0. UNCHANGED <<issue, issueEdits, seen>>
  BY DEF Reader!ReadMetadata
<1>1. CASE Reader!Fail
  BY <1>0, <1>1, FailNext
<1>2. CASE /\ reading = "middle" /\ Reader!Metadata = initial /\ reading' = "second"
           /\ UNCHANGED <<page, comments, initial, discussion, result>>
  <2>1. /\ issue.version = initial[1] /\ Len(issue.comments) = Len(discussion)
        /\ NoFurther(issue.comments, discussion)
    BY <1>2 DEF Reader!Metadata, Reads, ReadSoFar
  <2>2. Newest \in Nat /\ Newest' = Newest /\ issue \in seen /\ comments = <<>>
    BY <1>0, <1>2 DEF Reads, ReaderTypes, Newest, GatesConstants, Reader!IssueReadConstants
  <2>3. NoNearer(issue.comments, Newest, issue.comments)
    BY DEF NoNearer, Reads, ReaderTypes, Discussion
  <2>4. NoNearer(issue.comments, Newest, comments)
    BY <2>2 DEF NoNearer
  <2>5. Middle(issue, Newest)
    BY <2>1, <2>2, <2>3, <2>4 DEF Middle, Reads, ReaderTypes
  <2>6. Middle(issue, Newest)'
    BY <1>0, <1>2, <2>2, <2>5 DEF Middle
  <2>7. page' = 1 /\ Len(comments') = 0
    BY <1>2, <2>2 DEF Reads, ReaderTypes
  <2>9. (page' - 1) * PageSize = 0
    BY <2>7 DEF GatesConstants, Reader!IssueReadConstants
  <2>8. QED
    BY <1>0, <1>2, <2>2, <2>6, <2>7, <2>9 DEF Reads, ReaderTypes, ReadSoFar
<1>3. CASE reading = "confirm" /\ reading' = "done"
           /\ result' = [version |-> initial[1], comments |-> discussion]
           /\ UNCHANGED <<page, comments, initial, discussion>>
  BY <1>0, <1>3 DEF Reads, ReaderTypes, ReadSoFar, Newest
<1>4. QED
  BY <1>1, <1>2, <1>3, Zenon DEF Reader!ReadMetadata

LEMMA PageArithmetic ==
  ASSUME NEW n \in Nat \ {0}, NEW k \in Nat
  PROVE  /\ (n - 1) * k \in Nat /\ n * k = (n - 1) * k + k
         /\ ((n + 1) - 1) * k = n * k
  OBVIOUS

LEMMA ConcatIs ==
  ASSUME NEW p \in Discussion, NEW q \in Discussion
  PROVE  /\ p \o q \in Discussion /\ Len(p \o q) = Len(p) + Len(q)
         /\ Len(p) \in Nat /\ Len(q) \in Nat
         /\ DOMAIN p = 1 .. Len(p) /\ DOMAIN q = 1 .. Len(q)
         /\ DOMAIN (p \o q) = 1 .. (Len(p) + Len(q))
  BY DEF Discussion

\* One more page: what was read before, and what stands at the next places now.
LEMMA PageNext ==
  ASSUME Reads, reading \in {"first", "second"}, GatesConstants
  PROVE  LET data == Reader!PageOf(issue.comments, page)
             all == comments \o data
         IN  /\ all \in Discussion /\ UpTo(all, Newest)
             /\ ~Reader!LastPage(data) => Len(all) = page * PageSize
             /\ reading = "first" => NoFurther(issue.comments, all)
             /\ \A x, e0 : Middle(x, e0) => NoNearer(x.comments, e0, all)
<1> DEFINE data == Reader!PageOf(issue.comments, page)
           all == comments \o data
           from == Len(comments)
<1>0. /\ PageSize \in Nat \ {0} /\ page \in Nat \ {0}
      /\ from \in Nat /\ from = (page - 1) * PageSize /\ page * PageSize = from + PageSize
  <2>1. /\ PageSize \in Nat \ {0} /\ page \in Nat \ {0} /\ from = (page - 1) * PageSize
    BY DEF GatesConstants, Reader!IssueReadConstants, Reads, ReaderTypes
  <2>2. QED
    BY <2>1, PageArithmetic
<1>1. comments \in Discussion /\ issue.comments \in Discussion
  BY DEF Reads, ReaderTypes
<1>2. /\ data \in Discussion /\ Len(data) <= PageSize
      /\ \A j \in DOMAIN data : from + j \in DOMAIN issue.comments
                                /\ data[j] = issue.comments[from + j]
  BY <1>0, <1>1, PageIs
<1> HIDE DEF data
<1>3. /\ all \in Discussion /\ Len(all) = from + Len(data) /\ Len(data) \in Nat
      /\ DOMAIN all = 1 .. (from + Len(data)) /\ DOMAIN data = 1 .. Len(data)
      /\ DOMAIN comments = 1 .. from
  BY <1>1, <1>2, ConcatIs
<1>4. ASSUME NEW i \in DOMAIN all
      PROVE  \/ i \in DOMAIN comments /\ all[i] = comments[i]
             \/ i \in DOMAIN issue.comments /\ all[i] = issue.comments[i]
  <2>1. CASE i <= from
    BY <1>1, <1>2, <1>3, <2>1 DEF Discussion
  <2>2. CASE i > from
    <3>1. all[i] = data[i - from] /\ i - from \in DOMAIN data
      BY <1>0, <1>1, <1>2, <1>3, <2>2 DEF Discussion
    <3>2. from + (i - from) = i
      BY <1>0, <1>3
    <3>3. QED
      BY <1>2, <3>1, <3>2
  <2>3. QED
    BY <1>0, <1>3, <2>1, <2>2
<1> HIDE DEF all
<1>5. UpTo(all, Newest)
  BY <1>4 DEF UpTo, Reads, ReaderTypes
<1>6. ~Reader!LastPage(data) => Len(all) = page * PageSize
  BY <1>0, <1>2, <1>3 DEF Reader!LastPage
<1>7. ASSUME reading = "first" PROVE NoFurther(issue.comments, all)
  <2> SUFFICES ASSUME NEW i \in DOMAIN all, NEW j \in DOMAIN issue.comments,
                      issue.comments[j] = all[i]
               PROVE  j <= i
    BY Zenon DEF NoFurther
  <2>1. CASE i \in DOMAIN comments /\ all[i] = comments[i]
    BY <1>7, <2>1 DEF NoFurther, Reads, ReadSoFar
  <2>2. CASE i \in DOMAIN issue.comments /\ all[i] = issue.comments[i]
    <3>1. i = j
      BY <2>2 DEF Distinct, Reads, ReaderTypes
    <3>2. QED
      BY <1>3, <3>1
  <2>3. QED
    BY <1>4, <2>1, <2>2
<1>8. ASSUME NEW x, NEW e0, Middle(x, e0) PROVE NoNearer(x.comments, e0, all)
  <2> SUFFICES ASSUME NEW j \in DOMAIN all
               PROVE  all[j].version > e0 \/ \E k \in DOMAIN x.comments :
                                                k >= j /\ x.comments[k] = all[j]
    BY Zenon DEF NoNearer
  <2>1. CASE j \in DOMAIN comments /\ all[j] = comments[j]
    BY <1>8, <2>1 DEF Middle, NoNearer
  <2>2. CASE j \in DOMAIN issue.comments /\ all[j] = issue.comments[j]
    BY <1>8, <2>2 DEF Middle, NoNearer
  <2>3. QED
    BY <1>4, <2>1, <2>2
<1>9. QED
  BY <1>3, <1>5, <1>6, <1>7, <1>8 DEF all, data

LEMMA PageReadNext == Reads /\ Reader!ReadPage /\ GatesConstants => Reads'
<1> SUFFICES ASSUME Reads, Reader!ReadPage, GatesConstants PROVE Reads'
  OBVIOUS
<1> DEFINE data == Reader!PageOf(issue.comments, page)
           all == comments \o data
<1>1. /\ reading \in {"first", "second"}
      /\ UNCHANGED <<issue, issueEdits, seen>>
  BY DEF Reader!ReadPage
<1>2. /\ all \in Discussion /\ UpTo(all, Newest)
      /\ ~Reader!LastPage(data) => Len(all) = page * PageSize
      /\ reading = "first" => NoFurther(issue.comments, all)
      /\ \A x, e0 : Middle(x, e0) => NoNearer(x.comments, e0, all)
  BY <1>1, PageNext
<1>3. \/ Reader!Fail
      \/ /\ ~Reader!LastPage(data) /\ page' = page + 1 /\ comments' = all
         /\ UNCHANGED <<reading, initial, discussion, result>>
      \/ /\ Len(all) = initial[2] /\ (reading = "second" => Reader!Confirmed(all))
         /\ reading' = IF reading = "first" THEN "middle" ELSE "confirm"
         /\ page' = 1 /\ comments' = <<>> /\ discussion' = all
         /\ UNCHANGED <<initial, result>>
  BY <1>1, Zenon DEF Reader!ReadPage
<1>4. Newest' = Newest
  BY <1>1 DEF Newest
<1> HIDE DEF all, data
<1>5. CASE Reader!Fail
  BY <1>1, <1>5, FailNext
<1>6. CASE /\ ~Reader!LastPage(data) /\ page' = page + 1 /\ comments' = all
           /\ UNCHANGED <<reading, initial, discussion, result>>
  <2>1. page' \in Nat \ {0} /\ Len(comments') = (page' - 1) * PageSize
    <3>1. page \in Nat \ {0} /\ PageSize \in Nat
      BY <1>1 DEF Reads, ReaderTypes, GatesConstants, Reader!IssueReadConstants
    <3>2. QED
      BY <1>2, <1>6, <3>1, PageArithmetic
  <2>2. ReaderTypes'
    BY <1>1, <1>2, <1>4, <1>6, <2>1 DEF Reads, ReaderTypes
  <2>3. ASSUME NEW x, NEW e0, Middle(x, e0) PROVE Middle(x, e0)'
    BY <1>1, <1>2, <1>4, <1>6, <2>3 DEF Middle
  <2>4. ReadSoFar'
    BY <1>1, <1>2, <1>6, <2>3 DEF Reads, ReadSoFar
  <2>5. QED
    BY <2>2, <2>4 DEF Reads
<1>7. CASE /\ Len(all) = initial[2] /\ (reading = "second" => Reader!Confirmed(all))
           /\ reading' = IF reading = "first" THEN "middle" ELSE "confirm"
           /\ page' = 1 /\ comments' = <<>> /\ discussion' = all
           /\ UNCHANGED <<initial, result>>
  <2>1. <<>> \in Discussion /\ UpTo(<<>>, Newest)
    BY DEF Discussion, UpTo
  <2>2. ReaderTypes'
    BY <1>1, <1>2, <1>4, <1>7, <2>1 DEF Reads, ReaderTypes
  <2>3. CASE reading = "first"
    BY <1>1, <1>2, <1>7, <2>2, <2>3 DEF Reads, ReadSoFar
  <2>4. CASE reading = "second"
    <3>1. PICK x \in seen : \E e0 \in Nat : Middle(x, e0)
      BY <2>4 DEF Reads, ReadSoFar
    <3>2. PICK e1 \in Nat : Middle(x, e1)
      BY <3>1
    <3>3. all = discussion
      BY <1>7, <2>4 DEF Reader!Confirmed
    <3>4. /\ x = [version |-> initial[1], comments |-> x.comments]
          /\ x.comments \in Discussion /\ discussion \in Discussion
          /\ Len(x.comments) = Len(discussion)
          /\ NoFurther(x.comments, discussion) /\ UpTo(discussion, e1)
      <4>1. Middle(x, e1) /\ discussion \in Discussion
        BY <3>2 DEF Reads, ReaderTypes
      <4>2. QED
        BY <4>1, Zenon DEF Middle, IsIssue
    <3>5. NoNearer(x.comments, e1, discussion)
      BY <1>2, <3>2, <3>3
    <3>6. \A j \in DOMAIN discussion : j \in Nat /\ discussion[j].version \in Nat
      <4>1. \A j \in DOMAIN discussion : j \in Nat /\ discussion[j] \in CommentRec
        BY <3>4 DEF Discussion
      <4>2. QED
        BY <4>1 DEF CommentRec
    <3>7. DOMAIN x.comments = DOMAIN discussion /\ \A j \in DOMAIN x.comments : j \in Nat
      BY <3>4 DEF Discussion
    <3>8. ASSUME NEW j \in DOMAIN discussion PROVE x.comments[j] = discussion[j]
      <4>1. ~(discussion[j].version > e1)
        BY <3>4, <3>6 DEF UpTo
      <4>2. PICK k \in DOMAIN x.comments : k >= j /\ x.comments[k] = discussion[j]
        BY <3>5, <4>1 DEF NoNearer
      <4>3. k <= j
        BY <3>4, <4>2 DEF NoFurther
      <4>4. k = j
        BY <3>6, <3>7, <4>2, <4>3
      <4>5. QED
        BY <4>2, <4>4
    <3>9. x.comments = discussion
      BY SMTT(40), <3>4, <3>7, <3>8 DEF Discussion
    <3>10. QED
      BY <1>1, <1>7, <2>2, <2>4, <3>1, <3>3, <3>4, <3>9 DEF Reads, ReadSoFar
  <2>5. QED
    BY <1>1, <2>3, <2>4
<1>8. QED
  BY <1>3, <1>5, <1>6, <1>7

LEMMA ReadsInit == Reader!Init /\ GatesConstants => Reads
<1> SUFFICES ASSUME Reader!Init, GatesConstants PROVE Reads
  OBVIOUS
<1>1. MaxComments \in Nat
  BY DEF GatesConstants, Reader!IssueReadConstants
<1>2. PICK n \in 0 .. MaxComments + 1 :
         issue = [version |-> 0, comments |-> [i \in 1 .. n |-> [id |-> i, version |-> 0]]]
  BY Zenon DEF Reader!Init, Reader!Comment
<1>3. n \in Nat /\ n <= MaxComments + 1
  BY <1>1, <1>2
<1> DEFINE s == [i \in 1 .. n |-> [id |-> i, version |-> 0]]
<1>4. issue.comments = s /\ IsIssue(issue)
  BY <1>2 DEF IsIssue
<1>5. /\ s \in Discussion /\ DOMAIN s = 1 .. n
      /\ \A i \in 1 .. n : s[i].id = i /\ s[i].version = 0
  BY <1>3 DEF Discussion, CommentRec
<1>6. issueEdits = 0 /\ Newest = MaxComments + 1
  BY <1>1 DEF Reader!Init, Newest
<1> HIDE DEF s
<1>7. UpTo(s, Newest) /\ Distinct(s) /\ \A i \in DOMAIN s : s[i].id <= Newest
  BY <1>1, <1>3, <1>5, <1>6 DEF UpTo, Distinct
<1>8. /\ reading = "idle" /\ comments = <<>> /\ discussion = <<>>
  BY DEF Reader!Init
<1>9. <<>> \in Discussion /\ UpTo(<<>>, Newest)
  BY DEF Discussion, UpTo
<1>10. QED
  BY <1>4, <1>5, <1>6, <1>7, <1>8, <1>9 DEF Reads, ReaderTypes, ReadSoFar

LEMMA ReadsNext == Reads /\ [Reader!Next]_reader /\ GatesConstants => Reads'
<1> SUFFICES ASSUME Reads, [Reader!Next]_reader, GatesConstants PROVE Reads'
  OBVIOUS
<1>1. PageSize \in Nat /\ MaxComments \in Nat
  BY DEF GatesConstants, Reader!IssueReadConstants
<1>2. CASE UNCHANGED reader
  BY <1>2 DEF reader, Reads, ReaderTypes, ReadSoFar, Newest, UpTo, Distinct, IsIssue, Middle
<1>3. CASE Reader!Finished
  BY <1>2, <1>3 DEF Reader!Finished, Reader!vars, reader
<1>4. QED
  BY <1>1, <1>2, <1>3, EditNext, StartNext, PageReadNext, MetadataNext DEF Reader!Next

\* What get_issue returns was the issue with exactly these comments at one instant
\* of the read, for any page size and however many times people edit, write or
\* delete between the pages (get_issue, get_issue_comments).
THEOREM ReadIsWholeHolds == GatesSpec => []ReadIsWhole
<1> DEFINE AllReads == scene = "reader" => Reads
<1>1. GatesInit => AllReads
  BY ReadsInit, GatesConstants DEF GatesInit
<1>2. AllReads /\ [GatesNext]_AllVars => AllReads'
  <2> SUFFICES ASSUME AllReads, [GatesNext]_AllVars, scene' = "reader" PROVE Reads'
    OBVIOUS
  <2>1. scene = "reader" /\ Reads
    BY DEF GatesNext, AllVars
  <2>2. [Reader!Next]_reader
    BY <2>1 DEF GatesNext, AllVars
  <2>3. QED
    BY <2>1, <2>2, ReadsNext, GatesConstants
<1>3. AllReads => ReadIsWhole
  BY DEF ReadIsWhole, Reader!ReadIsWhole, Reads, ReadSoFar
<1>4. QED
  BY <1>1, <1>2, <1>3, PTL DEF GatesSpec

----------------------------------------------------------------------------
(***************************************************************************)
(* Limits, for any number of runs, workers and days.  What the ledger       *)
(* holds is enough: a reservation is added only if the reconciled rows,     *)
(* which are the ledger's, have room for it.                                *)
(***************************************************************************)
LedgerIsFinite ==
    /\ IsFiniteSet(DOMAIN ledger)
    /\ \A r \in DOMAIN ledger : ledger[r] \in Nat
    /\ time \in Nat

LimitsKept == LedgerIsFinite /\ Limit!ReservationsKeepLimits

\* The instance counts as FiniteSets does.
LEMMA SameCount == ASSUME NEW S PROVE Limit!Cardinality(S) = Cardinality(S)
  BY DEF Limit!Cardinality, Cardinality

LEMMA LimitsKeptInit == Limit!Init => LimitsKept
<1> SUFFICES ASSUME Limit!Init PROVE LimitsKept
  OBVIOUS
<1>1. DOMAIN ledger = {} /\ time = 0
  BY DEF Limit!Init
<1>2. QED
  BY <1>1, FS_EmptySet DEF LimitsKept, LedgerIsFinite, Limit!ReservationsKeepLimits

\* A new reservation, made where there is room.
LEMMA RoomForOne ==
  ASSUME LimitsKept, NEW r, r \notin DOMAIN ledger, Limit!Room(ledger, r),
         ledger' = Limit!With(ledger, r, time), UNCHANGED time
  PROVE  LimitsKept'
<1> DEFINE OnDay(d) == {q \in DOMAIN ledger : Limit!DayOf(ledger[q]) = d}
<1> USE DEF LimitsKept
<1>1. /\ DOMAIN ledger' = DOMAIN ledger \cup {r} /\ ledger'[r] = time
      /\ \A q \in DOMAIN ledger : ledger'[q] = ledger[q] /\ q # r
  BY DEF Limit!With
<1>2. LedgerIsFinite'
  <2>1. IsFiniteSet(DOMAIN ledger')
    BY <1>1, FS_AddElement DEF LedgerIsFinite
  <2>2. QED
    BY <1>1, <2>1 DEF LedgerIsFinite
<1>3. MaxPerDay \in Nat /\ Cooldown \in Nat
  BY GatesConstants DEF Limit!LimitsConstants
<1>4. \A d : IsFiniteSet(OnDay(d)) /\ Cardinality(OnDay(d)) \in Nat
  <2> TAKE d
  <2>1. OnDay(d) \subseteq DOMAIN ledger
    OBVIOUS
  <2>2. QED
    BY <2>1, FS_Subset, FS_CardinalityType DEF LedgerIsFinite
<1>5. ASSUME NEW p \in DOMAIN ledger'
      PROVE  Cardinality({q \in DOMAIN ledger' :
                 Limit!DayOf(ledger'[q]) = Limit!DayOf(ledger'[p])}) <= MaxPerDay
  <2> DEFINE d == Limit!DayOf(ledger'[p])
             today == {q \in DOMAIN ledger' : Limit!DayOf(ledger'[q]) = d}
  <2>1. CASE d = Limit!DayOf(time)
    <3>1. today = OnDay(d) \cup {r} /\ r \notin OnDay(d)
      BY <1>1, <2>1
    <3>2. Cardinality(OnDay(d)) < MaxPerDay
      <4>1. Cardinality({q \in DOMAIN ledger : Limit!DayOf(ledger[q]) = Limit!DayOf(time)})
               < MaxPerDay
        BY SameCount DEF Limit!Room
      <4>2. OnDay(d) = {q \in DOMAIN ledger : Limit!DayOf(ledger[q]) = Limit!DayOf(time)}
        BY <2>1
      <4>3. QED
        BY <4>1, <4>2, Zenon
    <3> HIDE DEF OnDay, today, d
    <3>3. Cardinality(today) = Cardinality(OnDay(d)) + 1
      BY <1>4, <3>1, FS_AddElement
    <3>4. Cardinality(today) <= MaxPerDay
      BY <1>3, <1>4, <3>2, <3>3
    <3>5. QED
      BY <3>4 DEF today, d
  <2>2. CASE d # Limit!DayOf(time)
    <3>1. today = OnDay(d)
      BY <1>1, <2>2
    <3>2. p \in DOMAIN ledger /\ d = Limit!DayOf(ledger[p])
      BY <1>1, <2>2
    <3>3. Cardinality(OnDay(d)) <= MaxPerDay
      <4>1. Cardinality({q \in DOMAIN ledger : Limit!DayOf(ledger[q]) = Limit!DayOf(ledger[p])})
               <= MaxPerDay
        BY <3>2, SameCount DEF Limit!ReservationsKeepLimits
      <4>2. OnDay(d) = {q \in DOMAIN ledger : Limit!DayOf(ledger[q]) = Limit!DayOf(ledger[p])}
        BY <3>2
      <4>3. QED
        BY <4>1, <4>2, Zenon
    <3>4. QED
      BY <3>1, <3>3
  <2>3. QED
    BY <2>1, <2>2
<1>6. ASSUME NEW p \in DOMAIN ledger', NEW q \in DOMAIN ledger', q # p,
             RepositoryOf[q] = RepositoryOf[p]
      PROVE  ledger'[q] + Cooldown <= ledger'[p] \/ ledger'[p] + Cooldown <= ledger'[q]
  <2>1. CASE p = r
    <3>1. q \in DOMAIN ledger /\ ledger[q] \in Nat /\ time \in Nat
      BY <1>1, <1>6, <2>1 DEF LedgerIsFinite
    <3>2. Cooldown > 0 => ledger[q] + Cooldown <= time
      BY <1>6, <2>1, <3>1 DEF Limit!Room
    <3>3. QED
      BY <1>1, <1>3, <2>1, <3>1, <3>2
  <2>2. CASE q = r
    <3>1. p \in DOMAIN ledger /\ ledger[p] \in Nat /\ time \in Nat
      BY <1>1, <1>6, <2>2 DEF LedgerIsFinite
    <3>2. Cooldown > 0 => ledger[p] + Cooldown <= time
      BY <1>6, <2>2, <3>1 DEF Limit!Room
    <3>3. QED
      BY <1>1, <1>3, <2>2, <3>1, <3>2
  <2>3. CASE p # r /\ q # r
    BY <1>1, <1>6, <2>3 DEF Limit!ReservationsKeepLimits
  <2>4. QED
    BY <2>1, <2>2, <2>3
<1>7. Limit!ReservationsKeepLimits'
  <2> SUFFICES ASSUME NEW p \in DOMAIN ledger'
               PROVE  /\ Limit!Cardinality({q \in DOMAIN ledger' :
                             Limit!DayOf(ledger'[q]) = Limit!DayOf(ledger'[p])}) <= MaxPerDay
                      /\ \A q \in DOMAIN ledger' \ {p} :
                            RepositoryOf[q] = RepositoryOf[p] =>
                              \/ ledger'[q] + Cooldown <= ledger'[p]
                              \/ ledger'[p] + Cooldown <= ledger'[q]
    BY DEF Limit!ReservationsKeepLimits, Limit!DayOf
  <2> QED
    BY <1>5, <1>6, SameCount
<1>8. QED
  BY <1>2, <1>7

LEMMA LimitsKeptNext == LimitsKept /\ [Limit!Next]_limit => LimitsKept'
<1> SUFFICES ASSUME LimitsKept, [Limit!Next]_limit PROVE LimitsKept'
  OBVIOUS
<1> USE DEF Limit!store
<1>1. ASSUME UNCHANGED ledger, time' \in Nat PROVE LimitsKept'
  BY <1>1 DEF LimitsKept, LedgerIsFinite, Limit!ReservationsKeepLimits
<1>2. time \in Nat
  BY DEF LimitsKept, LedgerIsFinite
<1>3. ASSUME NEW w \in Workers, Limit!begin_publication(w) PROVE LimitsKept'
  <2> DEFINE r == at[w].run
  <2>1. CASE r \in DOMAIN ledger
    <3>1. UNCHANGED <<ledger, time>>
      BY <1>3, <2>1 DEF Limit!begin_publication
    <3>2. QED
      BY <1>1, <1>2, <3>1
  <2>2. CASE r \notin DOMAIN ledger
    <3>1. Limit!Room(ledger, r) /\ ledger' = Limit!With(ledger, r, time) /\ UNCHANGED time
      BY <1>3, <2>2 DEF Limit!begin_publication, Limit!_reconcile_publication_state
    <3>2. QED
      BY <2>2, <3>1, RoomForOne
  <2>3. QED
    BY <2>1, <2>2
<1>4. ASSUME NEW w \in Workers,
             \/ Limit!OpenPullRequest(w) \/ Limit!Record(w) \/ Limit!Fail(w) \/ Limit!Stop(w)
             \/ \E r \in Runs : Limit!CheckLimits(w, r) \/ Limit!Resume(w, r)
      PROVE  UNCHANGED <<ledger, time>>
  BY <1>4 DEF Limit!OpenPullRequest, Limit!Record, Limit!Fail, Limit!Stop, Limit!CheckLimits,
              Limit!Resume
<1>5. ASSUME NEW r \in Runs, Limit!Index(r) \/ Limit!Touch(r) \/ Limit!LoseRow(r)
      PROVE  UNCHANGED <<ledger, time>>
  BY <1>5 DEF Limit!Index, Limit!Touch, Limit!LoseRow
<1>6. CASE Limit!Tick \/ Limit!SetBack
  <2>1. UNCHANGED ledger /\ time' \in Nat
    BY <1>2, <1>6 DEF Limit!Tick, Limit!SetBack
  <2>2. QED
    BY <1>1, <2>1
<1>7. CASE UNCHANGED limit
  BY <1>1, <1>2, <1>7 DEF limit
<1>8. QED
  BY <1>1, <1>2, <1>3, <1>4, <1>5, <1>6, <1>7 DEF Limit!Next

\* No UTC day and no cooldown has more publications begun in it than the limits
\* allow, for any number of runs, repositories and workers, with rows lost to a
\* restore and a clock set back (_reserve_publication_in_transaction).
THEOREM ReservationsKeepLimitsHolds == GatesSpec => []ReservationsKeepLimits
<1>1. GatesInit => LimitsKept
  BY LimitsKeptInit DEF GatesInit
<1>2. LimitsKept /\ [GatesNext]_AllVars => LimitsKept'
  BY LimitsKeptNext DEF GatesNext, AllVars
<1>3. LimitsKept => ReservationsKeepLimits
  BY DEF LimitsKept, ReservationsKeepLimits
<1>4. QED
  BY <1>1, <1>2, <1>3, PTL DEF GatesSpec

----------------------------------------------------------------------------
(***************************************************************************)
(* Approval, for any number of people and publishers and any edits.  The    *)
(* fingerprint that a person agreed to is on every approved row and in      *)
(* every copy a publisher carries; a copy of the present version is the     *)
(* row; and a publisher keeps its token and the bytes it validated.         *)
(***************************************************************************)
Shape(r, F) == r = [f \in F |-> r[f]]
ShapeOfAll(m, S, F) == m = [s \in S |-> m[s]] /\ \A s \in S : Shape(m[s], F)

RowFields == {"status", "ver", "seal", "gates", "bound", "approval", "intent", "commit"}
PersonFields == {"pc", "shown", "copy"}
WorkerFields == {"pc", "copy", "patch", "recovering"}

IsRow(r) == Shape(r, RowFields) /\ r.ver \in Nat

Shapes ==
    /\ IsRow(row)
    /\ ShapeOfAll(who, Sessions, PersonFields)
    /\ ShapeOfAll(worker, Publishers, WorkerFields)

RowIsAgreed == row.status \in {"approved", "submitting"} => row.approval.hash \in agreed

PersonAgreed(s) ==
    /\ who[s].pc = "confirmed" => who[s].shown \in agreed
    /\ who[s].pc = "write" =>
          /\ IsRow(who[s].copy) /\ who[s].copy.ver <= row.ver
          /\ who[s].copy.approval.hash \in agreed
          /\ who[s].copy.ver = row.ver => who[s].copy.commit = row.commit

Made(c, bytes) == [patch |-> bytes, identity |-> c.bound.identity, at |-> c.intent]

CarriesAgreed(w) ==
    /\ worker[w].pc # "idle" =>
          /\ IsRow(worker[w].copy) /\ worker[w].copy.ver <= row.ver
          /\ worker[w].copy.approval.hash \in agreed
          /\ worker[w].copy.ver = row.ver => worker[w].copy = row
    /\ worker[w].pc \in {"gates", "begin", "commit", "push"} =>
          /\ token = worker[w].copy.bound.login
          /\ worker[w].copy.approval.hash =
                Approve!Surface(worker[w].copy.seal, worker[w].copy.bound, worker[w].patch.bytes)
    /\ worker[w].pc = "push" =>
          /\ worker[w].copy.commit = Made(worker[w].copy, worker[w].patch.bytes)
          /\ row.commit = worker[w].copy.commit

SentIsCommitted ==
    \A p \in sent : p.commit = row.commit /\ row.commit # Approve!None

Reviewed ==
    /\ Shapes /\ RowIsAgreed
    /\ \A s \in Sessions : PersonAgreed(s)
    /\ \A w \in Publishers : CarriesAgreed(w)
    /\ SentIsCommitted
    /\ Approve!PublishedWasReviewed

\* Before anything happens.
LEMMA ReviewedInit == Approve!Init => Reviewed
<1> SUFFICES ASSUME Approve!Init PROVE Reviewed
  OBVIOUS
<1>1. IsRow(row)
  BY DEF Approve!Init, IsRow, Shape, RowFields
<1>2. ShapeOfAll(who, Sessions, PersonFields)
  BY DEF Approve!Init, ShapeOfAll, Shape, PersonFields, Approve!Away
<1>3. ShapeOfAll(worker, Publishers, WorkerFields)
  BY DEF Approve!Init, ShapeOfAll, Shape, WorkerFields
<1>4. /\ row.status = "ready" /\ sent = {}
      /\ \A s \in Sessions : who[s].pc = "idle"
      /\ \A w \in Publishers : worker[w].pc = "idle"
  BY DEF Approve!Init, Approve!Away
<1>5. QED
  BY <1>1, <1>2, <1>3, <1>4
     DEF Reviewed, Shapes, RowIsAgreed, PersonAgreed, CarriesAgreed, SentIsCommitted,
         Approve!PublishedWasReviewed

\* A commit is never the missing one.
LEMMA CommitIsMade == \A p, i, t : [patch |-> p, identity |-> i, at |-> t] # Approve!None
  BY DEF Approve!None

\* Changing one field of a record.
LEMMA OneField ==
  ASSUME NEW r, NEW F, Shape(r, F), NEW g \in F, NEW v
  PROVE  LET x == [r EXCEPT ![g] = v] IN
         Shape(x, F) /\ x[g] = v /\ \A f \in F : f # g => x[f] = r[f]
  BY DEF Shape

\* Changing one field of one of many records.
LEMMA OneFieldOfOne ==
  ASSUME NEW S, NEW F, NEW m, ShapeOfAll(m, S, F), NEW s \in S, NEW g \in F, NEW v
  PROVE  LET n == [m EXCEPT ![s][g] = v] IN
         /\ ShapeOfAll(n, S, F) /\ n[s][g] = v
         /\ \A f \in F : f # g => n[s][f] = m[s][f]
         /\ \A t \in S : t # s => n[t] = m[t]
<1> DEFINE n == [m EXCEPT ![s][g] = v]
<1>1. n = [t \in S |-> n[t]] /\ n[s] = [m[s] EXCEPT ![g] = v] /\ \A t \in S : t # s => n[t] = m[t]
  BY DEF ShapeOfAll
<1>2. Shape(m[s], F)
  BY DEF ShapeOfAll
<1>3. Shape(n[s], F) /\ n[s][g] = v /\ \A f \in F : f # g => n[s][f] = m[s][f]
  BY <1>1, <1>2, OneField
<1> HIDE DEF n
<1>4. ShapeOfAll(n, S, F)
  BY <1>1, <1>3 DEF ShapeOfAll
<1>5. QED
  BY <1>1, <1>3, <1>4 DEF n

\* Writing a row makes its version one higher and leaves the rest.
LEMMA WrittenRow ==
  ASSUME NEW r, IsRow(r), NEW status_
  PROVE  LET x == Approve!Written(r, status_) IN
         /\ IsRow(x) /\ x.ver = r.ver + 1 /\ x.status = status_
         /\ x.seal = r.seal /\ x.gates = r.gates /\ x.bound = r.bound
         /\ x.approval = r.approval /\ x.intent = r.intent /\ x.commit = r.commit
<1> DEFINE y == [r EXCEPT !.status = status_]
           x == [y EXCEPT !.ver = y.ver + 1]
<1>1. Shape(y, RowFields) /\ y.status = status_ /\ \A f \in RowFields : f # "status" => y[f] = r[f]
  BY OneField DEF IsRow, RowFields
<1> HIDE DEF y
<1>2. Shape(x, RowFields) /\ x.ver = y.ver + 1 /\ \A f \in RowFields : f # "ver" => x[f] = y[f]
  BY <1>1, OneField DEF RowFields
<1> HIDE DEF x
<1>3. x = Approve!Written(r, status_)
  BY <1>1 DEF x, y, Approve!Written, RowFields, IsRow
<1>4. /\ IsRow(x) /\ x.ver = r.ver + 1 /\ x.status = status_
      /\ x.seal = r.seal /\ x.gates = r.gates /\ x.bound = r.bound
      /\ x.approval = r.approval /\ x.intent = r.intent /\ x.commit = r.commit
  BY <1>1, <1>2 DEF IsRow, RowFields
<1>5. QED
  BY <1>3, <1>4

\* The fields a step sets on one of the people or one of the publishers.
PersonAt(s, pc_) == [who EXCEPT ![s].pc = pc_]
PersonShown(s, pc_, u) == [who EXCEPT ![s].pc = pc_, ![s].shown = u]
PersonHolds(s, pc_, u) == [who EXCEPT ![s].pc = pc_, ![s].copy = u]

LEMMA PersonMoves ==
  ASSUME ShapeOfAll(who, Sessions, PersonFields), NEW s \in Sessions, NEW pc_
  PROVE  LET n == PersonAt(s, pc_) IN
         /\ ShapeOfAll(n, Sessions, PersonFields)
         /\ n[s].pc = pc_ /\ n[s].shown = who[s].shown
         /\ \A t \in Sessions : t # s => n[t] = who[t]
<1>1. "pc" \in PersonFields /\ "shown" \in PersonFields
  BY DEF PersonFields
<1>2. LET n == [who EXCEPT ![s]["pc"] = pc_] IN
         /\ ShapeOfAll(n, Sessions, PersonFields) /\ n[s]["pc"] = pc_
         /\ \A f \in PersonFields : f # "pc" => n[s][f] = who[s][f]
         /\ \A t \in Sessions : t # s => n[t] = who[t]
  BY <1>1, OneFieldOfOne
<1>3. QED
  BY <1>1, <1>2 DEF PersonAt

LEMMA PersonFieldsSet ==
  ASSUME ShapeOfAll(who, Sessions, PersonFields), NEW s \in Sessions, NEW pc_, NEW u
  PROVE  /\ LET n == PersonShown(s, pc_, u) IN
            /\ ShapeOfAll(n, Sessions, PersonFields)
            /\ n[s].pc = pc_ /\ n[s].shown = u
            /\ \A t \in Sessions : t # s => n[t] = who[t]
         /\ LET n == PersonHolds(s, pc_, u) IN
            /\ ShapeOfAll(n, Sessions, PersonFields)
            /\ n[s].pc = pc_ /\ n[s].copy = u
            /\ \A t \in Sessions : t # s => n[t] = who[t]
<1>1. "pc" \in PersonFields /\ "shown" \in PersonFields /\ "copy" \in PersonFields
  BY DEF PersonFields
<1> DEFINE k == PersonAt(s, pc_)
           n == [k EXCEPT ![s]["shown"] = u]
           o == [k EXCEPT ![s]["copy"] = u]
<1>2. /\ n = [who EXCEPT ![s]["pc"] = pc_, ![s]["shown"] = u]
      /\ o = [who EXCEPT ![s]["pc"] = pc_, ![s]["copy"] = u]
  BY DEF PersonAt
<1>3. /\ ShapeOfAll(k, Sessions, PersonFields) /\ k[s]["pc"] = pc_
      /\ \A t \in Sessions : t # s => k[t] = who[t]
  BY PersonMoves
<1> HIDE DEF k
<1>4. /\ ShapeOfAll(n, Sessions, PersonFields) /\ n[s]["pc"] = pc_ /\ n[s]["shown"] = u
      /\ \A t \in Sessions : t # s => n[t] = k[t]
  BY SMTT(40), <1>1, <1>3, OneFieldOfOne
<1>5. /\ ShapeOfAll(o, Sessions, PersonFields) /\ o[s]["pc"] = pc_ /\ o[s]["copy"] = u
      /\ \A t \in Sessions : t # s => o[t] = k[t]
  BY SMTT(40), <1>1, <1>3, OneFieldOfOne
<1> HIDE DEF n, o
<1>6. QED
  BY <1>2, <1>3, <1>4, <1>5 DEF PersonShown, PersonHolds

WorkerAt(w, pc_) == [worker EXCEPT ![w].pc = pc_]
WorkerRead(w, pc_, u) == [worker EXCEPT ![w].pc = pc_, ![w].patch = u]
WorkerHolds(w, pc_, u) == [worker EXCEPT ![w].pc = pc_, ![w].copy = u]

LEMMA WorkerMoves ==
  ASSUME ShapeOfAll(worker, Publishers, WorkerFields), NEW w \in Publishers, NEW pc_
  PROVE  LET n == WorkerAt(w, pc_) IN
         /\ ShapeOfAll(n, Publishers, WorkerFields)
         /\ n[w].pc = pc_ /\ n[w].copy = worker[w].copy /\ n[w].patch = worker[w].patch
         /\ \A v \in Publishers : v # w => n[v] = worker[v]
<1>1. "pc" \in WorkerFields /\ "patch" \in WorkerFields /\ "copy" \in WorkerFields
  BY DEF WorkerFields
<1>2. LET n == [worker EXCEPT ![w]["pc"] = pc_] IN
         /\ ShapeOfAll(n, Publishers, WorkerFields) /\ n[w]["pc"] = pc_
         /\ \A f \in WorkerFields : f # "pc" => n[w][f] = worker[w][f]
         /\ \A v \in Publishers : v # w => n[v] = worker[v]
  BY <1>1, OneFieldOfOne
<1>3. QED
  BY <1>1, <1>2 DEF WorkerAt

LEMMA WorkerFieldsSet ==
  ASSUME ShapeOfAll(worker, Publishers, WorkerFields), NEW w \in Publishers, NEW pc_, NEW u
  PROVE  /\ LET n == WorkerRead(w, pc_, u) IN
            /\ ShapeOfAll(n, Publishers, WorkerFields)
            /\ n[w].pc = pc_ /\ n[w].patch = u /\ n[w].copy = worker[w].copy
            /\ \A v \in Publishers : v # w => n[v] = worker[v]
         /\ LET n == WorkerHolds(w, pc_, u) IN
            /\ ShapeOfAll(n, Publishers, WorkerFields)
            /\ n[w].pc = pc_ /\ n[w].copy = u /\ n[w].patch = worker[w].patch
            /\ \A v \in Publishers : v # w => n[v] = worker[v]
<1>1. "pc" \in WorkerFields /\ "patch" \in WorkerFields /\ "copy" \in WorkerFields
  BY DEF WorkerFields
<1> DEFINE k == WorkerAt(w, pc_)
           n == [k EXCEPT ![w]["patch"] = u]
           o == [k EXCEPT ![w]["copy"] = u]
<1>2. /\ n = [worker EXCEPT ![w]["pc"] = pc_, ![w]["patch"] = u]
      /\ o = [worker EXCEPT ![w]["pc"] = pc_, ![w]["copy"] = u]
  BY DEF WorkerAt
<1>3. /\ ShapeOfAll(k, Publishers, WorkerFields) /\ k[w]["pc"] = pc_
      /\ k[w]["copy"] = worker[w]["copy"] /\ k[w]["patch"] = worker[w]["patch"]
      /\ \A v \in Publishers : v # w => k[v] = worker[v]
  BY WorkerMoves
<1> HIDE DEF k
<1>4. /\ ShapeOfAll(n, Publishers, WorkerFields) /\ n[w]["pc"] = pc_ /\ n[w]["patch"] = u
      /\ n[w]["copy"] = k[w]["copy"]
      /\ \A v \in Publishers : v # w => n[v] = k[v]
  BY <1>1, <1>3, OneFieldOfOne
<1>5. /\ ShapeOfAll(o, Publishers, WorkerFields) /\ o[w]["pc"] = pc_ /\ o[w]["copy"] = u
      /\ o[w]["patch"] = k[w]["patch"]
      /\ \A v \in Publishers : v # w => o[v] = k[v]
  BY <1>1, <1>3, OneFieldOfOne
<1> HIDE DEF n, o
<1>6. QED
  BY <1>2, <1>3, <1>4, <1>5 DEF WorkerRead, WorkerHolds

\* What a step leaves alone stays in order, also when it wrote the row.
LEMMA Undisturbed ==
  ASSUME Reviewed, UNCHANGED token, agreed \subseteq agreed',
         \/ UNCHANGED row
         \/ /\ IsRow(row') /\ row'.ver = row.ver + 1
            /\ row.commit # Approve!None => row'.commit = row.commit
  PROVE  /\ \A s \in Sessions : who'[s] = who[s] => PersonAgreed(s)'
         /\ \A w \in Publishers : worker'[w] = worker[w] => CarriesAgreed(w)'
         /\ UNCHANGED sent => SentIsCommitted' /\ Approve!PublishedWasReviewed'
<1>1. row.ver \in Nat /\ row.ver <= row'.ver
  BY DEF Reviewed, Shapes, IsRow
<1>2. ASSUME NEW s \in Sessions, who'[s] = who[s] PROVE PersonAgreed(s)'
  <2>1. PersonAgreed(s)
    BY DEF Reviewed
  <2>2. CASE UNCHANGED row
    BY <1>2, <2>1, <2>2 DEF PersonAgreed
  <2>3. CASE row'.ver = row.ver + 1
    BY <1>1, <1>2, <2>1, <2>3 DEF PersonAgreed, IsRow
  <2>4. QED
    BY <2>2, <2>3
<1>3. ASSUME NEW w \in Publishers, worker'[w] = worker[w] PROVE CarriesAgreed(w)'
  <2>1. CarriesAgreed(w)
    BY DEF Reviewed
  <2>2. CASE UNCHANGED row
    BY <1>3, <2>1, <2>2 DEF CarriesAgreed, Approve!Surface, Made
  <2>3. CASE /\ IsRow(row') /\ row'.ver = row.ver + 1
             /\ row.commit # Approve!None => row'.commit = row.commit
    <3>1. worker[w].pc # "idle" => worker[w].copy.ver # row'.ver /\ worker[w].copy.ver <= row'.ver
      BY <1>1, <2>1, <2>3 DEF CarriesAgreed, IsRow
    <3>2. worker[w].pc = "push" => row'.commit = worker[w].copy.commit
      BY <2>1, <2>3, CommitIsMade DEF CarriesAgreed, Made
    <3>3. QED
      BY <1>3, <2>1, <3>1, <3>2 DEF CarriesAgreed, Approve!Surface, Made
  <2>4. QED
    BY <2>2, <2>3
<1>4. ASSUME UNCHANGED sent PROVE SentIsCommitted' /\ Approve!PublishedWasReviewed'
  <2>1. SentIsCommitted'
    BY <1>4 DEF Reviewed, SentIsCommitted, Approve!None
  <2>2. Approve!PublishedWasReviewed'
    BY <1>4 DEF Reviewed, Approve!PublishedWasReviewed
  <2>3. QED
    BY <2>1, <2>2
<1>5. QED
  BY <1>2, <1>3, <1>4

LEMMA PersonStep ==
  ASSUME Reviewed, NEW s \in Sessions,
         \/ Approve!build_approval_review(s) \/ Approve!Confirm(s) \/ Approve!Decline(s)
         \/ Approve!approve_run(s) \/ Approve!transition(s)
  PROVE  Reviewed'
<1> USE DEF Approve!bounds, Approve!world
<1>0. /\ IsRow(row) /\ ShapeOfAll(who, Sessions, PersonFields)
      /\ ShapeOfAll(worker, Publishers, WorkerFields)
      /\ RowIsAgreed /\ PersonAgreed(s)
      /\ {"pc", "shown", "copy"} \subseteq PersonFields
  BY DEF Reviewed, Shapes, PersonFields
<1>1. ASSUME UNCHANGED <<row, token, worker, sent>>, agreed \subseteq agreed',
             ShapeOfAll(who', Sessions, PersonFields),
             \A t \in Sessions : t # s => who'[t] = who[t],
             PersonAgreed(s)'
      PROVE  Reviewed'
  <2>1. /\ \A t \in Sessions : PersonAgreed(t)'
        /\ \A w \in Publishers : CarriesAgreed(w)'
        /\ SentIsCommitted' /\ Approve!PublishedWasReviewed'
    BY <1>1, Undisturbed
  <2>2. Shapes' /\ RowIsAgreed'
    BY <1>0, <1>1 DEF Shapes, RowIsAgreed
  <2>3. QED
    BY <2>1, <2>2 DEF Reviewed
<1>2. CASE Approve!build_approval_review(s)
  <2>1. who' = PersonShown(s, "shown", Approve!Review)
    BY <1>2 DEF PersonShown, Approve!build_approval_review
  <2>2. /\ ShapeOfAll(who', Sessions, PersonFields) /\ who'[s].pc = "shown"
        /\ \A t \in Sessions : t # s => who'[t] = who[t]
    BY <1>0, <2>1, PersonFieldsSet
  <2>3. QED
    BY <1>1, <1>2, <2>2 DEF Approve!build_approval_review, PersonAgreed
<1>3. CASE Approve!Confirm(s)
  <2>1. who' = PersonAt(s, "confirmed") /\ agreed' = agreed \cup {who[s].shown}
    BY <1>3 DEF PersonAt, Approve!Confirm
  <2>2. /\ ShapeOfAll(who', Sessions, PersonFields)
        /\ who'[s].pc = "confirmed" /\ who'[s].shown = who[s].shown
        /\ \A t \in Sessions : t # s => who'[t] = who[t]
    BY <1>0, <2>1, PersonMoves
  <2>3. QED
    BY <1>1, <1>3, <2>1, <2>2 DEF Approve!Confirm, PersonAgreed
<1>4. ASSUME who' = [who EXCEPT ![s] = Approve!Away]
      PROVE  /\ ShapeOfAll(who', Sessions, PersonFields) /\ who'[s].pc = "idle"
             /\ \A t \in Sessions : t # s => who'[t] = who[t]
  <2>1. Shape(Approve!Away, PersonFields) /\ Approve!Away.pc = "idle"
    BY DEF Shape, PersonFields, Approve!Away
  <2>2. QED
    BY <1>0, <1>4, <2>1 DEF ShapeOfAll
<1>5. CASE Approve!Decline(s)
  BY <1>1, <1>4, <1>5 DEF Approve!Decline, PersonAgreed
<1>6. CASE Approve!approve_run(s)
  <2> DEFINE new == [row EXCEPT !.bound = Approve!Bound,
                                !.approval = Approve!create_approval(Approve!Review)]
             part == [row EXCEPT !.bound = Approve!Bound]
  <2>1. Shape(part, RowFields) /\ \A f \in RowFields : f # "bound" => part[f] = row[f]
    BY <1>0, OneField DEF IsRow, RowFields
  <2>2. new = [part EXCEPT !.approval = Approve!create_approval(Approve!Review)]
    OBVIOUS
  <2> HIDE DEF part
  <2>3. /\ Shape(new, RowFields) /\ new.approval = Approve!create_approval(Approve!Review)
        /\ \A f \in RowFields : f \notin {"bound", "approval"} => new[f] = row[f]
    BY <2>1, <2>2, OneField DEF RowFields
  <2>4. who' = PersonHolds(s, "write", new)
    BY <1>6 DEF PersonHolds, Approve!approve_run
  <2> HIDE DEF new
  <2>5. /\ ShapeOfAll(who', Sessions, PersonFields)
        /\ who'[s].pc = "write" /\ who'[s].copy = new
        /\ \A t \in Sessions : t # s => who'[t] = who[t]
    BY <1>0, <2>4, PersonFieldsSet
  <2>6. new.approval.hash = Approve!Review /\ Approve!Review \in agreed
    <3>1. who[s].shown = Approve!Review /\ who[s].shown \in agreed
      BY <1>0, <1>6 DEF Approve!approve_run, PersonAgreed
    <3>2. QED
      BY <2>3, <3>1 DEF Approve!create_approval
  <2>7. IsRow(new) /\ new.ver = row.ver /\ new.commit = row.commit
    BY <1>0, <2>3 DEF IsRow, RowFields
  <2>8. UNCHANGED <<row, token, worker, sent, agreed>>
    BY <1>6 DEF Approve!approve_run
  <2>9. PersonAgreed(s)'
    BY <2>5, <2>6, <2>7, <2>8 DEF PersonAgreed, IsRow
  <2>10. QED
    BY <1>1, <2>5, <2>8, <2>9
<1>7. CASE Approve!transition(s)
  <2> DEFINE c == who[s].copy
  <2>1. /\ who[s].pc = "write" /\ c.ver = row.ver /\ row' = Approve!Written(c, "approved")
        /\ who' = [who EXCEPT ![s] = Approve!Away]
        /\ UNCHANGED <<token, worker, agreed, sent>>
    BY <1>7 DEF Approve!transition, Approve!Current
  <2>2. IsRow(c) /\ c.approval.hash \in agreed /\ c.commit = row.commit
    BY <1>0, <2>1 DEF PersonAgreed
  <2>3. /\ IsRow(row') /\ row'.ver = row.ver + 1
        /\ row'.approval.hash \in agreed /\ row'.commit = row.commit
    BY <2>1, <2>2, WrittenRow
  <2>4. /\ ShapeOfAll(who', Sessions, PersonFields) /\ who'[s].pc = "idle"
        /\ \A t \in Sessions : t # s => who'[t] = who[t]
    BY <1>4, <2>1
  <2>5. /\ \A t \in Sessions : t # s => PersonAgreed(t)'
        /\ \A w \in Publishers : CarriesAgreed(w)'
        /\ SentIsCommitted' /\ Approve!PublishedWasReviewed'
    BY <2>1, <2>3, <2>4, Undisturbed
  <2>6. PersonAgreed(s)'
    BY <2>4 DEF PersonAgreed
  <2>7. Shapes' /\ RowIsAgreed'
    BY <1>0, <2>1, <2>3, <2>4 DEF Shapes, RowIsAgreed
  <2>8. QED
    BY <2>5, <2>6, <2>7 DEF Reviewed
<1>8. QED
  BY <1>2, <1>3, <1>5, <1>6, <1>7

\* A publisher's step: the ones that leave the row alone, and the ones that write it.
LEMMA WorkerStep ==
  ASSUME Reviewed, NEW w \in Publishers,
         \/ Approve!Start(w) \/ Approve!Validate(w) \/ Approve!Gates(w)
         \/ Approve!begin_publication(w) \/ Approve!Commit(w) \/ Approve!Push(w)
         \/ Approve!Opened(w) \/ Approve!Stop(w)
  PROVE  Reviewed'
<1> USE DEF Approve!bounds, Approve!world
<1> DEFINE r == worker[w].copy
<1>0. /\ IsRow(row) /\ row.ver \in Nat /\ ShapeOfAll(who, Sessions, PersonFields)
      /\ ShapeOfAll(worker, Publishers, WorkerFields)
      /\ RowIsAgreed /\ CarriesAgreed(w) /\ SentIsCommitted
      /\ Approve!PublishedWasReviewed
  BY DEF Reviewed, Shapes, IsRow
<1>1. ASSUME UNCHANGED <<token, who, agreed>>,
             \/ UNCHANGED row
             \/ /\ IsRow(row') /\ row'.ver = row.ver + 1
                /\ row.commit # Approve!None => row'.commit = row.commit,
             ShapeOfAll(worker', Publishers, WorkerFields),
             \A v \in Publishers : v # w => worker'[v] = worker[v],
             CarriesAgreed(w)', RowIsAgreed',
             \/ UNCHANGED sent
             \/ SentIsCommitted' /\ Approve!PublishedWasReviewed'
      PROVE  Reviewed'
  <2>1. /\ \A s \in Sessions : PersonAgreed(s)'
        /\ \A v \in Publishers : CarriesAgreed(v)'
        /\ SentIsCommitted' /\ Approve!PublishedWasReviewed'
    BY <1>1, Undisturbed
  <2>2. Shapes'
    BY <1>0, <1>1 DEF Shapes
  <2>3. QED
    BY <1>1, <2>1, <2>2 DEF Reviewed
<1>2. CASE Approve!Start(w)
  <2> DEFINE new == [pc |-> "validate", copy |-> row, patch |-> Approve!None,
                     recovering |-> row.status = "submitting"]
  <2>1. /\ worker' = [worker EXCEPT ![w] = new]
        /\ row.status \in {"approved", "submitting"}
        /\ UNCHANGED <<token, who, agreed, row, sent>>
    BY <1>2 DEF Approve!Start
  <2>2. Shape(new, WorkerFields) /\ new.pc = "validate" /\ new.copy = row
    BY DEF Shape, WorkerFields
  <2> HIDE DEF new
  <2>3. /\ ShapeOfAll(worker', Publishers, WorkerFields) /\ worker'[w] = new
        /\ \A v \in Publishers : v # w => worker'[v] = worker[v]
    BY <1>0, <2>1, <2>2 DEF ShapeOfAll
  <2>4. CarriesAgreed(w)'
    BY <1>0, <2>1, <2>2, <2>3 DEF CarriesAgreed, RowIsAgreed
  <2>5. RowIsAgreed'
    BY <1>0, <2>1 DEF RowIsAgreed
  <2>6. QED
    BY <1>1, <2>1, <2>3, <2>4, <2>5
<1>3. CASE Approve!Validate(w)
  <2> DEFINE next == IF worker[w].recovering THEN "commit" ELSE "gates"
             bytes == [bytes |-> files.patch]
  <2>1. /\ worker[w].pc = "validate" /\ worker' = WorkerRead(w, next, bytes)
        /\ UNCHANGED <<token, who, agreed, row, sent>>
    BY <1>3 DEF Approve!Validate, WorkerRead
  <2>2. /\ token = r.bound.login
        /\ r.approval.hash = Approve!Surface(r.seal, r.bound, bytes.bytes)
    <3>1. CASE worker[w].recovering
      BY <1>3, <3>1 DEF Approve!Validate, Approve!Recoverable, Approve!validate_approval
    <3>2. CASE ~worker[w].recovering
      <4>1. Approve!Validated(r)
        BY <1>3, <3>2 DEF Approve!Validate
      <4>2. QED
        BY <4>1 DEF Approve!Validated, Approve!validate_approval, Approve!Context
    <3>3. QED
      BY <3>1, <3>2
  <2>3. next \in {"commit", "gates"}
    OBVIOUS
  <2> HIDE DEF next, bytes
  <2>4. /\ ShapeOfAll(worker', Publishers, WorkerFields)
        /\ worker'[w].pc = next /\ worker'[w].patch = bytes /\ worker'[w].copy = r
        /\ \A v \in Publishers : v # w => worker'[v] = worker[v]
    BY <1>0, <2>1, WorkerFieldsSet
  <2>5. CarriesAgreed(w)'
    BY <1>0, <2>1, <2>2, <2>3, <2>4 DEF CarriesAgreed, Approve!Surface
  <2>6. RowIsAgreed'
    BY <1>0, <2>1 DEF RowIsAgreed
  <2>7. QED
    BY <1>1, <2>1, <2>4, <2>5, <2>6
<1>4. CASE Approve!Gates(w)
  <2>1. /\ worker[w].pc = "gates" /\ worker' = WorkerAt(w, "begin")
        /\ UNCHANGED <<token, who, agreed, row, sent>>
    BY <1>4 DEF Approve!Gates, WorkerAt
  <2>2. /\ ShapeOfAll(worker', Publishers, WorkerFields)
        /\ worker'[w].pc = "begin" /\ worker'[w].patch = worker[w].patch /\ worker'[w].copy = r
        /\ \A v \in Publishers : v # w => worker'[v] = worker[v]
    BY <1>0, <2>1, WorkerMoves
  <2>3. CarriesAgreed(w)'
    BY <1>0, <2>1, <2>2 DEF CarriesAgreed, Approve!Surface
  <2>4. RowIsAgreed'
    BY <1>0, <2>1 DEF RowIsAgreed
  <2>5. QED
    BY <1>1, <2>1, <2>2, <2>3, <2>4
<1>5. CASE Approve!begin_publication(w)
  <2> DEFINE basis == Approve!Written(row, "submitting")
  <2>1. /\ worker[w].pc = "begin" /\ r.ver = row.ver
        /\ row' = [basis EXCEPT !.intent = now] /\ worker' = WorkerHolds(w, "commit", row')
        /\ UNCHANGED <<token, who, agreed, sent>>
    BY <1>5 DEF Approve!begin_publication, Approve!Current, WorkerHolds
  <2>2. r = row
    BY <1>0, <2>1 DEF CarriesAgreed
  <2>3. /\ IsRow(basis) /\ basis.ver = row.ver + 1 /\ basis.seal = row.seal
        /\ basis.bound = row.bound /\ basis.approval = row.approval /\ basis.commit = row.commit
    BY <1>0, WrittenRow
  <2> HIDE DEF basis
  <2>4. /\ Shape(row', RowFields)
        /\ \A f \in RowFields : f # "intent" => row'[f] = basis[f]
    BY <2>1, <2>3, OneField DEF IsRow, RowFields
  <2>5. /\ IsRow(row') /\ row'.ver = row.ver + 1 /\ row'.seal = r.seal /\ row'.bound = r.bound
        /\ row'.approval = r.approval /\ row'.commit = row.commit /\ row'.ver <= row'.ver
    BY <2>2, <2>3, <2>4 DEF IsRow, RowFields
  <2>6. /\ ShapeOfAll(worker', Publishers, WorkerFields)
        /\ worker'[w].pc = "commit" /\ worker'[w].patch = worker[w].patch
        /\ worker'[w].copy = row'
        /\ \A v \in Publishers : v # w => worker'[v] = worker[v]
    BY <1>0, <2>1, WorkerFieldsSet
  <2>7. /\ r.approval.hash \in agreed /\ token = r.bound.login
        /\ r.approval.hash = Approve!Surface(r.seal, r.bound, worker[w].patch.bytes)
    BY <1>0, <2>1 DEF CarriesAgreed
  <2>8. CarriesAgreed(w)'
    <3>1. /\ IsRow(worker'[w].copy) /\ worker'[w].copy.ver <= row'.ver
          /\ worker'[w].copy.approval.hash \in agreed'
          /\ worker'[w].copy = row' /\ token' = worker'[w].copy.bound.login
      BY <2>1, <2>5, <2>6, <2>7
    <3>2. worker'[w].copy.approval.hash =
             Approve!Surface(worker'[w].copy.seal, worker'[w].copy.bound, worker'[w].patch.bytes)
      BY <2>5, <2>6, <2>7
    <3>3. worker'[w].pc = "commit"
      BY <2>6
    <3>4. QED
      BY <3>1, <3>2, <3>3 DEF CarriesAgreed
  <2>9. RowIsAgreed'
    BY <2>1, <2>5, <2>7 DEF RowIsAgreed
  <2>10. QED
    BY <1>1, <2>1, <2>5, <2>6, <2>8, <2>9
<1>6. CASE Approve!Commit(w)
  <2> DEFINE basis == Approve!Written(row, "submitting")
             new == Made(r, worker[w].patch.bytes)
  <2>1. /\ worker[w].pc = "commit" /\ r.ver = row.ver
        /\ r.commit \in {Approve!None, new}
        /\ row' = [basis EXCEPT !.commit = new] /\ worker' = WorkerHolds(w, "push", row')
        /\ UNCHANGED <<token, who, agreed, sent>>
    BY <1>6 DEF Approve!Commit, Approve!Current, WorkerHolds, Made
  <2>2. r = row
    BY <1>0, <2>1 DEF CarriesAgreed
  <2>3. /\ IsRow(basis) /\ basis.ver = row.ver + 1 /\ basis.seal = row.seal
        /\ basis.bound = row.bound /\ basis.approval = row.approval /\ basis.intent = row.intent
    BY <1>0, WrittenRow
  <2> HIDE DEF basis
  <2>4. /\ Shape(row', RowFields) /\ row'.commit = new
        /\ \A f \in RowFields : f # "commit" => row'[f] = basis[f]
    BY <2>1, <2>3, OneField DEF IsRow, RowFields
  <2>5. /\ IsRow(row') /\ row'.ver = row.ver + 1 /\ row'.seal = r.seal /\ row'.bound = r.bound
        /\ row'.approval = r.approval /\ row'.intent = r.intent /\ row'.ver <= row'.ver
    BY <2>2, <2>3, <2>4 DEF IsRow, RowFields
  <2>6. new = Made(row', worker[w].patch.bytes)
    BY <2>5 DEF Made
  <2>7. row.commit # Approve!None => row'.commit = row.commit
    BY <2>1, <2>2, <2>4
  <2> HIDE DEF new
  <2>8. /\ ShapeOfAll(worker', Publishers, WorkerFields)
        /\ worker'[w].pc = "push" /\ worker'[w].patch = worker[w].patch
        /\ worker'[w].copy = row'
        /\ \A v \in Publishers : v # w => worker'[v] = worker[v]
    BY <1>0, <2>1, WorkerFieldsSet
  <2>9. /\ r.approval.hash \in agreed /\ token = r.bound.login
        /\ r.approval.hash = Approve!Surface(r.seal, r.bound, worker[w].patch.bytes)
    BY <1>0, <2>1 DEF CarriesAgreed
  <2>10. CarriesAgreed(w)'
    <3>1. /\ worker'[w].copy.commit = Made(worker'[w].copy, worker'[w].patch.bytes)
          /\ row'.commit = worker'[w].copy.commit
      BY <2>4, <2>6, <2>8
    <3>2. /\ IsRow(worker'[w].copy) /\ worker'[w].copy.ver <= row'.ver
          /\ worker'[w].copy.approval.hash \in agreed'
          /\ worker'[w].copy = row' /\ token' = worker'[w].copy.bound.login
      BY <2>1, <2>5, <2>8, <2>9
    <3>3. worker'[w].copy.approval.hash =
             Approve!Surface(worker'[w].copy.seal, worker'[w].copy.bound, worker'[w].patch.bytes)
      BY <2>5, <2>8, <2>9
    <3>4. QED
      BY <3>1, <3>2, <3>3 DEF CarriesAgreed
  <2>11. RowIsAgreed'
    BY <2>1, <2>5, <2>9 DEF RowIsAgreed
  <2>12. QED
    BY <1>1, <2>1, <2>5, <2>7, <2>8, <2>10, <2>11
<1>7. CASE Approve!Push(w)
  <2> DEFINE p == [surface |-> Approve!Surface(r.seal, r.bound, r.commit.patch),
                   commit |-> r.commit, by |-> token]
  <2>1. /\ worker[w].pc = "push" /\ sent' = sent \cup {p}
        /\ worker' = WorkerAt(w, "open")
        /\ UNCHANGED <<token, who, agreed, row>>
    BY <1>7 DEF Approve!Push, WorkerAt
  <2>2. /\ ShapeOfAll(worker', Publishers, WorkerFields)
        /\ worker'[w].pc = "open" /\ worker'[w].copy = r
        /\ \A v \in Publishers : v # w => worker'[v] = worker[v]
    BY <1>0, <2>1, WorkerMoves
  <2>3. CarriesAgreed(w)'
    BY <1>0, <2>1, <2>2 DEF CarriesAgreed
  <2>4. RowIsAgreed'
    BY <1>0, <2>1 DEF RowIsAgreed
  <2>5. /\ r.approval.hash \in agreed /\ token = r.bound.login
        /\ r.approval.hash = Approve!Surface(r.seal, r.bound, worker[w].patch.bytes)
        /\ r.commit = Made(r, worker[w].patch.bytes) /\ row.commit = r.commit
    BY <1>0, <2>1 DEF CarriesAgreed
  <2>6. /\ r.commit.patch = worker[w].patch.bytes /\ r.commit.identity = r.bound.identity
        /\ r.commit # Approve!None
    BY <2>5, CommitIsMade DEF Made
  <2>7. SentIsCommitted'
    BY <1>0, <2>1, <2>5, <2>6 DEF SentIsCommitted, Approve!None
  <2>8. /\ p.surface \in agreed /\ p.commit.identity = p.surface.identity
        /\ p.by = p.surface.login
    BY <2>5, <2>6 DEF Approve!Surface
  <2> HIDE DEF p
  <2>9. Approve!PublishedWasReviewed'
    BY <1>0, <2>1, <2>8 DEF Approve!PublishedWasReviewed
  <2>10. QED
    BY <1>1, <2>1, <2>2, <2>3, <2>4, <2>7, <2>9
<1>8. CASE Approve!Opened(w)
  <2>1. /\ row' = Approve!Written(row, "pr_open") /\ worker' = WorkerAt(w, "idle")
        /\ UNCHANGED <<token, who, agreed, sent>>
    BY <1>8 DEF Approve!Opened, WorkerAt
  <2>2. /\ ShapeOfAll(worker', Publishers, WorkerFields) /\ worker'[w].pc = "idle"
        /\ \A v \in Publishers : v # w => worker'[v] = worker[v]
    BY <1>0, <2>1, WorkerMoves
  <2>3. /\ IsRow(row') /\ row'.ver = row.ver + 1 /\ row'.status = "pr_open"
        /\ row'.commit = row.commit
    BY <1>0, <2>1, WrittenRow
  <2>4. CarriesAgreed(w)' /\ RowIsAgreed'
    BY <2>2, <2>3 DEF CarriesAgreed, RowIsAgreed
  <2>5. QED
    BY <1>1, <2>1, <2>2, <2>3, <2>4
<1>9. CASE Approve!Stop(w)
  <2>1. worker' = WorkerAt(w, "idle") /\ UNCHANGED <<token, who, agreed, row, sent>>
    BY <1>9 DEF Approve!Stop, WorkerAt
  <2>2. /\ ShapeOfAll(worker', Publishers, WorkerFields) /\ worker'[w].pc = "idle"
        /\ \A v \in Publishers : v # w => worker'[v] = worker[v]
    BY <1>0, <2>1, WorkerMoves
  <2>3. CarriesAgreed(w)' /\ RowIsAgreed'
    BY <1>0, <2>1, <2>2 DEF CarriesAgreed, RowIsAgreed
  <2>4. QED
    BY <1>1, <2>1, <2>2, <2>3
<1>10. QED
  BY <1>2, <1>3, <1>4, <1>5, <1>6, <1>7, <1>8, <1>9

\* Every step, the person's, the publisher's and the world's.
LEMMA ReviewedNext == Reviewed /\ [Approve!Next]_approval => Reviewed'
<1> SUFFICES ASSUME Reviewed, [Approve!Next]_approval PROVE Reviewed'
  OBVIOUS
<1> USE DEF Approve!bounds, Approve!world
<1>0. /\ IsRow(row) /\ ShapeOfAll(who, Sessions, PersonFields)
      /\ ShapeOfAll(worker, Publishers, WorkerFields) /\ RowIsAgreed
      /\ \A s \in Sessions : PersonAgreed(s)
      /\ \A w \in Publishers : CarriesAgreed(w)
      /\ SentIsCommitted /\ Approve!PublishedWasReviewed
  BY DEF Reviewed, Shapes
<1>1. ASSUME UNCHANGED <<row, who, worker, agreed, sent>>,
             UNCHANGED token \/ \A w \in Publishers : worker[w].pc = "idle"
      PROVE  Reviewed'
  <2>1. \A s \in Sessions : PersonAgreed(s)'
    BY <1>0, <1>1 DEF PersonAgreed
  <2>2. ASSUME NEW w \in Publishers PROVE CarriesAgreed(w)'
    <3>1. CarriesAgreed(w)
      BY <1>0
    <3>2. CASE UNCHANGED token
      BY <1>1, <3>1, <3>2 DEF CarriesAgreed, Approve!Surface, Made
    <3>3. CASE worker[w].pc = "idle"
      BY <1>1, <3>3 DEF CarriesAgreed
    <3>4. QED
      BY <1>1, <3>2, <3>3
  <2>3. Shapes' /\ RowIsAgreed' /\ SentIsCommitted' /\ Approve!PublishedWasReviewed'
    BY <1>0, <1>1
       DEF Shapes, RowIsAgreed, SentIsCommitted, Approve!PublishedWasReviewed, Approve!None
  <2>4. QED
    BY <2>1, <2>2, <2>3 DEF Reviewed
<1>2. CASE Approve!cancel_run
  <2>1. /\ row' = Approve!Written(row, "cancelled")
        /\ UNCHANGED <<token, who, worker, agreed, sent>>
    BY <1>2 DEF Approve!cancel_run
  <2>2. /\ IsRow(row') /\ row'.ver = row.ver + 1 /\ row'.status = "cancelled"
        /\ row'.commit = row.commit
    BY <1>0, <2>1, WrittenRow
  <2>3. /\ \A s \in Sessions : PersonAgreed(s)'
        /\ \A w \in Publishers : CarriesAgreed(w)'
        /\ SentIsCommitted' /\ Approve!PublishedWasReviewed'
    BY <2>1, <2>2, Undisturbed
  <2>4. Shapes' /\ RowIsAgreed'
    BY <1>0, <2>1, <2>2 DEF Shapes, RowIsAgreed
  <2>5. QED
    BY <2>3, <2>4 DEF Reviewed
<1>3. CASE Approve!Edit
  BY <1>1, <1>3 DEF Approve!Edit
<1>4. CASE Approve!Tick \/ UNCHANGED approval
  BY <1>1, <1>4 DEF Approve!Tick, approval
<1>5. QED
  BY <1>2, <1>3, <1>4, PersonStep, WorkerStep DEF Approve!Next

\* What reaches GitHub is what a person was shown and confirmed, and a resumed
\* publication makes the same commit again, for any number of people, publishers,
\* edits and stops (approve_run, publish, _commit).
THEOREM PublishedWasReviewedHolds == GatesSpec => []PublishedWasReviewed
<1> DEFINE AllReviewed == scene = "approval" => Reviewed
<1>1. GatesInit => AllReviewed
  BY ReviewedInit DEF GatesInit
<1>2. AllReviewed /\ [GatesNext]_AllVars => AllReviewed'
  <2> SUFFICES ASSUME AllReviewed, [GatesNext]_AllVars, scene' = "approval" PROVE Reviewed'
    OBVIOUS
  <2>1. scene = "approval" /\ Reviewed
    BY DEF GatesNext, AllVars
  <2>2. [Approve!Next]_approval
    BY <2>1 DEF GatesNext, AllVars
  <2>3. QED
    BY <2>1, <2>2, ReviewedNext
<1>3. AllReviewed => PublishedWasReviewed
  BY DEF PublishedWasReviewed, Reviewed, SentIsCommitted, Approve!OneCommit
<1>4. QED
  BY <1>1, <1>2, <1>3, PTL DEF GatesSpec
=============================================================================
