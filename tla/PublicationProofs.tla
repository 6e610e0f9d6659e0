-------------------------- MODULE PublicationProofs --------------------------
(***************************************************************************)
(* Proofs about Publication, for any number of workers and interruptions.  *)
(***************************************************************************)
EXTENDS Publication, TLAPS

USE PublicationConstants

(***************************************************************************)
(* Type correctness.                                                       *)
(***************************************************************************)
\* How a step may end keeps the program counters and the lease well typed.
LEMMA HaltType ==
  ASSUME TypeOK, NEW w \in Workers, Halt(w)
  PROVE  pc' \in [Workers -> Steps] /\ lease' \in Workers \cup {NoWorker}
  BY DEF TypeOK, Halt, Steps

LEMMA GoType ==
  ASSUME TypeOK, NEW w \in Workers, NEW next \in Steps, Go(w, next)
  PROVE  pc' \in [Workers -> Steps] /\ lease' \in Workers \cup {NoWorker}
  BY HaltType DEF TypeOK, Go

LEMMA SaveType ==
  ASSUME TypeOK, NEW w \in Workers, NEW event \in Marks, Save(w, event)
  PROVE  fresh' \in [Workers -> BOOLEAN] /\ latest' \in Marks
  BY DEF TypeOK, Save

LEMMA TripType ==
  ASSUME TypeOK, NEW source \in Sources, Trip(source)
  PROVE  tripped' \in BOOLEAN /\ fired' \subseteq Sources
  BY DEF TypeOK, Trip, breaker

LEMMA StartType ==
  ASSUME TypeOK, NEW w \in Workers, NEW next \in Steps, Start(w, next)
  PROVE  TypeOK'
  BY DEF TypeOK, Start, run, events, breaker, Views

LEMMA MarkType ==
  ASSUME TypeOK, NEW w \in Workers, NEW why \in Reasons, MarkCompensation(w, why)
  PROVE  TypeOK'
<1>1. "other" \in Marks /\ "compensate" \in Steps
  BY DEF Marks, Steps, SavingSteps
<1>2. fresh' \in [Workers -> BOOLEAN] /\ latest' \in Marks
  BY <1>1, SaveType DEF MarkCompensation
<1>3. pc' \in [Workers -> Steps] /\ lease' \in Workers \cup {NoWorker}
  BY <1>1, GoType DEF MarkCompensation
<1>4. QED
  BY <1>2, <1>3 DEF TypeOK, MarkCompensation, breaker, github, locals

LEMMA ToDeleteType ==
  ASSUME TypeOK, NEW w \in Workers, ToDelete(w)
  PROVE  pc' \in [Workers -> Steps] /\ lease' \in Workers \cup {NoWorker}
<1>1. "deleted" \in Steps /\ "delete" \in Steps
  BY DEF Steps, SavingSteps
<1>2. QED
  BY <1>1, GoType, HaltType DEF ToDelete, TypeOK

(***************************************************************************)
(* Facts about the control that hold whatever the data is.  A worker that  *)
(* reads a pull request finds one (View has a value only then, so this     *)
(* goes with type correctness); as long as no lease has lapsed under its    *)
(* holder, one worker acts at a time.                                      *)
(***************************************************************************)
Reading == {"persist", "accept"}

PullRequestExists ==
    pr = "none" => ~url /\ \A w \in Workers : post[w] # "created" /\ pc[w] \notin Reading

OneAtATime == ~paused => \A w \in Workers : pc[w] # "idle" => lease = w

Bookkeeping == PullRequestExists /\ OneAtATime

LEMMA ViewType ==
  ASSUME TypeOK, pr # "none" PROVE View \in Views
  BY DEF TypeOK, View, Views

LEMMA CommandType ==
  ASSUME TypeOK, Bookkeeping, NEW w \in Workers, Command(w)
  PROVE  TypeOK'
<1> USE DEF TypeOK, run, events, breaker, github, locals
<1> USE DEF Steps, Constructive, SavingSteps, Marks, Sources, Reasons
<1>1. CASE Publish(w)
  BY Zenon, <1>1, StartType DEF Publish, Withdrawal
<1>2. CASE Reconcile(w)
  BY Zenon, <1>2, StartType DEF Reconcile
<1>3. CASE Abandon(w)
  BY Zenon, <1>3, StartType DEF Abandon
<1>4. QED
  BY <1>1, <1>2, <1>3 DEF Command

LEMMA PublishStepType ==
  ASSUME TypeOK, Bookkeeping, NEW w \in Workers, PublishStep(w)
  PROVE  TypeOK'
<1> USE DEF TypeOK, run, events, breaker, github, locals
<1> USE DEF Steps, Constructive, SavingSteps, Marks, Sources, Reasons
<1>1. CASE BeginPublication(w)
  BY <1>1, GoType, SaveType DEF BeginPublication
<1>2. CASE GateRefuses(w)
  BY <1>2, HaltType DEF GateRefuses
<1>3. CASE Recover(w)
  BY <1>3, GoType, HaltType DEF Recover
<1>4. CASE EvidenceLost(w)
  BY <1>4, GoType, HaltType DEF EvidenceLost
<1>4a. CASE FindExisting(w)
  BY <1>4a, GoType DEF FindExisting
<1>5. CASE Commit(w)
  BY <1>5, GoType, HaltType, SaveType DEF Commit
<1>6. CASE Push(w)
  BY <1>6, GoType, HaltType DEF Push
<1>7. CASE RecordPush(w)
  BY <1>7, GoType, SaveType DEF RecordPush
<1>8. CASE VerifyNew(w)
  BY <1>8, GoType, HaltType DEF VerifyNew
<1>9. CASE VerifyOld(w)
  <2>1. pc' \in [Workers -> Steps] /\ lease' \in Workers \cup {NoWorker}
    BY <1>9, GoType, HaltType DEF VerifyOld
  <2>2. fresh' \in [Workers -> BOOLEAN] /\ latest' \in Marks
    BY <1>9, SaveType DEF VerifyOld
  <2>3. ledger' \subseteq ledger \cup {"branch.reconciled"}
    BY <1>9 DEF VerifyOld
  <2>4. QED
    BY <1>9, <2>1, <2>2, <2>3 DEF VerifyOld
<1>10. CASE CheckDrift(w)
  <2>1. CASE \E why \in Reasons : MarkCompensation(w, why)
    BY <2>1, MarkType
  <2>2. CASE /\ Go(w, "boundary")
             /\ UNCHANGED <<run, events, breaker, github, fresh, locals, unresolved>>
    BY <2>2, GoType
  <2>3. QED
    BY <1>10, <2>1, <2>2 DEF CheckDrift
<1>11. CASE BeginCreation(w)
  BY <1>11, GoType, SaveType DEF BeginCreation
<1>12. CASE BoundaryFails(w)
  BY <1>12, MarkType DEF BoundaryFails
<1>13. CASE SendPost(w)
  BY <1>13 DEF SendPost
<1>14. CASE NotSent(w)
  <2>1. pc' \in [Workers -> Steps] /\ lease' \in Workers \cup {NoWorker}
    BY <1>14, HaltType DEF NotSent
  <2>2. fresh' \in [Workers -> BOOLEAN] /\ latest' \in Marks
    BY <1>14, SaveType DEF NotSent
  <2>3. started' \in BOOLEAN
    BY <1>14 DEF NotSent
  <2>4. QED
    BY <1>14, <2>1, <2>2, <2>3 DEF NotSent
<1>15. CASE AnswerLost(w)
  BY <1>15, GoType, HaltType DEF AnswerLost
<1>16. CASE AnswerCreated(w)
  BY <1>16, ViewType DEF AnswerCreated, Bookkeeping, PullRequestExists, Reading, At
<1>17. CASE AnswerRefused(w)
  BY <1>17, GoType DEF AnswerRefused
<1>18. CASE ReleaseRefused(w)
  <2>1. pc' \in [Workers -> Steps] /\ lease' \in Workers \cup {NoWorker}
    BY <1>18, GoType DEF ReleaseRefused
  <2>2. fresh' \in [Workers -> BOOLEAN] /\ latest' \in Marks
    BY <1>18, SaveType DEF ReleaseRefused
  <2>3. started' \in BOOLEAN
    BY <1>18 DEF ReleaseRefused
  <2>4. QED
    BY <1>18, <2>1, <2>2, <2>3 DEF ReleaseRefused
<1>19. CASE MarkRefused(w)
  BY <1>19, MarkType DEF MarkRefused
<1>20. CASE Persist(w)
  BY <1>20, GoType, SaveType DEF Persist
<1>21. CASE NotPersisted(w)
  BY <1>21, HaltType, TripType DEF NotPersisted
<1>22. CASE StopOnClosed(w)
  BY <1>22, GoType, TripType DEF StopOnClosed
<1>23. CASE Open(w)
  BY <1>23, HaltType, SaveType DEF Open
<1>24. CASE Reject(w)
  BY <1>24, GoType, SaveType DEF Reject
<1>25. CASE StopOnRejected(w)
  BY <1>25, GoType, TripType DEF StopOnRejected
<1>26. CASE MarkCreated(w)
  <2>1. CASE MarkCompensation(w, "created_pr_base_moved")
    BY <2>1, MarkType
  <2>2. CASE /\ Save(w, "other")
             /\ Halt(w)
             /\ UNCHANGED <<run, pushes, ledger, breaker, github, locals, unresolved>>
    BY <2>2, SaveType, HaltType
  <2>3. QED
    BY <1>26, <2>1, <2>2 DEF MarkCreated
<1>27. QED
  BY Zenon, <1>1, <1>2, <1>3, <1>4, <1>5, <1>6, <1>7, <1>8, <1>9, <1>10, <1>11, <1>12, <1>13,
     <1>14, <1>15, <1>16, <1>17, <1>18, <1>19, <1>20, <1>21, <1>22, <1>23, <1>24, <1>25,
     <1>26, <1>4a DEF PublishStep

LEMMA AcceptStepType ==
  ASSUME TypeOK, Bookkeeping, NEW w \in Workers, AcceptStep(w)
  PROVE  TypeOK'
<1> USE DEF TypeOK, run, events, breaker, github, locals
<1> USE DEF Steps, Constructive, SavingSteps, Marks, Sources, Reasons
<1>1. CASE Reread(w)
  BY <1>1, GoType, HaltType DEF Reread
<1>2. CASE Accept(w)
  <2>1. pc' \in [Workers -> Steps] /\ lease' \in Workers \cup {NoWorker}
    BY <1>2, GoType DEF Accept
  <2>2. fresh' \in [Workers -> BOOLEAN] /\ latest' \in Marks
    BY <1>2, SaveType DEF Accept
  <2>3. pr # "none"
    BY <1>2 DEF Accept, Bookkeeping, PullRequestExists, Reading, At
  <2>4. seen' \in [Workers -> Views]
    BY <1>2, <2>3, ViewType DEF Accept
  <2>5. url' \in BOOLEAN
    BY <1>2 DEF Accept
  <2>6. QED
    BY <1>2, <2>1, <2>2, <2>4, <2>5 DEF Accept
<1>3. CASE AcceptForeign(w)
  BY <1>3, HaltType, TripType, ViewType DEF AcceptForeign
<1>4. CASE Accepted(w)
  BY <1>4, GoType, SaveType DEF Accepted
<1>5. CASE RejectExisting(w)
  BY <1>5, HaltType, SaveType, TripType DEF RejectExisting
<1>6. QED
  BY <1>1, <1>2, <1>3, <1>4, <1>5 DEF AcceptStep

LEMMA CleanupStepType ==
  ASSUME TypeOK, Bookkeeping, NEW w \in Workers, CleanupStep(w)
  PROVE  TypeOK'
<1> USE DEF TypeOK, run, events, breaker, github, locals
<1> USE DEF Steps, Constructive, SavingSteps, Marks, Sources, Reasons
<1>1. CASE CompensatePrePr(w)
  <2>1. pc' \in [Workers -> Steps] /\ lease' \in Workers \cup {NoWorker}
    BY <1>1, GoType, HaltType DEF CompensatePrePr
  <2>2. tripped' \in BOOLEAN /\ fired' \subseteq Sources
    BY <1>1, TripType DEF CompensatePrePr
  <2>3. QED
    BY <1>1, <2>1, <2>2 DEF CompensatePrePr
<1>2. CASE CompensateCreated(w)
  <2>1. pc' \in [Workers -> Steps] /\ lease' \in Workers \cup {NoWorker}
    BY <1>2, GoType, HaltType DEF CompensateCreated
  <2>2. tripped' \in BOOLEAN /\ fired' \subseteq Sources
    BY <1>2, TripType DEF CompensateCreated
  <2>3. QED
    BY <1>2, <2>1, <2>2 DEF CompensateCreated
<1>3. CASE MarkerUnbound(w)
  BY <1>3, HaltType DEF MarkerUnbound
<1>4. CASE ClosePullRequest(w)
  BY <1>4, GoType, HaltType DEF ClosePullRequest
<1>5. CASE RecordClosed(w)
  BY <1>5, HaltType, SaveType, ToDeleteType DEF RecordClosed
<1>6. CASE DeleteBranch(w)
  BY <1>6, GoType, HaltType DEF DeleteBranch
<1>7. CASE RecordDeleted(w)
  BY <1>7, GoType, SaveType DEF RecordDeleted
<1>8. CASE Confirm(w)
  BY <1>8, HaltType, SaveType DEF Confirm
<1>9. CASE Unconfirmed(w)
  BY <1>9, HaltType DEF Unconfirmed
<1>10. CASE RecordMerged(w)
  BY <1>10, GoType, SaveType DEF RecordMerged
<1>11. CASE Adopt(w)
  BY <1>11, HaltType, SaveType DEF Adopt
<1>12. CASE AdoptRefused(w)
  BY <1>12, HaltType DEF AdoptRefused
<1>13. CASE Withdraw(w)
  BY <1>13, HaltType, ToDeleteType DEF Withdraw
<1>14. CASE Withdrawn(w)
  <2>1. pc' \in [Workers -> Steps] /\ lease' \in Workers \cup {NoWorker}
    BY <1>14, GoType, HaltType DEF Withdrawn
  <2>2. fresh' \in [Workers -> BOOLEAN] /\ latest' \in Marks
    BY <1>14, SaveType DEF Withdrawn
  <2>3. started' \in BOOLEAN
    BY <1>14 DEF Withdrawn
  <2>4. ledger' \subseteq ledger \cup {Withdrawal} /\ unresolved' \in Nat
    BY <1>14 DEF Withdrawn
  <2>5. QED
    BY <1>14, <2>1, <2>2, <2>3, <2>4 DEF Withdrawn, Withdrawal
<1>15. CASE VerifyAbsence(w)
  BY <1>15, GoType, HaltType, SaveType DEF VerifyAbsence
<1>16. CASE Finalize(w)
  BY <1>16, HaltType, SaveType DEF Finalize
<1>17. QED
  BY <1>1, <1>2, <1>3, <1>4, <1>5, <1>6, <1>7, <1>8, <1>9, <1>10, <1>11, <1>12, <1>13,
     <1>14, <1>15, <1>16 DEF CleanupStep

LEMMA TypeNext ==
  ASSUME TypeOK, Bookkeeping, [Next]_vars
  PROVE  TypeOK'
<1>1. ASSUME NEW w \in Workers, Command(w) \/ PublishStep(w) \/ AcceptStep(w) \/ CleanupStep(w)
      PROVE  TypeOK'
  BY <1>1, CommandType, PublishStepType, AcceptStepType, CleanupStepType
<1> USE DEF TypeOK, Steps, run, events, breaker, github, locals
<1>2. ASSUME NEW w \in Workers, StaleSave(w) PROVE TypeOK'
  BY <1>2, HaltType DEF StaleSave
<1>3. ASSUME NEW w \in Workers, Land(w) PROVE TypeOK'
  BY <1>3 DEF Land
<1>4. ASSUME NEW w \in Workers, Refuse(w) PROVE TypeOK'
  BY <1>4 DEF Refuse
<1>5. ASSUME NEW w \in Workers, Interrupt(w) PROVE TypeOK'
  BY <1>5 DEF Interrupt
<1>6. CASE Maintainer
  BY <1>6 DEF Maintainer
<1>7. CASE Drift
  <2>1. baseSafe' \in BOOLEAN /\ policyFresh' \in BOOLEAN
    BY <1>7 DEF Drift
  <2>2. QED
    BY <1>7, <2>1 DEF Drift
<1>8. CASE Outsider
  BY <1>8 DEF Outsider
<1>9. CASE Operator
  BY <1>9 DEF Operator
<1>10. CASE Lapse
  <2>1. CASE UNCHANGED <<interrupts, paused>>
    BY <1>10, <2>1 DEF Lapse
  <2>2. CASE interrupts < Interruptions /\ interrupts' = interrupts + 1 /\ paused' = TRUE
    BY <1>10, <2>2 DEF Lapse
  <2>3. QED
    BY <1>10, <2>1, <2>2 DEF Lapse
<1>11. CASE UNCHANGED vars
  BY <1>11 DEF vars
<1>12. QED
  BY <1>1, <1>2, <1>3, <1>4, <1>5, <1>6, <1>7, <1>8, <1>9, <1>10, <1>11
     DEF Next, Step

LEMMA CommandBooks ==
  ASSUME TypeOK, Bookkeeping, NEW w \in Workers, Command(w)
  PROVE  Bookkeeping'
<1> pc \in [Workers -> Steps] /\ post \in [Workers -> {"none", "sent", "created", "refused"}]
  BY DEF TypeOK
<1> USE DEF Bookkeeping, PullRequestExists, OneAtATime, Reading, Go, Halt,
           At, run, github, locals
<1>1. CASE Publish(w)
  BY <1>1 DEF Publish, Start, Withdrawal
<1>2. CASE Reconcile(w)
  BY <1>2 DEF Reconcile, Start
<1>3. CASE Abandon(w)
  BY <1>3 DEF Abandon, Start
<1>4. QED
  BY <1>1, <1>2, <1>3 DEF Command

LEMMA PublishStepBooks ==
  ASSUME TypeOK, Bookkeeping, NEW w \in Workers, PublishStep(w)
  PROVE  Bookkeeping'
<1> pc \in [Workers -> Steps] /\ post \in [Workers -> {"none", "sent", "created", "refused"}]
  BY DEF TypeOK
<1> USE DEF Bookkeeping, PullRequestExists, OneAtATime, Reading, Go, Halt,
           At, run, github, locals
<1>1. CASE BeginPublication(w)
  BY <1>1 DEF BeginPublication, Save
<1>2. CASE GateRefuses(w)
  BY <1>2 DEF GateRefuses
<1>3. CASE Recover(w)
  BY <1>3 DEF Recover
<1>4. CASE EvidenceLost(w)
  BY <1>4 DEF EvidenceLost
<1>4a. CASE FindExisting(w)
  BY <1>4a DEF FindExisting
<1>5. CASE Commit(w)
  BY <1>5 DEF Commit, Save
<1>6. CASE Push(w)
  BY <1>6 DEF Push
<1>7. CASE RecordPush(w)
  BY <1>7 DEF RecordPush, Save
<1>8. CASE VerifyNew(w)
  BY <1>8 DEF VerifyNew
<1>9. CASE VerifyOld(w)
  BY <1>9 DEF VerifyOld, Save
<1>10. CASE CheckDrift(w)
  BY <1>10 DEF CheckDrift, Save, MarkCompensation
<1>11. CASE BeginCreation(w)
  BY <1>11 DEF BeginCreation, Save
<1>12. CASE BoundaryFails(w)
  BY <1>12 DEF BoundaryFails, Save, MarkCompensation
<1>13. CASE SendPost(w)
  BY <1>13 DEF SendPost
<1>14. CASE NotSent(w)
  BY <1>14 DEF NotSent, Save
<1>15. CASE AnswerLost(w)
  BY <1>15 DEF AnswerLost
<1>16. CASE AnswerCreated(w)
  BY <1>16 DEF AnswerCreated
<1>17. CASE AnswerRefused(w)
  BY <1>17 DEF AnswerRefused
<1>18. CASE ReleaseRefused(w)
  BY <1>18 DEF ReleaseRefused, Save
<1>19. CASE MarkRefused(w)
  BY <1>19 DEF MarkRefused, Save, MarkCompensation
<1>20. CASE Persist(w)
  BY <1>20 DEF Persist, Save
<1>21. CASE NotPersisted(w)
  BY <1>21 DEF NotPersisted, Trip
<1>22. CASE StopOnClosed(w)
  BY <1>22 DEF StopOnClosed, Trip
<1>23. CASE Open(w)
  BY <1>23 DEF Open, Save
<1>24. CASE Reject(w)
  BY <1>24 DEF Reject, Save
<1>25. CASE StopOnRejected(w)
  BY <1>25 DEF StopOnRejected, Trip
<1>26. CASE MarkCreated(w)
  BY <1>26 DEF MarkCreated, Save, MarkCompensation
<1>27. QED
  BY Zenon, <1>1, <1>2, <1>3, <1>4, <1>5, <1>6, <1>7, <1>8, <1>9, <1>10, <1>11, <1>12, <1>13,
     <1>14, <1>15, <1>16, <1>17, <1>18, <1>19, <1>20, <1>21, <1>22, <1>23, <1>24, <1>25,
     <1>26, <1>4a DEF PublishStep

LEMMA AcceptStepBooks ==
  ASSUME TypeOK, Bookkeeping, NEW w \in Workers, AcceptStep(w)
  PROVE  Bookkeeping'
<1> pc \in [Workers -> Steps] /\ post \in [Workers -> {"none", "sent", "created", "refused"}]
  BY DEF TypeOK
<1> USE DEF Bookkeeping, PullRequestExists, OneAtATime, Reading, Go, Halt,
           At, run, github, locals
<1>1. CASE Reread(w)
  BY <1>1 DEF Reread
<1>2. CASE Accept(w)
  BY <1>2 DEF Accept, Save
<1>3. CASE AcceptForeign(w)
  BY <1>3 DEF AcceptForeign, Trip
<1>4. CASE Accepted(w)
  BY <1>4 DEF Accepted, Save
<1>5. CASE RejectExisting(w)
  BY <1>5 DEF RejectExisting, Save, Trip
<1>6. QED
  BY <1>1, <1>2, <1>3, <1>4, <1>5 DEF AcceptStep

LEMMA CleanupStepBooks ==
  ASSUME TypeOK, Bookkeeping, NEW w \in Workers, CleanupStep(w)
  PROVE  Bookkeeping'
<1> pc \in [Workers -> Steps] /\ post \in [Workers -> {"none", "sent", "created", "refused"}]
  BY DEF TypeOK
<1> USE DEF Bookkeeping, PullRequestExists, OneAtATime, Reading, Go, Halt,
           At, run, github, locals
<1>1. CASE CompensatePrePr(w)
  BY <1>1 DEF CompensatePrePr, Trip
<1>2. CASE CompensateCreated(w)
  BY <1>2 DEF CompensateCreated, Trip
<1>3. CASE MarkerUnbound(w)
  BY <1>3 DEF MarkerUnbound
<1>4. CASE ClosePullRequest(w)
  BY <1>4 DEF ClosePullRequest
<1>5. CASE RecordClosed(w)
  BY <1>5 DEF RecordClosed, Save, ToDelete
<1>6. CASE DeleteBranch(w)
  BY <1>6 DEF DeleteBranch
<1>7. CASE RecordDeleted(w)
  BY <1>7 DEF RecordDeleted, Save
<1>8. CASE Confirm(w)
  BY <1>8 DEF Confirm, Save
<1>9. CASE Unconfirmed(w)
  BY <1>9 DEF Unconfirmed
<1>10. CASE RecordMerged(w)
  BY <1>10 DEF RecordMerged, Save
<1>11. CASE Adopt(w)
  BY <1>11 DEF Adopt, Save
<1>12. CASE AdoptRefused(w)
  BY <1>12 DEF AdoptRefused
<1>13. CASE Withdraw(w)
  BY <1>13 DEF Withdraw, ToDelete
<1>14. CASE Withdrawn(w)
  BY <1>14 DEF Withdrawn, Save, Withdrawal
<1>15. CASE VerifyAbsence(w)
  BY <1>15 DEF VerifyAbsence, Save
<1>16. CASE Finalize(w)
  BY <1>16 DEF Finalize, Save
<1>17. QED
  BY <1>1, <1>2, <1>3, <1>4, <1>5, <1>6, <1>7, <1>8, <1>9, <1>10, <1>11, <1>12, <1>13,
     <1>14, <1>15, <1>16 DEF CleanupStep

LEMMA BooksNext ==
  ASSUME TypeOK, Bookkeeping, [Next]_vars
  PROVE  Bookkeeping'
<1> pc \in [Workers -> Steps] /\ post \in [Workers -> {"none", "sent", "created", "refused"}]
  BY DEF TypeOK
<1>1. ASSUME NEW w \in Workers, Command(w) \/ PublishStep(w) \/ AcceptStep(w) \/ CleanupStep(w)
      PROVE  Bookkeeping'
  BY <1>1, CommandBooks, PublishStepBooks, AcceptStepBooks, CleanupStepBooks
<1> USE DEF Bookkeeping, PullRequestExists, OneAtATime, Reading,
           run, github, locals
<1>2. ASSUME NEW w \in Workers, StaleSave(w) PROVE Bookkeeping'
  BY <1>2 DEF StaleSave, Halt
<1>3. ASSUME NEW w \in Workers, Land(w) PROVE Bookkeeping'
  BY <1>3 DEF Land
<1>4. ASSUME NEW w \in Workers, Refuse(w) PROVE Bookkeeping'
  BY <1>4 DEF Refuse
<1>5. ASSUME NEW w \in Workers, Interrupt(w) PROVE Bookkeeping'
  BY <1>5 DEF Interrupt
<1>6. CASE Maintainer
  BY <1>6 DEF Maintainer
<1>7. CASE Drift
  BY <1>7 DEF Drift
<1>8. CASE Outsider
  BY <1>8 DEF Outsider
<1>9. CASE Operator
  BY <1>9 DEF Operator
<1>10. CASE Lapse
  BY <1>10 DEF Lapse
<1>11. CASE UNCHANGED vars
  BY <1>11 DEF vars
<1>12. QED
  BY <1>1, <1>2, <1>3, <1>4, <1>5, <1>6, <1>7, <1>8, <1>9, <1>10, <1>11
     DEF Next, Step

LEMMA TypeInit == Init => TypeOK /\ Bookkeeping
<1> SUFFICES ASSUME Init PROVE TypeOK /\ Bookkeeping
  OBVIOUS
<1>1. /\ commit \in BOOLEAN /\ started \in BOOLEAN /\ url \in BOOLEAN
      /\ prBase \in BOOLEAN /\ prText \in BOOLEAN /\ baseSafe \in BOOLEAN
      /\ policyFresh \in BOOLEAN /\ tripped \in BOOLEAN /\ paused \in BOOLEAN
  BY DEF Init
<1>2. TypeOK
  BY <1>1 DEF Init, TypeOK, Steps, Marks, Views
<1>3. Bookkeeping
  BY DEF Init, Bookkeeping, PullRequestExists, OneAtATime, Reading
<1>4. QED
  BY <1>2, <1>3

\* Every reachable state of the publication is well typed, and no worker acts
\* on a pull request that was never made.
THEOREM TypeCorrect == Spec => []TypeOK
<1>1. TypeOK /\ Bookkeeping /\ [Next]_vars => (TypeOK /\ Bookkeeping)'
  BY TypeNext, BooksNext
<1>2. QED
  BY TypeInit, <1>1, PTL DEF Spec

(***************************************************************************)
(* At most one POST is unaccounted for.  The argument: a POST is sent only  *)
(* after its marker is stored, the marker is released only by the worker   *)
(* that sent nothing, by the one GitHub refused, or by a withdrawal, and a *)
(* worker that may still store a marker read the row before the present    *)
(* one was stored, so that its save fails.  A withdrawal is the only       *)
(* release that does not itself exclude a second worker on its way to a    *)
(* POST; the lease has to.                                                 *)
(***************************************************************************)
\* Steps before the creation marker is stored.
Unposted == {"gates", "commit", "recommit", "readopt", "push", "pushed", "verify_new",
             "verify_old", "drift", "boundary"}

\* Whoever is on its way to a POST found the marker clear; whoever is about to
\* send one is alone and has the marker stored.
CreationIsMarked ==
    /\ status = "approved" => ~started /\ \A w \in Workers : pc[w] \in {"idle", "gates"}
    /\ unresolved \in {0, 1}
    /\ unresolved = 1 => started
    /\ \A w \in Workers : fresh[w] /\ pc[w] \in Unposted => ~started
    /\ \A w \in Workers : pc[w] = "post" => started /\ unresolved = 0
    /\ \A v, w \in Workers : pc[v] = "post" /\ pc[w] = "post" => v = w
    /\ \A w \in Workers : fresh[w] /\ pc[w] \in {"await", "refused"} => unresolved = 1

LEMMA CommandMarked ==
  ASSUME TypeOK, Bookkeeping, CreationIsMarked, Excluded',
         NEW w \in Workers, Command(w)
  PROVE  CreationIsMarked'
<1> pc \in [Workers -> Steps] /\ fresh \in [Workers -> BOOLEAN] /\ unresolved \in Nat
  BY DEF TypeOK
<1> USE DEF CreationIsMarked, Unposted, Go, Halt, At, run
<1>1. CASE Publish(w)
  BY <1>1 DEF Publish, Start, Withdrawal
<1>2. CASE Reconcile(w)
  BY <1>2 DEF Reconcile, Start
<1>3. CASE Abandon(w)
  BY <1>3 DEF Abandon, Start
<1>4. QED
  BY <1>1, <1>2, <1>3 DEF Command

LEMMA PublishStepMarked ==
  ASSUME TypeOK, Bookkeeping, CreationIsMarked, Excluded',
         NEW w \in Workers, PublishStep(w)
  PROVE  CreationIsMarked'
<1> pc \in [Workers -> Steps] /\ fresh \in [Workers -> BOOLEAN] /\ unresolved \in Nat
  BY DEF TypeOK
<1> USE DEF CreationIsMarked, Unposted, Go, Halt, At, run
<1>1. CASE BeginPublication(w)
  BY <1>1 DEF BeginPublication, Save
<1>2. CASE GateRefuses(w)
  BY <1>2 DEF GateRefuses
<1>3. CASE Recover(w)
  BY <1>3 DEF Recover
<1>4. CASE EvidenceLost(w)
  BY <1>4 DEF EvidenceLost
<1>4a. CASE FindExisting(w)
  BY <1>4a DEF FindExisting
<1>5. CASE Commit(w)
  BY <1>5 DEF Commit, Save
<1>6. CASE Push(w)
  BY <1>6 DEF Push
<1>7. CASE RecordPush(w)
  BY <1>7 DEF RecordPush, Save
<1>8. CASE VerifyNew(w)
  BY <1>8 DEF VerifyNew
<1>9. CASE VerifyOld(w)
  BY <1>9 DEF VerifyOld, Save
<1>10. CASE CheckDrift(w)
  BY <1>10 DEF CheckDrift, Save, MarkCompensation
<1>11. CASE BeginCreation(w)
  BY <1>11 DEF BeginCreation, Save
<1>12. CASE BoundaryFails(w)
  BY <1>12 DEF BoundaryFails, Save, MarkCompensation
<1>13. CASE SendPost(w)
  BY <1>13 DEF SendPost
<1>14. CASE NotSent(w)
  BY <1>14 DEF NotSent, Save
<1>15. CASE AnswerLost(w)
  BY <1>15 DEF AnswerLost
<1>16. CASE AnswerCreated(w)
  BY <1>16 DEF AnswerCreated
<1>17. CASE AnswerRefused(w)
  BY <1>17 DEF AnswerRefused
<1>18. CASE ReleaseRefused(w)
  <2>1. unresolved = 1 /\ \A v \in Workers : pc[v] # "post"
    BY <1>18 DEF ReleaseRefused, Save
  <2>2. \A v \in Workers :
           pc'[v] \notin {"post", "await", "refused"} \cup Unposted \/ pc'[v] = pc[v]
    BY <1>18 DEF ReleaseRefused
  <2>3. status' = status /\ status # "approved" /\ ~started' /\ unresolved' = 0
    BY <1>18 DEF ReleaseRefused
  <2>4. \A v \in Workers : fresh'[v] => v = w
    BY <1>18 DEF ReleaseRefused, Save
  <2>5. pc'[w] \in {"refused_mark", "idle"}
    BY <1>18 DEF ReleaseRefused
  <2>6. QED
    BY <2>1, <2>2, <2>3, <2>4, <2>5
<1>19. CASE MarkRefused(w)
  BY <1>19 DEF MarkRefused, Save, MarkCompensation
<1>20. CASE Persist(w)
  BY <1>20 DEF Persist, Save
<1>21. CASE NotPersisted(w)
  BY <1>21 DEF NotPersisted, Trip
<1>22. CASE StopOnClosed(w)
  BY <1>22 DEF StopOnClosed, Trip
<1>23. CASE Open(w)
  BY <1>23 DEF Open, Save
<1>24. CASE Reject(w)
  BY <1>24 DEF Reject, Save
<1>25. CASE StopOnRejected(w)
  BY <1>25 DEF StopOnRejected, Trip
<1>26. CASE MarkCreated(w)
  BY <1>26 DEF MarkCreated, Save, MarkCompensation
<1>27. QED
  BY Zenon, <1>1, <1>2, <1>3, <1>4, <1>5, <1>6, <1>7, <1>8, <1>9, <1>10, <1>11, <1>12, <1>13,
     <1>14, <1>15, <1>16, <1>17, <1>18, <1>19, <1>20, <1>21, <1>22, <1>23, <1>24, <1>25,
     <1>26, <1>4a DEF PublishStep

LEMMA AcceptStepMarked ==
  ASSUME TypeOK, Bookkeeping, CreationIsMarked, Excluded',
         NEW w \in Workers, AcceptStep(w)
  PROVE  CreationIsMarked'
<1> pc \in [Workers -> Steps] /\ fresh \in [Workers -> BOOLEAN] /\ unresolved \in Nat
  BY DEF TypeOK
<1> USE DEF CreationIsMarked, Unposted, Go, Halt, At, run
<1>1. CASE Reread(w)
  BY <1>1 DEF Reread
<1>2. CASE Accept(w)
  BY <1>2 DEF Accept, Save
<1>3. CASE AcceptForeign(w)
  BY <1>3 DEF AcceptForeign, Trip
<1>4. CASE Accepted(w)
  BY <1>4 DEF Accepted, Save
<1>5. CASE RejectExisting(w)
  BY <1>5 DEF RejectExisting, Save, Trip
<1>6. QED
  BY <1>1, <1>2, <1>3, <1>4, <1>5 DEF AcceptStep

LEMMA CleanupStepMarked ==
  ASSUME TypeOK, Bookkeeping, CreationIsMarked, Excluded',
         NEW w \in Workers, CleanupStep(w)
  PROVE  CreationIsMarked'
<1> pc \in [Workers -> Steps] /\ fresh \in [Workers -> BOOLEAN] /\ unresolved \in Nat
  BY DEF TypeOK
<1> USE DEF CreationIsMarked, Unposted, Go, Halt, At, run
<1>1. CASE CompensatePrePr(w)
  BY <1>1 DEF CompensatePrePr, Trip
<1>2. CASE CompensateCreated(w)
  BY <1>2 DEF CompensateCreated, Trip
<1>3. CASE MarkerUnbound(w)
  BY <1>3 DEF MarkerUnbound
<1>4. CASE ClosePullRequest(w)
  BY <1>4 DEF ClosePullRequest
<1>5. CASE RecordClosed(w)
  BY <1>5 DEF RecordClosed, Save, ToDelete
<1>6. CASE DeleteBranch(w)
  BY <1>6 DEF DeleteBranch
<1>7. CASE RecordDeleted(w)
  BY <1>7 DEF RecordDeleted, Save
<1>8. CASE Confirm(w)
  BY <1>8 DEF Confirm, Save
<1>9. CASE Unconfirmed(w)
  BY <1>9 DEF Unconfirmed
<1>10. CASE RecordMerged(w)
  BY <1>10 DEF RecordMerged, Save
<1>11. CASE Adopt(w)
  BY <1>11 DEF Adopt, Save
<1>12. CASE AdoptRefused(w)
  BY <1>12 DEF AdoptRefused
<1>13. CASE Withdraw(w)
  BY <1>13 DEF Withdraw, ToDelete
<1>14. CASE Withdrawn(w)
  <2>1. CASE pr = "none"
    <3>1. ~paused
      BY <1>14, <2>1 DEF Withdrawn, Excluded, locals
    <3>2. \A v \in Workers : v # w => pc[v] = "idle"
      BY <1>14, <3>1 DEF Withdrawn, Bookkeeping, OneAtATime
    <3>3. QED
      BY <1>14, <2>1, <3>2 DEF Withdrawn, Save
  <2>2. CASE pr # "none"
    BY <1>14, <2>2 DEF Withdrawn
  <2>3. QED
    BY <2>1, <2>2
<1>15. CASE VerifyAbsence(w)
  BY <1>15 DEF VerifyAbsence, Save
<1>16. CASE Finalize(w)
  BY <1>16 DEF Finalize, Save
<1>17. QED
  BY <1>1, <1>2, <1>3, <1>4, <1>5, <1>6, <1>7, <1>8, <1>9, <1>10, <1>11, <1>12, <1>13,
     <1>14, <1>15, <1>16 DEF CleanupStep

LEMMA MarkedNext ==
  ASSUME TypeOK, Bookkeeping, CreationIsMarked, Excluded', [Next]_vars
  PROVE  CreationIsMarked'
<1> pc \in [Workers -> Steps] /\ fresh \in [Workers -> BOOLEAN] /\ unresolved \in Nat
  BY DEF TypeOK
<1>1. ASSUME NEW w \in Workers, Command(w) \/ PublishStep(w) \/ AcceptStep(w) \/ CleanupStep(w)
      PROVE  CreationIsMarked'
  BY <1>1, CommandMarked, PublishStepMarked, AcceptStepMarked, CleanupStepMarked
<1> USE DEF CreationIsMarked, Unposted, run
<1>2. ASSUME NEW w \in Workers, StaleSave(w) PROVE CreationIsMarked'
  BY <1>2 DEF StaleSave, Halt
<1>3. ASSUME NEW w \in Workers, Land(w) PROVE CreationIsMarked'
  BY <1>3 DEF Land
<1>4. ASSUME NEW w \in Workers, Refuse(w) PROVE CreationIsMarked'
  BY <1>4 DEF Refuse
<1>5. ASSUME NEW w \in Workers, Interrupt(w) PROVE CreationIsMarked'
  BY <1>5 DEF Interrupt
<1>6. CASE Maintainer
  BY <1>6 DEF Maintainer
<1>7. CASE Drift
  BY <1>7 DEF Drift
<1>8. CASE Outsider
  BY <1>8 DEF Outsider
<1>9. CASE Operator
  BY <1>9 DEF Operator
<1>10. CASE Lapse
  BY <1>10 DEF Lapse
<1>11. CASE UNCHANGED vars
  BY <1>11 DEF vars
<1>12. QED
  BY <1>1, <1>2, <1>3, <1>4, <1>5, <1>6, <1>7, <1>8, <1>9, <1>10, <1>11
     DEF Next, Step

\* Once the exclusion of workers is undone it stays undone.
LEMMA ExcludedBefore ==
  ASSUME [Next]_vars, Excluded'
  PROVE  Excluded
<1>1. (ledger \subseteq ledger' /\ (paused => paused')) => Excluded
  BY DEF Excluded
<1> USE DEF events, locals, Trip, breaker
<1>2. ASSUME NEW w \in Workers, Command(w) PROVE ledger \subseteq ledger' /\ (paused => paused')
  BY <1>2 DEF Command, Publish, Reconcile, Abandon, Start
<1>3. ASSUME NEW w \in Workers, PublishStep(w) PROVE ledger \subseteq ledger' /\ (paused => paused')
  BY <1>3 DEF PublishStep, BeginPublication, GateRefuses, Recover, EvidenceLost, FindExisting,
     Commit, Push, RecordPush, VerifyNew, VerifyOld, CheckDrift, BeginCreation, BoundaryFails,
     SendPost, NotSent, AnswerLost, AnswerCreated, AnswerRefused, ReleaseRefused, MarkRefused,
     Persist, NotPersisted, StopOnClosed, Open, Reject, StopOnRejected, MarkCreated,
     MarkCompensation
<1>4. ASSUME NEW w \in Workers, AcceptStep(w) PROVE ledger \subseteq ledger' /\ (paused => paused')
  BY <1>4 DEF AcceptStep, Reread, Accept, AcceptForeign, Accepted, RejectExisting
<1>5. ASSUME NEW w \in Workers, CleanupStep(w) PROVE ledger \subseteq ledger' /\ (paused => paused')
  BY <1>5 DEF CleanupStep, CompensatePrePr, CompensateCreated, MarkerUnbound, ClosePullRequest,
     RecordClosed, DeleteBranch, RecordDeleted, Confirm, Unconfirmed, RecordMerged, Adopt,
     AdoptRefused, Withdraw, Withdrawn, VerifyAbsence, Finalize
<1>6. CASE UNCHANGED vars
  BY <1>1, <1>6 DEF vars
<1>7. QED
  BY <1>1, <1>2, <1>3, <1>4, <1>5, <1>6 DEF Next, Step, StaleSave, Land, Refuse, Interrupt,
     Maintainer, Drift, Outsider, Operator, Lapse

\* For any number of workers, crashes, failed calls, pauses and retries: as long
\* as no worker has been paused past its lease in a run that an abandon withdrew,
\* no run ever has two POSTs that are neither refused nor withdrawn.
THEOREM PostsAreAccountedFor == Spec => []NoSecondPost
<1> DEFINE IInv == TypeOK /\ Bookkeeping /\ (Excluded => CreationIsMarked)
<1>1. Init => IInv
  BY TypeInit DEF Init, CreationIsMarked, Unposted
<1>2. IInv /\ [Next]_vars => IInv'
  BY TypeNext, BooksNext, MarkedNext, ExcludedBefore
<1>3. IInv => NoSecondPost
  BY DEF CreationIsMarked, NoSecondPost
<1>4. QED
  BY <1>1, <1>2, <1>3, PTL DEF Spec

\* Only a lease that lapses under its holder pauses, and that is remembered.
LEMMA PausedOnlyByLapse ==
  ASSUME [Next]_vars
  PROVE  paused' = paused \/ (LeaseMayLapse /\ paused' = TRUE)
<1> USE DEF locals
<1>1. ASSUME NEW w \in Workers, Command(w) PROVE UNCHANGED paused
  BY <1>1 DEF Command, Publish, Reconcile, Abandon, Start
<1>2. ASSUME NEW w \in Workers, PublishStep(w) PROVE UNCHANGED paused
  BY <1>2 DEF PublishStep, BeginPublication, GateRefuses, Recover, EvidenceLost, FindExisting,
     Commit, Push, RecordPush, VerifyNew, VerifyOld, CheckDrift, BeginCreation, BoundaryFails,
     SendPost, NotSent, AnswerLost, AnswerCreated, AnswerRefused, ReleaseRefused, MarkRefused,
     Persist, NotPersisted, StopOnClosed, Open, Reject, StopOnRejected, MarkCreated,
     MarkCompensation
<1>3. ASSUME NEW w \in Workers, AcceptStep(w) PROVE UNCHANGED paused
  BY <1>3 DEF AcceptStep, Reread, Accept, AcceptForeign, Accepted, RejectExisting
<1>4. ASSUME NEW w \in Workers, CleanupStep(w) PROVE UNCHANGED paused
  BY <1>4 DEF CleanupStep, CompensatePrePr, CompensateCreated, MarkerUnbound, ClosePullRequest,
     RecordClosed, DeleteBranch, RecordDeleted, Confirm, Unconfirmed, RecordMerged, Adopt,
     AdoptRefused, Withdraw, Withdrawn, VerifyAbsence, Finalize
<1>5. QED
  BY <1>1, <1>2, <1>3, <1>4 DEF Next, Step, StaleSave, Land, Refuse, Interrupt,
     Maintainer, Drift, Outsider, Operator, Lapse, vars

LEMMA PausedStays == ASSUME [Next]_vars, ~paused' PROVE ~paused
  BY PausedOnlyByLapse


(***************************************************************************)
(* What ends failed left nothing behind.  As long as no lease has lapsed   *)
(* under its holder: whoever works has the stored row and the run is not   *)
(* over; a step of a cleanup is taken for the reason that the row states;  *)
(* a run is ended only with its marker released; and once its branch was   *)
(* seen gone nobody is left who could push it again.                       *)
(***************************************************************************)
Settled == ~paused =>
    /\ \A w \in Workers : pc[w] # "idle" => fresh[w] /\ ~Over
    /\ \A w \in Workers : pc[w] \in {"absent", "finalize"} => ~started
    /\ \A w \in Workers : pc[w] \in {"delete", "deleted"} /\ reason \in PrePr => ~started
    /\ \A w \in Workers : pc[w] \in {"merged", "adopt", "close", "closed", "confirm"} =>
          reason = "created_pr_base_moved"
    /\ \A w \in Workers : pc[w] \in {"withdraw", "withdrawn"} => reason = "none"
    /\ \A w \in Workers : pc[w] \in {"deleted", "withdrawn", "finalize"} => branch = "absent"
    /\ \A w \in Workers : pc[w] = "finalize" => pr = "none"
    /\ "pull_request.created.response" \in ledger => url
    /\ FailedLeavesNothing

LEMMA CommandSettled ==
  ASSUME TypeOK, Bookkeeping, CreationIsMarked, Settled, ~paused, NEW w \in Workers, Command(w)
  PROVE  Settled'
<1> pc \in [Workers -> Steps] /\ fresh \in [Workers -> BOOLEAN] /\ reason \in Reasons \cup {"none"}
  BY DEF TypeOK
<1> USE DEF Settled, FailedLeavesNothing, Over, Bookkeeping, PullRequestExists, OneAtATime,
    CreationIsMarked, Unposted, Reasons, PrePr, Go, Halt, At, run, events, github, locals,
    MarkerIsBound, CreatedCleanupIsProved
<1>1. CASE Publish(w)
  BY <1>1 DEF Publish, Start
<1>2. CASE Reconcile(w)
  BY <1>2 DEF Reconcile, Start
<1>3. CASE Abandon(w)
  BY <1>3 DEF Abandon, Start
<1>4. QED
  BY <1>1, <1>2, <1>3 DEF Command

LEMMA PublishStepSettled ==
  ASSUME TypeOK, Bookkeeping, CreationIsMarked, Settled, ~paused, NEW w \in Workers,
     PublishStep(w)
  PROVE  Settled'
<1> pc \in [Workers -> Steps] /\ fresh \in [Workers -> BOOLEAN] /\ reason \in Reasons \cup {"none"}
  BY DEF TypeOK
<1> USE DEF Settled, FailedLeavesNothing, Over, Bookkeeping, PullRequestExists, OneAtATime,
    CreationIsMarked, Unposted, Reasons, PrePr, Go, Halt, At, run, events, github, locals,
    MarkerIsBound, CreatedCleanupIsProved
<1>1. CASE BeginPublication(w)
  BY <1>1 DEF BeginPublication, Save
<1>2. CASE GateRefuses(w)
  BY <1>2 DEF GateRefuses
<1>3. CASE Recover(w)
  BY <1>3 DEF Recover
<1>4. CASE EvidenceLost(w)
  BY <1>4 DEF EvidenceLost
<1>4a. CASE FindExisting(w)
  BY <1>4a DEF FindExisting
<1>5. CASE Commit(w)
  BY <1>5 DEF Commit, Save
<1>6. CASE Push(w)
  BY <1>6 DEF Push
<1>7. CASE RecordPush(w)
  BY <1>7 DEF RecordPush, Save
<1>8. CASE VerifyNew(w)
  BY <1>8 DEF VerifyNew
<1>9. CASE VerifyOld(w)
  BY <1>9 DEF VerifyOld, Save
<1>10. CASE CheckDrift(w)
  BY <1>10 DEF CheckDrift, Save, MarkCompensation
<1>11. CASE BeginCreation(w)
  BY <1>11 DEF BeginCreation, Save
<1>12. CASE BoundaryFails(w)
  BY <1>12 DEF BoundaryFails, Save, MarkCompensation
<1>13. CASE SendPost(w)
  BY <1>13 DEF SendPost
<1>14. CASE NotSent(w)
  BY <1>14 DEF NotSent, Save
<1>15. CASE AnswerLost(w)
  BY <1>15 DEF AnswerLost
<1>16. CASE AnswerCreated(w)
  BY <1>16 DEF AnswerCreated
<1>17. CASE AnswerRefused(w)
  BY <1>17 DEF AnswerRefused
<1>18. CASE ReleaseRefused(w)
  BY <1>18 DEF ReleaseRefused, Save
<1>19. CASE MarkRefused(w)
  BY <1>19 DEF MarkRefused, Save, MarkCompensation
<1>20. CASE Persist(w)
  BY <1>20 DEF Persist, Save
<1>21. CASE NotPersisted(w)
  BY <1>21 DEF NotPersisted, Trip
<1>22. CASE StopOnClosed(w)
  BY <1>22 DEF StopOnClosed, Trip
<1>23. CASE Open(w)
  BY <1>23 DEF Open, Save
<1>24. CASE Reject(w)
  BY <1>24 DEF Reject, Save
<1>25. CASE StopOnRejected(w)
  BY <1>25 DEF StopOnRejected, Trip
<1>26. CASE MarkCreated(w)
  BY <1>26 DEF MarkCreated, Save, MarkCompensation
<1>27. QED
  BY Zenon, <1>1, <1>2, <1>3, <1>4, <1>4a, <1>5, <1>6, <1>7, <1>8, <1>9, <1>10, <1>11, <1>12, <1>13,
     <1>14, <1>15, <1>16, <1>17, <1>18, <1>19, <1>20, <1>21, <1>22, <1>23, <1>24, <1>25, <1>26
     DEF PublishStep

LEMMA AcceptStepSettled ==
  ASSUME TypeOK, Bookkeeping, CreationIsMarked, Settled, ~paused, NEW w \in Workers, AcceptStep(w)
  PROVE  Settled'
<1> pc \in [Workers -> Steps] /\ fresh \in [Workers -> BOOLEAN] /\ reason \in Reasons \cup {"none"}
  BY DEF TypeOK
<1> USE DEF Settled, FailedLeavesNothing, Over, Bookkeeping, PullRequestExists, OneAtATime,
    CreationIsMarked, Unposted, Reasons, PrePr, Go, Halt, At, run, events, github, locals,
    MarkerIsBound, CreatedCleanupIsProved
<1>1. CASE Reread(w)
  BY <1>1 DEF Reread
<1>2. CASE Accept(w)
  BY <1>2 DEF Accept, Save
<1>3. CASE AcceptForeign(w)
  BY <1>3 DEF AcceptForeign, Trip
<1>4. CASE Accepted(w)
  BY <1>4 DEF Accepted, Save
<1>5. CASE RejectExisting(w)
  BY <1>5 DEF RejectExisting, Save, Trip
<1>6. QED
  BY <1>1, <1>2, <1>3, <1>4, <1>5 DEF AcceptStep

LEMMA CleanupStepSettled ==
  ASSUME TypeOK, Bookkeeping, CreationIsMarked, Settled, ~paused, NEW w \in Workers,
     CleanupStep(w)
  PROVE  Settled'
<1> pc \in [Workers -> Steps] /\ fresh \in [Workers -> BOOLEAN] /\ reason \in Reasons \cup {"none"}
  BY DEF TypeOK
<1> USE DEF Settled, FailedLeavesNothing, Over, Bookkeeping, PullRequestExists, OneAtATime,
    CreationIsMarked, Unposted, Reasons, PrePr, Go, Halt, At, run, events, github, locals,
    MarkerIsBound, CreatedCleanupIsProved
<1>1. CASE CompensatePrePr(w)
  BY <1>1 DEF CompensatePrePr, Trip
<1>2. CASE CompensateCreated(w)
  BY <1>2 DEF CompensateCreated, Trip
<1>3. CASE MarkerUnbound(w)
  BY <1>3 DEF MarkerUnbound
<1>4. CASE ClosePullRequest(w)
  BY <1>4 DEF ClosePullRequest
<1>5. CASE RecordClosed(w)
  BY <1>5 DEF RecordClosed, Save, ToDelete
<1>6. CASE DeleteBranch(w)
  BY <1>6 DEF DeleteBranch
<1>7. CASE RecordDeleted(w)
  BY <1>7 DEF RecordDeleted, Save
<1>8. CASE Confirm(w)
  BY <1>8 DEF Confirm, Save
<1>9. CASE Unconfirmed(w)
  BY <1>9 DEF Unconfirmed
<1>10. CASE RecordMerged(w)
  BY <1>10 DEF RecordMerged, Save
<1>11. CASE Adopt(w)
  BY <1>11 DEF Adopt, Save
<1>12. CASE AdoptRefused(w)
  BY <1>12 DEF AdoptRefused
<1>13. CASE Withdraw(w)
  BY <1>13 DEF Withdraw, ToDelete
<1>14. CASE Withdrawn(w)
  BY <1>14 DEF Withdrawn, Withdrawal, Save
<1>15. CASE VerifyAbsence(w)
  BY <1>15 DEF VerifyAbsence, Save
<1>16. CASE Finalize(w)
  BY <1>16 DEF Finalize, Save
<1>17. QED
  BY <1>1, <1>2, <1>3, <1>4, <1>5, <1>6, <1>7, <1>8, <1>9, <1>10, <1>11, <1>12, <1>13, <1>14,
     <1>15, <1>16 DEF CleanupStep

LEMMA SettledNext ==
  ASSUME TypeOK, Bookkeeping, CreationIsMarked, Settled, ~paused', [Next]_vars
  PROVE  Settled'
<1> pc \in [Workers -> Steps] /\ fresh \in [Workers -> BOOLEAN] /\ reason \in Reasons \cup {"none"}
  BY DEF TypeOK
<1>0. ~paused
  BY PausedStays
<1>1. ASSUME NEW w \in Workers, Command(w) \/ PublishStep(w) \/ AcceptStep(w) \/ CleanupStep(w)
      PROVE  Settled'
  BY <1>0, <1>1, CommandSettled, PublishStepSettled, AcceptStepSettled, CleanupStepSettled
<1> USE <1>0 DEF Settled, FailedLeavesNothing, Over, Bookkeeping, PullRequestExists, OneAtATime,
    CreationIsMarked, Unposted, Reasons, PrePr, run, events, github, locals
<1>2. ASSUME NEW w \in Workers, StaleSave(w) PROVE Settled'
  BY <1>2 DEF StaleSave, Halt
<1>3. ASSUME NEW w \in Workers, Land(w) PROVE Settled'
  BY <1>3 DEF Land
<1>4. ASSUME NEW w \in Workers, Refuse(w) PROVE Settled'
  BY <1>4 DEF Refuse
<1>5. ASSUME NEW w \in Workers, Interrupt(w) PROVE Settled'
  BY <1>5 DEF Interrupt
<1>6. CASE Maintainer
  BY <1>6 DEF Maintainer
<1>7. CASE Drift
  BY <1>7 DEF Drift
<1>8. CASE Outsider
  BY <1>8 DEF Outsider
<1>9. CASE Operator
  BY <1>9 DEF Operator
<1>10. CASE Lapse
  BY <1>10 DEF Lapse
<1>11. CASE UNCHANGED vars
  BY <1>11 DEF vars
<1>12. QED
  BY <1>1, <1>2, <1>3, <1>4, <1>5, <1>6, <1>7, <1>8, <1>9, <1>10, <1>11
     DEF Next, Step


(***************************************************************************)
(* One pull request.  A POST that may still create one is the one that is  *)
(* unaccounted for, and no pull request exists yet; or an abandon has       *)
(* withdrawn it, the head is gone, and nothing pushes it again.            *)
(***************************************************************************)
\* Steps on the way to a POST, or waiting for its answer.
Creating == Unposted \cup {"recover", "post", "await", "refused"}

OnePullRequest == ~paused =>
    /\ \A w \in Workers : pc[w] \in Creating => Withdrawal \notin ledger
    /\ status = "approved" => Withdrawal \notin ledger
    /\ Withdrawal \in ledger => branch = "absent" /\ pr = "none"
    /\ pr # "none" => unresolved = 1
    /\ \A w \in Workers : post[w] = "sent" =>
          Withdrawal \in ledger \/ (unresolved = 1 /\ pr = "none")
    /\ \A v, w \in Workers : v # w /\ post[v] = "sent" /\ post[w] = "sent" => Withdrawal \in ledger
    /\ \A v, w \in Workers : v # w /\ post[v] = "sent" => pc[w] \notin {"await", "refused"}
    /\ \A w \in Workers : pc[w] = "refused" => post[w] = "refused" /\ pr = "none"

LEMMA CommandOne ==
  ASSUME TypeOK, Bookkeeping, CreationIsMarked, Settled, OnePullRequest, ~Republish, ~paused,
     NEW w \in Workers, Command(w)
  PROVE  OnePullRequest'
<1> /\ pc \in [Workers -> Steps] /\ fresh \in [Workers -> BOOLEAN]
    /\ post \in [Workers -> {"none", "sent", "created", "refused"}] /\ unresolved \in Nat
  BY DEF TypeOK
<1> USE DEF OnePullRequest, Creating, Settled, Over, Bookkeeping, PullRequestExists,
    OneAtATime, CreationIsMarked, Unposted, Go, Halt, At, run, events, github, locals, Withdrawal
<1>1. CASE Publish(w)
  BY <1>1 DEF Publish, Start
<1>2. CASE Reconcile(w)
  BY <1>2 DEF Reconcile, Start
<1>3. CASE Abandon(w)
  BY <1>3 DEF Abandon, Start
<1>4. QED
  BY <1>1, <1>2, <1>3 DEF Command

LEMMA PublishStepOne ==
  ASSUME TypeOK, Bookkeeping, CreationIsMarked, Settled, OnePullRequest, ~Republish, ~paused,
     NEW w \in Workers, PublishStep(w)
  PROVE  OnePullRequest'
<1> /\ pc \in [Workers -> Steps] /\ fresh \in [Workers -> BOOLEAN]
    /\ post \in [Workers -> {"none", "sent", "created", "refused"}] /\ unresolved \in Nat
  BY DEF TypeOK
<1> USE DEF OnePullRequest, Creating, Settled, Over, Bookkeeping, PullRequestExists,
    OneAtATime, CreationIsMarked, Unposted, Go, Halt, At, run, events, github, locals, Withdrawal
<1>1. CASE BeginPublication(w)
  BY <1>1 DEF BeginPublication, Save
<1>2. CASE GateRefuses(w)
  BY <1>2 DEF GateRefuses
<1>3. CASE Recover(w)
  BY <1>3 DEF Recover
<1>4. CASE EvidenceLost(w)
  BY <1>4 DEF EvidenceLost
<1>4a. CASE FindExisting(w)
  BY <1>4a DEF FindExisting
<1>5. CASE Commit(w)
  BY <1>5 DEF Commit, Save
<1>6. CASE Push(w)
  BY <1>6 DEF Push
<1>7. CASE RecordPush(w)
  BY <1>7 DEF RecordPush, Save
<1>8. CASE VerifyNew(w)
  BY <1>8 DEF VerifyNew
<1>9. CASE VerifyOld(w)
  BY <1>9 DEF VerifyOld, Save
<1>10. CASE CheckDrift(w)
  BY <1>10 DEF CheckDrift, Save, MarkCompensation
<1>11. CASE BeginCreation(w)
  BY <1>11 DEF BeginCreation, Save
<1>12. CASE BoundaryFails(w)
  BY <1>12 DEF BoundaryFails, Save, MarkCompensation
<1>13. CASE SendPost(w)
  BY <1>13 DEF SendPost
<1>14. CASE NotSent(w)
  BY <1>14 DEF NotSent, Save
<1>15. CASE AnswerLost(w)
  BY <1>15 DEF AnswerLost
<1>16. CASE AnswerCreated(w)
  BY <1>16 DEF AnswerCreated
<1>17. CASE AnswerRefused(w)
  BY <1>17 DEF AnswerRefused
<1>18. CASE ReleaseRefused(w)
  BY <1>18 DEF ReleaseRefused, Save
<1>19. CASE MarkRefused(w)
  BY <1>19 DEF MarkRefused, Save, MarkCompensation
<1>20. CASE Persist(w)
  BY <1>20 DEF Persist, Save
<1>21. CASE NotPersisted(w)
  BY <1>21 DEF NotPersisted, Trip
<1>22. CASE StopOnClosed(w)
  BY <1>22 DEF StopOnClosed, Trip
<1>23. CASE Open(w)
  BY <1>23 DEF Open, Save
<1>24. CASE Reject(w)
  BY <1>24 DEF Reject, Save
<1>25. CASE StopOnRejected(w)
  BY <1>25 DEF StopOnRejected, Trip
<1>26. CASE MarkCreated(w)
  BY <1>26 DEF MarkCreated, Save, MarkCompensation
<1>27. QED
  BY Zenon, <1>1, <1>2, <1>3, <1>4, <1>4a, <1>5, <1>6, <1>7, <1>8, <1>9, <1>10, <1>11, <1>12, <1>13,
     <1>14, <1>15, <1>16, <1>17, <1>18, <1>19, <1>20, <1>21, <1>22, <1>23, <1>24, <1>25, <1>26
     DEF PublishStep

LEMMA AcceptStepOne ==
  ASSUME TypeOK, Bookkeeping, CreationIsMarked, Settled, OnePullRequest, ~Republish, ~paused,
     NEW w \in Workers, AcceptStep(w)
  PROVE  OnePullRequest'
<1> /\ pc \in [Workers -> Steps] /\ fresh \in [Workers -> BOOLEAN]
    /\ post \in [Workers -> {"none", "sent", "created", "refused"}] /\ unresolved \in Nat
  BY DEF TypeOK
<1> USE DEF OnePullRequest, Creating, Settled, Over, Bookkeeping, PullRequestExists,
    OneAtATime, CreationIsMarked, Unposted, Go, Halt, At, run, events, github, locals, Withdrawal
<1>1. CASE Reread(w)
  BY <1>1 DEF Reread
<1>2. CASE Accept(w)
  BY <1>2 DEF Accept, Save
<1>3. CASE AcceptForeign(w)
  BY <1>3 DEF AcceptForeign, Trip
<1>4. CASE Accepted(w)
  BY <1>4 DEF Accepted, Save
<1>5. CASE RejectExisting(w)
  BY <1>5 DEF RejectExisting, Save, Trip
<1>6. QED
  BY <1>1, <1>2, <1>3, <1>4, <1>5 DEF AcceptStep

LEMMA CleanupStepOne ==
  ASSUME TypeOK, Bookkeeping, CreationIsMarked, Settled, OnePullRequest, ~Republish, ~paused,
     NEW w \in Workers, CleanupStep(w)
  PROVE  OnePullRequest'
<1> /\ pc \in [Workers -> Steps] /\ fresh \in [Workers -> BOOLEAN]
    /\ post \in [Workers -> {"none", "sent", "created", "refused"}] /\ unresolved \in Nat
  BY DEF TypeOK
<1> USE DEF OnePullRequest, Creating, Settled, Over, Bookkeeping, PullRequestExists,
    OneAtATime, CreationIsMarked, Unposted, Go, Halt, At, run, events, github, locals, Withdrawal
<1>1. CASE CompensatePrePr(w)
  BY <1>1 DEF CompensatePrePr, Trip
<1>2. CASE CompensateCreated(w)
  BY <1>2 DEF CompensateCreated, Trip
<1>3. CASE MarkerUnbound(w)
  BY <1>3 DEF MarkerUnbound
<1>4. CASE ClosePullRequest(w)
  BY <1>4 DEF ClosePullRequest
<1>5. CASE RecordClosed(w)
  BY <1>5 DEF RecordClosed, Save, ToDelete
<1>6. CASE DeleteBranch(w)
  BY <1>6 DEF DeleteBranch
<1>7. CASE RecordDeleted(w)
  BY <1>7 DEF RecordDeleted, Save
<1>8. CASE Confirm(w)
  BY <1>8 DEF Confirm, Save
<1>9. CASE Unconfirmed(w)
  BY <1>9 DEF Unconfirmed
<1>10. CASE RecordMerged(w)
  BY <1>10 DEF RecordMerged, Save
<1>11. CASE Adopt(w)
  BY <1>11 DEF Adopt, Save
<1>12. CASE AdoptRefused(w)
  BY <1>12 DEF AdoptRefused
<1>13. CASE Withdraw(w)
  BY <1>13 DEF Withdraw, ToDelete
<1>14. CASE Withdrawn(w)
  BY <1>14 DEF Withdrawn, Save
<1>15. CASE VerifyAbsence(w)
  BY <1>15 DEF VerifyAbsence, Save
<1>16. CASE Finalize(w)
  BY <1>16 DEF Finalize, Save
<1>17. QED
  BY <1>1, <1>2, <1>3, <1>4, <1>5, <1>6, <1>7, <1>8, <1>9, <1>10, <1>11, <1>12, <1>13, <1>14,
     <1>15, <1>16 DEF CleanupStep

LEMMA OneNext ==
  ASSUME TypeOK, Bookkeeping, CreationIsMarked, Settled, OnePullRequest, ~Republish, ~paused',
     [Next]_vars
  PROVE  OnePullRequest'
<1> /\ pc \in [Workers -> Steps] /\ fresh \in [Workers -> BOOLEAN]
    /\ post \in [Workers -> {"none", "sent", "created", "refused"}] /\ unresolved \in Nat
  BY DEF TypeOK
<1>0. ~paused
  BY PausedStays
<1>1. ASSUME NEW w \in Workers, Command(w) \/ PublishStep(w) \/ AcceptStep(w) \/ CleanupStep(w)
      PROVE  OnePullRequest'
  BY <1>0, <1>1, CommandOne, PublishStepOne, AcceptStepOne, CleanupStepOne
<1> USE <1>0 DEF OnePullRequest, Creating, Settled, Over, Bookkeeping, PullRequestExists,
    OneAtATime, CreationIsMarked, Unposted, run, events, github, locals, Withdrawal
<1>2. ASSUME NEW w \in Workers, StaleSave(w) PROVE OnePullRequest'
  BY <1>2 DEF StaleSave, Halt
<1>3. ASSUME NEW w \in Workers, Land(w) PROVE OnePullRequest'
  BY <1>3 DEF Land
<1>4. ASSUME NEW w \in Workers, Refuse(w) PROVE OnePullRequest'
  BY <1>4 DEF Refuse
<1>5. ASSUME NEW w \in Workers, Interrupt(w) PROVE OnePullRequest'
  BY <1>5 DEF Interrupt
<1>6. CASE Maintainer
  BY <1>6 DEF Maintainer
<1>7. CASE Drift
  BY <1>7 DEF Drift
<1>8. CASE Outsider
  BY <1>8 DEF Outsider
<1>9. CASE Operator
  BY <1>9 DEF Operator
<1>10. CASE Lapse
  BY <1>10 DEF Lapse
<1>11. CASE UNCHANGED vars
  BY <1>11 DEF vars
<1>12. QED
  BY <1>1, <1>2, <1>3, <1>4, <1>5, <1>6, <1>7, <1>8, <1>9, <1>10, <1>11
     DEF Next, Step


(***************************************************************************)
(* What is open is what was approved.  Nobody else moves the head, so that *)
(* the one pull request of the run keeps the content it was created with,   *)
(* and what a worker saw of it stays true until it opens the run.          *)
(***************************************************************************)
Fine == {"exact", "merged", "closed"}

Approved == ~paused =>
    /\ prHead = "exact" /\ branch # "other"
    /\ \A w \in Workers : pc[w] \in {"persist", "accepted"} /\ seen[w] \in Fine => View \in Fine
    /\ \A w \in Workers : pc[w] \in {"open", "manage", "closed_pr"} => View \in Fine
    /\ \A w \in Workers : pc[w] \in {"open", "manage", "closed_pr", "accepted"} => url
    /\ \A w \in Workers : pc[w] \in {"merged", "adopt"} => pr = "merged" /\ url
    /\ PublishedIsApproved

LEMMA CommandApproved ==
  ASSUME TypeOK, Bookkeeping, CreationIsMarked, Settled, OnePullRequest, Approved,
     ~OutsiderActs, ~paused, NEW w \in Workers, Command(w)
  PROVE  Approved'
<1> /\ pc \in [Workers -> Steps] /\ fresh \in [Workers -> BOOLEAN] /\ seen \in [Workers -> Views]
    /\ pr \in {"none", "open", "closed", "merged"} /\ prBase \in BOOLEAN /\ prText \in BOOLEAN
  BY DEF TypeOK
<1> USE DEF Approved, PublishedIsApproved, View, Fine, OnePullRequest, Settled, Over,
    Bookkeeping, PullRequestExists, OneAtATime, Go, Halt, At, run, events, github, locals,
    MarkerIsBound
<1>1. CASE Publish(w)
  BY <1>1 DEF Publish, Start
<1>2. CASE Reconcile(w)
  BY <1>2 DEF Reconcile, Start
<1>3. CASE Abandon(w)
  BY <1>3 DEF Abandon, Start
<1>4. QED
  BY <1>1, <1>2, <1>3 DEF Command

LEMMA PublishStepApproved ==
  ASSUME TypeOK, Bookkeeping, CreationIsMarked, Settled, OnePullRequest, Approved,
     ~OutsiderActs, ~paused, NEW w \in Workers, PublishStep(w)
  PROVE  Approved'
<1> /\ pc \in [Workers -> Steps] /\ fresh \in [Workers -> BOOLEAN] /\ seen \in [Workers -> Views]
    /\ pr \in {"none", "open", "closed", "merged"} /\ prBase \in BOOLEAN /\ prText \in BOOLEAN
  BY DEF TypeOK
<1> USE DEF Approved, PublishedIsApproved, View, Fine, OnePullRequest, Settled, Over,
    Bookkeeping, PullRequestExists, OneAtATime, Go, Halt, At, run, events, github, locals,
    MarkerIsBound
<1>1. CASE BeginPublication(w)
  BY <1>1 DEF BeginPublication, Save
<1>2. CASE GateRefuses(w)
  BY <1>2 DEF GateRefuses
<1>3. CASE Recover(w)
  BY <1>3 DEF Recover
<1>4. CASE EvidenceLost(w)
  BY <1>4 DEF EvidenceLost
<1>4a. CASE FindExisting(w)
  BY <1>4a DEF FindExisting
<1>5. CASE Commit(w)
  BY <1>5 DEF Commit, Save
<1>6. CASE Push(w)
  BY <1>6 DEF Push
<1>7. CASE RecordPush(w)
  BY <1>7 DEF RecordPush, Save
<1>8. CASE VerifyNew(w)
  BY <1>8 DEF VerifyNew
<1>9. CASE VerifyOld(w)
  BY <1>9 DEF VerifyOld, Save
<1>10. CASE CheckDrift(w)
  BY <1>10 DEF CheckDrift, Save, MarkCompensation
<1>11. CASE BeginCreation(w)
  BY <1>11 DEF BeginCreation, Save
<1>12. CASE BoundaryFails(w)
  BY <1>12 DEF BoundaryFails, Save, MarkCompensation
<1>13. CASE SendPost(w)
  BY <1>13 DEF SendPost
<1>14. CASE NotSent(w)
  BY <1>14 DEF NotSent, Save
<1>15. CASE AnswerLost(w)
  BY <1>15 DEF AnswerLost
<1>16. CASE AnswerCreated(w)
  BY <1>16 DEF AnswerCreated
<1>17. CASE AnswerRefused(w)
  BY <1>17 DEF AnswerRefused
<1>18. CASE ReleaseRefused(w)
  BY <1>18 DEF ReleaseRefused, Save
<1>19. CASE MarkRefused(w)
  BY <1>19 DEF MarkRefused, Save, MarkCompensation
<1>20. CASE Persist(w)
  BY <1>20 DEF Persist, Save
<1>21. CASE NotPersisted(w)
  BY <1>21 DEF NotPersisted, Trip
<1>22. CASE StopOnClosed(w)
  BY <1>22 DEF StopOnClosed, Trip
<1>23. CASE Open(w)
  BY <1>23 DEF Open, Save
<1>24. CASE Reject(w)
  BY <1>24 DEF Reject, Save
<1>25. CASE StopOnRejected(w)
  BY <1>25 DEF StopOnRejected, Trip
<1>26. CASE MarkCreated(w)
  BY <1>26 DEF MarkCreated, Save, MarkCompensation
<1>27. QED
  BY Zenon, <1>1, <1>2, <1>3, <1>4, <1>4a, <1>5, <1>6, <1>7, <1>8, <1>9, <1>10, <1>11, <1>12, <1>13,
     <1>14, <1>15, <1>16, <1>17, <1>18, <1>19, <1>20, <1>21, <1>22, <1>23, <1>24, <1>25, <1>26
     DEF PublishStep

LEMMA AcceptStepApproved ==
  ASSUME TypeOK, Bookkeeping, CreationIsMarked, Settled, OnePullRequest, Approved,
     ~OutsiderActs, ~paused, NEW w \in Workers, AcceptStep(w)
  PROVE  Approved'
<1> /\ pc \in [Workers -> Steps] /\ fresh \in [Workers -> BOOLEAN] /\ seen \in [Workers -> Views]
    /\ pr \in {"none", "open", "closed", "merged"} /\ prBase \in BOOLEAN /\ prText \in BOOLEAN
  BY DEF TypeOK
<1> USE DEF Approved, PublishedIsApproved, View, Fine, OnePullRequest, Settled, Over,
    Bookkeeping, PullRequestExists, OneAtATime, Go, Halt, At, run, events, github, locals,
    MarkerIsBound
<1>1. CASE Reread(w)
  BY <1>1 DEF Reread
<1>2. CASE Accept(w)
  BY <1>2 DEF Accept, Save
<1>3. CASE AcceptForeign(w)
  BY <1>3 DEF AcceptForeign, Trip
<1>4. CASE Accepted(w)
  BY <1>4 DEF Accepted, Save
<1>5. CASE RejectExisting(w)
  BY <1>5 DEF RejectExisting, Save, Trip
<1>6. QED
  BY <1>1, <1>2, <1>3, <1>4, <1>5 DEF AcceptStep

LEMMA CleanupStepApproved ==
  ASSUME TypeOK, Bookkeeping, CreationIsMarked, Settled, OnePullRequest, Approved,
     ~OutsiderActs, ~paused, NEW w \in Workers, CleanupStep(w)
  PROVE  Approved'
<1> /\ pc \in [Workers -> Steps] /\ fresh \in [Workers -> BOOLEAN] /\ seen \in [Workers -> Views]
    /\ pr \in {"none", "open", "closed", "merged"} /\ prBase \in BOOLEAN /\ prText \in BOOLEAN
  BY DEF TypeOK
<1> USE DEF Approved, PublishedIsApproved, View, Fine, OnePullRequest, Settled, Over,
    Bookkeeping, PullRequestExists, OneAtATime, Go, Halt, At, run, events, github, locals,
    MarkerIsBound
<1>1. CASE CompensatePrePr(w)
  BY <1>1 DEF CompensatePrePr, Trip
<1>2. CASE CompensateCreated(w)
  BY <1>2 DEF CompensateCreated, Trip
<1>3. CASE MarkerUnbound(w)
  BY <1>3 DEF MarkerUnbound
<1>4. CASE ClosePullRequest(w)
  BY <1>4 DEF ClosePullRequest
<1>5. CASE RecordClosed(w)
  BY <1>5 DEF RecordClosed, Save, ToDelete
<1>6. CASE DeleteBranch(w)
  BY <1>6 DEF DeleteBranch
<1>7. CASE RecordDeleted(w)
  BY <1>7 DEF RecordDeleted, Save
<1>8. CASE Confirm(w)
  BY <1>8 DEF Confirm, Save
<1>9. CASE Unconfirmed(w)
  BY <1>9 DEF Unconfirmed
<1>10. CASE RecordMerged(w)
  BY <1>10 DEF RecordMerged, Save
<1>11. CASE Adopt(w)
  BY <1>11 DEF Adopt, Save
<1>12. CASE AdoptRefused(w)
  BY <1>12 DEF AdoptRefused
<1>13. CASE Withdraw(w)
  BY <1>13 DEF Withdraw, ToDelete
<1>14. CASE Withdrawn(w)
  BY <1>14 DEF Withdrawn, Save
<1>15. CASE VerifyAbsence(w)
  BY <1>15 DEF VerifyAbsence, Save
<1>16. CASE Finalize(w)
  BY <1>16 DEF Finalize, Save
<1>17. QED
  BY <1>1, <1>2, <1>3, <1>4, <1>5, <1>6, <1>7, <1>8, <1>9, <1>10, <1>11, <1>12, <1>13, <1>14,
     <1>15, <1>16 DEF CleanupStep

LEMMA ApprovedNext ==
  ASSUME TypeOK, Bookkeeping, CreationIsMarked, Settled, OnePullRequest, Approved,
     ~OutsiderActs, ~paused', [Next]_vars
  PROVE  Approved'
<1> /\ pc \in [Workers -> Steps] /\ fresh \in [Workers -> BOOLEAN] /\ seen \in [Workers -> Views]
    /\ pr \in {"none", "open", "closed", "merged"} /\ prBase \in BOOLEAN /\ prText \in BOOLEAN
  BY DEF TypeOK
<1>0. ~paused
  BY PausedStays
<1>1. ASSUME NEW w \in Workers, Command(w) \/ PublishStep(w) \/ AcceptStep(w) \/ CleanupStep(w)
      PROVE  Approved'
  BY <1>0, <1>1, CommandApproved, PublishStepApproved, AcceptStepApproved, CleanupStepApproved
<1> USE <1>0 DEF Approved, PublishedIsApproved, View, Fine, OnePullRequest, Settled, Over,
    Bookkeeping, PullRequestExists, OneAtATime, run, events, github, locals
<1>2. ASSUME NEW w \in Workers, StaleSave(w) PROVE Approved'
  BY <1>2 DEF StaleSave, Halt
<1>3. ASSUME NEW w \in Workers, Land(w) PROVE Approved'
  <2>1. pr = "none" /\ branch = "exact"
    <3>1. branch \in {"absent", "exact", "other"}
      BY DEF TypeOK
    <3>2. branch # "absent" /\ post[w] = "sent"
      BY <1>3 DEF Land
    <3>3. QED
      BY <3>1, <3>2
  <2>2. \A v \in Workers : pc[v] \notin {"persist", "accepted", "open", "manage", "closed_pr",
                                         "merged", "adopt"}
    BY <2>1 DEF Reading
  <2>3. status # "pr_open"
    BY <2>1
  <2>4. QED
    BY <1>3, <2>1, <2>2, <2>3 DEF Land
<1>4. ASSUME NEW w \in Workers, Refuse(w) PROVE Approved'
  BY <1>4 DEF Refuse
<1>5. ASSUME NEW w \in Workers, Interrupt(w) PROVE Approved'
  BY <1>5 DEF Interrupt
<1>6. CASE Maintainer
  BY <1>6 DEF Maintainer
<1>7. CASE Drift
  BY <1>7 DEF Drift
<1>8. CASE Outsider
  BY <1>8 DEF Outsider
<1>9. CASE Operator
  BY <1>9 DEF Operator
<1>10. CASE Lapse
  BY <1>10 DEF Lapse
<1>11. CASE UNCHANGED vars
  BY <1>11 DEF vars
<1>12. QED
  BY <1>1, <1>2, <1>3, <1>4, <1>5, <1>6, <1>7, <1>8, <1>9, <1>10, <1>11
     DEF Next, Step

\* A worker that runs no command takes no step of one.
LEMMA IdleTakesNoStep ==
  ASSUME NEW w \in Workers, pc[w] = "idle" PROVE ~Step(w)
<1> USE DEF At
<1>1. ~PublishStep(w)
  BY DEF PublishStep, BeginPublication, GateRefuses, Recover, EvidenceLost, FindExisting,
     Commit, Push, RecordPush, VerifyNew, VerifyOld, CheckDrift, BeginCreation, BoundaryFails,
     SendPost, NotSent, AnswerLost, AnswerCreated, AnswerRefused, ReleaseRefused, MarkRefused,
     Persist, NotPersisted, StopOnClosed, Open, Reject, StopOnRejected, MarkCreated
<1>2. ~AcceptStep(w)
  BY DEF AcceptStep, Reread, Accept, AcceptForeign, Accepted, RejectExisting
<1>3. ~CleanupStep(w)
  BY DEF CleanupStep, CompensatePrePr, CompensateCreated, MarkerUnbound, ClosePullRequest,
     RecordClosed, DeleteBranch, RecordDeleted, Confirm, Unconfirmed, RecordMerged, Adopt,
     AdoptRefused, Withdraw, Withdrawn, VerifyAbsence, Finalize
<1>4. QED
  BY <1>1, <1>2, <1>3 DEF Step, StaleSave, SavingSteps

\* Only GitHub, answering a POST, opens a pull request.
LEMMA OnlyLandOpens ==
  ASSUME Next, pr # "open", pr' = "open" PROVE \E w \in Workers : Land(w)
<1> USE DEF github
<1>1. ASSUME NEW w \in Workers, Command(w) PROVE pr' = pr
  BY <1>1 DEF Command, Publish, Reconcile, Abandon, Start
<1>2. ASSUME NEW w \in Workers, PublishStep(w) PROVE pr' = pr
  BY <1>2 DEF PublishStep, BeginPublication, GateRefuses, Recover, EvidenceLost, FindExisting,
     Commit, Push, RecordPush, VerifyNew, VerifyOld, CheckDrift, BeginCreation, BoundaryFails,
     SendPost, NotSent, AnswerLost, AnswerCreated, AnswerRefused, ReleaseRefused, MarkRefused,
     Persist, NotPersisted, StopOnClosed, Open, Reject, StopOnRejected, MarkCreated,
     MarkCompensation
<1>3. ASSUME NEW w \in Workers, AcceptStep(w) PROVE pr' = pr
  BY <1>3 DEF AcceptStep, Reread, Accept, AcceptForeign, Accepted, RejectExisting
<1>4. ASSUME NEW w \in Workers, CleanupStep(w) PROVE pr' \in {pr, "closed"}
  BY <1>4 DEF CleanupStep, CompensatePrePr, CompensateCreated, MarkerUnbound, ClosePullRequest,
     RecordClosed, DeleteBranch, RecordDeleted, Confirm, Unconfirmed, RecordMerged, Adopt,
     AdoptRefused, Withdraw, Withdrawn, VerifyAbsence, Finalize
<1>5. QED
  BY <1>1, <1>2, <1>3, <1>4 DEF Next, Step, StaleSave, Refuse, Interrupt,
     Maintainer, Drift, Outsider, Operator, Lapse

(***************************************************************************)
(* The theorems.                                                           *)
(***************************************************************************)
\* The inductive invariant.  Its last two parts hold of a run that nobody
\* publishes again after an abandon withdrew it, and whose branch only its
\* workers move.
Inv ==
    /\ TypeOK /\ Bookkeeping
    /\ Excluded => CreationIsMarked
    /\ ~LeaseMayLapse => ~paused
    /\ Settled
    /\ ~Republish => OnePullRequest
    /\ ~Republish /\ ~OutsiderActs => Approved

\* Every step of the publication preserves the invariant.
THEOREM InvHolds == Spec => []Inv
<1>1. Init => Inv
  <2> SUFFICES ASSUME Init PROVE Inv
    OBVIOUS
  <2>1. TypeOK /\ Bookkeeping
    BY TypeInit
  <2>2. CreationIsMarked /\ ~paused
    BY DEF Init, CreationIsMarked, Unposted
  <2>3. Settled /\ OnePullRequest
    BY DEF Init, Settled, FailedLeavesNothing, OnePullRequest, Creating, Unposted, Over
  <2>4. Approved
    BY DEF Init, Approved, PublishedIsApproved
  <2>5. QED
    BY <2>1, <2>2, <2>3, <2>4 DEF Inv
<1>2. Inv /\ [Next]_vars => Inv'
  <2> SUFFICES ASSUME Inv, [Next]_vars PROVE Inv'
    OBVIOUS
  <2>1. (TypeOK /\ Bookkeeping)'
    BY TypeNext, BooksNext DEF Inv
  <2>2. (Excluded => CreationIsMarked)'
    BY MarkedNext, ExcludedBefore DEF Inv
  <2>3. (~LeaseMayLapse => ~paused)'
    BY PausedOnlyByLapse DEF Inv
  <2>4. CASE paused'
    <3>1. Settled' /\ OnePullRequest' /\ Approved'
      BY <2>4 DEF Settled, OnePullRequest, Approved
    <3>2. QED
      BY <2>1, <2>2, <2>3, <3>1 DEF Inv
  <2>5. CASE ~paused'
    <3>1. CreationIsMarked
      BY <2>5, PausedStays DEF Inv, Excluded
    <3>2. Settled'
      BY <2>5, <3>1, SettledNext DEF Inv
    <3>3. ASSUME ~Republish PROVE OnePullRequest'
      BY <2>5, <3>1, <3>3, OneNext DEF Inv
    <3>4. ASSUME ~Republish, ~OutsiderActs PROVE Approved'
      BY <2>5, <3>1, <3>4, ApprovedNext DEF Inv
    <3>5. QED
      BY <2>1, <2>2, <2>3, <3>2, <3>3, <3>4 DEF Inv
  <2>6. QED
    BY <2>4, <2>5
<1>3. QED
  BY <1>1, <1>2, PTL DEF Spec

\* For any number of workers, crashes, failed calls and retries, with others
\* moving the branch and operators publishing a withdrawn run again: unless a
\* worker outlived its lease, a run that ends failed has no branch, no open pull
\* request, and no request that could still make one.
THEOREM FailedLeavesNothingHolds == Spec => []FailedLeavesNothing
<1>1. Inv => FailedLeavesNothing
  BY DEF Inv, Settled, FailedLeavesNothing
<1>2. QED
  BY <1>1, InvHolds, PTL

\* A run that ends pr_open has a pull request of exactly its commit, approved or
\* no longer open, whatever crashes and retries lie between its creation and the
\* row: if no lease lapses under its holder, nobody publishes a withdrawn run
\* again, and nobody else moves the branch.
THEOREM PublishedIsApprovedHolds ==
  ASSUME ~LeaseMayLapse, ~Republish, ~OutsiderActs
  PROVE  Spec => []PublishedIsApproved
<1>1. Inv => PublishedIsApproved
  BY DEF Inv, Approved
<1>2. QED
  BY <1>1, InvHolds, PTL

\* The head gets no second pull request after its first one was closed or
\* merged, even when others move or delete the branch: if no lease lapses under
\* its holder and nobody publishes a withdrawn run again.
THEOREM NoSecondPullRequestHolds ==
  ASSUME ~LeaseMayLapse, ~Republish
  PROVE  Spec => NoSecondPullRequest
<1>1. Inv /\ [Next]_vars => [(pr \in {"closed", "merged"}) => pr' # "open"]_vars
  <2> SUFFICES ASSUME Inv, Next, pr \in {"closed", "merged"} PROVE pr' # "open"
    BY DEF vars, github
  <2> USE DEF Inv, OnePullRequest
  <2>1. ASSUME NEW w \in Workers, Land(w) PROVE FALSE
    BY <2>1 DEF Land
  <2>2. QED
    BY <2>1, OnlyLandOpens
<1>2. QED
  BY <1>1, InvHolds, PTL DEF Spec, NoSecondPullRequest

\* No step of any worker, and no request that is still under way, changes the
\* row, the events, the branch or the pull request of a run that is over; only
\* maintainers do: if no lease lapses under its holder, nobody publishes a
\* withdrawn run again, and nobody else moves the branch.
THEOREM OverIsOverHolds ==
  ASSUME ~LeaseMayLapse, ~Republish, ~OutsiderActs
  PROVE  Spec => OverIsOver
<1> DEFINE Stays == status \in {"failed", "pr_open"} =>
                       /\ UNCHANGED <<run, events>>
                       /\ Maintainer \/ UNCHANGED <<branch, pr>>
<1>1. Inv /\ [Next]_vars => [Stays]_vars
  <2> SUFFICES ASSUME Inv, Next, status \in {"failed", "pr_open"}
               PROVE  /\ UNCHANGED <<run, events>>
                      /\ Maintainer \/ UNCHANGED <<branch, pr>>
    OBVIOUS
  <2>1. \A w \in Workers : pc[w] = "idle"
    BY DEF Inv, Settled, Over
  <2>2. ASSUME NEW w \in Workers PROVE ~Command(w) /\ ~Step(w) /\ ~Land(w)
    <3>1. ~Command(w)
      BY DEF Command, Publish, Reconcile, Abandon
    <3>2. ~Step(w)
      BY <2>1, IdleTakesNoStep
    <3>3. ~Land(w)
      BY DEF Land, Inv, OnePullRequest, Settled, FailedLeavesNothing, Approved,
             PublishedIsApproved, Bookkeeping, PullRequestExists
    <3>4. QED
      BY <3>1, <3>2, <3>3
  <2>3. QED
    BY <2>2 DEF Next, Refuse, Interrupt, Drift, Outsider, Operator, Lapse, Maintainer,
                run, events, github
<1>2. QED
  BY <1>1, InvHolds, PTL DEF Spec, OverIsOver

(***************************************************************************)
(* Publication implements Promise.  One fact is missing from the invariant: *)
(* a pull request that is closed for its base really has a base that moved   *)
(* before it was made.                                                       *)
(***************************************************************************)
BaseHasMoved ==
    /\ \A w \in Workers : seen[w] = "moved" => pr # "none" /\ ~prBase
    /\ reason = "created_pr_base_moved" => pr # "none" /\ ~prBase

\* The reasons to clean up before there is a pull request, and the one after.
LEMMA ReasonsAre ==
  Reasons = PrePr \cup {"created_pr_base_moved"} /\ "created_pr_base_moved" \notin PrePr
  BY DEF Reasons, PrePr

\* What a step of publish changes of what the owner sees.
LEMMA PublishStepChanges ==
  ASSUME NEW w \in Workers, PublishStep(w)
  PROVE  /\ UNCHANGED <<pr, prHead, prBase, prText>>
         /\ \/ UNCHANGED <<branch, status>>
            \/ pc[w] = "push" /\ branch = "absent" /\ branch' = "exact" /\ status' = status
            \/ pc[w] = "gates" /\ branch' = branch /\ status' = "submitting"
            \/ pc[w] \in {"open", "manage"} /\ branch' = branch /\ status' = "pr_open"
         /\ seen' = seen \/ (pc[w] = "await" /\ post[w] = "created" /\ seen' = [seen EXCEPT ![w] = View])
         /\ reason' = reason \/ reason' \in PrePr \/ seen[w] = "moved"
<1> USE DEF At, run, github, locals, PrePr, Reasons
<1>1. CASE BeginPublication(w) \/ GateRefuses(w) \/ Recover(w) \/ EvidenceLost(w)
  BY <1>1 DEF BeginPublication, GateRefuses, Recover, EvidenceLost
<1>2. CASE FindExisting(w) \/ Commit(w) \/ Push(w) \/ RecordPush(w) \/ VerifyNew(w)
  BY <1>2 DEF FindExisting, Commit, Push, RecordPush, VerifyNew
<1>3. CASE VerifyOld(w) \/ CheckDrift(w) \/ BeginCreation(w) \/ BoundaryFails(w)
  BY <1>3 DEF VerifyOld, CheckDrift, BeginCreation, BoundaryFails, MarkCompensation
<1>4. CASE SendPost(w) \/ NotSent(w) \/ AnswerLost(w) \/ AnswerCreated(w) \/ AnswerRefused(w)
  BY <1>4 DEF SendPost, NotSent, AnswerLost, AnswerCreated, AnswerRefused
<1>5. CASE ReleaseRefused(w) \/ MarkRefused(w) \/ Persist(w) \/ NotPersisted(w) \/ StopOnClosed(w)
  BY <1>5 DEF ReleaseRefused, MarkRefused, Persist, NotPersisted, StopOnClosed, MarkCompensation
<1>6. CASE Open(w) \/ Reject(w) \/ StopOnRejected(w) \/ MarkCreated(w)
  BY <1>6 DEF Open, Reject, StopOnRejected, MarkCreated, MarkCompensation
<1>7. QED
  BY <1>1, <1>2, <1>3, <1>4, <1>5, <1>6 DEF PublishStep

LEMMA AcceptStepChanges ==
  ASSUME NEW w \in Workers, AcceptStep(w)
  PROVE  /\ UNCHANGED <<pr, prHead, prBase, prText, branch, status, reason>>
         /\ seen' = seen \/ (pc[w] = "accept" /\ seen' = [seen EXCEPT ![w] = View])
  BY DEF AcceptStep, Reread, Accept, AcceptForeign, Accepted, RejectExisting, At, run, github,
         locals

LEMMA CleanupStepChanges ==
  ASSUME NEW w \in Workers, CleanupStep(w)
  PROVE  /\ UNCHANGED <<prHead, prBase, prText, seen, reason>>
         /\ \/ UNCHANGED <<branch, pr, status>>
            \/ /\ pc[w] = "close" /\ pr \in {"open", "closed"} /\ pr' = "closed"
               /\ UNCHANGED <<branch, status>>
            \/ /\ pc[w] = "delete" /\ branch = "exact" /\ branch' = "absent"
               /\ pr' = (IF pr = "open" THEN "closed" ELSE pr)
               /\ status' = status
            \/ /\ UNCHANGED <<branch, pr>>
               /\ \/ pc[w] = "adopt" /\ status' = "pr_open"
                  \/ pc[w] = "finalize" /\ status' = "failed"
                  \/ pr = "closed" /\ branch = "absent" /\ status' = "failed"
<1> USE DEF At, run, github, locals
<1>1. CASE CompensatePrePr(w) \/ CompensateCreated(w) \/ MarkerUnbound(w) \/ ClosePullRequest(w)
  BY <1>1 DEF CompensatePrePr, CompensateCreated, MarkerUnbound, ClosePullRequest
<1>2. CASE RecordClosed(w) \/ DeleteBranch(w) \/ RecordDeleted(w) \/ Confirm(w) \/ Unconfirmed(w)
  BY <1>2 DEF RecordClosed, DeleteBranch, RecordDeleted, Confirm, Unconfirmed
<1>3. CASE RecordMerged(w) \/ Adopt(w) \/ AdoptRefused(w) \/ Withdraw(w)
  BY <1>3 DEF RecordMerged, Adopt, AdoptRefused, Withdraw
<1>4. CASE Withdrawn(w) \/ VerifyAbsence(w) \/ Finalize(w)
  BY <1>4 DEF Withdrawn, VerifyAbsence, Finalize
<1>5. QED
  BY <1>1, <1>2, <1>3, <1>4 DEF CleanupStep

\* A request that lands makes the run's first pull request, from its own branch.
LEMMA LandIsFirst ==
  ASSUME TypeOK, OnePullRequest, Approved, ~paused, NEW w \in Workers, Land(w)
  PROVE  pr = "none" /\ branch = "exact" /\ status' = status /\ branch' = branch
  BY DEF Land, OnePullRequest, Approved, TypeOK, run

LEMMA BaseHasMovedInit == Init => BaseHasMoved
  BY DEF Init, BaseHasMoved

\* What a worker reads as moved has moved.
LEMMA MovedIsMoved == ASSUME TypeOK PROVE View = "moved" => pr # "none" /\ ~prBase
  BY DEF TypeOK, View

LEMMA BaseHasMovedNext ==
  ASSUME TypeOK, OnePullRequest, Approved, BaseHasMoved, ~paused, [Next]_vars
  PROVE  BaseHasMoved'
<1> seen \in [Workers -> Views] /\ pr \in {"none", "open", "closed", "merged"}
  BY DEF TypeOK
<1> USE DEF BaseHasMoved
<1>1. ASSUME NEW w \in Workers, Command(w) PROVE BaseHasMoved'
  BY <1>1 DEF Command, Publish, Reconcile, Abandon, Start, run
<1>2. ASSUME NEW w \in Workers, PublishStep(w) PROVE BaseHasMoved'
  BY <1>2, PublishStepChanges, MovedIsMoved, ReasonsAre
<1>3. ASSUME NEW w \in Workers, AcceptStep(w) PROVE BaseHasMoved'
  BY <1>3, AcceptStepChanges, MovedIsMoved
<1>4. ASSUME NEW w \in Workers, CleanupStep(w) PROVE BaseHasMoved'
  BY <1>4, CleanupStepChanges
<1>5. ASSUME NEW w \in Workers, Land(w) PROVE BaseHasMoved'
  <2>1. pr = "none" /\ seen' = seen /\ reason' = reason
    BY <1>5, LandIsFirst DEF Land, run, locals
  <2>2. QED
    BY <2>1
<1>6. ASSUME NEW w \in Workers, StaleSave(w) \/ Refuse(w) \/ Interrupt(w) PROVE BaseHasMoved'
  BY <1>6 DEF StaleSave, Refuse, Interrupt, run, github, locals
<1>7. CASE Maintainer \/ Drift \/ Outsider \/ Operator \/ Lapse \/ UNCHANGED vars
  BY <1>7 DEF Maintainer, Drift, Outsider, Operator, Lapse, vars, run, github, locals
<1>8. QED
  BY <1>1, <1>2, <1>3, <1>4, <1>5, <1>6, <1>7 DEF Next, Step

\* The invariant of a publication that nobody interferes with.
Undisturbed ==
    TypeOK /\ Bookkeeping /\ CreationIsMarked /\ ~paused /\ Settled /\ OnePullRequest /\ Approved

LEMMA InvUndisturbed ==
  ASSUME ~LeaseMayLapse, ~Republish, ~OutsiderActs PROVE Inv => Undisturbed
  BY DEF Inv, Undisturbed, Excluded

Same == UNCHANGED <<Outcome, branch, Pull>>

LEMMA WorkIsPending ==
  ASSUME Undisturbed, NEW w \in Workers, pc[w] # "idle"
  PROVE  Outcome = "pending" /\ fresh[w]
  BY DEF Undisturbed, Settled, Over, Outcome

LEMMA PublishKeeps ==
  ASSUME Undisturbed, Undisturbed', NEW w \in Workers, PublishStep(w)
  PROVE  Promised!Next \/ Same
<1>1. pc[w] # "idle"
  BY IdleTakesNoStep DEF Step
<1>2. Outcome = "pending" /\ fresh[w]
  BY <1>1, WorkIsPending
<1>3. Pull' = Pull
  BY PublishStepChanges DEF Pull
<1>4. CASE UNCHANGED <<branch, status>>
  BY <1>3, <1>4 DEF Same, Outcome
<1>5. CASE pc[w] = "push" /\ branch = "absent" /\ branch' = "exact" /\ status' = status
  <2>1. pr = "none"
    BY <1>2, <1>5 DEF Undisturbed, CreationIsMarked, Unposted, OnePullRequest
  <2>2. Promised!Upload
    BY <1>2, <1>3, <1>5, <2>1 DEF Promised!Upload, Pull, Outcome
  <2>3. QED
    BY <2>2 DEF Promised!Next
<1>6. CASE pc[w] = "gates" /\ branch' = branch /\ status' = "submitting"
  BY <1>2, <1>3, <1>6 DEF Same, Outcome
<1>7. CASE pc[w] \in {"open", "manage"} /\ branch' = branch /\ status' = "pr_open"
  <2>1. View' \in {"exact", "merged", "closed"}
    BY <1>7 DEF Undisturbed, Approved, PublishedIsApproved
  <2>2. Pull' \in {"approved", "closed", "merged"}
    BY <2>1 DEF View, Pull, Undisturbed, TypeOK
  <2>3. Promised!Succeed
    BY <1>2, <1>3, <1>7, <2>2 DEF Promised!Succeed, Outcome
  <2>4. QED
    BY <2>3 DEF Promised!Next
<1>8. QED
  BY <1>4, <1>5, <1>6, <1>7, PublishStepChanges

LEMMA CleanupKeeps ==
  ASSUME Undisturbed, Undisturbed', NEW w \in Workers, CleanupStep(w)
  PROVE  Promised!Next \/ Same
<1>1. pc[w] # "idle"
  BY IdleTakesNoStep DEF Step
<1>2. Outcome = "pending" /\ fresh[w]
  BY <1>1, WorkIsPending
<1> USE DEF Promised!Next
<1>3. CASE UNCHANGED <<branch, pr, status>>
  BY <1>3, CleanupStepChanges DEF Same, Outcome, Pull
<1>4. CASE /\ pc[w] = "close" /\ pr \in {"open", "closed"} /\ pr' = "closed"
           /\ UNCHANGED <<branch, status>>
  <2>1. Promised!Conclude \/ Same
    BY <1>4 DEF Promised!Conclude, Same, Outcome, Pull
  <2>2. QED
    BY <2>1
<1>5. CASE /\ pc[w] = "delete" /\ branch = "exact" /\ branch' = "absent"
           /\ pr' = (IF pr = "open" THEN "closed" ELSE pr)
           /\ status' = status
  <2>1. Promised!Remove
    BY <1>2, <1>5, CleanupStepChanges DEF Promised!Remove, Outcome, Pull, Undisturbed, TypeOK
  <2>2. QED
    BY <2>1
<1>6. CASE UNCHANGED <<branch, pr>> /\ pc[w] = "adopt" /\ status' = "pr_open"
  <2>1. pr = "merged" /\ Pull' = Pull
    BY <1>6, CleanupStepChanges DEF Undisturbed, Approved, Pull
  <2>2. Promised!Succeed
    BY <1>2, <1>6, <2>1 DEF Promised!Succeed, Outcome, Pull
  <2>3. QED
    BY <2>2
<1>7. CASE /\ UNCHANGED <<branch, pr>> /\ status' = "failed"
           /\ pc[w] = "finalize" \/ (pr = "closed" /\ branch = "absent")
  <2>1. pr \in {"none", "closed"} /\ branch = "absent" /\ Pull' = Pull
    BY <1>7, CleanupStepChanges DEF Undisturbed, Settled, Pull
  <2>2. Promised!Fail
    BY <1>2, <1>7, <2>1 DEF Promised!Fail, Outcome, Pull
  <2>3. QED
    BY <2>2
<1>8. QED
  BY <1>3, <1>4, <1>5, <1>6, <1>7, CleanupStepChanges

LEMMA OthersKeep ==
  ASSUME Undisturbed, ~OutsiderActs,
         \/ \E w \in Workers : Command(w) \/ AcceptStep(w) \/ StaleSave(w) \/ Land(w) \/ Refuse(w)
                               \/ Interrupt(w)
         \/ Maintainer \/ Drift \/ Outsider \/ Operator \/ Lapse \/ UNCHANGED vars
  PROVE  Promised!Next \/ Same
<1> USE DEF Same, Outcome, Pull
<1>1. ASSUME NEW w \in Workers, Command(w) PROVE Same
  BY <1>1 DEF Command, Publish, Reconcile, Abandon, Start, run
<1>2. ASSUME NEW w \in Workers, AcceptStep(w) PROVE Same
  BY <1>2, AcceptStepChanges
<1>3. ASSUME NEW w \in Workers, StaleSave(w) \/ Refuse(w) \/ Interrupt(w) PROVE Same
  BY <1>3 DEF StaleSave, Refuse, Interrupt, run, github
<1>4. ASSUME NEW w \in Workers, Land(w) PROVE Promised!Propose
  <2>1. pr = "none" /\ branch = "exact" /\ status' = status /\ branch' = branch /\ pr' = "open"
    BY <1>4, LandIsFirst DEF Undisturbed, Land
  <2>2. ~Over
    BY <1>4, <2>1 DEF Undisturbed, Settled, FailedLeavesNothing, Approved, PublishedIsApproved,
                      Bookkeeping, PullRequestExists, Over
  <2>3. QED
    BY <2>1, <2>2 DEF Promised!Propose, Over
<1>5. CASE Maintainer
  <2>1. Promised!Conclude
    BY <1>5 DEF Maintainer, Promised!Conclude, run
  <2>2. QED
    BY <2>1 DEF Promised!Next
<1>6. CASE Drift \/ Outsider \/ Operator \/ Lapse \/ UNCHANGED vars
  BY <1>6 DEF Drift, Outsider, Operator, Lapse, vars, run, github
<1>7. QED
  BY <1>1, <1>2, <1>3, <1>4, <1>5, <1>6 DEF Promised!Next

\* An approved pull request is closed by maintainers, or with its branch.
LEMMA ApprovedIsKept ==
  ASSUME Undisturbed, BaseHasMoved, ~OutsiderActs, Next, View = "exact", View' # "exact"
  PROVE  Maintainer \/ (reason = "none" /\ branch' = "absent")
<1> USE DEF View
<1>1. pr = "open" /\ prBase /\ prText /\ prHead # "other"
  BY DEF Undisturbed, TypeOK
<1>2. ASSUME NEW w \in Workers, Command(w) PROVE FALSE
  BY <1>2 DEF Command, Publish, Reconcile, Abandon, Start
<1>3. ASSUME NEW w \in Workers, PublishStep(w) PROVE FALSE
  BY <1>3, PublishStepChanges
<1>4. ASSUME NEW w \in Workers, AcceptStep(w) PROVE FALSE
  BY <1>4, AcceptStepChanges
<1>5. ASSUME NEW w \in Workers, CleanupStep(w)
      PROVE  reason = "none" /\ branch' = "absent"
  <2>1. reason # "created_pr_base_moved"
    BY <1>1 DEF BaseHasMoved
  <2>2. pr' # pr
    BY <1>5, CleanupStepChanges
  <2>3. pc[w] # "close"
    BY <2>1 DEF Undisturbed, Settled
  <2>4. pc[w] = "delete" /\ branch' = "absent"
    BY <1>5, <2>2, <2>3, CleanupStepChanges
  <2>5. reason \notin PrePr
    BY <1>1, <2>4 DEF Undisturbed, Settled, CreationIsMarked, OnePullRequest
  <2>6. QED
    BY <2>1, <2>4, <2>5, ReasonsAre DEF Undisturbed, TypeOK
<1>6. ASSUME NEW w \in Workers, StaleSave(w) \/ Refuse(w) \/ Interrupt(w) PROVE FALSE
  BY <1>6 DEF StaleSave, Refuse, Interrupt, github
<1>7. ASSUME NEW w \in Workers, Land(w) PROVE FALSE
  BY <1>1, <1>7 DEF Land
<1>8. ~(Drift \/ Outsider \/ Operator \/ Lapse)
  BY DEF Drift, Outsider, Operator, Lapse, github
<1>9. QED
  BY <1>2, <1>3, <1>4, <1>5, <1>6, <1>7, <1>8 DEF Next, Step

\* Publication implements Promise: whatever crashes, fails, is lost or is repeated, the
\* run's owner and GitHub see one branch, one pull request and one end, and a pull
\* request as approved is closed only by maintainers or by an abandon that deletes its
\* branch; if no lease lapses under its holder, nobody publishes a withdrawn run again,
\* and nobody else moves the branch (publish, abandon, reconcile_submitting).
THEOREM KeepsThePromiseHolds ==
  ASSUME ~LeaseMayLapse, ~Republish, ~OutsiderActs
  PROVE  Spec => KeepsThePromise
<1> DEFINE Kept == View = "exact" /\ View' # "exact" =>
                       Maintainer \/ (reason = "none" /\ branch' = "absent")
<1>1. Init => Promised!Init /\ BaseHasMoved
  BY BaseHasMovedInit DEF Init, Promised!Init, Outcome, Pull
<1>2. Inv /\ BaseHasMoved /\ [Next]_vars => BaseHasMoved'
  BY InvUndisturbed, BaseHasMovedNext DEF Undisturbed
<1>3. Inv /\ Inv' /\ [Next]_vars => [Promised!Next]_<<Outcome, branch, Pull>>
  <2> SUFFICES ASSUME Inv, Inv', [Next]_vars PROVE Promised!Next \/ Same
    BY DEF Same
  <2>1. Undisturbed /\ Undisturbed'
    BY InvUndisturbed DEF Inv, Undisturbed, Excluded
  <2>2. QED
    BY <2>1, PublishKeeps, CleanupKeeps, OthersKeep DEF Next, Step
<1>4. Inv /\ BaseHasMoved /\ [Next]_vars => [Kept]_vars
  <2> SUFFICES ASSUME Inv, BaseHasMoved, Next PROVE Kept
    OBVIOUS
  <2>1. Undisturbed
    BY InvUndisturbed
  <2>2. QED
    BY <2>1, ApprovedIsKept
<1>5. QED
  BY <1>1, <1>2, <1>3, <1>4, InvHolds, PTL DEF Spec, KeepsThePromise, Promised!Spec
=============================================================================
