---------------------------- MODULE AttemptsProofs ----------------------------
(***************************************************************************)
(* Proofs about Attempts, for any number of workers, issues, revisions,    *)
(* runs and mishaps.                                                       *)
(***************************************************************************)
EXTENDS Attempts, TLAPS

USE AttemptsConstants

Statuses == {"absent"} \cup Preparing \cup Released
            \cup {"ready_for_approval", "approved", "submitting", "pr_open"}

\* Before a run is created, and at work on it.
Outside == {"idle", "recover", "tidy", "create"}
Planned == {"begin", "note", "skip", "select", "evaluated", "decide", "setup", "accept",
            "implement", "agent", "critique", "review", "verdict", "agent2", "critique2",
            "review2", "verdict2"}
Working == Planned \cup {"search", "claim", "reclaim", "evaluate"}
Steps == Outside \cup Working \cup {"mirror", "fail"}

\* What may follow the write of the mirror.
Nexts == Planned \cup {"idle", "done", "search", "evaluate"}

TypeOK ==
    /\ status \in [Runs -> Statuses]
    /\ issue \in [Runs -> Issues \cup {NoIssue}]
    /\ revision \in [Runs -> Nat]
    /\ selected \in [Runs -> Nat]
    /\ auth \in [Runs -> [prior : Nat, status : Statuses]]
    /\ marker \in [Runs -> BOOLEAN]
    /\ mirror \in [Runs -> {"missing", "stale", "current"}]
    /\ created \in 0 .. MaxRuns
    /\ lease \in Workers \cup {NoWorker}
    /\ latest \in [Issues -> Nat]
    /\ pc \in [Workers -> Steps]
    /\ run \in [Workers -> 0 .. MaxRuns]
    /\ fresh \in [Workers -> BOOLEAN]
    /\ then \in [Workers -> Nexts]
    /\ target \in [Workers -> Issues \cup {NoIssue}]
    /\ seen \in [Workers -> Nat]

(***************************************************************************)
(* The inductive invariant.                                                *)
(***************************************************************************)
\* An authorization names a run that ended, which it goes on to name.
PriorsEnded ==
    \A r \in Runs : auth[r] # NoAuth => auth[r].prior \in Runs /\ auth[r].status \in Suppressed

RowsInv == OneAttemptPerIssue /\ NoSilentRetry /\ EvidenceVerifies /\ PriorsEnded

\* The step a worker is at, or comes to once the mirror is written.
At(w) == IF pc[w] = "mirror" THEN then[w] ELSE pc[w]

\* What a worker knows of its run while the manifest it has in memory is the
\* stored one.  Without a failed file write, it is never asked to record the
\* failure of a run that ended.
WorkerOK(w) ==
    /\ pc[w] \notin Outside => run[w] \in Runs
    /\ pc[w] \in {"claim", "reclaim"} => target[w] \in Issues
    /\ fresh[w] /\ At(w) \in Working => status[run[w]] \in Preparing
    /\ fresh[w] /\ At(w) = "evaluate" =>
          selected[run[w]] = 0 /\ issue[run[w]] # NoIssue /\ auth[run[w]] # NoAuth
    /\ fresh[w] /\ pc[w] = "fail" /\ "file" \notin mishaps => status[run[w]] \in Preparing

\* Workers have runs that were created, and only those have a status.
Unborn ==
    /\ \A w \in Workers : run[w] <= created
    /\ \A r \in Runs : r > created => status[r] = "absent"

\* As long as no worker was paused past its lease, one works at a time, and none
\* is still at work on a run that an authorization names.
Alone == "pause" \notin mishaps => \A w \in Workers : pc[w] # "idle" => lease = w

PriorsLeft ==
    "pause" \notin mishaps =>
        \A w \in Workers, r \in Runs :
            auth[r] # NoAuth /\ pc[w] \notin Outside => run[w] # auth[r].prior

NotBoth == ~ {"pause", "file"} \subseteq mishaps

WorkInv == (\A w \in Workers : WorkerOK(w)) /\ Unborn /\ Alone /\ PriorsLeft /\ NotBoth

Inv == TypeOK /\ RowsInv /\ WorkInv /\ MirrorIsCurrent

------------------------------------------------------------------------------
(***************************************************************************)
(* The rows.                                                               *)
(***************************************************************************)
\* A step that ends runs, or moves runs that did not end, keeps what is said of
\* the rows, as long as it leaves the runs alone that authorizations name.
LEMMA StatusKeepsRows ==
  ASSUME RowsInv, UNCHANGED <<issue, revision, selected, auth>>,
         \A r \in Runs :
            \/ status'[r] = status[r]
            \/ status[r] \notin Released
            \/ status'[r] = "failed" /\ \A q \in Runs : auth[q] # NoAuth => auth[q].prior # r
  PROVE  RowsInv'
<1> USE DEF RowsInv
<1>1. OneAttemptPerIssue'
  BY DEF OneAttemptPerIssue, Released
<1>2. NoSilentRetry'
  <2> SUFFICES ASSUME NEW r \in Runs, NEW q \in Runs,
                      r # q, issue[r] = issue[q], issue[r] # NoIssue, revision[r] = revision[q],
                      status'[r] \in Suppressed, status'[q] # "failed",
                      auth[r] = NoAuth, auth[q] = NoAuth
               PROVE  FALSE
    BY DEF NoSilentRetry
  <2>1. status[q] # "failed"
    BY DEF Released
  <2>2. status[r] \in Suppressed \/ status[r] \notin Released
    BY DEF Suppressed
  <2>3. status[r] \notin Suppressed
    BY <2>1 DEF NoSilentRetry
  <2>4. status[q] \in Suppressed
    BY <2>1, <2>2, <2>3 DEF OneAttemptPerIssue, Released
  <2>5. status[r] # "failed"
    BY <2>2, <2>3 DEF Released
  <2>6. QED
    BY <2>4, <2>5 DEF NoSilentRetry
<1>3. EvidenceVerifies'
  <2> SUFFICES ASSUME NEW r \in Runs
               PROVE  /\ _verify_candidate_selection_events(r)'
                      /\ _verify_candidate_retry_authorizations(r)'
    BY DEF EvidenceVerifies
  <2>1. _verify_candidate_selection_events(r)'
    BY DEF EvidenceVerifies, _verify_candidate_selection_events
  <2>2. auth[r] # NoAuth => status'[auth[r].prior] = status[auth[r].prior]
    BY DEF EvidenceVerifies, PriorsEnded, _verify_candidate_retry_authorizations, Released
  <2>3. _verify_candidate_retry_authorizations(r)'
    BY <2>2 DEF EvidenceVerifies, _verify_candidate_retry_authorizations
  <2>4. QED
    BY <2>1, <2>3
<1>4. PriorsEnded'
  BY DEF PriorsEnded
<1>5. QED
  BY <1>1, <1>2, <1>3, <1>4

\* A claim binds a run that has no issue yet: to one that no other run has, and
\* unless an authorization is recorded on which none ended at this revision.
LEMMA ClaimKeepsRows ==
  ASSUME TypeOK, RowsInv, NEW w \in Workers, run[w] \in Runs, target[w] \in Issues,
         MayClaim(w), Bind(w),
         \/ /\ Ended(target[w], seen[w]) = {}
            /\ selected' = [selected EXCEPT ![run[w]] = @ + 1] /\ UNCHANGED auth
         \/ /\ UNCHANGED selected
            /\ \E prior \in Ended(target[w], seen[w]) :
                  auth' = [auth EXCEPT ![run[w]] = [prior |-> prior, status |-> status[prior]]]
  PROVE  RowsInv'
<1> USE DEF RowsInv
<1> DEFINE me == run[w]
<1>1. /\ status' = status /\ status[me] = "discovering" /\ issue[me] = NoIssue
      /\ issue' = [issue EXCEPT ![me] = target[w]]
      /\ revision' = [revision EXCEPT ![me] = seen[w]]
      /\ \A q \in Runs : issue[q] = target[w] => status[q] \in Released
  BY DEF MayClaim, Bind, Active
<1>2. selected[me] = 0 /\ auth[me] = NoAuth
  BY <1>1 DEF EvidenceVerifies, _verify_candidate_selection_events,
              _verify_candidate_retry_authorizations
<1>3. /\ me \in Runs /\ target[w] \in Issues /\ target[w] # NoIssue
      /\ \A r \in Runs : r # me => issue'[r] = issue[r] /\ revision'[r] = revision[r]
      /\ issue'[me] = target[w] /\ revision'[me] = seen[w]
  BY <1>1 DEF TypeOK
<1>4. OneAttemptPerIssue'
  <2> SUFFICES ASSUME NEW r \in Runs, NEW q \in Runs,
                      r # q, issue'[r] = issue'[q], issue'[r] # NoIssue
               PROVE  status[r] \in Released \/ status[q] \in Released
    BY <1>1 DEF OneAttemptPerIssue
  <2>1. CASE r # me /\ q # me
    BY <1>3, <2>1 DEF OneAttemptPerIssue
  <2>2. CASE r = me
    BY <1>1, <1>3, <2>2
  <2>3. CASE q = me
    BY <1>1, <1>3, <2>3
  <2>4. QED
    BY <2>1, <2>2, <2>3
<1>5. CASE /\ Ended(target[w], seen[w]) = {}
           /\ selected' = [selected EXCEPT ![me] = @ + 1] /\ UNCHANGED auth
  <2>1. /\ selected'[me] = 1
        /\ \A r \in Runs : r # me => selected'[r] = selected[r]
    BY <1>2, <1>3, <1>5 DEF TypeOK
  <2>2. NoSilentRetry'
    <3> SUFFICES ASSUME NEW r \in Runs, NEW q \in Runs,
                        r # q, issue'[r] = issue'[q], issue'[r] # NoIssue,
                        revision'[r] = revision'[q],
                        status[r] \in Suppressed, status[q] # "failed"
                 PROVE  auth[r] # NoAuth \/ auth[q] # NoAuth
      BY <1>1, <1>5 DEF NoSilentRetry
    <3>1. CASE r # me /\ q # me
      BY <1>3, <3>1 DEF NoSilentRetry
    <3>2. r # me
      BY <1>1 DEF Suppressed
    <3>3. CASE q = me
      <4>1. issue[r] = target[w] /\ revision[r] = seen[w]
        BY <1>3, <3>2, <3>3
      <4>2. r \in Ended(target[w], seen[w])
        BY <4>1 DEF Ended
      <4>3. QED
        BY <1>5, <4>2
    <3>4. QED
      BY <3>1, <3>2, <3>3
  <2>3. EvidenceVerifies'
    <3> SUFFICES ASSUME NEW r \in Runs
                 PROVE  /\ _verify_candidate_selection_events(r)'
                        /\ _verify_candidate_retry_authorizations(r)'
      BY DEF EvidenceVerifies
    <3>1. _verify_candidate_selection_events(r)'
      <4>1. CASE r = me
        BY <1>3, <2>1, <4>1 DEF _verify_candidate_selection_events
      <4>2. CASE r # me
        BY <1>3, <1>5, <2>1, <4>2 DEF EvidenceVerifies, _verify_candidate_selection_events
      <4>3. QED
        BY <4>1, <4>2
    <3>2. _verify_candidate_retry_authorizations(r)'
      <4>1. CASE auth[r] = NoAuth
        BY <1>5, <4>1 DEF _verify_candidate_retry_authorizations
      <4>2. CASE auth[r] # NoAuth
        <5>1. /\ issue[r] # NoIssue /\ status[auth[r].prior] = auth[r].status
              /\ issue[auth[r].prior] = issue[r] /\ revision[auth[r].prior] = revision[r]
          BY <4>2 DEF EvidenceVerifies, _verify_candidate_retry_authorizations
        <5>2. r # me /\ auth[r].prior # me /\ auth[r].prior \in Runs
          BY <1>1, <4>2, <5>1 DEF PriorsEnded
        <5>3. QED
          BY <1>1, <1>3, <1>5, <5>1, <5>2 DEF _verify_candidate_retry_authorizations
      <4>3. QED
        BY <4>1, <4>2
    <3>3. QED
      BY <3>1, <3>2
  <2>4. PriorsEnded'
    BY <1>5 DEF PriorsEnded
  <2>5. QED
    BY <1>4, <2>2, <2>3, <2>4
<1>6. ASSUME UNCHANGED selected, NEW prior \in Ended(target[w], seen[w]),
             auth' = [auth EXCEPT ![me] = [prior |-> prior, status |-> status[prior]]]
      PROVE  RowsInv'
  <2>1. /\ prior \in Runs /\ prior # 0 /\ status[prior] \in Suppressed /\ prior # me
        /\ issue[prior] = target[w] /\ revision[prior] = seen[w]
    BY <1>1, <1>3 DEF Ended, Suppressed, Runs
  <2>2. /\ auth'[me] = [prior |-> prior, status |-> status[prior]]
        /\ auth'[me].prior = prior /\ auth'[me].status = status[prior] /\ auth'[me] # NoAuth
        /\ \A r \in Runs : r # me => auth'[r] = auth[r]
    BY <1>3, <1>6, <2>1 DEF TypeOK, NoAuth
  <2>3. NoSilentRetry'
    <3> SUFFICES ASSUME NEW r \in Runs, NEW q \in Runs,
                        r # q, issue'[r] = issue'[q], issue'[r] # NoIssue,
                        revision'[r] = revision'[q],
                        status[r] \in Suppressed, status[q] # "failed"
                 PROVE  auth'[r] # NoAuth \/ auth'[q] # NoAuth
      BY <1>1 DEF NoSilentRetry
    <3>1. CASE r # me /\ q # me
      BY <1>3, <2>2, <3>1 DEF NoSilentRetry
    <3>2. CASE r = me \/ q = me
      BY <2>2, <3>2
    <3>3. QED
      BY <3>1, <3>2
  <2>4. EvidenceVerifies'
    <3> SUFFICES ASSUME NEW r \in Runs
                 PROVE  /\ _verify_candidate_selection_events(r)'
                        /\ _verify_candidate_retry_authorizations(r)'
      BY DEF EvidenceVerifies
    <3>1. CASE r = me
      <4>1. _verify_candidate_selection_events(r)'
        BY <1>2, <1>3, <1>6, <2>2, <3>1 DEF _verify_candidate_selection_events
      <4>2. _verify_candidate_retry_authorizations(r)'
        BY <1>1, <1>3, <2>1, <2>2, <3>1 DEF _verify_candidate_retry_authorizations
      <4>3. QED
        BY <4>1, <4>2
    <3>2. CASE r # me
      <4>1. _verify_candidate_selection_events(r)'
        BY <1>3, <1>6, <2>2, <3>2 DEF EvidenceVerifies, _verify_candidate_selection_events
      <4>2. _verify_candidate_retry_authorizations(r)'
        <5>1. CASE auth[r] = NoAuth
          BY <2>2, <3>2, <5>1 DEF _verify_candidate_retry_authorizations
        <5>2. CASE auth[r] # NoAuth
          <6>1. /\ issue[r] # NoIssue /\ status[auth[r].prior] = auth[r].status
                /\ issue[auth[r].prior] = issue[r] /\ revision[auth[r].prior] = revision[r]
            BY <5>2 DEF EvidenceVerifies, _verify_candidate_retry_authorizations
          <6>2. auth[r].prior # me /\ auth[r].prior \in Runs
            BY <1>1, <5>2, <6>1 DEF PriorsEnded
          <6>3. QED
            BY <1>1, <1>3, <2>2, <3>2, <6>1, <6>2 DEF _verify_candidate_retry_authorizations
        <5>3. QED
          BY <5>1, <5>2
      <4>3. QED
        BY <4>1, <4>2
    <3>3. QED
      BY <3>1, <3>2
  <2>5. PriorsEnded'
    <3> SUFFICES ASSUME NEW r \in Runs, auth'[r] # NoAuth
                 PROVE  auth'[r].prior \in Runs /\ auth'[r].status \in Suppressed
      BY DEF PriorsEnded
    <3>1. CASE r = me
      BY <2>1, <2>2, <3>1
    <3>2. CASE r # me
      BY <2>2, <3>2 DEF PriorsEnded
    <3>3. QED
      BY <3>1, <3>2
  <2>6. QED
    BY <1>4, <2>3, <2>4, <2>5
<1>7. QED
  BY <1>5, <1>6

\* The selection event of a retried issue is its only one.
LEMMA SelectionKeepsRows ==
  ASSUME TypeOK, RowsInv, NEW r \in Runs, selected[r] = 0, issue[r] # NoIssue,
         selected' = [selected EXCEPT ![r] = @ + 1],
         UNCHANGED <<status, issue, revision, auth>>
  PROVE  RowsInv'
<1> USE DEF RowsInv
<1>1. /\ selected'[r] = 1 /\ \A q \in Runs : q # r => selected'[q] = selected[q]
  BY DEF TypeOK
<1>2. OneAttemptPerIssue' /\ NoSilentRetry' /\ PriorsEnded'
  BY DEF OneAttemptPerIssue, NoSilentRetry, PriorsEnded
<1>3. ASSUME NEW q \in Runs
      PROVE  _verify_candidate_selection_events(q)'
             /\ _verify_candidate_retry_authorizations(q)'
  <2>1. _verify_candidate_selection_events(q)'
    BY <1>1 DEF EvidenceVerifies, _verify_candidate_selection_events
  <2>2. _verify_candidate_retry_authorizations(q)'
    BY DEF EvidenceVerifies, _verify_candidate_retry_authorizations
  <2>3. QED
    BY <2>1, <2>2
<1>4. EvidenceVerifies'
  BY <1>3 DEF EvidenceVerifies
<1>5. QED
  BY <1>2, <1>4

------------------------------------------------------------------------------
(***************************************************************************)
(* Control.                                                                *)
(***************************************************************************)
LEMMA StepNames ==
  /\ Outside \subseteq Steps /\ Working \subseteq Steps /\ Nexts \subseteq Steps \cup {"done"}
  /\ Planned \subseteq Working /\ Planned \subseteq Nexts
  /\ "mirror" \notin Outside \cup Working \cup Nexts
  /\ "fail" \notin Outside \cup Working \cup Nexts
  /\ Outside \cap Working = {} /\ {"claim", "reclaim"} \cap Nexts = {}
  /\ "idle" \in Outside
  BY DEF Steps, Outside, Working, Planned, Nexts

\* Every planned step saves a status of a run in preparation, or the last one.
LEMMA PlanFacts ==
  ASSUME NEW s \in DOMAIN Plan, NEW p \in Plan[s]
  PROVE  /\ s \in Planned
         /\ p[1] \in Statuses /\ p[2] \in Nexts \ {"evaluate"}
         /\ p[2] \in Working => p[1] \in Preparing
  BY DEF Plan, Planned, Statuses, Preparing, Released, Suppressed, Nexts, Working

\* A worker goes on to its next step while it holds the lease, or stops.
LEMMA GoEffect ==
  ASSUME TypeOK, NEW w \in Workers, NEW next \in Steps \cup {"done"}, Go(w, next)
  PROVE  /\ pc' \in [Workers -> Steps] /\ lease' \in Workers \cup {NoWorker}
         /\ \A x \in Workers : x # w => pc'[x] = pc[x]
         /\ pc'[w] = "idle" \/ (pc'[w] = next /\ next # "done" /\ lease = w)
         /\ Alone /\ mishaps \subseteq mishaps' => Alone'
<1> USE DEF TypeOK
<1>1. "idle" \in Steps
  BY StepNames
<1>2. CASE lease = w /\ next \notin {"idle", "done"}
  <2>1. pc' = [pc EXCEPT ![w] = next] /\ lease' = lease /\ next \in Steps
    BY <1>2 DEF Go
  <2>2. QED
    BY <1>2, <2>1 DEF Alone
<1>3. CASE ~(lease = w /\ next \notin {"idle", "done"})
  <2>1. pc' = [pc EXCEPT ![w] = "idle"]
        /\ lease' = IF lease = w THEN NoWorker ELSE lease
    BY <1>3 DEF Go, Halt
  <2>2. QED
    BY <1>1, <2>1 DEF Alone
<1>4. QED
  BY <1>2, <1>3

\* A worker that takes no part keeps what it knows, as long as whoever writes
\* the row of its run makes its manifest an old one.
LEMMA Bystander ==
  ASSUME NEW x \in Workers, WorkerOK(x), mishaps \subseteq mishaps',
         pc'[x] = pc[x], run'[x] = run[x], then'[x] = then[x], target'[x] = target[x],
         fresh'[x] => /\ fresh[x]
                      /\ run[x] \in Runs =>
                            /\ status'[run[x]] = status[run[x]]
                            /\ selected'[run[x]] = selected[run[x]]
                            /\ issue'[run[x]] = issue[run[x]]
                            /\ auth'[run[x]] = auth[run[x]]
  PROVE  WorkerOK(x)'
<1>1. At(x)' = At(x)
  BY DEF At
<1>2. At(x) \in Working \cup {"evaluate", "fail"} => pc[x] \notin Outside
  BY StepNames DEF At, Working
<1>3. pc[x] = "fail" => pc[x] \notin Outside
  BY StepNames
<1>4. QED
  BY <1>1, <1>2, <1>3 DEF WorkerOK, Working

\* The rows and workers that a step leaves alone.
LEMMA PriorsStay ==
  ASSUME PriorsLeft, UNCHANGED <<auth, run>>, mishaps \subseteq mishaps',
         \A w \in Workers : pc'[w] \notin Outside => pc[w] \notin Outside
  PROVE  PriorsLeft'
  BY DEF PriorsLeft

\* A worker moves on, or stops, without writing a row: it knows of its next step
\* what it must.
LEMMA MoveStep ==
  ASSUME TypeOK, WorkInv, NEW w \in Workers,
         NEW next \in (Steps \cup {"done"}) \ {"mirror"}, Go(w, next),
         UNCHANGED <<status, selected, issue, auth, created, run, fresh, then>>,
         mishaps \subseteq mishaps', NotBoth',
         \A x \in Workers : x # w => target'[x] = target[x],
         pc[w] \notin Outside \/ next \in Outside,
         next \in {"claim", "reclaim"} => target'[w] \in Issues,
         fresh[w] /\ (next \in Working \/ (next = "fail" /\ "file" \notin mishaps'))
            => status[run[w]] \in Preparing,
         fresh[w] /\ next = "evaluate" =>
            selected[run[w]] = 0 /\ issue[run[w]] # NoIssue /\ auth[run[w]] # NoAuth
  PROVE  /\ pc' \in [Workers -> Steps] /\ lease' \in Workers \cup {NoWorker}
         /\ WorkInv'
<1> USE DEF WorkInv
<1>1. /\ pc' \in [Workers -> Steps] /\ lease' \in Workers \cup {NoWorker} /\ Alone'
      /\ \A x \in Workers : x # w => pc'[x] = pc[x]
      /\ pc'[w] = "idle" \/ (pc'[w] = next /\ next # "done" /\ lease = w)
  BY GoEffect
<1>2. ASSUME NEW x \in Workers PROVE WorkerOK(x)'
  <2>1. CASE x # w
    BY <1>1, <2>1, Bystander
  <2>2. CASE x = w /\ pc'[w] = "idle"
    BY <2>2, StepNames DEF WorkerOK, At
  <2>3. CASE x = w /\ pc'[w] = next
    BY <2>3, StepNames DEF WorkerOK, At
  <2>4. QED
    BY <1>1, <2>1, <2>2, <2>3
<1>3. \A x \in Workers : pc'[x] \notin Outside => pc[x] \notin Outside
  BY <1>1, StepNames
<1>4. PriorsLeft'
  BY <1>3, PriorsStay
<1>5. Unborn'
  BY DEF Unborn
<1>6. QED
  BY <1>1, <1>2, <1>4, <1>5

\* A worker's save: only its own row changes, everyone else's manifest of that
\* row is an old one, and the mirror is due.
LEMMA SavedStep ==
  ASSUME TypeOK, WorkInv, MirrorIsCurrent, NEW w \in Workers, NEW next \in Nexts,
         pc[w] \notin Outside, Saved(w, next), UNCHANGED <<target, mishaps>>,
         \A r \in Runs : r # run[w] => /\ status'[r] = status[r] /\ selected'[r] = selected[r]
                                      /\ issue'[r] = issue[r] /\ auth'[r] = auth[r],
         next \in Working => status'[run[w]] \in Preparing,
         next = "evaluate" =>
            selected'[run[w]] = 0 /\ issue'[run[w]] # NoIssue /\ auth'[run[w]] # NoAuth
  PROVE  /\ marker' \in [Runs -> BOOLEAN] /\ mirror' \in [Runs -> {"missing", "stale", "current"}]
         /\ pc' \in [Workers -> Steps] /\ fresh' \in [Workers -> BOOLEAN]
         /\ then' \in [Workers -> Nexts]
         /\ UNCHANGED <<created, lease, run>>
         /\ (\A x \in Workers : WorkerOK(x)') /\ Unborn' /\ Alone' /\ NotBoth'
         /\ MirrorIsCurrent'
         /\ \A x \in Workers : pc'[x] \notin Outside => pc[x] \notin Outside
<1> USE DEF WorkInv
<1> DEFINE me == run[w]
<1>1. me \in Runs /\ me <= created
  BY DEF WorkerOK, Unborn
<1>2. /\ marker' = [r \in Runs |-> marker[r] \/ r \in {me}]
      /\ mirror' = [r \in Runs |-> IF r \in {me} /\ mirror[r] = "current" THEN "stale"
                                  ELSE mirror[r]]
      /\ fresh' = [x \in Workers |-> IF x = w THEN TRUE ELSE fresh[x] /\ run[x] \notin {me}]
      /\ pc' = [pc EXCEPT ![w] = "mirror"] /\ then' = [then EXCEPT ![w] = next]
      /\ UNCHANGED <<created, lease, run>>
  BY DEF Saved, RowsWritten, Outdated
<1>3. /\ marker' \in [Runs -> BOOLEAN] /\ mirror' \in [Runs -> {"missing", "stale", "current"}]
      /\ fresh' \in [Workers -> BOOLEAN]
  BY <1>2 DEF TypeOK
<1>4. "mirror" \in Steps /\ "mirror" \notin Outside
  BY DEF Steps, Outside
<1>5. pc' \in [Workers -> Steps] /\ then' \in [Workers -> Nexts]
      /\ pc'[w] = "mirror" /\ then'[w] = next
      /\ \A x \in Workers : x # w => pc'[x] = pc[x] /\ then'[x] = then[x]
  BY <1>2, <1>4 DEF TypeOK
<1>6. ASSUME NEW x \in Workers PROVE WorkerOK(x)'
  <2>1. CASE x # w
    <3>1. fresh'[x] => fresh[x] /\ run[x] # me
      BY <1>2, <2>1
    <3>2. QED
      BY <1>2, <1>5, <2>1, <3>1, Bystander
  <2>2. CASE x = w
    <3>1. At(w)' = next
      BY <1>5 DEF At
    <3>2. QED
      BY <1>1, <1>2, <1>5, <2>2, <3>1 DEF WorkerOK
  <2>3. QED
    BY <2>1, <2>2
<1>7. Unborn'
  <2>1. run' = run /\ created' = created
    BY <1>2
  <2>2. \A r \in Runs : r > created => r # me
    BY <1>1 DEF TypeOK, Runs
  <2>3. QED
    BY <2>1, <2>2 DEF Unborn
<1>8. Alone' /\ NotBoth'
  BY <1>2, <1>4, <1>5, StepNames DEF Alone, NotBoth
<1>9. MirrorIsCurrent'
  <2> SUFFICES ASSUME NEW r \in Runs, status'[r] # "absent"
               PROVE  marker'[r] \/ mirror'[r] = "current"
    BY DEF MirrorIsCurrent
  <2>1. CASE r = me
    BY <1>2, <2>1
  <2>2. CASE r # me
    BY <1>2, <2>2 DEF MirrorIsCurrent
  <2>3. QED
    BY <2>1, <2>2
<1>10. QED
  BY <1>2, <1>3, <1>5, <1>6, <1>7, <1>8, <1>9

\* What a step keeps that writes no row.
LEMMA RowsSame ==
  ASSUME RowsInv, UNCHANGED <<status, issue, revision, selected, auth>>
  PROVE  RowsInv'
  BY StatusKeepsRows

------------------------------------------------------------------------------
(***************************************************************************)
(* The workers' actions.                                                   *)
(***************************************************************************)
LEMMA AtWork ==
  ASSUME Inv, NEW w \in Workers, pc[w] \in Working
  PROVE  /\ pc[w] \notin Outside /\ run[w] \in Runs
         /\ fresh[w] => status[run[w]] \in Preparing
  BY StepNames DEF Inv, WorkInv, WorkerOK, At

LEMMA NotEnded ==
  Preparing \cap Released = {} /\ "absent" \notin Released /\ Suppressed \subseteq Released
  /\ Preparing \subseteq Statuses /\ Released \subseteq Statuses /\ "absent" \notin Preparing
  BY DEF Preparing, Released, Suppressed, Statuses

\* A save that is refused, and any step that raises.
LEMMA FailStep ==
  ASSUME Inv, NEW w \in Workers, pc[w] \in Working, Go(w, "fail"),
         UNCHANGED <<rows, files, created, run, fresh, then, target, seen, world>>
  PROVE  Inv'
<1> USE DEF Inv, rows, files, args, world
<1>1. "fail" \in (Steps \cup {"done"}) \ {"mirror"} /\ "fail" \notin Working
      /\ "fail" \notin {"claim", "reclaim", "evaluate"}
  BY DEF Steps, Working, Planned
<1>2. /\ pc' \in [Workers -> Steps] /\ lease' \in Workers \cup {NoWorker}
      /\ WorkInv'
  BY <1>1, AtWork, MoveStep DEF WorkInv, NotBoth
<1>3. TypeOK'
  BY <1>2 DEF TypeOK
<1>4. RowsInv' /\ MirrorIsCurrent'
  BY RowsSame DEF MirrorIsCurrent
<1>5. QED
  BY <1>2, <1>3, <1>4

LEMMA SaveStep ==
  ASSUME Inv, NEW w \in Workers, pc[w] \in Working,
         NEW to \in Statuses, NEW next \in Nexts \ {"evaluate"},
         next \in Working => to \in Preparing,
         Save(w, to, next), UNCHANGED <<args, world>>
  PROVE  Inv'
<1> USE DEF Inv, rows, args, world
<1>1. CASE Refused(w, "fail")
  BY <1>1, FailStep DEF Refused
<1>2. CASE /\ fresh[w] /\ status' = [status EXCEPT ![run[w]] = to] /\ Saved(w, next)
           /\ UNCHANGED <<issue, revision, ahead, selected, auth>>
  <2>1. run[w] \in Runs /\ pc[w] \notin Outside /\ status[run[w]] \notin Released
    BY <1>2, AtWork, NotEnded
  <2>2. status' \in [Runs -> Statuses] /\ status'[run[w]] = to
        /\ \A r \in Runs : r # run[w] => status'[r] = status[r]
    BY <1>2, <2>1 DEF TypeOK
  <2>3. RowsInv'
    BY <1>2, <2>1, <2>2, StatusKeepsRows
  <2>4. /\ marker' \in [Runs -> BOOLEAN] /\ mirror' \in [Runs -> {"missing", "stale", "current"}]
        /\ pc' \in [Workers -> Steps] /\ fresh' \in [Workers -> BOOLEAN]
        /\ then' \in [Workers -> Nexts]
        /\ UNCHANGED <<created, lease, run>>
        /\ (\A x \in Workers : WorkerOK(x)') /\ Unborn' /\ Alone' /\ NotBoth'
        /\ MirrorIsCurrent'
        /\ \A x \in Workers : pc'[x] \notin Outside => pc[x] \notin Outside
    BY <1>2, <2>1, <2>2, SavedStep
  <2>5. PriorsLeft'
    BY <1>2, <2>4, PriorsStay DEF WorkInv
  <2>6. TypeOK'
    BY <1>2, <2>2, <2>4 DEF TypeOK
  <2>7. QED
    BY <2>3, <2>4, <2>5, <2>6 DEF WorkInv
<1>3. QED
  BY <1>1, <1>2 DEF Save

LEMMA PrepareStep ==
  ASSUME Inv, NEW w \in Workers, _prepare(w) \/ NoBudget(w)
  PROVE  Inv'
<1>1. CASE _prepare(w)
  <2>1. PICK p \in Plan[pc[w]] : pc[w] \in DOMAIN Plan /\ Save(w, p[1], p[2])
    BY <1>1 DEF _prepare
  <2>2. /\ pc[w] \in Working /\ p[1] \in Statuses /\ p[2] \in Nexts \ {"evaluate"}
        /\ p[2] \in Working => p[1] \in Preparing
    BY <2>1, PlanFacts, StepNames
  <2>3. QED
    BY <1>1, <2>1, <2>2, SaveStep DEF _prepare
<1>2. CASE NoBudget(w)
  <2>1. /\ "search" \in Working /\ "done" \in Nexts \ {"evaluate"} /\ "done" \notin Working
        /\ "skipped" \in Statuses
    BY DEF Working, Nexts, Planned, Statuses, Released, Suppressed
  <2>2. QED
    BY <1>2, <2>1, SaveStep DEF NoBudget
<1>3. QED
  BY <1>1, <1>2

LEMMA RaiseStep ==
  ASSUME Inv, NEW w \in Workers, Raise(w)
  PROVE  Inv'
<1>1. DOMAIN Plan \cup {"search", "claim", "reclaim", "evaluate"} \subseteq Working
  BY PlanFacts DEF Working, Planned, Plan
<1>2. QED
  BY <1>1, FailStep DEF Raise, args

\* A failure is recorded only of a run that no authorization names: with a
\* failed file write no worker was paused, and this one still is at work on its
\* run; without one, its run did not end.
LEMMA FailureStep ==
  ASSUME Inv, NEW w \in Workers, _record_failure(w)
  PROVE  Inv'
<1> USE DEF Inv, rows, files, args, world
<1>1. /\ pc[w] = "fail" /\ pc[w] \notin Outside /\ run[w] \in Runs
      /\ "idle" \in Nexts /\ "idle" \notin Working /\ "failed" \in Statuses
      /\ "idle" \in (Steps \cup {"done"}) \ {"mirror"} /\ "idle" \in Outside
  BY StepNames DEF _record_failure, WorkInv, WorkerOK, Nexts, Statuses, Released
<1>2. CASE Refused(w, "idle")
  <2>1. /\ Go(w, "idle")
        /\ UNCHANGED <<rows, files, created, run, fresh, then, args, world>>
    BY <1>2 DEF Refused, _record_failure
  <2>2. /\ pc' \in [Workers -> Steps] /\ lease' \in Workers \cup {NoWorker}
        /\ WorkInv'
    BY <1>1, <2>1, MoveStep DEF WorkInv, NotBoth
  <2>3. TypeOK'
    BY <2>1, <2>2 DEF TypeOK
  <2>4. RowsInv' /\ MirrorIsCurrent'
    BY <2>1, RowsSame DEF MirrorIsCurrent
  <2>5. QED
    BY <2>2, <2>3, <2>4
<1>3. CASE /\ fresh[w] /\ status' = [status EXCEPT ![run[w]] = "failed"] /\ Saved(w, "idle")
           /\ UNCHANGED <<issue, revision, ahead, selected, auth>>
  <2>1. UNCHANGED <<args, world>>
    BY DEF _record_failure
  <2>2. status' \in [Runs -> Statuses] /\ status'[run[w]] = "failed"
        /\ \A r \in Runs : r # run[w] => status'[r] = status[r]
    BY <1>1, <1>3 DEF TypeOK
  <2>3. \A q \in Runs : auth[q] # NoAuth => auth[q].prior # run[w]
    <3>1. CASE "pause" \notin mishaps
      BY <1>1, <3>1 DEF WorkInv, PriorsLeft
    <3>2. CASE "pause" \in mishaps
      <4>1. "file" \notin mishaps
        BY <3>2 DEF WorkInv, NotBoth
      <4>2. status[run[w]] \in Preparing
        BY <1>1, <1>3, <4>1 DEF WorkInv, WorkerOK
      <4>3. \A q \in Runs : auth[q] # NoAuth => status[auth[q].prior] \in Suppressed
        BY DEF RowsInv, EvidenceVerifies, PriorsEnded, _verify_candidate_retry_authorizations
      <4>4. QED
        BY <4>2, <4>3, NotEnded
    <3>3. QED
      BY <3>1, <3>2
  <2>4. RowsInv'
    BY <1>3, <2>2, <2>3, StatusKeepsRows
  <2>5. /\ marker' \in [Runs -> BOOLEAN] /\ mirror' \in [Runs -> {"missing", "stale", "current"}]
        /\ pc' \in [Workers -> Steps] /\ fresh' \in [Workers -> BOOLEAN]
        /\ then' \in [Workers -> Nexts]
        /\ UNCHANGED <<created, lease, run>>
        /\ (\A x \in Workers : WorkerOK(x)') /\ Unborn' /\ Alone' /\ NotBoth'
        /\ MirrorIsCurrent'
        /\ \A x \in Workers : pc'[x] \notin Outside => pc[x] \notin Outside
    BY <1>1, <1>3, <2>1, <2>2, SavedStep
  <2>6. PriorsLeft'
    BY <1>3, <2>1, <2>5, PriorsStay DEF WorkInv
  <2>7. TypeOK'
    BY <1>3, <2>1, <2>2, <2>5 DEF TypeOK
  <2>8. QED
    BY <2>4, <2>5, <2>6, <2>7 DEF WorkInv
<1>4. QED
  BY <1>2, <1>3 DEF _record_failure

LEMMA ClaimStep ==
  ASSUME Inv, NEW w \in Workers, claim_candidate(w)
  PROVE  Inv'
<1> USE DEF Inv, rows, args, world
<1>1. /\ pc[w] \in Working /\ pc[w] \notin Outside /\ run[w] \in Runs
      /\ target[w] \in Issues /\ "select" \in Nexts /\ "select" # "evaluate"
  BY AtWork DEF claim_candidate, Working, WorkInv, WorkerOK, Nexts, Planned
<1>2. UNCHANGED <<args, world>>
  BY DEF claim_candidate
<1>3. CASE Refused(w, "fail")
  BY <1>1, <1>2, <1>3, FailStep DEF Refused
<1>4. CASE /\ MayClaim(w) /\ Ended(target[w], seen[w]) = {} /\ Bind(w)
           /\ selected' = [selected EXCEPT ![run[w]] = @ + 1] /\ Saved(w, "select")
           /\ UNCHANGED auth
  <2>1. RowsInv'
    BY <1>1, <1>4, ClaimKeepsRows
  <2>2. /\ status' = status /\ status[run[w]] \in Preparing
        /\ issue' = [issue EXCEPT ![run[w]] = target[w]]
        /\ revision' = [revision EXCEPT ![run[w]] = seen[w]]
    BY <1>4 DEF Bind, MayClaim, Preparing
  <2>3. /\ issue' \in [Runs -> Issues \cup {NoIssue}] /\ revision' \in [Runs -> Nat]
        /\ selected' \in [Runs -> Nat]
        /\ \A r \in Runs : r # run[w] => issue'[r] = issue[r] /\ selected'[r] = selected[r]
    BY <1>1, <1>4, <2>2 DEF TypeOK
  <2>4. /\ marker' \in [Runs -> BOOLEAN] /\ mirror' \in [Runs -> {"missing", "stale", "current"}]
        /\ pc' \in [Workers -> Steps] /\ fresh' \in [Workers -> BOOLEAN]
        /\ then' \in [Workers -> Nexts]
        /\ UNCHANGED <<created, lease, run>>
        /\ (\A x \in Workers : WorkerOK(x)') /\ Unborn' /\ Alone' /\ NotBoth'
        /\ MirrorIsCurrent'
        /\ \A x \in Workers : pc'[x] \notin Outside => pc[x] \notin Outside
    BY <1>1, <1>2, <1>4, <2>2, <2>3, SavedStep
  <2>5. PriorsLeft'
    BY <1>2, <1>4, <2>4, PriorsStay DEF WorkInv
  <2>6. TypeOK'
    BY <1>2, <1>4, <2>2, <2>3, <2>4 DEF TypeOK
  <2>7. QED
    BY <2>1, <2>4, <2>5, <2>6 DEF WorkInv
<1>5. QED
  BY <1>3, <1>4 DEF claim_candidate

\* As long as no worker was paused, the one that claims is the only one at work,
\* so none is still at work on the run it names.
LEMMA ReclaimStep ==
  ASSUME Inv, NEW w \in Workers, claim_candidate_retry(w)
  PROVE  Inv'
<1> USE DEF Inv, rows, args, world
<1>1. /\ pc[w] \in Working /\ pc[w] \notin Outside /\ run[w] \in Runs
      /\ target[w] \in Issues /\ "evaluate" \in Nexts
  BY AtWork DEF claim_candidate_retry, Working, WorkInv, WorkerOK, Nexts
<1>2. UNCHANGED <<args, world>>
  BY DEF claim_candidate_retry
<1>3. CASE Refused(w, "fail")
  BY <1>1, <1>2, <1>3, FailStep DEF Refused
<1>4. ASSUME MayClaim(w), NEW prior \in Ended(target[w], seen[w]), Bind(w),
             auth' = [auth EXCEPT ![run[w]] = [prior |-> prior, status |-> status[prior]]],
             Saved(w, "evaluate"), UNCHANGED selected
      PROVE  Inv'
  <2>1. RowsInv'
    BY <1>1, <1>4, ClaimKeepsRows
  <2>2. /\ status' = status /\ status[run[w]] = "discovering" /\ issue[run[w]] = NoIssue
        /\ issue' = [issue EXCEPT ![run[w]] = target[w]]
        /\ revision' = [revision EXCEPT ![run[w]] = seen[w]] /\ lease = w
    BY <1>4 DEF Bind, MayClaim
  <2>3. /\ prior \in Runs /\ status[prior] \in Suppressed /\ prior # run[w] /\ prior \in Nat
        /\ prior # 0 /\ status[prior] \in Statuses
    BY <2>2, NotEnded DEF Ended, Suppressed, Runs
  <2>4. /\ issue' \in [Runs -> Issues \cup {NoIssue}] /\ revision' \in [Runs -> Nat]
        /\ auth' \in [Runs -> [prior : Nat, status : Statuses]]
        /\ \A r \in Runs : r # run[w] => issue'[r] = issue[r] /\ auth'[r] = auth[r]
        /\ auth'[run[w]] = [prior |-> prior, status |-> status[prior]]
        /\ issue'[run[w]] = target[w]
    BY <1>1, <1>4, <2>2, <2>3 DEF TypeOK
  <2>5. auth'[run[w]] # NoAuth /\ auth'[run[w]].prior = prior /\ issue'[run[w]] # NoIssue
    BY <1>1, <2>3, <2>4 DEF NoAuth
  <2>6. selected[run[w]] = 0
    BY <1>1, <2>2 DEF RowsInv, EvidenceVerifies, _verify_candidate_selection_events
  <2>7. status'[run[w]] \in Preparing
    BY <2>2 DEF Preparing
  <2>8. /\ marker' \in [Runs -> BOOLEAN] /\ mirror' \in [Runs -> {"missing", "stale", "current"}]
        /\ pc' \in [Workers -> Steps] /\ fresh' \in [Workers -> BOOLEAN]
        /\ then' \in [Workers -> Nexts]
        /\ UNCHANGED <<created, lease, run>>
        /\ (\A x \in Workers : WorkerOK(x)') /\ Unborn' /\ Alone' /\ NotBoth'
        /\ MirrorIsCurrent'
        /\ \A x \in Workers : pc'[x] \notin Outside => pc[x] \notin Outside
    BY <1>1, <1>2, <1>4, <2>2, <2>4, <2>5, <2>6, <2>7, SavedStep
  <2>9. PriorsLeft'
    <3> SUFFICES ASSUME "pause" \notin mishaps, NEW x \in Workers, NEW r \in Runs,
                        auth'[r] # NoAuth, pc'[x] \notin Outside
                 PROVE  run[x] # auth'[r].prior
      BY <1>2, <2>8 DEF PriorsLeft
    <3>1. pc[x] \notin Outside
      BY <2>8
    <3>2. x = w
      BY <2>2, <3>1, StepNames DEF WorkInv, Alone
    <3>3. CASE r = run[w]
      BY <2>3, <2>5, <3>2, <3>3
    <3>4. CASE r # run[w]
      BY <2>4, <3>1, <3>4 DEF WorkInv, PriorsLeft
    <3>5. QED
      BY <3>3, <3>4
  <2>10. TypeOK'
    BY <1>2, <1>4, <2>2, <2>4, <2>8 DEF TypeOK
  <2>11. QED
    BY <2>1, <2>8, <2>9, <2>10 DEF WorkInv
<1>5. QED
  BY <1>3, <1>4 DEF claim_candidate_retry, FirstOf

LEMMA SelectStep ==
  ASSUME Inv, NEW w \in Workers, SelectRetried(w)
  PROVE  Inv'
<1> USE DEF Inv, rows, args, world
<1>1. /\ pc[w] = "evaluate" /\ pc[w] \in Working /\ pc[w] \notin Outside /\ run[w] \in Runs
      /\ "select" \in Nexts /\ "select" # "evaluate" /\ At(w) = "evaluate"
      /\ fresh[w] => status[run[w]] \in Preparing
  BY AtWork DEF SelectRetried, Working, Nexts, Planned, At
<1>2. UNCHANGED <<args, world>>
  BY DEF SelectRetried
<1>3. CASE Refused(w, "fail")
  BY <1>1, <1>2, <1>3, FailStep DEF Refused
<1>4. CASE /\ fresh[w] /\ selected' = [selected EXCEPT ![run[w]] = @ + 1] /\ Saved(w, "select")
           /\ UNCHANGED <<status, issue, revision, ahead, auth>>
  <2>1. selected[run[w]] = 0 /\ issue[run[w]] # NoIssue
    BY <1>1, <1>4 DEF WorkInv, WorkerOK
  <2>2. RowsInv'
    BY <1>1, <1>4, <2>1, SelectionKeepsRows
  <2>3. selected' \in [Runs -> Nat] /\ \A r \in Runs : r # run[w] => selected'[r] = selected[r]
    BY <1>1, <1>4 DEF TypeOK
  <2>4. /\ marker' \in [Runs -> BOOLEAN] /\ mirror' \in [Runs -> {"missing", "stale", "current"}]
        /\ pc' \in [Workers -> Steps] /\ fresh' \in [Workers -> BOOLEAN]
        /\ then' \in [Workers -> Nexts]
        /\ UNCHANGED <<created, lease, run>>
        /\ (\A x \in Workers : WorkerOK(x)') /\ Unborn' /\ Alone' /\ NotBoth'
        /\ MirrorIsCurrent'
        /\ \A x \in Workers : pc'[x] \notin Outside => pc[x] \notin Outside
    BY <1>1, <1>2, <1>4, <2>3, SavedStep
  <2>5. PriorsLeft'
    BY <1>2, <1>4, <2>4, PriorsStay DEF WorkInv
  <2>6. TypeOK'
    BY <1>2, <1>4, <2>3, <2>4 DEF TypeOK
  <2>7. QED
    BY <2>2, <2>4, <2>5, <2>6 DEF WorkInv
<1>5. QED
  BY <1>3, <1>4 DEF SelectRetried

LEMMA LookStep ==
  ASSUME Inv, NEW w \in Workers, Look(w) \/ Discover(w)
  PROVE  Inv'
<1> USE DEF Inv, rows, files, args, world
<1>1. /\ pc[w] \in Working /\ pc[w] \notin Outside /\ run[w] \in Runs
      /\ fresh[w] => status[run[w]] \in Preparing
  BY AtWork DEF Look, Discover, Working
<1>2. UNCHANGED <<rows, files, created, run, fresh, then, world>>
  BY DEF Look, Discover
<1>3. PICK next \in {"note", "reclaim", "fail", "claim"} :
         /\ Go(w, next)
         /\ \/ \E i \in Issues : Found(w, i)
            \/ UNCHANGED <<target, seen>> /\ next = "note"
  BY DEF Look, Discover
<1>4. /\ target' \in [Workers -> Issues \cup {NoIssue}] /\ seen' \in [Workers -> Nat]
      /\ \A x \in Workers : x # w => target'[x] = target[x]
      /\ next # "note" => target'[w] \in Issues
  BY <1>3 DEF Found, TypeOK
<1>5. next \in (Steps \cup {"done"}) \ {"mirror"} /\ next # "evaluate"
  BY DEF Steps, Working, Planned
<1>6. /\ pc' \in [Workers -> Steps] /\ lease' \in Workers \cup {NoWorker}
      /\ WorkInv'
  BY <1>1, <1>2, <1>3, <1>4, <1>5, MoveStep DEF WorkInv, NotBoth
<1>7. TypeOK'
  BY <1>2, <1>4, <1>6 DEF TypeOK
<1>8. RowsInv' /\ MirrorIsCurrent'
  BY <1>2, RowsSame DEF MirrorIsCurrent
<1>9. QED
  BY <1>6, <1>7, <1>8

\* A mishap is a new one, and leaves a pause and a failed write apart.
LEMMA MishapEffect ==
  ASSUME NEW kind, Mishap(kind)
  PROVE  mishaps \subseteq mishaps' /\ kind \in mishaps' /\ NotBoth'
  BY DEF Mishap, NotBoth

\* Writing the files of marked rows.
LEMMA SyncStep ==
  ASSUME TypeOK, MirrorIsCurrent, SyncAll, UNCHANGED status
  PROVE  /\ marker' \in [Runs -> BOOLEAN] /\ mirror' \in [Runs -> {"missing", "stale", "current"}]
         /\ MirrorIsCurrent'
  BY DEF TypeOK, MirrorIsCurrent, SyncAll

LEMMA MirrorStep ==
  ASSUME Inv, NEW w \in Workers, WriteMirror(w)
  PROVE  Inv'
<1> USE DEF Inv, rows, args
<1>1. /\ pc[w] = "mirror" /\ pc[w] \notin Outside /\ run[w] \in Runs /\ then[w] \in Nexts
      /\ At(w) = then[w] /\ UNCHANGED <<rows, created, run, fresh, then, args, latest>>
  BY StepNames DEF WriteMirror, WorkInv, WorkerOK, At, TypeOK
<1>2. /\ marker' \in [Runs -> BOOLEAN] /\ mirror' \in [Runs -> {"missing", "stale", "current"}]
      /\ MirrorIsCurrent'
  BY <1>1 DEF WriteMirror, _synchronize_manifest_artifact, files, TypeOK, MirrorIsCurrent
<1>3. PICK next \in {then[w], "idle", "fail"} :
         /\ Go(w, next) /\ mishaps \subseteq mishaps' /\ NotBoth'
         /\ next = "fail" => "file" \in mishaps'
  <2>1. CASE Go(w, then[w]) /\ UNCHANGED mishaps
    BY <1>1, <2>1, StepNames DEF WorkInv, NotBoth
  <2>2. CASE Mishap("file") /\ Go(w, CASE then[w] \in {"idle", "begin"} -> "idle"
                                      [] OTHER -> "fail")
    <3>1. mishaps \subseteq mishaps' /\ "file" \in mishaps' /\ NotBoth'
      BY <2>2, MishapEffect
    <3>2. CASE then[w] \in {"idle", "begin"}
      BY <2>2, <3>1, <3>2
    <3>3. CASE then[w] \notin {"idle", "begin"}
      BY <2>2, <3>1, <3>3
    <3>4. QED
      BY <3>2, <3>3
  <2>3. QED
    BY <2>1, <2>2 DEF WriteMirror
<1>4. /\ next \in (Steps \cup {"done"}) \ {"mirror"} /\ next \notin {"claim", "reclaim"}
      /\ "fail" \notin Working /\ "idle" \notin Working
      /\ "evaluate" \in Working
  BY <1>1, StepNames DEF Steps, Working
<1>5. next \in Working => next = At(w)
  <2>1. next = then[w] \/ next = "idle" \/ next = "fail"
    OBVIOUS
  <2>2. "fail" \notin Working /\ "idle" \notin Working
    BY <1>4
  <2>3. then[w] = At(w)
    BY <1>1
  <2>4. QED
    BY <2>1, <2>2, <2>3
<1>6. /\ fresh[w] /\ next \in Working => status[run[w]] \in Preparing
      /\ fresh[w] /\ next = "evaluate" =>
            selected[run[w]] = 0 /\ issue[run[w]] # NoIssue /\ auth[run[w]] # NoAuth
  BY <1>4, <1>5 DEF WorkInv, WorkerOK
<1>7. /\ pc' \in [Workers -> Steps] /\ lease' \in Workers \cup {NoWorker}
      /\ WorkInv'
  BY <1>1, <1>3, <1>4, <1>5, <1>6, MoveStep
<1>8. TypeOK'
  BY <1>1, <1>2, <1>7 DEF TypeOK
<1>9. RowsInv'
  BY <1>1, RowsSame
<1>10. QED
  BY <1>2, <1>7, <1>8, <1>9

LEMMA StartStep ==
  ASSUME Inv, NEW w \in Workers, Start(w)
  PROVE  Inv'
<1> USE DEF Inv, rows, files, world
<1>1. /\ pc[w] = "idle" /\ lease = NoWorker /\ lease' = w /\ pc' = [pc EXCEPT ![w] = "recover"]
      /\ UNCHANGED <<rows, files, created, run, fresh, then, target, seen, world>>
  BY DEF Start
<1>2. /\ "recover" \in Steps /\ "recover" \in Outside /\ "recover" \notin Working
      /\ "recover" \notin {"mirror", "fail", "claim", "reclaim", "evaluate"}
  BY StepNames DEF Steps, Outside
<1>3. /\ pc' \in [Workers -> Steps] /\ pc'[w] = "recover"
      /\ \A x \in Workers : x # w => pc'[x] = pc[x]
  BY <1>1, <1>2 DEF TypeOK
<1>4. TypeOK'
  BY <1>1, <1>3 DEF TypeOK
<1>5. ASSUME NEW x \in Workers PROVE WorkerOK(x)'
  <2>1. CASE x = w
    BY <1>2, <1>3, <2>1 DEF WorkerOK, At
  <2>2. CASE x # w
    BY <1>1, <1>3, <2>2, Bystander DEF WorkInv
  <2>3. QED
    BY <2>1, <2>2
<1>6. Unborn' /\ NotBoth'
  BY <1>1 DEF WorkInv, Unborn, NotBoth
<1>7. Alone'
  BY <1>1, <1>3 DEF WorkInv, Alone
<1>8. \A x \in Workers : pc'[x] \notin Outside => pc[x] \notin Outside
  BY <1>2, <1>3
<1>9. PriorsLeft'
  BY <1>1, <1>8, PriorsStay DEF WorkInv
<1>10. RowsInv' /\ MirrorIsCurrent'
  BY <1>1, RowsSame DEF MirrorIsCurrent
<1>11. QED
  BY <1>4, <1>5, <1>6, <1>7, <1>9, <1>10 DEF WorkInv

LEMMA TidyStep ==
  ASSUME Inv, NEW w \in Workers, Tidy(w) \/ Stopped(w)
  PROVE  Inv'
<1> USE DEF Inv, rows, args
<1>1. /\ "create" \in (Steps \cup {"done"}) \ {"mirror"} /\ "create" \in Outside
      /\ "idle" \in (Steps \cup {"done"}) \ {"mirror"} /\ "idle" \in Outside
      /\ {"create", "idle"} \cap (Working \cup {"claim", "reclaim", "evaluate", "fail"}) = {}
  BY StepNames DEF Steps, Outside, Working
<1>2. UNCHANGED <<rows, created, run, fresh, then, args, latest>>
  BY DEF Tidy, Stopped, world
<1>3. PICK next \in {"create", "idle"} : Go(w, next) /\ mishaps \subseteq mishaps' /\ NotBoth'
  <2>1. CASE SyncAll /\ Go(w, "create") /\ UNCHANGED mishaps
    BY <2>1 DEF WorkInv, NotBoth
  <2>2. CASE Mishap("file") /\ Halt(w) /\ UNCHANGED files
    BY <2>2, MishapEffect DEF Go
  <2>3. CASE Stopped(w)
    BY <2>3 DEF Stopped, Go, world, WorkInv, NotBoth
  <2>4. QED
    BY <2>1, <2>2, <2>3 DEF Tidy
<1>4. /\ marker' \in [Runs -> BOOLEAN] /\ mirror' \in [Runs -> {"missing", "stale", "current"}]
      /\ MirrorIsCurrent'
  <2>1. CASE SyncAll
    BY <1>2, <2>1, SyncStep
  <2>2. CASE UNCHANGED files
    BY <1>2, <2>2 DEF files, TypeOK, MirrorIsCurrent
  <2>3. QED
    BY <2>1, <2>2 DEF Tidy, Stopped
<1>5. /\ pc' \in [Workers -> Steps] /\ lease' \in Workers \cup {NoWorker}
      /\ WorkInv'
  BY <1>1, <1>2, <1>3, MoveStep
<1>6. TypeOK'
  BY <1>2, <1>4, <1>5 DEF TypeOK
<1>7. QED
  BY <1>2, <1>4, <1>5, <1>6, RowsSame

\* The runs of R end, or stay; R did not end before.
LEMMA RetireEffect ==
  ASSUME TypeOK, RowsInv, MirrorIsCurrent, NEW R \in SUBSET Runs, NEW to \in Statuses,
         Retire(R, to), \A r \in R : status[r] \notin Released /\ status[r] # "absent"
  PROVE  /\ status' \in [Runs -> Statuses] /\ fresh' \in [Workers -> BOOLEAN]
         /\ marker' \in [Runs -> BOOLEAN] /\ mirror' \in [Runs -> {"missing", "stale", "current"}]
         /\ RowsInv' /\ MirrorIsCurrent'
         /\ UNCHANGED <<issue, revision, selected, auth>>
         /\ \A r \in Runs : r \notin R => status'[r] = status[r]
         /\ \A x \in Workers : fresh'[x] => fresh[x] /\ run[x] \notin R
<1>1. /\ status' = [r \in Runs |-> IF r \in R THEN to ELSE status[r]]
      /\ fresh' = [x \in Workers |-> fresh[x] /\ run[x] \notin R]
      /\ marker' = [r \in Runs |-> marker[r] \/ r \in R]
      /\ mirror' = [r \in Runs |-> IF r \in R /\ mirror[r] = "current" THEN "stale"
                                  ELSE mirror[r]]
      /\ UNCHANGED <<issue, revision, selected, auth>>
  BY DEF Retire, RowsWritten
<1>2. RowsInv'
  BY <1>1, StatusKeepsRows
<1>3. MirrorIsCurrent'
  BY <1>1 DEF MirrorIsCurrent
<1>4. /\ status' \in [Runs -> Statuses] /\ fresh' \in [Workers -> BOOLEAN]
      /\ marker' \in [Runs -> BOOLEAN] /\ mirror' \in [Runs -> {"missing", "stale", "current"}]
  BY <1>1 DEF TypeOK
<1>5. /\ \A r \in Runs : r \notin R => status'[r] = status[r]
      /\ \A x \in Workers : fresh'[x] => fresh[x] /\ run[x] \notin R
  BY <1>1
<1>6. QED
  BY <1>1, <1>2, <1>3, <1>4, <1>5

LEMMA RecoverStep ==
  ASSUME Inv, NEW w \in Workers, recover_stale_runs(w)
  PROVE  Inv'
<1> USE DEF Inv, args, world
<1>1. PICK R \in SUBSET Stale : Retire(R, "failed")
  BY DEF recover_stale_runs
<1>2. /\ pc[w] = "recover" /\ Go(w, "tidy") /\ UNCHANGED <<created, run, then, args, world>>
      /\ "tidy" \in Steps /\ "tidy" \in Outside /\ "failed" \in Statuses
      /\ "tidy" \notin Working \cup {"mirror", "fail", "claim", "reclaim", "evaluate"}
  BY DEF recover_stale_runs, Steps, Outside, Statuses, Released, Working, Planned
<1>3. R \in SUBSET Runs /\ \A r \in R : status[r] \notin Released /\ status[r] # "absent"
  BY NotEnded DEF Stale
<1>4. /\ status' \in [Runs -> Statuses] /\ fresh' \in [Workers -> BOOLEAN]
      /\ marker' \in [Runs -> BOOLEAN] /\ mirror' \in [Runs -> {"missing", "stale", "current"}]
      /\ RowsInv' /\ MirrorIsCurrent'
      /\ UNCHANGED <<issue, revision, selected, auth>>
      /\ \A r \in Runs : r \notin R => status'[r] = status[r]
      /\ \A x \in Workers : fresh'[x] => fresh[x] /\ run[x] \notin R
  BY <1>1, <1>2, <1>3, RetireEffect
<1>5. /\ pc' \in [Workers -> Steps] /\ lease' \in Workers \cup {NoWorker} /\ Alone'
      /\ \A x \in Workers : x # w => pc'[x] = pc[x]
      /\ pc'[w] \in {"idle", "tidy"}
  BY <1>2, GoEffect DEF WorkInv
<1>6. ASSUME NEW x \in Workers PROVE WorkerOK(x)'
  <2>1. CASE x # w
    BY <1>2, <1>4, <1>5, <2>1, Bystander DEF WorkInv
  <2>2. CASE x = w
    BY <1>2, <1>5, <2>2, StepNames DEF WorkerOK, At
  <2>3. QED
    BY <2>1, <2>2
<1>7. Unborn' /\ NotBoth'
  BY <1>2, <1>3, <1>4 DEF WorkInv, Unborn, NotBoth
<1>8. \A x \in Workers : pc'[x] \notin Outside => pc[x] \notin Outside
  BY <1>2, <1>5, StepNames
<1>9. PriorsLeft'
  BY <1>2, <1>4, <1>8, PriorsStay DEF WorkInv
<1>10. TypeOK'
  BY <1>2, <1>4, <1>5 DEF TypeOK
<1>11. QED
  BY <1>4, <1>5, <1>6, <1>7, <1>9, <1>10 DEF WorkInv

\* A new run is nobody else's, and no authorization names it.
LEMMA CreateStep ==
  ASSUME Inv, NEW w \in Workers, create_run(w)
  PROVE  Inv'
<1> USE DEF Inv, rows, args, world
<1> DEFINE new == created + 1
<1>1. /\ pc[w] = "create" /\ new \in Runs /\ created' = new
      /\ status' = [status EXCEPT ![new] = "queued"] /\ marker' = [marker EXCEPT ![new] = TRUE]
      /\ run' = [run EXCEPT ![w] = new] /\ fresh' = [fresh EXCEPT ![w] = TRUE]
      /\ pc' = [pc EXCEPT ![w] = "mirror"] /\ then' = [then EXCEPT ![w] = "begin"]
      /\ UNCHANGED <<issue, revision, selected, auth, mirror, lease, args, world>>
  BY DEF create_run, Runs, TypeOK
<1>2. /\ "queued" \in Statuses /\ "queued" \in Preparing /\ "mirror" \in Steps /\ "begin" \in Nexts
      /\ "begin" \notin {"evaluate"} /\ "mirror" \notin Outside /\ pc[w] # "idle"
  BY <1>1, StepNames DEF Statuses, Preparing, Steps, Nexts, Planned
<1>3. new \in 0 .. MaxRuns /\ status[new] = "absent" /\ new > created
  BY <1>1 DEF WorkInv, Unborn, Runs, TypeOK
<1>4. /\ status' \in [Runs -> Statuses] /\ marker' \in [Runs -> BOOLEAN]
      /\ run' \in [Workers -> 0 .. MaxRuns] /\ fresh' \in [Workers -> BOOLEAN]
      /\ pc' \in [Workers -> Steps] /\ then' \in [Workers -> Nexts]
      /\ status'[new] = "queued" /\ marker'[new] = TRUE
      /\ \A r \in Runs : r # new => status'[r] = status[r] /\ marker'[r] = marker[r]
      /\ run'[w] = new /\ pc'[w] = "mirror" /\ then'[w] = "begin"
      /\ \A x \in Workers : x # w =>
            run'[x] = run[x] /\ fresh'[x] = fresh[x] /\ pc'[x] = pc[x] /\ then'[x] = then[x]
  BY <1>1, <1>2, <1>3 DEF TypeOK
<1>5. TypeOK'
  BY <1>1, <1>3, <1>4 DEF TypeOK
<1>6. RowsInv'
  <2>1. status[new] \notin Released
    BY <1>3, NotEnded
  <2>2. QED
    BY <1>1, <1>4, <2>1, StatusKeepsRows
<1>7. MirrorIsCurrent'
  BY <1>1, <1>4 DEF MirrorIsCurrent
<1>8. ASSUME NEW x \in Workers PROVE WorkerOK(x)'
  <2>1. CASE x # w
    <3>1. run[x] # new
      BY <1>3 DEF WorkInv, Unborn, TypeOK
    <3>2. QED
      BY <1>1, <1>4, <2>1, <3>1, Bystander DEF WorkInv
  <2>2. CASE x = w
    BY <1>1, <1>2, <1>4, <2>2 DEF WorkerOK, At
  <2>3. QED
    BY <2>1, <2>2
<1>9. Unborn'
  <2>1. \A x \in Workers : run'[x] <= new
    BY <1>3, <1>4 DEF WorkInv, Unborn, TypeOK
  <2>2. \A r \in Runs : r > new => status'[r] = "absent"
    <3>1. \A r \in Runs : r > new => r > created /\ r # new
      BY DEF Runs, TypeOK
    <3>2. QED
      BY <1>4, <3>1 DEF WorkInv, Unborn
  <2>3. QED
    BY <1>1, <2>1, <2>2 DEF Unborn
<1>10. Alone' /\ NotBoth'
  BY <1>1, <1>2, <1>4 DEF WorkInv, Alone, NotBoth
<1>11. PriorsLeft'
  <2> SUFFICES ASSUME "pause" \notin mishaps, NEW x \in Workers, NEW r \in Runs,
                      auth[r] # NoAuth, pc'[x] \notin Outside
               PROVE  run'[x] # auth[r].prior
    BY <1>1 DEF PriorsLeft
  <2>1. CASE x = w
    <3>1. auth[r].prior \in Runs /\ status[auth[r].prior] \in Suppressed
      BY DEF RowsInv, PriorsEnded, EvidenceVerifies, _verify_candidate_retry_authorizations
    <3>2. auth[r].prior # new
      BY <1>3, <3>1, NotEnded
    <3>3. QED
      BY <1>4, <2>1, <3>2
  <2>2. CASE x # w
    BY <1>4, <2>2 DEF WorkInv, PriorsLeft
  <2>3. QED
    BY <2>1, <2>2
<1>12. QED
  BY <1>5, <1>6, <1>7, <1>8, <1>9, <1>10, <1>11 DEF WorkInv

------------------------------------------------------------------------------
(***************************************************************************)
(* Operators' commands and the world.                                      *)
(***************************************************************************)
\* A command that ends or moves runs which did not end makes every manifest of
\* them an old one.
LEMMA CommandStep ==
  ASSUME Inv, UNCHANGED <<created, lease, pc, run, then, args, world>>,
         /\ status' \in [Runs -> Statuses] /\ fresh' \in [Workers -> BOOLEAN]
         /\ marker' \in [Runs -> BOOLEAN] /\ mirror' \in [Runs -> {"missing", "stale", "current"}],
         RowsInv', MirrorIsCurrent', UNCHANGED <<issue, revision, selected, auth>>,
         NEW R \in SUBSET Runs, \A r \in R : status[r] # "absent",
         \A r \in Runs : r \notin R => status'[r] = status[r],
         \A x \in Workers : fresh'[x] => fresh[x] /\ run[x] \notin R
  PROVE  Inv'
<1> USE DEF Inv, args, world
<1>1. TypeOK'
  BY DEF TypeOK
<1>2. ASSUME NEW x \in Workers PROVE WorkerOK(x)'
  BY Bystander DEF WorkInv
<1>3. Unborn' /\ NotBoth' /\ Alone'
  BY DEF WorkInv, Unborn, NotBoth, Alone
<1>4. PriorsLeft'
  BY PriorsStay DEF WorkInv
<1>5. QED
  BY <1>1, <1>2, <1>3, <1>4 DEF WorkInv

LEMMA TransitionStep ==
  ASSUME Inv, NEW r \in Runs, NEW to \in Statuses, Transition(r, to),
         status[r] \notin Released, status[r] # "absent"
  PROVE  Inv'
<1> USE DEF Inv
<1>1. /\ status' = [status EXCEPT ![r] = to]
      /\ fresh' = [x \in Workers |-> fresh[x] /\ run[x] # r]
      /\ UNCHANGED <<issue, revision, selected, auth, created, lease, pc, run, then, args, world>>
      /\ \/ /\ marker' = [marker EXCEPT ![r] = FALSE]
            /\ mirror' = [mirror EXCEPT ![r] = "current"]
         \/ RowsWritten({r})
  BY DEF Transition
<1>2. /\ status' \in [Runs -> Statuses] /\ fresh' \in [Workers -> BOOLEAN]
      /\ \A q \in Runs : q # r => status'[q] = status[q]
      /\ \A x \in Workers : fresh'[x] => fresh[x] /\ run[x] # r
  BY <1>1 DEF TypeOK
<1>3. /\ marker' \in [Runs -> BOOLEAN] /\ mirror' \in [Runs -> {"missing", "stale", "current"}]
      /\ MirrorIsCurrent'
  <2>1. CASE marker' = [marker EXCEPT ![r] = FALSE] /\ mirror' = [mirror EXCEPT ![r] = "current"]
    BY <1>2, <2>1 DEF TypeOK, MirrorIsCurrent
  <2>2. CASE RowsWritten({r})
    <3>1. /\ marker' = [q \in Runs |-> marker[q] \/ q \in {r}]
          /\ mirror' = [q \in Runs |-> IF q \in {r} /\ mirror[q] = "current" THEN "stale"
                                      ELSE mirror[q]]
      BY <2>2 DEF RowsWritten
    <3>2. MirrorIsCurrent'
      BY <1>2, <3>1 DEF MirrorIsCurrent
    <3>3. QED
      BY <3>1, <3>2 DEF TypeOK
  <2>3. QED
    BY <1>1, <2>1, <2>2
<1>4. RowsInv'
  BY <1>1, <1>2, StatusKeepsRows
<1> DEFINE R == {r}
<1>5. /\ R \in SUBSET Runs /\ \A q \in R : status[q] # "absent"
      /\ \A q \in Runs : q \notin R => status'[q] = status[q]
      /\ \A x \in Workers : fresh'[x] => fresh[x] /\ run[x] \notin R
  BY <1>2
<1> HIDE DEF R
<1>6. QED
  BY <1>1, <1>2, <1>3, <1>4, <1>5, CommandStep

LEMMA RunStep ==
  ASSUME Inv, NEW r \in Runs, approve_run(r) \/ cancel_run(r) \/ Publish(r)
  PROVE  Inv'
<1>1. {"ready_for_approval", "approved", "submitting"} \cap (Released \cup {"absent"}) = {}
      /\ {"approved", "cancelled", "submitting", "pr_open", "failed"} \subseteq Statuses
  BY DEF Released, Suppressed, Statuses
<1>2. PICK to \in {"approved", "cancelled", "submitting", "pr_open", "failed"} :
         /\ status[r] \in {"ready_for_approval", "approved", "submitting"}
         /\ Transition(r, to)
  BY DEF approve_run, cancel_run, Publish
<1>3. QED
  BY <1>1, <1>2, TransitionStep

LEMMA ExpireStep ==
  ASSUME Inv, expire_ready_for_approval_runs
  PROVE  Inv'
<1> USE DEF Inv
<1>1. PICK R \in SUBSET {r \in Runs : status[r] = "ready_for_approval" /\ ~ahead[r]} :
         Retire(R, "cancelled")
  BY DEF expire_ready_for_approval_runs
<1>2. UNCHANGED <<created, lease, pc, run, then, args, world>>
  BY DEF expire_ready_for_approval_runs
<1>3. /\ R \in SUBSET Runs /\ "cancelled" \in Statuses
      /\ \A r \in R : status[r] \notin Released /\ status[r] # "absent"
  BY DEF Released, Suppressed, Statuses
<1>4. QED
  BY <1>1, <1>2, <1>3, RetireEffect, CommandStep

\* Steps that write no row and no worker's memory.
LEMMA WorldStep ==
  ASSUME Inv,
         UNCHANGED <<status, issue, revision, selected, auth, created, run, fresh, then, args>>,
         pc' \in [Workers -> Steps], lease' \in Workers \cup {NoWorker},
         latest' \in [Issues -> Nat],
         marker' \in [Runs -> BOOLEAN], mirror' \in [Runs -> {"missing", "stale", "current"}],
         MirrorIsCurrent', mishaps \subseteq mishaps', NotBoth', Alone',
         \A x \in Workers : pc'[x] = pc[x] \/ pc'[x] = "idle"
  PROVE  Inv'
<1> USE DEF Inv, args
<1>1. TypeOK' /\ RowsInv'
  BY RowsSame DEF TypeOK
<1>2. ASSUME NEW x \in Workers PROVE WorkerOK(x)'
  <2>1. CASE pc'[x] = pc[x]
    BY <2>1, Bystander DEF WorkInv
  <2>2. CASE pc'[x] = "idle"
    BY <2>2, StepNames DEF WorkerOK, At
  <2>3. QED
    BY <2>1, <2>2
<1>3. Unborn'
  BY DEF WorkInv, Unborn
<1>4. \A x \in Workers : pc'[x] \notin Outside => pc[x] \notin Outside
  BY StepNames
<1>5. PriorsLeft'
  BY <1>4, PriorsStay DEF WorkInv
<1>6. QED
  BY <1>1, <1>2, <1>3, <1>5 DEF WorkInv

LEMMA OutsideStep ==
  ASSUME Inv, \/ OpenStore \/ SetBack \/ CatchUp \/ Lapse
              \/ \E i \in Issues : Edit(i)
              \/ \E w \in Workers : Die(w)
  PROVE  Inv'
<1> USE DEF Inv, rows, files, args, world
<1>1. /\ NotBoth /\ Alone /\ MirrorIsCurrent
      /\ pc \in [Workers -> Steps] /\ lease \in Workers \cup {NoWorker}
      /\ latest \in [Issues -> Nat]
      /\ marker \in [Runs -> BOOLEAN] /\ mirror \in [Runs -> {"missing", "stale", "current"}]
  BY DEF WorkInv, TypeOK
<1>2. CASE OpenStore
  BY <1>1, <1>2, SyncStep, WorldStep DEF OpenStore, Alone, NotBoth
<1>3. CASE SetBack
  <2>1. mishaps \subseteq mishaps' /\ NotBoth'
    BY <1>3, MishapEffect DEF SetBack
  <2>2. Alone' /\ MirrorIsCurrent'
    BY <1>1, <1>3, <2>1 DEF SetBack, Alone, MirrorIsCurrent
  <2>3. QED
    BY <1>1, <1>3, <2>1, <2>2, WorldStep DEF SetBack
<1>4. CASE CatchUp
  BY <1>1, <1>4, WorldStep DEF CatchUp, Alone, NotBoth, MirrorIsCurrent
<1>5. CASE Lapse
  <2>1. /\ lease \in Workers /\ lease' = NoWorker
        /\ UNCHANGED <<rows, files, created, pc, run, fresh, then, args, latest>>
    BY <1>1, <1>5 DEF Lapse
  <2>2. mishaps \subseteq mishaps' /\ NotBoth' /\ (pc[lease] = "idle" \/ "pause" \in mishaps')
    BY <1>1, <1>5, MishapEffect DEF Lapse, NotBoth
  <2>3. Alone' /\ MirrorIsCurrent'
    BY <1>1, <2>1, <2>2 DEF Alone, MirrorIsCurrent
  <2>4. QED
    BY <1>1, <2>1, <2>2, <2>3, WorldStep
<1>6. ASSUME NEW i \in Issues, Edit(i) PROVE Inv'
  <2>1. latest' \in [Issues -> Nat]
    BY <1>1, <1>6 DEF Edit
  <2>2. QED
    BY <1>1, <1>6, <2>1, WorldStep DEF Edit, Alone, NotBoth, MirrorIsCurrent
<1>7. ASSUME NEW w \in Workers, Die(w) PROVE Inv'
  <2>1. mishaps \subseteq mishaps' /\ NotBoth'
    BY <1>7, MishapEffect DEF Die
  <2>2. /\ pc' \in [Workers -> Steps]
        /\ \A x \in Workers : pc'[x] = pc[x] \/ pc'[x] = "idle"
    BY <1>1, <1>7, StepNames DEF Die
  <2>3. Alone' /\ MirrorIsCurrent'
    BY <1>1, <1>7, <2>1, <2>2 DEF Die, Alone, MirrorIsCurrent
  <2>4. QED
    BY <1>1, <1>7, <2>1, <2>2, <2>3, WorldStep DEF Die
<1>8. QED
  BY <1>2, <1>3, <1>4, <1>5, <1>6, <1>7

------------------------------------------------------------------------------
(***************************************************************************)
(* Theorems.                                                               *)
(***************************************************************************)
LEMMA InitInv == Init => Inv
<1> SUFFICES ASSUME Init PROVE Inv
  OBVIOUS
<1> USE DEF Init
<1>1. TypeOK
  <2>1. /\ "absent" \in Statuses /\ "idle" \in Steps /\ "idle" \in Nexts
        /\ NoAuth \in [prior : Nat, status : Statuses]
    BY StepNames DEF Statuses, Nexts, NoAuth
  <2>2. QED
    BY <2>1 DEF TypeOK
<1>2. RowsInv
  BY DEF RowsInv, OneAttemptPerIssue, NoSilentRetry, EvidenceVerifies, PriorsEnded,
         _verify_candidate_selection_events, _verify_candidate_retry_authorizations
<1>3. ASSUME NEW w \in Workers PROVE WorkerOK(w)
  BY StepNames DEF WorkerOK, At
<1>4. Unborn /\ Alone /\ PriorsLeft /\ NotBoth
  BY DEF Unborn, Alone, PriorsLeft, NotBoth
<1>5. MirrorIsCurrent
  BY DEF MirrorIsCurrent
<1>6. QED
  BY <1>1, <1>2, <1>3, <1>4, <1>5 DEF Inv, WorkInv

LEMMA NextInv ==
  ASSUME Inv, [Next]_vars
  PROVE  Inv'
<1>1. ASSUME NEW w \in Workers, Start(w) \/ WorkerStep(w) \/ Die(w) PROVE Inv'
  BY <1>1, StartStep, MirrorStep, RecoverStep, TidyStep, CreateStep, LookStep, ClaimStep,
     ReclaimStep, SelectStep, PrepareStep, RaiseStep, FailureStep, OutsideStep DEF WorkerStep
<1>2. ASSUME NEW r \in Runs, approve_run(r) \/ cancel_run(r) \/ Publish(r) PROVE Inv'
  BY <1>2, RunStep
<1>3. CASE UNCHANGED vars
  <2>1. pc \in [Workers -> Steps] /\ lease \in Workers \cup {NoWorker} /\ latest \in [Issues -> Nat]
        /\ marker \in [Runs -> BOOLEAN] /\ mirror \in [Runs -> {"missing", "stale", "current"}]
    BY DEF Inv, TypeOK
  <2>2. NotBoth' /\ Alone' /\ MirrorIsCurrent'
    BY <1>3 DEF vars, rows, files, args, world, Inv, WorkInv, NotBoth, Alone, MirrorIsCurrent
  <2>3. QED
    BY <1>3, <2>1, <2>2, WorldStep DEF vars, rows, files, args, world
<1>4. QED
  BY <1>1, <1>2, <1>3, ExpireStep, OutsideStep DEF Next

\* The inductive invariant holds: the row properties, what each worker knows of
\* its run, and the mirror.
THEOREM InvHolds == Spec => []Inv
<1>1. Inv /\ [Next]_vars => Inv'
  BY NextInv
<1>2. QED
  BY InitInv, <1>1, PTL DEF Spec

\* Two runs never work on the same issue, or have a pull request for it: the
\* claim looks at every other run in the transaction that binds the issue, and
\* no run that ended ever starts again (claim_candidate, _save).
THEOREM OneAttemptPerIssueHolds == Spec => []OneAttemptPerIssue
<1>1. Inv => OneAttemptPerIssue
  BY DEF Inv, RowsInv
<1>2. QED
  BY InvHolds, <1>1, PTL

\* An issue on which a run ended is taken up again unchanged only with an
\* operator's authorization (claim_candidate, candidate_attempt_disposition).
THEOREM NoSilentRetryHolds == Spec => []NoSilentRetry
<1>1. Inv => NoSilentRetry
  BY DEF Inv, RowsInv
<1>2. QED
  BY InvHolds, <1>1, PTL

\* The evidence of every claimed issue passes the checks made when the store is
\* opened: in particular the run that an authorization names keeps the status it
\* had (_verify_candidate_retry_authorizations).  Mishap leaves out the histories in
\* which a worker is paused past its lease and a manifest file cannot be written.
THEOREM EvidenceVerifiesHolds == Spec => []EvidenceVerifies
<1>1. Inv => EvidenceVerifies
  BY DEF Inv, RowsInv
<1>2. QED
  BY InvHolds, <1>1, PTL

\* A run's manifest.json is its row, or the change is marked as not yet written,
\* whatever dies, fails or comes late (_synchronize_manifest_artifact).
THEOREM MirrorIsCurrentHolds == Spec => []MirrorIsCurrent
<1>1. Inv => MirrorIsCurrent
  BY DEF Inv
<1>2. QED
  BY InvHolds, <1>1, PTL
===============================================================================
