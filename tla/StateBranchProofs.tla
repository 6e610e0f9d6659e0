------------------------- MODULE StateBranchProofs -------------------------
(***************************************************************************)
(* Proofs about StateBranch, for any number of runs, jobs, faults, re-runs   *)
(* and issues, with jobs of the group overlapping or not and a prepare job    *)
(* that may write anything.                                                  *)
(***************************************************************************)
EXTENDS StateBranch, FiniteSetTheorems, TLAPS

(***************************************************************************)
(* Types.  A held state is one a job can have read from the branch; it is    *)
(* known when the setup has created the branch.                              *)
(***************************************************************************)
States == [runs : [Runs -> Statuses], stopped : BOOLEAN, facts : SUBSET Jobs, noted : SUBSET Runs]
Known == {NoState} \cup States
Held == {NoBranch} \cup Known

Steps == InGroup \cup {"idle", "prepare", "prepared", "lost", "failed", "done", "approve"}

JobRec == [pc : Steps, base : Held, copy : Held, work : Held, tries : Nat,
           todo : SUBSET Runs, listed : SUBSET Nat, at : Nat, failed : BOOLEAN]
Issue == [run : Runs, open : BOOLEAN, label : BOOLEAN, whole : BOOLEAN, published : BOOLEAN]

Numbered == \E k \in Nat : issues \in [1..k -> Issue]

Types ==
    /\ branch \in Held
    /\ enabled => branch # NoBranch
    /\ job \in [Jobs -> JobRec]
    /\ Numbered

(***************************************************************************)
(* What a job carries.  The state a job is about to push extends the copy    *)
(* of the branch it was checked against, holds the job's own rows, and has    *)
(* no approved run that the copy did not have, but the one the owner's        *)
(* comment named.                                                            *)
(***************************************************************************)
Extends(copy, work) ==
    /\ copy.facts \subseteq work.facts
    /\ copy.stopped => work.stopped
    /\ \A r \in Runs : copy.runs[r] = "pr_open" => work.runs[r] = "pr_open"

Named(j, r) == j \in Approvals /\ issues[job[j].at].run = r

CarriesItsWork(j) ==
    job[j].pc = "push" =>
      /\ job[j].copy \in Known /\ job[j].work \in States
      /\ j \in job[j].work.facts
      /\ Extends(Store(job[j].copy), job[j].work)
      /\ \A r \in Runs : job[j].work.runs[r] \in Approved =>
            Store(job[j].copy).runs[r] \in Approved \/ Named(j, r)

Prepares(p) ==
    /\ job[p].pc # "idle" => branch # NoBranch
    /\ job[p].pc = "prepare" => job[p].base \in Known
    /\ job[p].pc \notin {"idle", "prepare", "lost"} =>
          job[p].work \in States /\ p \in job[p].work.facts
    /\ job[p].pc \in {"record", "push"} => job[p].copy \in Known

\* Alone in its group, a job that offers runs knows every open issue, and the one it
\* describes is the only open one of its run.
Offers(p) ==
    /\ job[p].pc \in {"describe", "closing"} => job[p].at \in Numbers
    /\ ~overlapped /\ job[p].pc \in {"offer", "describe"} =>
          \A n \in Numbers : issues[n].open => n \in job[p].listed
    /\ ~overlapped /\ job[p].pc = "describe" =>
          \A n \in Numbers : issues[n].open /\ issues[n].run = issues[job[p].at].run =>
             n = job[p].at

Answers(a) ==
    /\ job[a].pc = "idle" => job[a].at = 0
    /\ job[a].pc # "idle" => job[a].at \in Numbers /\ issues[job[a].at].whole
    /\ job[a].pc = "publish" => job[a].copy \in States

JobOk(j) ==
    /\ CarriesItsWork(j)
    /\ j \in Preps => Prepares(j) /\ Offers(j)
    /\ j \in Approvals => Answers(j)

Alone ==
    ~overlapped => \A i, j \in Jobs : job[i].pc \in InGroup /\ job[j].pc \in InGroup => i = j

LabelIsLast == \A n \in Numbers : issues[n].label => issues[n].whole

OneLabel ==
    ~overlapped => \A m, n \in Numbers :
      /\ issues[m].open /\ issues[m].label /\ issues[n].open /\ issues[n].label
      /\ issues[m].run = issues[n].run
      => m = n

Inv ==
    /\ Types
    /\ \A j \in Jobs : JobOk(j)
    /\ Alone /\ LabelIsLast /\ OneLabel
    /\ NothingSavedIsLost /\ ApprovedByOwner

(***************************************************************************)
(* Lemmas about states, steps and the fields of a job.                      *)
(***************************************************************************)
LEMMA NoneIsNoState ==
  /\ NoBranch # NoState /\ NoBranch \notin Known /\ NoState \notin States
  /\ NoBranch \in Held /\ NoState \in Held
<1>1. NoBranch # NoState
  BY DEF NoBranch, NoState
<1>2. \A s \in States : DOMAIN s = {"runs", "stopped", "facts", "noted"}
  BY DEF States
<1>3. DOMAIN NoBranch = {"none"} /\ DOMAIN NoState = {"none"}
  BY DEF NoBranch, NoState
<1>4. "runs" \notin {"none"}
  OBVIOUS
<1>5. NoBranch \notin States /\ NoState \notin States
  BY <1>2, <1>3, <1>4
<1>6. QED
  BY <1>1, <1>5 DEF Known, Held

LEMMA StoreIsState == ASSUME NEW s \in Known PROVE Store(s) \in States
<1>1. Empty \in States
  <2>1. None \in Statuses
    BY DEF Statuses
  <2>2. QED
    BY <2>1 DEF Empty, States
<1>2. QED
  BY <1>1, NoneIsNoState DEF Known, Store

LEMMA BranchHasState == ASSUME branch \in Held PROVE HasState <=> branch \in States
  BY NoneIsNoState DEF Held, Known, HasState

LEMMA StepNames ==
  /\ InGroup \subseteq Steps
  /\ {"idle", "prepare", "prepared", "lost", "failed", "done", "approve"} \subseteq Steps
  /\ {"record", "push", "list", "offer", "describe", "close", "closing", "relay", "publish",
      "report", "reporting"} \subseteq InGroup
  /\ InGroup \cap {"idle", "prepare", "prepared", "lost", "failed", "done", "approve"} = {}
  BY DEF Steps, InGroup

JobMap == [Jobs -> JobRec]

\* Setting one field of one job.
LEMMA PcSet == ASSUME NEW m \in JobMap, NEW j \in Jobs, NEW v \in Steps
               PROVE  [m EXCEPT ![j].pc = v] \in JobMap
  BY DEF JobMap, JobRec
LEMMA CopySet == ASSUME NEW m \in JobMap, NEW j \in Jobs, NEW v \in Held
                 PROVE  [m EXCEPT ![j].copy = v] \in JobMap
  BY DEF JobMap, JobRec
LEMMA WorkSet == ASSUME NEW m \in JobMap, NEW j \in Jobs, NEW v \in Held
                 PROVE  [m EXCEPT ![j].work = v] \in JobMap
  BY DEF JobMap, JobRec
LEMMA TriesSet == ASSUME NEW m \in JobMap, NEW j \in Jobs, NEW v \in Nat
                  PROVE  [m EXCEPT ![j].tries = v] \in JobMap
  BY DEF JobMap, JobRec
LEMMA TodoSet == ASSUME NEW m \in JobMap, NEW j \in Jobs, NEW v \in SUBSET Runs
                 PROVE  [m EXCEPT ![j].todo = v] \in JobMap
  BY DEF JobMap, JobRec
LEMMA ListedSet == ASSUME NEW m \in JobMap, NEW j \in Jobs, NEW v \in SUBSET Nat
                   PROVE  [m EXCEPT ![j].listed = v] \in JobMap
  BY DEF JobMap, JobRec
LEMMA AtSet == ASSUME NEW m \in JobMap, NEW j \in Jobs, NEW v \in Nat
               PROVE  [m EXCEPT ![j].at = v] \in JobMap
  BY DEF JobMap, JobRec
LEMMA FailedSet == ASSUME NEW m \in JobMap, NEW j \in Jobs, NEW v \in BOOLEAN
                   PROVE  [m EXCEPT ![j].failed = v] \in JobMap
  BY DEF JobMap, JobRec

\* What a move from one step to another leaves alone.
LEMMA Moves ==
  ASSUME job \in JobMap, NEW j \in Jobs, NEW step \in Steps, Go(j, step)
  PROVE  /\ job' \in JobMap /\ \A i \in Jobs : i # j => job'[i] = job[i]
         /\ job'[j].pc = step /\ job'[j].base = job[j].base /\ job'[j].copy = job[j].copy
         /\ job'[j].work = job[j].work /\ job'[j].at = job[j].at
         /\ job'[j].listed = job[j].listed
<1>1. job' \in JobMap
  BY PcSet DEF Go
<1>2. QED
  BY <1>1 DEF Go, JobMap, JobRec

----------------------------------------------------------------------------
(***************************************************************************)
(* One job's step does not disturb the others: issues are only added to,     *)
(* closed and completed, and the branch, once there, stays.                  *)
(***************************************************************************)
IssuesGrow ==
    /\ Numbered' /\ Numbers \subseteq Numbers'
    /\ \A n \in Numbers : /\ issues'[n].run = issues[n].run
                          /\ issues[n].whole => issues'[n].whole

NoneOpened == \A n \in Numbers' : issues'[n].open => n \in Numbers /\ issues[n].open

LEMMA OthersStay ==
  ASSUME Inv, NEW j \in Jobs, job' \in JobMap, \A i \in Jobs : i # j => job'[i] = job[i],
         UNCHANGED enabled, branch' \in Held, branch # NoBranch => branch' # NoBranch,
         overlapped => overlapped',
         job'[j].pc \in InGroup => \/ job[j].pc \in InGroup \/ overlapped'
                                   \/ \A i \in Jobs : job[i].pc \notin InGroup,
         IssuesGrow, NoneOpened \/ job[j].pc \in InGroup,
         JobOk(j)'
  PROVE  Types' /\ (\A i \in Jobs : JobOk(i)') /\ Alone'
<1>1. Types'
  BY DEF Inv, Types, IssuesGrow, JobMap
<1>2. ASSUME NEW i \in Jobs, i # j PROVE JobOk(i)'
  <2>1. JobOk(i) /\ job'[i] = job[i]
    BY <1>2 DEF Inv
  <2>2. CarriesItsWork(i)'
    <3>1. ASSUME NEW r \in Runs, Named(i, r), job[i].pc = "push" PROVE Named(i, r)'
      BY <2>1, <3>1 DEF JobOk, Answers, Named, IssuesGrow
    <3>2. QED
      BY <2>1, <3>1 DEF JobOk, CarriesItsWork
  <2>3. ASSUME i \in Preps PROVE Prepares(i)' /\ Offers(i)'
    <3>1. Prepares(i) /\ Offers(i)
      BY <2>1, <2>3 DEF JobOk
    <3>2. Prepares(i)'
      BY <2>1, <3>1 DEF Prepares
    <3>3. job[i].pc \in {"describe", "closing"} => job[i].at \in Numbers'
      BY <3>1 DEF Offers, IssuesGrow
    <3>4. ASSUME ~overlapped', job[i].pc \in {"offer", "describe"}
          PROVE  NoneOpened
      BY <1>2, <3>4, StepNames DEF Inv, Alone
    <3>5. ASSUME ~overlapped', job[i].pc \in {"offer", "describe"}, NEW n \in Numbers',
                 issues'[n].open
          PROVE  n \in Numbers /\ issues[n].open /\ n \in job[i].listed
                 /\ issues'[n].run = issues[n].run
      BY <3>1, <3>4, <3>5 DEF Offers, NoneOpened, IssuesGrow
    <3>6. ASSUME ~overlapped', job[i].pc = "describe", NEW n \in Numbers',
                 issues'[n].open, issues'[n].run = issues'[job[i].at].run
          PROVE  n = job[i].at
      <4>1. /\ n \in Numbers /\ issues[n].open /\ job[i].at \in Numbers
            /\ issues[n].run = issues[job[i].at].run
        BY <3>1, <3>5, <3>6 DEF Offers, IssuesGrow
      <4>2. QED
        BY <3>1, <3>6, <4>1 DEF Offers
    <3>7. Offers(i)'
      BY <2>1, <3>3, <3>5, <3>6 DEF Offers
    <3>8. QED
      BY <3>2, <3>7
  <2>4. ASSUME i \in Approvals PROVE Answers(i)'
    BY <2>1, <2>4 DEF JobOk, Answers, IssuesGrow
  <2>5. QED
    BY <2>2, <2>3, <2>4 DEF JobOk
<1>3. Alone'
  <2> SUFFICES ASSUME ~overlapped', NEW i \in Jobs, NEW k \in Jobs,
                      job'[i].pc \in InGroup, job'[k].pc \in InGroup
               PROVE  i = k
    BY DEF Alone
  <2>1. CASE i = j /\ k # j
    BY <2>1 DEF Inv, Alone
  <2>2. CASE i # j /\ k = j
    BY <2>2 DEF Inv, Alone
  <2>3. CASE i # j /\ k # j
    BY <2>3 DEF Inv, Alone
  <2>4. QED
    BY <2>1, <2>2, <2>3
<1>4. QED
  BY <1>1, <1>2, <1>3

\* The step of a job that writes neither the branch nor an issue.
LEMMA QuietStep ==
  ASSUME Inv, NEW j \in Jobs, job' \in JobMap, \A i \in Jobs : i # j => job'[i] = job[i],
         UNCHANGED <<branch, enabled, issues, saved>>, overlapped => overlapped',
         job'[j].pc \in InGroup => \/ job[j].pc \in InGroup \/ overlapped'
                                   \/ \A i \in Jobs : job[i].pc \notin InGroup,
         job'[j].at = job[j].at \/ job[j].pc = "idle" \/ j \in Preps,
         Preps \cap Approvals = {},
         JobOk(j)'
  PROVE  Inv'
<1>1. IssuesGrow /\ NoneOpened
  BY DEF IssuesGrow, NoneOpened, Inv, Types, Numbered, Numbers
<1>2. Types' /\ (\A i \in Jobs : JobOk(i)') /\ Alone'
  BY <1>1, OthersStay DEF Inv, Types
<1>3. LabelIsLast' /\ OneLabel' /\ NothingSavedIsLost'
  BY DEF Inv, LabelIsLast, OneLabel, NothingSavedIsLost, HasState, Numbers
<1>4. ApprovedByOwner'
  <2> SUFFICES ASSUME NEW r \in Runs, OnBranch(r)' \in Approved
               PROVE  \E a \in Approvals : job'[a].at \in Of(r)' /\ issues'[job'[a].at].whole
    BY DEF ApprovedByOwner
  <2>1. PICK a \in Approvals : job[a].at \in Of(r) /\ issues[job[a].at].whole
    BY DEF Inv, ApprovedByOwner, OnBranch, HasState
  <2>2. a \in Jobs /\ job[a].at \in Numbers /\ job[a].at # 0
    <3>1. job[a].at \in Numbers
      BY <2>1 DEF Of
    <3>2. PICK k \in Nat : issues \in [1..k -> Issue]
      BY DEF Inv, Types, Numbered
    <3>3. QED
      BY <2>1, <3>1, <3>2 DEF Numbers, Jobs
  <2>3. job'[a].at = job[a].at
    BY <2>2 DEF Inv, JobOk, Answers
  <2>4. QED
    BY <2>1, <2>3 DEF Of, Numbers
<1>5. QED
  BY <1>2, <1>3, <1>4 DEF Inv

----------------------------------------------------------------------------
(***************************************************************************)
(* Setup and the prepare job.                                               *)
(***************************************************************************)
LEMMA JobKinds ==
  /\ Preps \subseteq Jobs /\ Approvals \subseteq Jobs /\ Preps \cap Approvals = {}
  BY StateBranchConstants DEF Jobs

\* What belongs to no job.
LEMMA OutsideStep ==
  ASSUME Inv, \/ apply_setup
              \/ \E a \in Approvals : EditComment(a) \/ OpenedUnanswered(a)
              \/ UNCHANGED vars
  PROVE  Inv'
<1>1. /\ UNCHANGED <<job, issues, saved, overlapped>> /\ branch' \in Held
      /\ branch # NoBranch => branch' = branch
      /\ enabled' => branch' # NoBranch
      /\ branch = NoBranch => branch' \in {NoBranch, NoState}
  <2>1. CASE apply_setup
    BY <2>1, NoneIsNoState DEF apply_setup, github, bounds, Inv, Types
  <2>2. CASE \E a \in Approvals : EditComment(a) \/ OpenedUnanswered(a)
    <3>1. UNCHANGED <<job, issues, saved, overlapped, branch, enabled>>
      BY <2>2, Zenon DEF EditComment, OpenedUnanswered, github
    <3>2. branch \in Held /\ (enabled => branch # NoBranch)
      BY DEF Inv, Types
    <3>3. QED
      BY <3>1, <3>2
  <2>3. CASE UNCHANGED vars
    BY <2>3 DEF vars, Inv, Types
  <2>4. QED
    BY <2>1, <2>2, <2>3
<1>2. Types' /\ Alone' /\ LabelIsLast' /\ OneLabel'
  BY <1>1 DEF Inv, Types, Numbered, Alone, LabelIsLast, OneLabel, Numbers
<1>3. ASSUME NEW j \in Jobs PROVE JobOk(j)'
  <2>1. JobOk(j)
    BY DEF Inv
  <2>2. CarriesItsWork(j)'
    BY <1>1, <2>1 DEF JobOk, CarriesItsWork, Named
  <2>3. ASSUME j \in Preps PROVE Prepares(j)' /\ Offers(j)'
    BY <1>1, <2>1, <2>3 DEF JobOk, Prepares, Offers, Numbers
  <2>4. ASSUME j \in Approvals PROVE Answers(j)'
    BY <1>1, <2>1, <2>4 DEF JobOk, Answers, Numbers
  <2>5. QED
    BY <2>2, <2>3, <2>4 DEF JobOk
<1>4. HasState => UNCHANGED branch
  BY <1>1 DEF HasState
<1>5. HasState' => HasState
  BY <1>1 DEF HasState
<1>6. NothingSavedIsLost' /\ ApprovedByOwner'
  <2>1. NothingSavedIsLost'
    BY <1>1, <1>4 DEF Inv, NothingSavedIsLost, HasState
  <2>2. \A r \in Runs : OnBranch(r)' \in Approved => OnBranch(r) \in Approved
    <3> SUFFICES ASSUME NEW r \in Runs, OnBranch(r)' \in Approved PROVE OnBranch(r) \in Approved
      OBVIOUS
    <3>1. None \notin Approved
      BY DEF None, Approved
    <3>2. HasState'
      BY <3>1 DEF OnBranch
    <3>3. QED
      BY <1>4, <1>5, <3>2 DEF OnBranch
  <2>3. QED
    BY <1>1, <2>1, <2>2 DEF Inv, ApprovedByOwner, Of, Numbers
<1>7. QED
  BY <1>2, <1>3, <1>6 DEF Inv

LEMMA HonestIsState ==
  ASSUME NEW s \in States, NEW p \in Jobs, NEW t \in Honest(s, p) \cup Forged(s, p)
  PROVE  t \in States /\ p \in t.facts
<1>1. CASE t \in Honest(s, p)
  <2>1. t \in [runs : [Runs -> Statuses], stopped : {s.stopped, TRUE}, facts : {s.facts \cup {p}},
               noted : {s.noted \cup {r \in Runs : s.runs[r] = "pr_open"}, s.noted}]
    BY <1>1 DEF Honest
  <2>2. s.stopped \in BOOLEAN /\ s.facts \in SUBSET Jobs /\ s.noted \in SUBSET Runs
    BY DEF States
  <2>3. {s.stopped, TRUE} \subseteq BOOLEAN
    BY <2>2
  <2>4. QED
    BY <2>1, <2>2, <2>3 DEF States
<1>2. CASE t \in Forged(s, p)
  <2>1. t \in [runs : [Runs -> Statuses], stopped : BOOLEAN, facts : {s.facts \cup {p}, {p}},
               noted : {s.noted}]
    BY <1>2 DEF Forged
  <2>2. s.facts \in SUBSET Jobs /\ s.noted \in SUBSET Runs
    BY DEF States
  <2>3. QED
    BY <2>1, <2>2 DEF States
<1>3. QED
  BY <1>1, <1>2

LEMMA PrepareStep ==
  ASSUME Inv, NEW p \in Preps, actions_prepare(p) \/ export_state(p) \/ NextPreparation(p)
  PROVE  Inv'
<1> USE DEF bounds, github
<1>0. /\ job \in JobMap /\ p \in Jobs /\ p \notin Approvals /\ JobOk(p)
  BY JobKinds DEF Inv, Types, JobMap
<1>1. CASE actions_prepare(p)
  <2> DEFINE new == [Idle EXCEPT !.pc = "prepare", !.base = branch]
  <2>1. /\ job' = [job EXCEPT ![p] = new] /\ enabled
        /\ UNCHANGED <<branch, enabled, issues, saved, overlapped>>
    BY <1>1 DEF actions_prepare
  <2>2. branch \in Known
    BY <2>1 DEF Inv, Types, Held
  <2>3. new \in JobRec /\ new.pc = "prepare" /\ new.base = branch
    <3> DEFINE k == [Idle EXCEPT !.pc = "prepare"]
    <3>1. "idle" \in Steps /\ "prepare" \in Steps /\ branch \in Held /\ NoState \in Held
      BY <2>2, StepNames, NoneIsNoState DEF Held
    <3>2. Idle \in JobRec
      BY <3>1 DEF Idle, JobRec
    <3>3. k \in JobRec /\ k.pc = "prepare"
      BY <3>1, <3>2 DEF JobRec
    <3> HIDE DEF k
    <3>4. [k EXCEPT !.base = branch] \in JobRec /\ [k EXCEPT !.base = branch].pc = "prepare"
          /\ [k EXCEPT !.base = branch].base = branch
      BY <3>1, <3>3 DEF JobRec
    <3>5. QED
      BY <3>4 DEF k
  <2> HIDE DEF new
  <2>4. job' \in JobMap /\ job'[p] = new /\ \A i \in Jobs : i # p => job'[i] = job[i]
    BY <1>0, <2>1, <2>3 DEF JobMap
  <2>5. JobOk(p)'
    BY <1>0, <2>1, <2>2, <2>3, <2>4, NoneIsNoState
       DEF JobOk, CarriesItsWork, Prepares, Offers
  <2>6. job'[p].pc \notin InGroup
    BY <2>3, <2>4 DEF InGroup
  <2>7. QED
    BY <1>0, <2>1, <2>4, <2>5, <2>6, JobKinds, QuietStep
<1>2. CASE export_state(p)
  <2>0. job[p].pc = "prepare" /\ job[p].base \in Known /\ branch # NoBranch
    BY Zenon, <1>0, <1>2 DEF export_state, At, JobOk, Prepares
  <2> DEFINE s == Store(job[p].base)
  <2>1. PICK t \in Honest(s, p) \cup (IF Untrusted THEN Forged(s, p) ELSE {}) :
           job' = [job EXCEPT ![p].pc = "prepared", ![p].work = t, ![p].todo = t.noted \ s.noted]
    BY Zenon, <1>2 DEF export_state
  <2>2. t \in States /\ p \in t.facts
    <3>1. s \in States
      BY <2>0, StoreIsState
    <3> HIDE DEF s
    <3>2. QED
      BY <1>0, <2>1, <3>1, HonestIsState
  <2>3. UNCHANGED <<branch, enabled, issues, saved, overlapped>>
    BY Zenon, <1>2 DEF export_state
  <2>4. t \in Held /\ t.noted \ s.noted \in SUBSET Runs
    BY <2>2 DEF Held, Known, States
  <2> HIDE DEF s
  <2>5. job' \in JobMap
    <3> DEFINE k == [job EXCEPT ![p].pc = "prepared"]
               l == [k EXCEPT ![p].work = t]
    <3>1. k \in JobMap
      BY <1>0, StepNames, PcSet
    <3> HIDE DEF k
    <3>2. l \in JobMap
      BY <1>0, <2>4, <3>1, WorkSet
    <3> HIDE DEF l
    <3>3. [l EXCEPT ![p].todo = t.noted \ s.noted] \in JobMap
      BY <1>0, <2>4, <3>2, TodoSet
    <3>4. QED
      BY <2>1, <3>3 DEF k, l
  <2>6. /\ job'[p].pc = "prepared" /\ job'[p].work = t
        /\ \A i \in Jobs : i # p => job'[i] = job[i]
    BY <1>0, <2>1 DEF JobMap, JobRec
  <2>7. JobOk(p)'
    BY <1>0, <2>0, <2>2, <2>3, <2>6 DEF JobOk, CarriesItsWork, Prepares, Offers
  <2>8. job'[p].pc \notin InGroup
    BY <2>6 DEF InGroup
  <2>9. QED
    BY <1>0, <2>3, <2>5, <2>6, <2>7, <2>8, JobKinds, QuietStep
<1>3. CASE NextPreparation(p)
  <2>1. Go(p, "idle") /\ UNCHANGED <<branch, enabled, issues, saved, overlapped>>
    BY <1>3 DEF NextPreparation
  <2>2. /\ job' \in JobMap /\ \A i \in Jobs : i # p => job'[i] = job[i]
        /\ job'[p].pc = "idle"
    BY <1>0, <2>1, StepNames, Moves
  <2>3. JobOk(p)'
    BY <1>0, <2>2 DEF JobOk, CarriesItsWork, Prepares, Offers
  <2>4. job'[p].pc \notin InGroup
    BY <2>2 DEF InGroup
  <2>5. QED
    BY <1>0, <2>1, <2>2, <2>3, <2>4, JobKinds, QuietStep
<1>4. QED
  BY <1>1, <1>2, <1>3

----------------------------------------------------------------------------
(***************************************************************************)
(* Moves from one step to the next, and the record job up to its push.      *)
(***************************************************************************)
LEMMA MoveStep ==
  ASSUME Inv, NEW j \in Jobs, NEW step \in Steps, Go(j, step),
         UNCHANGED <<branch, enabled, issues, saved, overlapped>>,
         step \in InGroup => job[j].pc \in InGroup,
         step \notin {"idle", "push", "record", "prepare", "offer", "describe", "closing",
                      "publish"},
         job[j].pc # "idle",
         j \in Preps => step = "lost" \/ job[j].pc \notin {"prepare", "lost"}
  PROVE  Inv'
<1>1. job \in JobMap /\ JobOk(j)
  BY DEF Inv, Types, JobMap
<1>2. /\ job' \in JobMap /\ \A i \in Jobs : i # j => job'[i] = job[i]
      /\ job'[j].pc = step /\ job'[j].work = job[j].work /\ job'[j].at = job[j].at
  BY <1>1, Moves
<1>3. JobOk(j)'
  <2>1. CarriesItsWork(j)'
    BY <1>2 DEF CarriesItsWork
  <2>2. ASSUME j \in Preps PROVE Prepares(j)' /\ Offers(j)'
    BY <1>1, <1>2, <2>2 DEF JobOk, Prepares, Offers
  <2>3. ASSUME j \in Approvals PROVE Answers(j)'
    BY <1>1, <1>2, <2>3 DEF JobOk, Answers, Numbers
  <2>4. QED
    BY <2>1, <2>2, <2>3 DEF JobOk
<1>4. QED
  BY <1>2, <1>3, JobKinds, QuietStep

\* What a job that enters the group finds there.
LEMMA EntersAlone ==
  ASSUME Enters
  PROVE  /\ overlapped => overlapped'
         /\ overlapped' \/ \A i \in Jobs : job[i].pc \notin InGroup
  BY DEF Enters

LEMMA ActionsRecord ==
  ASSUME Inv, NEW p \in Preps, actions_record(p)
  PROVE  Inv'
<1>0. /\ job \in JobMap /\ p \in Jobs /\ p \notin Approvals /\ JobOk(p) /\ branch \in Held
  BY JobKinds DEF Inv, Types, JobMap
<1>1. /\ job[p].pc = "prepared"
      /\ job' = [job EXCEPT ![p].pc = "record", ![p].copy = branch, ![p].tries = 0,
                            ![p].failed = FALSE]
      /\ UNCHANGED <<branch, enabled, issues, saved>>
  BY DEF actions_record, At, github
<1>2. /\ overlapped => overlapped'
      /\ overlapped' \/ \A i \in Jobs : job[i].pc \notin InGroup
  BY EntersAlone DEF actions_record
<1>3. job' \in JobMap
  <2> DEFINE k == [job EXCEPT ![p].pc = "record"]
             l == [k EXCEPT ![p].copy = branch]
             m == [l EXCEPT ![p].tries = 0]
  <2>1. k \in JobMap
    BY <1>0, StepNames, PcSet
  <2> HIDE DEF k
  <2>2. l \in JobMap
    BY <1>0, <2>1, CopySet
  <2> HIDE DEF l
  <2>3. m \in JobMap
    BY <1>0, <2>2, TriesSet
  <2> HIDE DEF m
  <2>4. [m EXCEPT ![p].failed = FALSE] \in JobMap
    BY <1>0, <2>3, FailedSet
  <2>5. QED
    BY <1>1, <2>4 DEF k, l, m
<1>4. /\ job'[p].pc = "record" /\ job'[p].copy = branch /\ job'[p].work = job[p].work
      /\ \A i \in Jobs : i # p => job'[i] = job[i]
  BY <1>0, <1>1 DEF JobMap, JobRec
<1>5. branch \in Known
  BY <1>0, <1>1 DEF JobOk, Prepares, Held
<1>6. JobOk(p)'
  BY <1>0, <1>1, <1>4, <1>5, NoneIsNoState DEF JobOk, CarriesItsWork, Prepares, Offers
<1>7. QED
  BY <1>0, <1>1, <1>2, <1>3, <1>4, <1>6, JobKinds, QuietStep

\* What the checks of a prepared state let through.
LEMMA AssertedExtends ==
  ASSUME NEW old \in States, NEW new \in States, _assert_extends(old, new)
  PROVE  /\ Extends(old, new)
         /\ \A r \in Runs : new.runs[r] \in Approved => old.runs[r] \in Approved
<1>1. ASSUME NEW r \in Runs
      PROVE  /\ old.runs[r] = "pr_open" => new.runs[r] = "pr_open"
             /\ new.runs[r] \in Approved => old.runs[r] \in Approved
  <2>1. _preparation_may_change(old.runs[r], new.runs[r])
    BY DEF _assert_extends
  <2>2. QED
    BY <2>1 DEF _preparation_may_change, Approved, Waiting, Terminal
<1>2. QED
  BY <1>1 DEF _assert_extends, Extends

LEMMA RecordStep ==
  ASSUME Inv, NEW p \in Preps, Record(p)
  PROVE  Inv'
<1>0. /\ job \in JobMap /\ p \in Jobs /\ p \notin Approvals /\ JobOk(p)
      /\ job[p].pc = "record" /\ UNCHANGED <<branch, enabled, issues, saved, overlapped>>
  BY JobKinds DEF Inv, Types, JobMap, Record, At, github, bounds
<1>1. /\ job[p].copy \in Known /\ job[p].work \in States /\ p \in job[p].work.facts
      /\ branch # NoBranch
  BY <1>0 DEF JobOk, Prepares
<1>2. CASE _assert_extends(Store(job[p].copy), job[p].work) /\ Go(p, "push")
  <2>1. Store(job[p].copy) \in States
    BY <1>1, StoreIsState
  <2>2. /\ Extends(Store(job[p].copy), job[p].work)
        /\ \A r \in Runs : job[p].work.runs[r] \in Approved =>
              Store(job[p].copy).runs[r] \in Approved
    BY <1>1, <1>2, <2>1, AssertedExtends
  <2>3. /\ job' \in JobMap /\ \A i \in Jobs : i # p => job'[i] = job[i]
        /\ job'[p].pc = "push" /\ job'[p].copy = job[p].copy /\ job'[p].work = job[p].work
    BY <1>0, <1>2, StepNames, Moves
  <2>4. CarriesItsWork(p)'
    BY <1>1, <2>2, <2>3 DEF CarriesItsWork
  <2>5. Prepares(p)' /\ Offers(p)'
    BY <1>0, <1>1, <2>3 DEF Prepares, Offers
  <2>6. JobOk(p)'
    BY <1>0, <2>4, <2>5 DEF JobOk
  <2>7. job[p].pc \in InGroup
    BY <1>0, StepNames
  <2>8. QED
    BY <1>0, <2>3, <2>6, <2>7, JobKinds, QuietStep
<1>3. CASE Go(p, "list") \/ Go(p, "failed")
  <2>1. "list" \in Steps /\ "failed" \in Steps /\ job[p].pc \in InGroup
    BY <1>0, StepNames
  <2>2. QED
    BY <1>0, <1>3, <2>1, MoveStep
<1>4. QED
  BY <1>2, <1>3 DEF Record

LEMMA ListStep ==
  ASSUME Inv, NEW p \in Preps, List(p)
  PROVE  Inv'
<1> DEFINE open == {n \in Numbers : Open(n)}
<1>0. /\ job \in JobMap /\ p \in Jobs /\ p \notin Approvals /\ JobOk(p)
      /\ job[p].pc = "list" /\ UNCHANGED <<branch, enabled, issues, saved, overlapped>>
      /\ job' = [job EXCEPT ![p].pc = "offer", ![p].listed = open]
  BY JobKinds DEF Inv, Types, JobMap, List, At, github, bounds
<1>1. open \in SUBSET Nat
  <2>1. PICK k \in Nat : issues \in [1..k -> Issue]
    BY DEF Inv, Types, Numbered
  <2>2. QED
    BY <2>1 DEF Numbers
<1>2. \A n \in Numbers : issues[n].open => n \in open
  BY DEF Open
<1> HIDE DEF open
<1>3. job' \in JobMap
  <2> DEFINE k == [job EXCEPT ![p].pc = "offer"]
  <2>1. k \in JobMap
    BY <1>0, StepNames, PcSet
  <2> HIDE DEF k
  <2>2. [k EXCEPT ![p].listed = open] \in JobMap
    BY <1>0, <1>1, <2>1, ListedSet
  <2>3. QED
    BY <1>0, <2>2 DEF k
<1>4. /\ job'[p].pc = "offer" /\ job'[p].listed = open /\ job'[p].work = job[p].work
      /\ \A i \in Jobs : i # p => job'[i] = job[i]
  BY <1>0 DEF JobMap, JobRec
<1>5. CarriesItsWork(p)' /\ Prepares(p)'
  BY <1>0, <1>4 DEF JobOk, CarriesItsWork, Prepares
<1>6. Offers(p)'
  BY <1>0, <1>2, <1>4 DEF Offers, Numbers
<1>7. JobOk(p)' /\ job[p].pc \in InGroup
  BY <1>0, <1>5, <1>6, StepNames DEF JobOk
<1>8. QED
  BY <1>0, <1>3, <1>4, <1>7, JobKinds, QuietStep

\* The other steps of a record job that only move on, and an item of attention.
LEMMA RecordMoves ==
  ASSUME Inv, NEW p \in Preps,
         Offering(p) \/ Closing(p) \/ _relay_attention(p) \/ Recorded(p)
  PROVE  Inv'
<1> USE DEF bounds, github
<1>0. /\ job \in JobMap /\ p \in Jobs /\ p \notin Approvals /\ JobOk(p)
      /\ {"close", "relay", "done"} \subseteq Steps /\ {"offer", "close", "relay"} \subseteq InGroup
  BY JobKinds, StepNames DEF Inv, Types, JobMap
<1>1. CASE Offering(p)
  <2>1. /\ job[p].pc = "offer" /\ Go(p, "close")
        /\ UNCHANGED <<branch, enabled, issues, saved, overlapped>>
    BY <1>1 DEF Offering, At
  <2>2. QED
    BY <1>0, <2>1, MoveStep
<1>2. CASE Closing(p)
  <2>1. /\ job[p].pc = "close" /\ Go(p, "relay")
        /\ UNCHANGED <<branch, enabled, issues, saved, overlapped>>
    BY <1>2 DEF Closing, At
  <2>2. QED
    BY <1>0, <2>1, MoveStep
<1>3. CASE Recorded(p)
  <2>1. /\ job[p].pc = "relay" /\ Go(p, "done")
        /\ UNCHANGED <<branch, enabled, issues, saved, overlapped>>
    BY <1>3 DEF Recorded, At
  <2>2. QED
    BY <1>0, <2>1, MoveStep
<1>4. CASE _relay_attention(p)
  <2>1. /\ job[p].pc = "relay" /\ UNCHANGED <<branch, enabled, issues, saved, overlapped>>
    BY <1>4 DEF _relay_attention, At
  <2>2. PICK r \in job[p].todo : job' = [job EXCEPT ![p].todo = job[p].todo \ {r}]
    BY <1>4 DEF _relay_attention
  <2>3. job' \in JobMap
    <3>1. job[p].todo \ {r} \in SUBSET Runs
      BY <1>0 DEF JobMap, JobRec
    <3>2. QED
      BY <1>0, <2>2, <3>1, TodoSet
  <2>4. /\ job'[p].pc = "relay" /\ job'[p].work = job[p].work
        /\ \A i \in Jobs : i # p => job'[i] = job[i]
    BY <1>0, <2>1, <2>2 DEF JobMap, JobRec
  <2>5. CarriesItsWork(p)' /\ Prepares(p)' /\ Offers(p)'
    BY <1>0, <2>1, <2>4 DEF JobOk, CarriesItsWork, Prepares, Offers
  <2>6. JobOk(p)'
    BY <1>0, <2>5 DEF JobOk
  <2>7. QED
    BY <1>0, <2>1, <2>3, <2>4, <2>6, JobKinds, QuietStep
<1>5. QED
  BY <1>1, <1>2, <1>3, <1>4

----------------------------------------------------------------------------
(***************************************************************************)
(* Saving the state.  A push lands only on the copy that was checked, or on  *)
(* the state itself when an earlier push landed already.                     *)
(***************************************************************************)
LEMMA SavedBranch ==
  ASSUME Inv, NEW j \in Jobs, job[j].pc = "push",
         branch \in {job[j].copy, job[j].work}, branch' = job[j].work
  PROVE  /\ branch' \in States /\ j \in branch'.facts
         /\ HasState => /\ branch.facts \subseteq branch'.facts
                        /\ branch.stopped => branch'.stopped
                        /\ \A r \in Runs : branch.runs[r] = "pr_open" => branch'.runs[r] = "pr_open"
         /\ \A r \in Runs : branch'.runs[r] \in Approved =>
               OnBranch(r) \in Approved \/ Named(j, r)
<1> DEFINE copy == job[j].copy
           work == job[j].work
<1>1. /\ copy \in Known /\ work \in States /\ j \in work.facts /\ Extends(Store(copy), work)
      /\ \A r \in Runs : work.runs[r] \in Approved =>
            Store(copy).runs[r] \in Approved \/ Named(j, r)
  BY DEF Inv, JobOk, CarriesItsWork
<1>2. HasState <=> branch \in States
  BY BranchHasState DEF Inv, Types
<1>3. CASE branch = work
  BY <1>1, <1>2, <1>3 DEF OnBranch
<1>4. CASE branch = copy /\ copy \in States
  <2>1. Store(copy) = branch
    BY <1>4, NoneIsNoState DEF Store
  <2>2. \A r \in Runs : OnBranch(r) = branch.runs[r]
    BY <1>2, <1>4 DEF OnBranch
  <2>3. QED
    BY <1>1, <1>2, <2>1, <2>2 DEF Extends
<1>5. CASE branch = copy /\ copy = NoState
  <2>1. ~HasState
    BY <1>5 DEF HasState
  <2>2. \A r \in Runs : Store(copy).runs[r] \notin Approved
    BY <1>5 DEF Store, Empty, None, Approved
  <2>3. QED
    BY <1>1, <2>1, <2>2
<1>6. QED
  BY <1>1, <1>3, <1>4, <1>5 DEF Known

LEMMA BranchStep ==
  ASSUME Inv, NEW j \in Jobs, job' \in JobMap, \A i \in Jobs : i # j => job'[i] = job[i],
         job[j].pc = "push", branch \in {job[j].copy, job[j].work}, branch' = job[j].work,
         UNCHANGED <<enabled, issues, overlapped>>, saved' \subseteq saved \cup {j},
         job'[j].at = job[j].at, JobOk(j)'
  PROVE  Inv'
<1>1. IssuesGrow /\ NoneOpened
  BY DEF IssuesGrow, NoneOpened, Inv, Types, Numbered, Numbers
<1>2. /\ branch' \in States /\ j \in branch'.facts
      /\ HasState => branch.facts \subseteq branch'.facts
      /\ \A r \in Runs : branch'.runs[r] \in Approved => OnBranch(r) \in Approved \/ Named(j, r)
  BY SavedBranch
<1>3. branch' \in Held /\ branch' # NoBranch /\ HasState'
  BY <1>2, NoneIsNoState DEF Held, Known, HasState
<1>4. job[j].pc \in InGroup
  BY StepNames
<1>5. Types' /\ (\A i \in Jobs : JobOk(i)') /\ Alone'
  BY <1>1, <1>3, <1>4, OthersStay
<1>6. LabelIsLast' /\ OneLabel'
  BY DEF Inv, LabelIsLast, OneLabel, Numbers
<1>7. NothingSavedIsLost'
  <2>1. \A i \in saved : HasState /\ i \in branch.facts
    BY DEF Inv, NothingSavedIsLost
  <2>2. QED
    BY <1>2, <1>3, <2>1 DEF NothingSavedIsLost
<1>8. ApprovedByOwner'
  <2> SUFFICES ASSUME NEW r \in Runs, OnBranch(r)' \in Approved
               PROVE  \E a \in Approvals : job'[a].at \in Of(r)' /\ issues'[job'[a].at].whole
    BY DEF ApprovedByOwner
  <2>1. \A a \in Approvals : job'[a].at = job[a].at
    BY JobKinds
  <2>2. branch'.runs[r] \in Approved
    BY <1>3 DEF OnBranch
  <2>3. CASE OnBranch(r) \in Approved
    BY <2>1, <2>3 DEF Inv, ApprovedByOwner, Of, Numbers
  <2>4. CASE Named(j, r)
    <3>1. job[j].at \in Numbers /\ issues[job[j].at].whole /\ j \in Approvals
      BY <2>4 DEF Inv, JobOk, Answers, Named
    <3>2. QED
      BY <2>1, <2>4, <3>1 DEF Named, Of, Numbers
  <2>5. QED
    BY <1>2, <2>2, <2>3, <2>4
<1>9. QED
  BY <1>5, <1>6, <1>7, <1>8 DEF Inv

\* After a save, whatever came of it.
LEMMA SaveEnds ==
  ASSUME Inv, NEW j \in Jobs, job[j].pc = "push", UNCHANGED <<issues, overlapped>>,
         branch # NoBranch => branch' # NoBranch,
         Go(j, After(j)) \/ SaveFailed(j)
  PROVE  /\ job' \in JobMap /\ \A i \in Jobs : i # j => job'[i] = job[i]
         /\ job'[j].at = job[j].at /\ JobOk(j)'
<1> DEFINE next == IF j \in Preps THEN {"list", "failed"} ELSE {"report"}
<1>0. job \in JobMap /\ JobOk(j) /\ {"list", "report", "failed"} \subseteq Steps
  BY StepNames DEF Inv, Types, JobMap
<1>1. /\ job' \in JobMap /\ \A i \in Jobs : i # j => job'[i] = job[i]
      /\ job'[j].at = job[j].at /\ job'[j].work = job[j].work /\ job'[j].pc \in next
  <2>1. CASE Go(j, After(j))
    BY <1>0, <2>1, Moves DEF After
  <2>2. CASE SaveFailed(j)
    <3> DEFINE step == IF j \in Preps THEN "failed" ELSE "report"
               k == [job EXCEPT ![j].pc = step]
    <3>0. step \in Steps /\ step \in next
      BY <1>0
    <3>1. job' = [job EXCEPT ![j].pc = step, ![j].failed = TRUE]
      BY <2>2 DEF SaveFailed
    <3> HIDE DEF step, next
    <3>2. k \in JobMap
      BY <1>0, <3>0, PcSet
    <3> HIDE DEF k
    <3>3. [k EXCEPT ![j].failed = TRUE] \in JobMap
      BY <3>2, FailedSet
    <3>4. job' \in JobMap
      BY <3>1, <3>3 DEF k
    <3>5. QED
      BY <1>0, <3>0, <3>1, <3>4 DEF JobMap, JobRec
  <2>3. QED
    BY <2>1, <2>2
<1>2. CarriesItsWork(j)'
  BY <1>1 DEF CarriesItsWork
<1>3. ASSUME j \in Preps PROVE Prepares(j)' /\ Offers(j)'
  BY <1>0, <1>1, <1>3 DEF JobOk, Prepares, Offers
<1>4. ASSUME j \in Approvals PROVE Answers(j)'
  BY <1>0, <1>1, <1>4, JobKinds DEF JobOk, Answers, Numbers
<1>5. QED
  BY <1>1, <1>2, <1>3, <1>4 DEF JobOk

LEMMA SaveStep ==
  ASSUME Inv, NEW j \in Jobs, Saves(j) \/ PushErrs(j)
  PROVE  Inv'
<1> USE DEF bounds, github
<1>0. job \in JobMap /\ job[j].pc = "push" /\ JobOk(j) /\ job[j].pc \in InGroup
  BY StepNames DEF Inv, Types, JobMap, Saves, Push, Rejected, PushErrs, At
<1>1. UNCHANGED <<enabled, issues, overlapped>>
  BY DEF Saves, Push, Rejected, PushErrs
<1>2. job[j].work \in States /\ job[j].work # NoBranch
  BY <1>0, NoneIsNoState DEF JobOk, CarriesItsWork, Known
<1>3. CASE Push(j)
  <2>1. /\ branch \in {job[j].copy, job[j].work} /\ branch' = job[j].work
        /\ saved' = saved \cup {j} /\ Go(j, After(j))
    BY <1>3 DEF Push
  <2>2. QED
    BY <1>0, <1>1, <1>2, <2>1, SaveEnds, BranchStep
<1>4. CASE Rejected(j)
  <2>1. UNCHANGED <<branch, saved>> /\ SaveFailed(j)
    BY <1>4 DEF Rejected
  <2>2. QED
    BY <1>0, <1>1, <2>1, SaveEnds, JobKinds, QuietStep
<1>5. CASE PushErrs(j)
  <2>1. /\ UNCHANGED saved
        /\ \/ UNCHANGED branch
           \/ branch \in {job[j].copy, job[j].work} /\ branch' = job[j].work
        /\ SaveFailed(j) \/ job' = [job EXCEPT ![j].tries = job[j].tries + 1]
    BY <1>5 DEF PushErrs
  <2>2. branch # NoBranch => branch' # NoBranch
    BY <1>2, <2>1
  <2>3. /\ job' \in JobMap /\ \A i \in Jobs : i # j => job'[i] = job[i]
        /\ job'[j].at = job[j].at /\ JobOk(j)'
    <3>1. CASE SaveFailed(j)
      BY <1>0, <1>1, <2>2, <3>1, SaveEnds
    <3>2. CASE job' = [job EXCEPT ![j].tries = job[j].tries + 1]
      <4>1. job[j].tries + 1 \in Nat
        BY <1>0 DEF JobMap, JobRec
      <4>2. job' \in JobMap
        BY <1>0, <3>2, <4>1, TriesSet
      <4>3. /\ job'[j].pc = "push" /\ job'[j].copy = job[j].copy /\ job'[j].work = job[j].work
            /\ job'[j].at = job[j].at /\ \A i \in Jobs : i # j => job'[i] = job[i]
        BY <1>0, <3>2 DEF JobMap, JobRec
      <4>4. CarriesItsWork(j)'
        BY <1>0, <1>1, <4>3 DEF JobOk, CarriesItsWork, Named
      <4>5. ASSUME j \in Preps PROVE Prepares(j)' /\ Offers(j)'
        BY <1>0, <2>2, <4>3, <4>5 DEF JobOk, Prepares, Offers
      <4>6. ASSUME j \in Approvals PROVE Answers(j)'
        BY <1>0, <1>1, <4>3, <4>6 DEF JobOk, Answers, Numbers
      <4>7. QED
        BY <4>2, <4>3, <4>4, <4>5, <4>6 DEF JobOk
    <3>3. QED
      BY <2>1, <3>1, <3>2
  <2>4. CASE UNCHANGED branch
    BY <1>0, <1>1, <2>1, <2>3, <2>4, JobKinds, QuietStep
  <2>5. CASE branch \in {job[j].copy, job[j].work} /\ branch' = job[j].work
    BY <1>0, <1>1, <2>1, <2>3, <2>5, BranchStep
  <2>6. QED
    BY <2>1, <2>4, <2>5
<1>6. QED
  BY <1>3, <1>4, <1>5 DEF Saves

----------------------------------------------------------------------------
(***************************************************************************)
(* The approve job, and GitHub Actions.                                     *)
(***************************************************************************)
LEMMA ReadEvent ==
  ASSUME Inv, NEW a \in Approvals, read_approval_event(a)
  PROVE  Inv'
<1>0. /\ job \in JobMap /\ a \in Jobs /\ a \notin Preps /\ JobOk(a) /\ job[a].pc = "idle"
      /\ UNCHANGED <<branch, enabled, issues, saved, overlapped>>
  BY JobKinds DEF Inv, Types, JobMap, read_approval_event, At, github, bounds
<1>1. PICK n \in Numbers : Approvable(n) /\ job' = [job EXCEPT ![a].pc = "approve", ![a].at = n]
  BY DEF read_approval_event
<1>2. n \in Nat /\ issues[n].whole
  <2>1. PICK k \in Nat : issues \in [1..k -> Issue]
    BY DEF Inv, Types, Numbered
  <2>2. QED
    BY <1>1, <2>1 DEF Numbers, Approvable, Inv, LabelIsLast
<1>3. job' \in JobMap
  <2> DEFINE k == [job EXCEPT ![a].pc = "approve"]
  <2>1. k \in JobMap
    BY <1>0, StepNames, PcSet
  <2> HIDE DEF k
  <2>2. [k EXCEPT ![a].at = n] \in JobMap
    BY <1>0, <1>2, <2>1, AtSet
  <2>3. QED
    BY <1>1, <2>2 DEF k
<1>4. /\ job'[a].pc = "approve" /\ job'[a].at = n /\ \A i \in Jobs : i # a => job'[i] = job[i]
  BY <1>0, <1>1 DEF JobMap, JobRec
<1>5. JobOk(a)'
  BY <1>0, <1>1, <1>2, <1>4 DEF JobOk, CarriesItsWork, Answers, Numbers
<1>6. job'[a].pc \notin InGroup
  BY <1>4, StepNames
<1>7. QED
  BY <1>0, <1>3, <1>4, <1>5, <1>6, JobKinds, QuietStep

LEMMA ActionsApprove ==
  ASSUME Inv, NEW a \in Approvals, actions_approve(a)
  PROVE  Inv'
<1>0. /\ job \in JobMap /\ a \in Jobs /\ a \notin Preps /\ JobOk(a) /\ job[a].pc = "approve"
      /\ branch \in Held /\ UNCHANGED <<branch, enabled, issues, saved>>
  BY JobKinds DEF Inv, Types, JobMap, actions_approve, At, github
<1>1. /\ overlapped => overlapped'
      /\ overlapped' \/ \A i \in Jobs : job[i].pc \notin InGroup
  BY EntersAlone DEF actions_approve
<1>2. job[a].at \in Numbers /\ issues[job[a].at].whole
  BY <1>0 DEF JobOk, Answers
<1>3. CASE Go(a, "failed")
  <2>1. /\ job' \in JobMap /\ \A i \in Jobs : i # a => job'[i] = job[i]
        /\ job'[a].pc = "failed" /\ job'[a].at = job[a].at
    BY <1>0, <1>3, StepNames, Moves
  <2>2. JobOk(a)'
    BY <1>0, <1>2, <2>1 DEF JobOk, CarriesItsWork, Answers, Numbers
  <2>3. QED
    BY <1>0, <1>1, <2>1, <2>2, JobKinds, QuietStep
<1>4. CASE /\ branch \notin {NoBranch, NoState}
           /\ job' = [job EXCEPT ![a].pc = "publish", ![a].copy = branch, ![a].tries = 0,
                                 ![a].failed = FALSE]
  <2>1. job' \in JobMap
    <3> DEFINE k == [job EXCEPT ![a].pc = "publish"]
               l == [k EXCEPT ![a].copy = branch]
               m == [l EXCEPT ![a].tries = 0]
    <3>1. k \in JobMap
      BY <1>0, StepNames, PcSet
    <3> HIDE DEF k
    <3>2. l \in JobMap
      BY <1>0, <3>1, CopySet
    <3> HIDE DEF l
    <3>3. m \in JobMap
      BY <1>0, <3>2, TriesSet
    <3> HIDE DEF m
    <3>4. [m EXCEPT ![a].failed = FALSE] \in JobMap
      BY <1>0, <3>3, FailedSet
    <3>5. QED
      BY <1>4, <3>4 DEF k, l, m
  <2>2. /\ job'[a].pc = "publish" /\ job'[a].copy = branch /\ job'[a].at = job[a].at
        /\ \A i \in Jobs : i # a => job'[i] = job[i]
    BY <1>0, <1>4 DEF JobMap, JobRec
  <2>3. branch \in States
    BY <1>0, <1>4 DEF Held, Known
  <2>4. JobOk(a)'
    BY <1>0, <1>2, <2>2, <2>3 DEF JobOk, CarriesItsWork, Answers, Numbers
  <2>5. QED
    BY <1>0, <1>1, <2>1, <2>2, <2>4, JobKinds, QuietStep
<1>5. QED
  BY <1>3, <1>4 DEF actions_approve

\* Setting one field of a state, and states that agree in every field.
LEMMA RunSet == ASSUME NEW s \in States, NEW r \in Runs, NEW v \in Statuses
                PROVE  [s EXCEPT !.runs[r] = v] \in States
  BY DEF States
LEMMA StoppedSet == ASSUME NEW s \in States, NEW v \in BOOLEAN
                    PROVE  [s EXCEPT !.stopped = v] \in States
  BY DEF States
LEMMA FactsSet == ASSUME NEW s \in States, NEW v \in SUBSET Jobs
                  PROVE  [s EXCEPT !.facts = v] \in States
  BY DEF States
LEMMA SameState ==
  ASSUME NEW s \in States, NEW t \in States, s.stopped = t.stopped, s.facts = t.facts,
         s.noted = t.noted, \A r \in Runs : s.runs[r] = t.runs[r]
  PROVE  s = t
<1>1. s.runs = t.runs
  <2>1. s.runs \in [Runs -> Statuses] /\ t.runs \in [Runs -> Statuses]
    BY DEF States
  <2>2. QED
    BY <2>1
<1>2. QED
  BY <1>1 DEF States

\* What publish may make of the run: an open pull request stays one.
LEMMA OutcomesKeep ==
  ASSUME NEW s \in States, NEW r \in Runs, NEW to \in Outcomes(s, r)
  PROVE  to \in Statuses /\ (s.runs[r] = "pr_open" => to = "pr_open")
<1>1. s.runs[r] \in Statuses
  BY DEF States
<1>2. {"ready", "approved", "submitting", "pr_open", "failed"} \subseteq Statuses
  BY DEF Statuses, Active, Terminal
<1>3. CASE s.runs[r] = "ready"
  BY <1>2, <1>3 DEF Outcomes
<1>4. CASE s.runs[r] = "approved"
  BY <1>2, <1>4 DEF Outcomes
<1>5. CASE s.runs[r] = "submitting"
  BY <1>2, <1>5 DEF Outcomes
<1>6. CASE s.runs[r] \notin {"ready", "approved", "submitting"}
  BY <1>1, <1>6 DEF Outcomes
<1>7. QED
  BY <1>3, <1>4, <1>5, <1>6

LEMMA ApproveAndPublish ==
  ASSUME Inv, NEW a \in Approvals, _approve_and_publish(a)
  PROVE  Inv'
<1> DEFINE s == job[a].copy
           r == issues[job[a].at].run
<1>0. /\ job \in JobMap /\ a \in Jobs /\ a \notin Preps /\ JobOk(a) /\ job[a].pc = "publish"
      /\ UNCHANGED <<branch, enabled, issues, saved, overlapped>>
  BY JobKinds DEF Inv, Types, JobMap, _approve_and_publish, At, github, bounds
<1>1. s \in States /\ job[a].at \in Numbers /\ issues[job[a].at].whole
  BY <1>0 DEF JobOk, Answers
<1>2. r \in Runs
  <2>1. PICK k \in Nat : issues \in [1..k -> Issue]
    BY DEF Inv, Types, Numbered
  <2>2. QED
    BY <1>1, <2>1 DEF Numbers, Issue
<1>3. PICK to \in Outcomes(s, r), stop \in {s.stopped, TRUE} :
        job' = [job EXCEPT ![a].work = Published(s, a, r, to, stop),
                           ![a].pc = IF Published(s, a, r, to, stop) = s THEN "report" ELSE "push"]
  BY Zenon DEF _approve_and_publish
<1> DEFINE changed == to # s.runs[r] \/ stop # s.stopped
           facts == IF changed THEN s.facts \cup {a} ELSE s.facts
           u == [s EXCEPT !.runs[r] = to]
           v == [u EXCEPT !.stopped = stop]
           t == [v EXCEPT !.facts = facts]
           next == IF t = s THEN "report" ELSE "push"
<1>4. to \in Statuses /\ (s.runs[r] = "pr_open" => to = "pr_open")
  BY <1>1, <1>2, <1>3, OutcomesKeep
<1>5. s.stopped \in BOOLEAN /\ s.facts \in SUBSET Jobs /\ s.runs \in [Runs -> Statuses]
  BY <1>1 DEF States
<1>6. job' = [job EXCEPT ![a].work = t, ![a].pc = next]
  <2>1. t = Published(s, a, r, to, stop)
    BY <1>1, <1>2, <1>5 DEF Published, States
  <2> HIDE DEF t
  <2>2. QED
    BY <1>3, <2>1
<1> HIDE DEF s, r
<1>7. /\ u \in States /\ u.runs[r] = to /\ \A q \in Runs : q # r => u.runs[q] = s.runs[q]
      /\ u.stopped = s.stopped /\ u.facts = s.facts /\ u.noted = s.noted
  BY <1>1, <1>2, <1>4, <1>5, RunSet DEF States
<1> HIDE DEF u
<1>8. /\ v \in States /\ v.runs = u.runs /\ v.stopped = stop /\ v.facts = u.facts
      /\ v.noted = u.noted
  <2>1. stop \in BOOLEAN
    BY <1>3, <1>5
  <2>2. QED
    BY <1>7, <2>1, StoppedSet DEF States
<1> HIDE DEF v
<1>9. /\ t \in States /\ t.runs = u.runs /\ t.stopped = stop /\ t.facts = facts
      /\ t.noted = s.noted
  <2>1. facts \in SUBSET Jobs
    BY <1>0, <1>5
  <2> HIDE DEF facts
  <2>2. QED
    BY <1>7, <1>8, <2>1, FactsSet DEF States
<1> HIDE DEF t
<1>10. t # s => a \in t.facts
  <2> SUFFICES ASSUME ~changed PROVE t = s
    BY <1>9
  <2>1. \A q \in Runs : t.runs[q] = s.runs[q]
    BY <1>7, <1>9
  <2>2. QED
    BY <1>1, <1>9, <2>1, SameState
<1>11. /\ Extends(s, t)
       /\ \A q \in Runs : t.runs[q] \in Approved => s.runs[q] \in Approved \/ q = r
  <2>1. s.facts \subseteq t.facts
    BY <1>9
  <2>2. s.stopped => t.stopped
    BY <1>3, <1>9
  <2>3. \A q \in Runs : s.runs[q] = "pr_open" => t.runs[q] = "pr_open"
    BY <1>4, <1>7, <1>9
  <2>4. QED
    BY <1>7, <1>9, <2>1, <2>2, <2>3 DEF Extends
<1>12. next \in {"report", "push"} /\ (next = "push" => t # s)
  OBVIOUS
<1> HIDE DEF next
<1>13. job' \in JobMap
  <2> DEFINE k == [job EXCEPT ![a].work = t]
  <2>1. k \in JobMap
    BY <1>0, <1>9, WorkSet DEF Held, Known
  <2> HIDE DEF k
  <2>2. next \in Steps
    BY <1>12, StepNames
  <2>3. [k EXCEPT ![a].pc = next] \in JobMap
    BY <1>0, <2>1, <2>2, PcSet
  <2>4. QED
    BY <1>6, <2>3 DEF k
<1>14. /\ job'[a].pc = next /\ job'[a].work = t /\ job'[a].copy = job[a].copy
       /\ job'[a].at = job[a].at /\ \A i \in Jobs : i # a => job'[i] = job[i]
  BY <1>0, <1>6 DEF JobMap, JobRec
<1>15. CarriesItsWork(a)'
  <2> SUFFICES ASSUME next = "push"
               PROVE  /\ job'[a].copy \in Known /\ job'[a].work \in States
                      /\ a \in job'[a].work.facts
                      /\ Extends(Store(job'[a].copy), job'[a].work)
                      /\ \A q \in Runs : job'[a].work.runs[q] \in Approved =>
                            Store(job'[a].copy).runs[q] \in Approved \/ Named(a, q)'
    BY <1>14 DEF CarriesItsWork
  <2>1. Store(s) = s /\ s \in Known
    BY <1>1, NoneIsNoState DEF Store, Known
  <2>2. job'[a].copy = s
    BY <1>14 DEF s
  <2>3. \A q \in Runs : q = r => Named(a, q)'
    BY <1>0, <1>14 DEF Named, r
  <2>4. QED
    BY <1>9, <1>10, <1>11, <1>12, <1>14, <2>1, <2>2, <2>3
<1>16. JobOk(a)'
  BY <1>0, <1>1, <1>12, <1>14, <1>15 DEF JobOk, Answers, Numbers
<1>17. job[a].pc \in InGroup
  BY <1>0, StepNames
<1>18. QED
  BY <1>0, <1>13, <1>14, <1>16, <1>17, JobKinds, QuietStep

LEMMA ActionsStep ==
  ASSUME Inv, NEW j \in Jobs, CutOff(j) \/ Rerun(j)
  PROVE  Inv'
<1> USE DEF github, bounds
<1>0. /\ job \in JobMap /\ JobOk(j)
      /\ UNCHANGED <<branch, enabled, issues, saved, overlapped>>
  BY DEF Inv, Types, JobMap, CutOff, Rerun
<1>1. CASE CutOff(j)
  <2> DEFINE next == IF job[j].pc = "prepare" THEN "lost" ELSE "failed"
  <2>1. job[j].pc \in InGroup \cup {"prepare"} /\ Go(j, next)
    BY <1>1 DEF CutOff, At
  <2>2. job[j].pc # "idle" /\ (job[j].pc \in {"prepare", "lost"} => next = "lost")
    BY <2>1, StepNames
  <2>3. next \in Steps /\ next \notin InGroup /\ next \in {"lost", "failed"}
    BY StepNames
  <2> HIDE DEF next
  <2>4. QED
    BY <1>0, <2>1, <2>2, <2>3, MoveStep
<1>2. CASE Rerun(j)
  <2> DEFINE next == IF j \in Preps THEN "prepared" ELSE "approve"
             todo == IF j \in Preps
                     THEN job[j].work.noted \ Store(job[j].base).noted ELSE job[j].todo
  <2>1. /\ job[j].pc \in {"failed", "done"}
        /\ job' = [job EXCEPT ![j].pc = next, ![j].todo = todo]
    <3>1. job' = [job EXCEPT ![j].pc = next,
                             ![j].todo = IF j \in Preps
                                         THEN job[j].work.noted \ Store(job[j].base).noted ELSE @]
      BY <1>2 DEF Rerun
    <3>2. QED
      BY <1>0, <1>2, <3>1 DEF Rerun, JobMap, JobRec
  <2>2. todo \in SUBSET Runs
    <3>1. CASE j \in Preps
      BY <1>0, <2>1, <3>1 DEF JobOk, Prepares, States
    <3>2. CASE j \notin Preps
      BY <1>0, <3>2 DEF JobMap, JobRec
    <3>3. QED
      BY <3>1, <3>2
  <2>3. next \in Steps /\ next \notin InGroup /\ next \in {"prepared", "approve"}
        /\ (j \in Preps => next = "prepared")
    BY StepNames
  <2> HIDE DEF todo, next
  <2>4. job' \in JobMap
    <3> DEFINE k == [job EXCEPT ![j].pc = next]
    <3>1. k \in JobMap
      BY <1>0, <2>3, PcSet
    <3> HIDE DEF k
    <3>2. [k EXCEPT ![j].todo = todo] \in JobMap
      BY <2>2, <3>1, TodoSet
    <3>3. QED
      BY <2>1, <3>2 DEF k
  <2>5. /\ job'[j].pc = next /\ job'[j].work = job[j].work /\ job'[j].at = job[j].at
        /\ \A i \in Jobs : i # j => job'[i] = job[i]
    BY <1>0, <2>1 DEF JobMap, JobRec
  <2>6. CarriesItsWork(j)'
    BY <2>3, <2>5 DEF CarriesItsWork
  <2>7. ASSUME j \in Preps PROVE Prepares(j)' /\ Offers(j)'
    BY <1>0, <2>1, <2>3, <2>5, <2>7 DEF JobOk, Prepares, Offers
  <2>8. ASSUME j \in Approvals PROVE Answers(j)'
    BY <1>0, <2>1, <2>3, <2>5, <2>8 DEF JobOk, Answers, Numbers
  <2>9. JobOk(j)'
    BY <2>6, <2>7, <2>8 DEF JobOk
  <2>10. QED
    BY <1>0, <2>3, <2>4, <2>5, <2>9, JobKinds, QuietStep
<1>3. QED
  BY <1>1, <1>2

----------------------------------------------------------------------------
(***************************************************************************)
(* The issues.                                                              *)
(***************************************************************************)
LEMMA IssueStep ==
  ASSUME Inv, NEW j \in Jobs, job[j].pc \in InGroup, job' \in JobMap,
         \A i \in Jobs : i # j => job'[i] = job[i],
         UNCHANGED <<branch, enabled, saved, overlapped>>, IssuesGrow,
         job'[j].at = job[j].at \/ j \in Preps,
         JobOk(j)', LabelIsLast', OneLabel'
  PROVE  Inv'
<1>1. Types' /\ (\A i \in Jobs : JobOk(i)') /\ Alone'
  BY OthersStay DEF Inv, Types
<1>2. NothingSavedIsLost'
  BY DEF Inv, NothingSavedIsLost, HasState
<1>3. ApprovedByOwner'
  <2> SUFFICES ASSUME NEW r \in Runs, OnBranch(r)' \in Approved
               PROVE  \E a \in Approvals : job'[a].at \in Of(r)' /\ issues'[job'[a].at].whole
    BY DEF ApprovedByOwner
  <2>1. PICK a \in Approvals : job[a].at \in Of(r) /\ issues[job[a].at].whole
    BY DEF Inv, ApprovedByOwner, OnBranch, HasState
  <2>2. job'[a].at = job[a].at
    BY JobKinds
  <2>3. QED
    BY <2>1, <2>2 DEF Of, IssuesGrow
<1>4. QED
  BY <1>1, <1>2, <1>3 DEF Inv

\* Issues that are closed, completed or lose their label.
IssuesShrink ==
    /\ Numbers' = Numbers
    /\ \A n \in Numbers : /\ issues'[n].run = issues[n].run
                          /\ issues[n].whole => issues'[n].whole
                          /\ issues'[n].open => issues[n].open
                          /\ issues'[n].label => issues[n].label

LEMMA ShrinkKeeps ==
  ASSUME Inv, Numbered', IssuesShrink, UNCHANGED overlapped
  PROVE  IssuesGrow /\ LabelIsLast' /\ OneLabel'
<1>1. IssuesGrow
  BY DEF IssuesShrink, IssuesGrow
<1>2. LabelIsLast'
  BY DEF Inv, IssuesShrink, LabelIsLast
<1>3. OneLabel'
  BY DEF Inv, IssuesShrink, OneLabel
<1>4. QED
  BY <1>1, <1>2, <1>3

\* Setting fields of one issue.
LEMMA IssueLabelSet ==
  ASSUME NEW k \in Nat, NEW m \in [1..k -> Issue], NEW n \in 1..k, NEW v \in BOOLEAN
  PROVE  [m EXCEPT ![n].label = v] \in [1..k -> Issue]
  BY DEF Issue
LEMMA IssueWholeSet ==
  ASSUME NEW k \in Nat, NEW m \in [1..k -> Issue], NEW n \in 1..k, NEW v \in BOOLEAN
  PROVE  [m EXCEPT ![n].whole = v] \in [1..k -> Issue]
  BY DEF Issue
LEMMA IssuePublishedSet ==
  ASSUME NEW k \in Nat, NEW m \in [1..k -> Issue], NEW n \in 1..k, NEW v \in BOOLEAN
  PROVE  [m EXCEPT ![n].published = v] \in [1..k -> Issue]
  BY DEF Issue

LEMMA ClosedShrinks ==
  ASSUME Inv, NEW n \in Numbers, issues' = Closed(n)
  PROVE  Numbered' /\ IssuesShrink
<1>1. PICK k \in Nat : issues \in [1..k -> Issue]
  BY DEF Inv, Types, Numbered
<1>2. n \in 1..k /\ Numbers = 1..k
  BY <1>1 DEF Numbers
<1>3. issues' = [issues EXCEPT ![n].open = FALSE]
  BY DEF Closed
<1>4. issues' \in [1..k -> Issue]
  BY ZenonT(40), <1>1, <1>2, <1>3 DEF Issue
<1>5. Numbered'
  BY <1>4 DEF Numbered
<1>6. IssuesShrink
  BY <1>1, <1>2, <1>3, <1>4 DEF IssuesShrink, Numbers, Issue
<1>7. QED
  BY <1>5, <1>6

LEMMA UnlabelledShrinks ==
  ASSUME Inv, NEW n \in Numbers, NEW b \in BOOLEAN, issues' = Unlabelled(n, b)
  PROVE  Numbered' /\ IssuesShrink
<1>1. PICK k \in Nat : issues \in [1..k -> Issue]
  BY DEF Inv, Types, Numbered
<1>2. n \in 1..k /\ Numbers = 1..k
  BY <1>1 DEF Numbers
<1>3. issues' = [issues EXCEPT ![n].label = FALSE, ![n].published = b]
  BY DEF Unlabelled
<1>4. issues' \in [1..k -> Issue]
  <2> DEFINE m == [issues EXCEPT ![n].label = FALSE]
  <2>1. m \in [1..k -> Issue]
    BY <1>1, <1>2, IssueLabelSet
  <2> HIDE DEF m
  <2>2. [m EXCEPT ![n].published = b] \in [1..k -> Issue]
    BY <1>2, <2>1, IssuePublishedSet
  <2>3. QED
    BY <1>3, <2>2 DEF m
<1>5. Numbered'
  BY <1>4 DEF Numbered
<1>6. IssuesShrink
  BY <1>1, <1>2, <1>3, <1>4 DEF IssuesShrink, Numbers, Issue
<1>7. QED
  BY <1>5, <1>6

LEMMA CloseStep ==
  ASSUME Inv, NEW p \in Preps, Unlabel(p) \/ Close(p)
  PROVE  Inv'
<1> USE DEF bounds, github
<1>0. /\ job \in JobMap /\ p \in Jobs /\ p \notin Approvals /\ JobOk(p)
      /\ UNCHANGED <<branch, enabled, saved, overlapped>>
      /\ job[p].pc \in {"close", "closing"} /\ job[p].pc \in InGroup
  BY JobKinds, StepNames DEF Inv, Types, JobMap, Unlabel, Close, At
<1>1. ASSUME IssuesShrink, Numbered', job' \in JobMap, \A i \in Jobs : i # p => job'[i] = job[i],
             job'[p].pc \in {"close", "closing"}, job'[p].at \in Numbers,
             job'[p].work = job[p].work
      PROVE  Inv'
  <2>1. IssuesGrow /\ LabelIsLast' /\ OneLabel'
    BY <1>0, <1>1, ShrinkKeeps
  <2>2. CarriesItsWork(p)' /\ Prepares(p)'
    BY <1>0, <1>1 DEF JobOk, CarriesItsWork, Prepares
  <2>3. Offers(p)'
    BY <1>1 DEF Offers, IssuesShrink
  <2>4. JobOk(p)'
    BY <1>0, <2>2, <2>3 DEF JobOk
  <2>5. QED
    BY <1>0, <1>1, <2>1, <2>4, IssueStep
<1>2. CASE Unlabel(p)
  <2>1. PICK n \in Stale(p) :
           /\ issues' = Unlabelled(n, Status(p, issues[n].run) = "pr_open")
           /\ job' = [job EXCEPT ![p].pc = "closing", ![p].at = n]
    BY <1>2 DEF Unlabel
  <2>2. n \in Numbers /\ n \in Nat
    <3>1. n \in Numbers
      BY DEF Stale, Open
    <3>2. PICK k \in Nat : issues \in [1..k -> Issue]
      BY DEF Inv, Types, Numbered
    <3>3. QED
      BY <3>1, <3>2 DEF Numbers
  <2>3. IssuesShrink /\ Numbered'
    <3>1. (Status(p, issues[n].run) = "pr_open") \in BOOLEAN
      OBVIOUS
    <3>2. QED
      BY <2>1, <2>2, <3>1, UnlabelledShrinks
  <2>4. job' \in JobMap
    <3> DEFINE k == [job EXCEPT ![p].pc = "closing"]
    <3>1. k \in JobMap
      BY <1>0, StepNames, PcSet
    <3> HIDE DEF k
    <3>2. [k EXCEPT ![p].at = n] \in JobMap
      BY <1>0, <2>2, <3>1, AtSet
    <3>3. QED
      BY <2>1, <3>2 DEF k
  <2>5. /\ job'[p].pc = "closing" /\ job'[p].at = n /\ job'[p].work = job[p].work
        /\ \A i \in Jobs : i # p => job'[i] = job[i]
    BY <1>0, <2>1 DEF JobMap, JobRec
  <2>6. QED
    BY <1>1, <2>2, <2>3, <2>4, <2>5
<1>3. CASE Close(p)
  <2>1. job[p].pc = "closing" /\ issues' = Closed(job[p].at) /\ Go(p, "close")
    BY <1>3 DEF Close, At
  <2>2. job[p].at \in Numbers
    BY <1>0, <2>1 DEF JobOk, Offers
  <2>3. IssuesShrink /\ Numbered'
    BY <2>1, <2>2, ClosedShrinks
  <2>4. /\ job' \in JobMap /\ \A i \in Jobs : i # p => job'[i] = job[i]
        /\ job'[p].pc = "close" /\ job'[p].work = job[p].work /\ job'[p].at = job[p].at
    BY <1>0, <2>1, StepNames, Moves
  <2>5. job'[p].at \in Numbers
    BY <2>2, <2>4
  <2>6. QED
    BY <1>1, <2>3, <2>4, <2>5
<1>4. QED
  BY <1>2, <1>3

LEMMA ReportStep ==
  ASSUME Inv, NEW a \in Approvals, report_approval(a) \/ Reported(a)
  PROVE  Inv'
<1> USE DEF bounds, github
<1>0. /\ job \in JobMap /\ a \in Jobs /\ a \notin Preps /\ JobOk(a)
      /\ UNCHANGED <<branch, enabled, saved, overlapped>>
      /\ job[a].pc \in {"report", "reporting"} /\ job[a].pc \in InGroup
  BY JobKinds, StepNames DEF Inv, Types, JobMap, report_approval, Reported, At
<1>1. job[a].at \in Numbers /\ issues[job[a].at].whole
  BY <1>0 DEF JobOk, Answers
<1>2. ASSUME NEW step \in {"reporting", "done", "failed"}, Go(a, step),
             IssuesGrow, LabelIsLast', OneLabel'
      PROVE  Inv'
  <2>1. /\ job' \in JobMap /\ \A i \in Jobs : i # a => job'[i] = job[i]
        /\ job'[a].pc = step /\ job'[a].at = job[a].at
    BY <1>0, <1>2, StepNames, Moves
  <2>2. CarriesItsWork(a)'
    BY <2>1 DEF CarriesItsWork
  <2>3. Answers(a)'
    BY <1>1, <1>2, <2>1 DEF Answers, IssuesGrow
  <2>4. JobOk(a)'
    BY <1>0, <2>2, <2>3 DEF JobOk
  <2>5. QED
    BY <1>0, <1>2, <2>1, <2>4, IssueStep
<1>3. CASE report_approval(a)
  <2> DEFINE n == job[a].at
             status == Status(a, issues[n].run)
  <2>1. \/ issues' = Unlabelled(n, status = "pr_open") /\ Go(a, "reporting")
        \/ Go(a, IF job[a].failed THEN "failed" ELSE "done") /\ UNCHANGED issues
    BY <1>3 DEF report_approval
  <2>2. (status = "pr_open") \in BOOLEAN
    OBVIOUS
  <2> HIDE DEF status
  <2>3. CASE issues' = Unlabelled(n, status = "pr_open") /\ Go(a, "reporting")
    <3>1. IssuesShrink /\ Numbered'
      BY <1>1, <2>2, <2>3, UnlabelledShrinks
    <3>2. IssuesGrow /\ LabelIsLast' /\ OneLabel'
      BY <1>0, <3>1, ShrinkKeeps
    <3>3. QED
      BY <1>2, <2>3, <3>2
  <2>4. CASE Go(a, IF job[a].failed THEN "failed" ELSE "done") /\ UNCHANGED issues
    <3>1. IssuesShrink /\ Numbered'
      BY <2>4 DEF Inv, Types, Numbered, IssuesShrink, Numbers
    <3>2. IssuesGrow /\ LabelIsLast' /\ OneLabel'
      BY <1>0, <3>1, ShrinkKeeps
    <3>3. QED
      BY <1>2, <2>4, <3>2
  <2>5. QED
    BY <2>1, <2>3, <2>4
<1>4. CASE Reported(a)
  <2>1. issues' = Closed(job[a].at) /\ Go(a, IF job[a].failed THEN "failed" ELSE "done")
    BY <1>4 DEF Reported
  <2>2. IssuesShrink /\ Numbered'
    BY <1>1, <2>1, ClosedShrinks
  <2>3. IssuesGrow /\ LabelIsLast' /\ OneLabel'
    BY <1>0, <2>2, ShrinkKeeps
  <2>4. QED
    BY <1>2, <2>1, <2>3
<1>5. QED
  BY <1>3, <1>4

LEMMA OpenIssue ==
  ASSUME Inv, NEW p \in Preps, _open_approval_issue(p)
  PROVE  Inv'
<1>0. /\ job \in JobMap /\ p \in Jobs /\ p \notin Approvals /\ JobOk(p)
      /\ UNCHANGED <<branch, enabled, saved, overlapped>>
      /\ job[p].pc = "offer" /\ job[p].pc \in InGroup
  BY JobKinds, StepNames DEF Inv, Types, JobMap, _open_approval_issue, At, bounds
<1>1. PICK k \in Nat : issues \in [1..k -> Issue]
  BY DEF Inv, Types, Numbered
<1> DEFINE number == Cardinality(Numbers) + 1
<1>2. Numbers = 1..k /\ number = k + 1
  <2>1. Numbers = 1..k
    BY <1>1 DEF Numbers
  <2>2. Cardinality(1..k) = k
    BY FS_Interval
  <2>3. QED
    BY <2>1, <2>2
<1>3. PICK r \in Unoffered(p) :
        /\ issues' = [n \in 1..number |->
                        IF n = number THEN Created(r) ELSE CloseIncomplete(p, r)[n]]
        /\ job' = [job EXCEPT ![p].pc = "describe", ![p].at = number,
                              ![p].listed = (job[p].listed \ Listed(p, r)) \cup {number}]
  BY DEF _open_approval_issue
<1> HIDE DEF number
<1> DEFINE gone == Listed(p, r)
<1>4. r \in Runs
  BY DEF Unoffered
<1>5. /\ DOMAIN issues' = 1..number /\ number \in Nat /\ number \notin 1..k
      /\ 1..k \subseteq 1..number
      /\ \A n \in 1..number : n \in 1..k \/ n = number
      /\ number \in 1..number
  BY <1>2, <1>3
<1>6. /\ issues'[number].run = r /\ issues'[number].open /\ ~issues'[number].label
      /\ issues'[number] \in Issue
  BY <1>3, <1>4, <1>5 DEF Created, Issue
<1>7. ASSUME NEW n \in 1..k
      PROVE  /\ issues'[n] \in Issue
             /\ issues'[n].run = issues[n].run /\ issues'[n].label = issues[n].label
             /\ issues'[n].whole = issues[n].whole
             /\ issues'[n].open = (issues[n].open /\ n \notin gone)
  <2>1. issues'[n] = IF n \in gone THEN [issues[n] EXCEPT !.open = FALSE] ELSE issues[n]
    BY <1>2, <1>3, <1>5, <1>7 DEF CloseIncomplete
  <2>2. issues[n] \in Issue /\ issues[n].open \in BOOLEAN
    BY <1>1, <1>7 DEF Issue
  <2> HIDE DEF gone
  <2>3. CASE n \in gone
    BY <2>1, <2>2, <2>3 DEF Issue
  <2>4. CASE n \notin gone
    BY <2>1, <2>2, <2>4
  <2>5. QED
    BY <2>3, <2>4
<1>8. Numbers' = 1..number
  BY <1>5 DEF Numbers
<1>9. IssuesGrow
  <2>1. issues' \in [1..number -> Issue]
    <3>1. \A n \in 1..number : issues'[n] \in Issue
      BY <1>5, <1>6, <1>7
    <3>2. issues' = [n \in 1..number |-> issues'[n]]
      BY <1>3
    <3>3. QED
      BY <3>1, <3>2
  <2>2. Numbered'
    BY <1>5, <2>1 DEF Numbered
  <2>3. QED
    BY <1>2, <1>5, <1>7, <1>8, <2>2 DEF IssuesGrow
<1>10. LabelIsLast'
  BY <1>2, <1>5, <1>6, <1>7, <1>8 DEF Inv, LabelIsLast
<1>11. OneLabel'
  <2> SUFFICES ASSUME ~overlapped, NEW m \in 1..number, NEW n \in 1..number,
                      issues'[m].open, issues'[m].label, issues'[n].open, issues'[n].label,
                      issues'[m].run = issues'[n].run
               PROVE  m = n
    BY <1>0, <1>8 DEF OneLabel
  <2>1. m \in 1..k /\ n \in 1..k
    BY <1>5, <1>6
  <2>2. issues[m].open /\ issues[m].label /\ issues[n].open /\ issues[n].label
        /\ issues[m].run = issues[n].run
    BY <1>7, <2>1
  <2>3. QED
    BY <1>2, <2>1, <2>2 DEF Inv, OneLabel
<1>12. job' \in JobMap
  <2> DEFINE l == [job EXCEPT ![p].pc = "describe"]
             m == [l EXCEPT ![p].at = number]
             left == (job[p].listed \ gone) \cup {number}
  <2>1. l \in JobMap
    BY <1>0, StepNames, PcSet
  <2> HIDE DEF l
  <2>2. m \in JobMap
    BY <1>0, <1>5, <2>1, AtSet
  <2> HIDE DEF m
  <2>3. left \in SUBSET Nat
    BY <1>0, <1>5 DEF JobMap, JobRec
  <2> HIDE DEF left
  <2>4. [m EXCEPT ![p].listed = left] \in JobMap
    BY <1>0, <2>2, <2>3, ListedSet
  <2>5. QED
    BY <1>3, <2>4 DEF l, m, left
<1>13. /\ job'[p].pc = "describe" /\ job'[p].at = number /\ job'[p].work = job[p].work
       /\ job'[p].listed = (job[p].listed \ gone) \cup {number}
       /\ \A i \in Jobs : i # p => job'[i] = job[i]
  BY <1>0, <1>3 DEF JobMap, JobRec
<1>14. ASSUME ~overlapped, NEW n \in 1..number, issues'[n].open
       PROVE  /\ n \in job'[p].listed
              /\ issues'[n].run = r => n = number
  <2>1. CASE n = number
    BY <1>13, <2>1
  <2>2. CASE n \in 1..k
    <3>1. issues[n].open /\ n \notin gone
      BY <1>7, <1>14, <2>2
    <3>2. n \in job[p].listed
      BY <1>0, <1>2, <1>14, <2>2, <3>1 DEF JobOk, Offers
    <3>3. issues[n].run # r
      BY <3>1, <3>2 DEF Listed
    <3>4. QED
      BY <1>7, <1>13, <2>2, <3>1, <3>2, <3>3
  <2>3. QED
    BY <1>5, <1>14, <2>1, <2>2
<1>15. number \in 1..number
  BY <1>5
<1> HIDE DEF gone
<1>16. CarriesItsWork(p)' /\ Prepares(p)'
  BY <1>0, <1>13 DEF JobOk, CarriesItsWork, Prepares
<1>17. Offers(p)'
  BY <1>0, <1>6, <1>8, <1>13, <1>14, <1>15 DEF Offers
<1>18. JobOk(p)'
  BY <1>0, <1>16, <1>17 DEF JobOk
<1>19. QED
  BY <1>0, <1>9, <1>10, <1>11, <1>12, <1>13, <1>18, IssueStep

LEMMA DescribeStep ==
  ASSUME Inv, NEW p \in Preps, Describe(p) \/ Label(p)
  PROVE  Inv'
<1> USE DEF bounds
<1> DEFINE at == job[p].at
<1>0. /\ job \in JobMap /\ p \in Jobs /\ p \notin Approvals /\ JobOk(p)
      /\ UNCHANGED <<branch, enabled, saved, overlapped>>
      /\ job[p].pc = "describe" /\ job[p].pc \in InGroup
  BY JobKinds, StepNames DEF Inv, Types, JobMap, Describe, Label, At
<1>1. at \in Numbers /\ Offers(p)
  BY <1>0 DEF JobOk, Offers
<1>2. PICK k \in Nat : issues \in [1..k -> Issue]
  BY DEF Inv, Types, Numbered
<1>3. Numbers = 1..k /\ at \in 1..k
  BY <1>1, <1>2 DEF Numbers
<1>4. CASE Describe(p)
  <2>1. issues' = [issues EXCEPT ![at].whole = TRUE] /\ UNCHANGED job
    BY <1>4 DEF Describe
  <2>2. issues' \in [1..k -> Issue]
    BY <1>2, <1>3, <2>1, IssueWholeSet
  <2>3. Numbered' /\ Numbers' = Numbers
    BY <1>3, <2>2 DEF Numbered, Numbers
  <2>4. IssuesShrink /\ \A n \in Numbers : issues'[n].open = issues[n].open
    BY <1>2, <1>3, <2>1, <2>2, <2>3 DEF IssuesShrink, Issue
  <2>5. IssuesGrow /\ LabelIsLast' /\ OneLabel'
    BY <1>0, <2>3, <2>4, ShrinkKeeps
  <2>6. CarriesItsWork(p)' /\ Prepares(p)'
    BY <1>0, <2>1 DEF JobOk, CarriesItsWork, Prepares
  <2>7. Offers(p)'
    BY <1>0, <1>1, <2>1, <2>3, <2>4 DEF Offers, IssuesShrink
  <2>8. JobOk(p)'
    BY <1>0, <2>6, <2>7 DEF JobOk
  <2>9. QED
    BY <1>0, <2>1, <2>5, <2>8, IssueStep
<1>5. CASE Label(p)
  <2>1. /\ issues' = [issues EXCEPT ![at].label = TRUE] /\ issues[at].whole /\ Go(p, "offer")
    BY <1>5 DEF Label
  <2>2. issues' \in [1..k -> Issue]
    BY <1>2, <1>3, <2>1, IssueLabelSet
  <2>3. Numbered' /\ Numbers' = Numbers
    BY <1>3, <2>2 DEF Numbered, Numbers
  <2>4. \A n \in Numbers : /\ issues'[n].run = issues[n].run /\ issues'[n].whole = issues[n].whole
                           /\ issues'[n].open = issues[n].open
                           /\ n # at => issues'[n].label = issues[n].label
    BY ZenonT(40), <1>2, <1>3, <2>1, <2>2 DEF Issue
  <2>5. IssuesGrow
    BY <2>3, <2>4 DEF IssuesGrow
  <2>6. LabelIsLast'
    BY <2>1, <2>3, <2>4 DEF Inv, LabelIsLast
  <2>7. OneLabel'
    <3> SUFFICES ASSUME ~overlapped, NEW m \in Numbers, NEW n \in Numbers,
                        issues'[m].open, issues'[m].label, issues'[n].open, issues'[n].label,
                        issues'[m].run = issues'[n].run
                 PROVE  m = n
      BY <1>0, <2>3 DEF OneLabel
    <3>1. issues[m].open /\ issues[n].open /\ issues[m].run = issues[n].run
      BY <2>4
    <3>2. CASE m = at \/ n = at
      BY <1>0, <1>1, <3>1, <3>2 DEF Offers
    <3>3. CASE m # at /\ n # at
      BY <2>4, <3>1, <3>3 DEF Inv, OneLabel
    <3>4. QED
      BY <3>2, <3>3
  <2>8. /\ job' \in JobMap /\ \A i \in Jobs : i # p => job'[i] = job[i]
        /\ job'[p].pc = "offer" /\ job'[p].work = job[p].work /\ job'[p].listed = job[p].listed
    BY <1>0, <2>1, StepNames, Moves
  <2>9. CarriesItsWork(p)' /\ Prepares(p)'
    BY <1>0, <2>8 DEF JobOk, CarriesItsWork, Prepares
  <2>10. Offers(p)'
    BY <1>0, <1>1, <2>3, <2>4, <2>8 DEF Offers
  <2>11. JobOk(p)'
    BY <1>0, <2>9, <2>10 DEF JobOk
  <2>12. QED
    BY <1>0, <2>5, <2>6, <2>7, <2>8, <2>11, IssueStep
<1>6. QED
  BY <1>4, <1>5

----------------------------------------------------------------------------
(***************************************************************************)
(* Every step, and what follows.                                            *)
(***************************************************************************)
LEMMA InvInit == Init => Inv
<1> SUFFICES ASSUME Init PROVE Inv
  OBVIOUS
<1>1. /\ branch = NoBranch /\ enabled = FALSE /\ issues = <<>> /\ saved = {}
      /\ job = [j \in Jobs |-> Idle] /\ overlapped = FALSE
  BY DEF Init
<1>2. Idle \in JobRec /\ Idle.pc = "idle" /\ Idle.at = 0
  <2>1. "idle" \in Steps /\ NoState \in Held
    BY StepNames, NoneIsNoState
  <2>2. QED
    BY <2>1 DEF Idle, JobRec
<1>3. Numbered /\ Numbers = {}
  <2>1. issues \in [1..0 -> Issue]
    BY <1>1
  <2>2. QED
    BY <1>1, <2>1 DEF Numbered, Numbers
<1>4. Types
  BY <1>1, <1>2, <1>3, NoneIsNoState DEF Types
<1>5. ASSUME NEW j \in Jobs PROVE job[j].pc = "idle" /\ job[j].at = 0
  BY <1>1, <1>2
<1>6. \A j \in Jobs : JobOk(j)
  BY <1>5 DEF JobOk, CarriesItsWork, Prepares, Offers, Answers
<1>7. Alone
  BY <1>5, StepNames DEF Alone
<1>8. LabelIsLast /\ OneLabel
  BY <1>3 DEF LabelIsLast, OneLabel
<1>9. NothingSavedIsLost
  BY <1>1 DEF NothingSavedIsLost
<1>10. ApprovedByOwner
  <2>1. ~HasState
    BY <1>1 DEF HasState
  <2>2. None \notin Approved
    BY DEF None, Approved
  <2>3. QED
    BY <2>1, <2>2 DEF ApprovedByOwner, OnBranch
<1>11. QED
  BY <1>4, <1>6, <1>7, <1>8, <1>9, <1>10 DEF Inv

LEMMA InvNext == Inv /\ [Next]_vars => Inv'
<1> SUFFICES ASSUME Inv, [Next]_vars PROVE Inv'
  OBVIOUS
<1>1. CASE apply_setup \/ UNCHANGED vars
  BY <1>1, OutsideStep
<1>2. ASSUME NEW p \in Preps, PrepStep(p) PROVE Inv'
  BY <1>2, PrepareStep, ActionsRecord, RecordStep, ListStep, RecordMoves, CloseStep, OpenIssue,
     DescribeStep DEF PrepStep
<1>3. ASSUME NEW a \in Approvals, ApproveStep(a) PROVE Inv'
  BY <1>3, ActionsApprove, ApproveAndPublish, ReportStep DEF ApproveStep
<1>4. ASSUME NEW a \in Approvals, read_approval_event(a) \/ EditComment(a) \/ OpenedUnanswered(a)
      PROVE  Inv'
  BY <1>4, ReadEvent, OutsideStep
<1>5. ASSUME NEW j \in Jobs, Saves(j) \/ PushErrs(j) \/ CutOff(j) \/ Rerun(j) PROVE Inv'
  BY <1>5, SaveStep, ActionsStep
<1>6. QED
  BY <1>1, <1>2, <1>3, <1>4, <1>5 DEF Next

\* Every state a job can read, what every job carries and what the issues say, in every
\* reachable state (_assert_extends, StateBranch.save, sync_issues).
THEOREM InvHolds == Spec => []Inv
  BY InvInit, InvNext, PTL DEF Spec

\* No save drops what another job saved, for any number of jobs that overlap, whatever a
\* preparation wrote, with pushes that fail after they landed (StateBranch.save,
\* _assert_extends, apply_setup).
THEOREM NothingSavedIsLostHolds == Spec => []NothingSavedIsLost
<1>1. Inv => NothingSavedIsLost
  BY DEF Inv
<1>2. QED
  BY InvHolds, <1>1, PTL

\* A run the branch calls approved, submitting or open was named by a comment of the
\* owner on its complete issue, whatever a preparation wrote (_assert_extends,
\* read_approval_event).
THEOREM ApprovedByOwnerHolds == Spec => []ApprovedByOwner
<1>1. Inv => ApprovedByOwner
  BY DEF Inv
<1>2. QED
  BY InvHolds, <1>1, PTL

\* At most one open issue of a run carries the label, and only once every part of the
\* patch is there, as long as the jobs of the group ran one after the other
\* (_open_approval_issue, sync_issues).
THEOREM OneWholeIssueHolds == Spec => []OneWholeIssue
<1>1. Inv => OneWholeIssue
  <2> SUFFICES ASSUME Inv, ~overlapped, NEW r \in Runs
               PROVE  /\ Cardinality({n \in Of(r) : Open(n) /\ issues[n].label}) <= 1
                      /\ \A n \in Of(r) : issues[n].label => issues[n].whole
    BY DEF OneWholeIssue
  <2> DEFINE offered == {n \in Of(r) : Open(n) /\ issues[n].label}
  <2>1. \A m, n \in offered : m = n
    BY DEF Inv, OneLabel, Of, Open
  <2>2. offered = {} \/ \E n : offered = {n}
    BY <2>1
  <2> HIDE DEF offered
  <2>3. Cardinality(offered) <= 1
    <3>1. Cardinality(offered) \in {0, 1}
      BY <2>2, FS_EmptySet, FS_Singleton
    <3>2. QED
      BY <3>1
  <2>4. \A n \in Of(r) : issues[n].label => issues[n].whole
    BY DEF Inv, LabelIsLast, Of
  <2>5. QED
    BY <2>3, <2>4 DEF offered
<1>2. QED
  BY InvHolds, <1>1, PTL

\* A pull request the branch tracks stays tracked, and a safety stop the branch records
\* is not ended by any job, whatever a preparation wrote (_assert_extends).
THEOREM TrackedForGoodHolds == Spec => TrackedForGood
<1> DEFINE Tracked == HasState => /\ HasState'
                                  /\ branch.stopped => branch'.stopped
                                  /\ \A r \in Runs : OnBranch(r) = "pr_open" =>
                                        OnBranch(r)' = "pr_open"
<1>1. Inv /\ [Next]_vars => [Tracked]_vars
  <2> SUFFICES ASSUME Inv, Next PROVE Tracked
    OBVIOUS
  <2>1. CASE UNCHANGED branch
    BY <2>1 DEF HasState, OnBranch
  <2>2. CASE apply_setup
    BY <2>1, <2>2 DEF apply_setup, HasState
  <2>3. ASSUME NEW j \in Jobs, Push(j) \/ PushErrs(j), branch' # branch PROVE Tracked
    <3>1. /\ job[j].pc = "push" /\ branch \in {job[j].copy, job[j].work}
          /\ branch' = job[j].work
      BY <2>3 DEF Push, PushErrs, At
    <3>2. /\ branch' \in States
          /\ HasState => /\ branch.stopped => branch'.stopped
                         /\ \A r \in Runs : branch.runs[r] = "pr_open" =>
                                              branch'.runs[r] = "pr_open"
      BY <3>1, SavedBranch
    <3>3. HasState'
      BY <3>2, NoneIsNoState DEF HasState, Known
    <3>4. QED
      BY <3>2, <3>3 DEF OnBranch
  <2>4. ASSUME NEW p \in Preps, PrepStep(p) PROVE UNCHANGED branch
    BY Zenon, <2>4 DEF PrepStep, actions_prepare, export_state, actions_record, Record, List,
       _open_approval_issue, Describe, Label, Offering, Unlabel, Close, Closing, _relay_attention,
       Recorded, NextPreparation
  <2>5. ASSUME NEW a \in Approvals, ApproveStep(a) \/ read_approval_event(a) \/ EditComment(a)
                                    \/ OpenedUnanswered(a)
        PROVE  UNCHANGED branch
    BY Zenon, <2>5 DEF ApproveStep, actions_approve, _approve_and_publish, report_approval, Reported,
       read_approval_event, EditComment, OpenedUnanswered
  <2>6. ASSUME NEW j \in Jobs, Rejected(j) \/ CutOff(j) \/ Rerun(j) PROVE UNCHANGED branch
    BY <2>6 DEF Rejected, CutOff, Rerun
  <2>7. QED
    BY <2>1, <2>2, <2>3, <2>4, <2>5, <2>6 DEF Next, Saves
<1>2. QED
  BY InvHolds, <1>1, PTL DEF Spec, TrackedForGood
=============================================================================
