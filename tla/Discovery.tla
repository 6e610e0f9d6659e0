------------------------------ MODULE Discovery ------------------------------
(* How a run chooses its issue (discovery.py, ai_policy.py): the repositories in *)
(* order, their policy files at a pinned commit, the cached reading of their AI  *)
(* policy, the issues that are assessed, and the pick.  Meanwhile maintainers    *)
(* change their policies and write comments, and an operator releases holds.     *)
(*                                                                               *)
(* Labels, ages, scores' parts, competing pull requests and the other blockers   *)
(* of one issue or repository are a free choice.                                 *)
EXTENDS Naturals, Sequences, FiniteSets, Functions

CONSTANTS
    Repos,           \* sequence of repositories, by stars
    IssuesOf,        \* repository -> its issues, in the order the search lists them
    Score,           \* issue -> its score
    CandidateLimit,  \* budget.max_candidates_per_run
    MaxRuns,         \* discoveries
    MaxChanges,      \* changes of a policy and comments that turn automation away
    MaxElsewhere,    \* stops another command records meanwhile
    None

Repositories == {Repos[k] : k \in DOMAIN Repos}
Issues == UNION {Range(IssuesOf[r]) : r \in Repositories}

DiscoveryConstants ==
    /\ Repos \in Seq(Repositories) /\ IsInjective(Repos)
    /\ \A r \in Repositories : IssuesOf[r] \in Seq(Issues)
    /\ \A r1, r2 \in Repositories : r1 # r2 => Range(IssuesOf[r1]) \cap Range(IssuesOf[r2]) = {}
    /\ CandidateLimit \in Nat \ {0}
    /\ {MaxRuns, MaxChanges, MaxElsewhere} \subseteq Nat

TriageCandidates == 5
RepoOf(i) == CHOOSE r \in Repositories : i \in Range(IssuesOf[r])
Comments == 1 .. MaxChanges

\* What a policy file says of contributions made with AI: nothing, a ban, or
\* something that can be quoted for them.
Contents == {"silent", "ban", "open"}

VARIABLES
    head,       \* what the policy says now, in each repository and in the owner's .github
    stops,      \* issue -> its comments that turn automation away, oldest first
    holds,      \* comment -> its hold: none, active, released
    cache,      \* readings of AI policies
    attempted,  \* issues with an attempt
    pc, held, k, pin, orgPin, review,
    queue,      \* what the search found and is not looked at yet: places in IssuesOf
    eligible, ranked,
    winner,     \* the choice: the issue, the policy it was chosen under and its reading
    recorded,   \* the stops this discovery recorded
    runs, changes, elsewhere

world == <<head, stops, holds, changes, elsewhere>>
pass == <<pc, held, k, pin, orgPin, review, queue, eligible, ranked, winner, recorded>>
vars == <<world, cache, attempted, pass, runs>>

Unread == [stance |-> "unread", quotes |-> {}]

Init ==
    /\ head = [s \in Repositories \cup {"organization"} |-> "silent"]
    /\ stops = [i \in Issues |-> <<>>]
    /\ holds = [c \in Comments |-> "none"]
    /\ cache = {} /\ attempted = {}
    /\ pc = "idle" /\ held = {} /\ k = 0 /\ pin = None /\ orgPin = None
    /\ review = Unread /\ queue = {} /\ eligible = {} /\ ranked = {}
    /\ winner = None /\ recorded = {}
    /\ runs = 0 /\ changes = 0 /\ elsewhere = 0

------------------------------------------------------------------------------
(* The world. *)

Posted == {c \in Comments : \E i \in Issues : c \in Range(stops[i])}
MoreChanges == changes + Cardinality(Posted) < MaxChanges

ChangePolicy ==
    /\ MoreChanges
    /\ changes' = changes + 1
    /\ \E s \in DOMAIN head, c \in Contents : c # head[s] /\ head' = [head EXCEPT ![s] = c]
    /\ UNCHANGED <<stops, holds, elsewhere, cache, attempted, pass, runs>>

\* A maintainer turns away automated contributions on an issue.
PostStop ==
    /\ MoreChanges
    /\ \E i \in Issues, c \in Comments \ Posted :
          /\ \A d \in Comments \ Posted : c <= d
          /\ stops' = [stops EXCEPT ![i] = Append(@, c)]
    /\ UNCHANGED <<head, holds, changes, elsewhere, cache, attempted, pass, runs>>

Release ==
    /\ \E c \in Comments : holds[c] = "active" /\ holds' = [holds EXCEPT ![c] = "released"]
    /\ UNCHANGED <<head, stops, changes, elsewhere, cache, attempted, pass, runs>>

\* record_stop: a stop that was recorded once is never recorded again.
Stop(c) == holds' = [holds EXCEPT ![c] = IF @ = "none" THEN "active" ELSE @]

\* discover, in another process, assesses the issue.
RecordElsewhere ==
    /\ elsewhere < MaxElsewhere
    /\ elsewhere' = elsewhere + 1
    /\ \E i \in Issues : stops[i] # <<>> /\ Stop(Head(stops[i]))
    /\ UNCHANGED <<head, stops, changes, cache, attempted, pass, runs>>

------------------------------------------------------------------------------
(* One discovery. *)

Begin ==
    /\ pc = "idle" /\ runs < MaxRuns
    /\ runs' = runs + 1
    /\ held' = {RepoOf(i) : i \in {j \in Issues : \E c \in Range(stops[j]) : holds[c] = "active"}}
    /\ pc' = "repository" /\ k' = 1
    /\ pin' = None /\ orgPin' = None /\ review' = Unread
    /\ queue' = {} /\ eligible' = {} /\ ranked' = {}
    /\ winner' = None /\ recorded' = {}
    /\ UNCHANGED <<world, cache, attempted>>

\* A safety stop, a rate limit or a failure of local state ends it.
Fatal ==
    /\ pc \notin {"idle", "done"}
    /\ pc' = "idle" /\ held' = {} /\ k' = 0 /\ pin' = None /\ orgPin' = None
    /\ review' = Unread /\ queue' = {} /\ eligible' = {} /\ ranked' = {}
    /\ recorded' = {} /\ winner' = None
    /\ UNCHANGED <<world, cache, attempted, runs>>

Enough == Cardinality(eligible) >= CandidateLimit

NextRepository == pc' = "repository" /\ k' = k + 1 /\ pin' = None /\ queue' = {} /\ review' = Unread

\* Held, or one of the other reasons to pass it over, or an error of its own.
SkipRepository ==
    /\ pc = "repository" /\ k <= Len(Repos) /\ ~Enough
    /\ NextRepository
    /\ UNCHANGED <<world, cache, attempted, held, orgPin, eligible, ranked, winner, recorded, runs>>

\* One commit serves the whole discovery.
_pin_repository_ref(r) == head[r]
_organization_policy_ref == IF orgPin = None THEN head["organization"] ELSE orgPin

\* The commit is pinned and the search made.
Search ==
    /\ pc = "repository" /\ k <= Len(Repos) /\ ~Enough
    /\ Repos[k] \notin held
    /\ pin' = _pin_repository_ref(Repos[k])
    /\ queue' \in (SUBSET DOMAIN IssuesOf[Repos[k]]) \ {{}}
    /\ pc' = "review"
    /\ UNCHANGED <<world, cache, attempted, held, k, orgPin, review, eligible, ranked, winner,
                   recorded, runs>>

\* Mutant: a reading is kept for the repository, whatever its files say.
ai_policy_digest_repository(files) == {}

\* The files that mention AI (ai_policy_files) identify a reading.
ai_policy_digest(files) == {f \in files : f[2] # "silent"}

Texts(files) == {f[2] : f \in files}

deterministic_ai_policy(files) ==
    IF "ban" \in Texts(files) THEN [stance |-> "ban", quotes |-> {"ban"}]
    ELSE [stance |-> "none", quotes |-> {}]

\* What a model may claim; a passage may be invented.
Claims == [stance : {"ban", "permissive", "none", "unclear"}, quotes : SUBSET {"ban", "open", "invented"}]

checked_ai_policy(claimed, files, fallback) ==
    LET verified == claimed.quotes \cap Texts(files)
        evidenced == verified # {} \/ (claimed.stance = "none" /\ fallback.stance # "ban")
    IN  IF claimed.quotes = verified /\ evidenced THEN claimed
        ELSE IF claimed.stance \in {"ban", "unclear"} THEN [stance |-> "unclear", quotes |-> verified]
        ELSE fallback

\* _ai_policy: no file says anything, a cached reading of the same files, no
\* classifier, or a new reading that is checked and kept.
_ai_policy(r, files, reading) ==
    LET digest == ai_policy_digest(files)
        known == {e \in cache : e.repository = r /\ e.digest = digest}
        deterministic == deterministic_ai_policy(files)
    IN  IF \A f \in files : f[2] = "silent" THEN reading = deterministic /\ UNCHANGED cache
        ELSE IF known # {} THEN (\E e \in known : reading = e.reading) /\ UNCHANGED cache
        ELSE \/ reading = deterministic /\ UNCHANGED cache
             \/ \E claimed \in Claims :
                   /\ reading = checked_ai_policy(claimed, files, deterministic)
                   /\ cache' = cache \cup {[repository |-> r, digest |-> digest, reading |-> reading]}

\* Rules on who writes the text are among the other blockers.
_ai_policy_blocker(reading) == reading.stance \in {"ban", "unclear"}

Files == {<<"repository", pin>>, <<"organization", orgPin'>>}

\* _repository_review: the policies at both pinned commits; a blocker passes the
\* repository over.
Review ==
    /\ pc = "review"
    /\ orgPin' = _organization_policy_ref
    /\ \E reading \in Claims :
          /\ _ai_policy(Repos[k], Files, reading)
          /\ \/ /\ ~_ai_policy_blocker(reading)
                /\ review' = reading /\ pc' = "issue" /\ UNCHANGED <<k, pin, queue>>
             \/ NextRepository
    /\ UNCHANGED <<world, attempted, held, eligible, ranked, winner, recorded, runs>>

\* Files that could not be read: passed over, nothing is cached.
Unreadable ==
    /\ pc = "review"
    /\ orgPin' = _organization_policy_ref
    /\ NextRepository
    /\ UNCHANGED <<world, cache, attempted, held, eligible, ranked, winner, recorded, runs>>

Evaluation(i) == [issue |-> i, files |-> {<<"repository", pin>>, <<"organization", orgPin>>},
                  reading |-> review]

\* The newest of the issues that are left is looked at.
NextFound(n) == n \in queue /\ \A m \in queue : n <= m
Found(n) == IssuesOf[Repos[k]][n]

\* The repository's issues found so far are dropped with it.
Dropped(r) == {e \in eligible : RepoOf(e.issue) # r}

\* Another attempt, an error, or a blocker of its own where nothing is recorded.
PassOver ==
    /\ pc = "issue" /\ ~Enough
    /\ \E n \in queue : NextFound(n) /\ queue' = queue \ {n}
    /\ UNCHANGED <<world, cache, attempted, pc, held, k, pin, orgPin, review, eligible, ranked,
                   winner, recorded, runs>>

\* _assess of an issue whose discussion turns automation away: the first such
\* comment is recorded; when that is new the repository is left.
AssessStopped ==
    /\ pc = "issue" /\ ~Enough
    /\ \E n \in queue :
          /\ NextFound(n)
          /\ Found(n) \notin attempted /\ stops[Found(n)] # <<>>
          /\ LET c == Head(stops[Found(n)]) IN
             /\ Stop(c)
             /\ IF holds[c] = "none"
                THEN /\ recorded' = recorded \cup {c}
                     /\ eligible' = Dropped(Repos[k])
                     /\ NextRepository
                ELSE /\ queue' = queue \ {n}
                     /\ UNCHANGED <<recorded, eligible, pc, k, pin, review>>
    /\ UNCHANGED <<head, stops, changes, elsewhere, cache, attempted, held, orgPin, ranked, winner,
                   runs>>

AssessEligible ==
    /\ pc = "issue" /\ ~Enough
    /\ \E n \in queue :
          /\ NextFound(n)
          /\ Found(n) \notin attempted /\ stops[Found(n)] = <<>>
          /\ eligible' = eligible \cup {Evaluation(Found(n))}
          /\ queue' = queue \ {n}
    /\ UNCHANGED <<world, cache, attempted, pc, held, k, pin, orgPin, review, ranked, winner,
                   recorded, runs>>

LeaveRepository ==
    /\ pc = "issue" /\ (queue = {} \/ Enough)
    /\ NextRepository
    /\ UNCHANGED <<world, cache, attempted, held, orgPin, eligible, ranked, winner, recorded, runs>>

------------------------------------------------------------------------------
(* The pick. *)

AtLeast(e, d) == Score[e.issue] >= Score[d.issue]

\* The best-ranked issues, which triage may see.
Rank ==
    /\ pc = "repository" /\ (Enough \/ k > Len(Repos))
    /\ ranked' \in SUBSET eligible
    /\ \/ ranked' = eligible /\ Cardinality(ranked') < TriageCandidates
       \/ Cardinality(ranked') = TriageCandidates
    /\ \A e \in ranked', d \in eligible \ ranked' : AtLeast(e, d)
    /\ pc' = "select"
    /\ UNCHANGED <<world, cache, attempted, held, k, pin, orgPin, review, queue, eligible, winner,
                   recorded, runs>>

Best(e) == \A d \in ranked : AtLeast(e, d)

\* _select: triage takes the best that is left, or turns it down or fails.
Accept ==
    /\ pc = "select"
    /\ \E e \in ranked :
          /\ Best(e)
          /\ winner' = e
          /\ attempted' = attempted \cup {e.issue}
    /\ pc' = "done"
    /\ UNCHANGED <<world, cache, held, k, pin, orgPin, review, queue, eligible, ranked, recorded, runs>>

TurnDown ==
    /\ pc = "select"
    /\ \E e \in ranked : Best(e) /\ ranked' = ranked \ {e}
    /\ UNCHANGED <<world, cache, attempted, pc, held, k, pin, orgPin, review, queue, eligible,
                   winner, recorded, runs>>

NoCandidate ==
    /\ pc = "select" /\ ranked = {}
    /\ pc' = "done"
    /\ UNCHANGED <<world, cache, attempted, held, k, pin, orgPin, review, queue, eligible, ranked,
                   winner, recorded, runs>>

End ==
    /\ pc = "done"
    /\ pc' = "idle" /\ held' = {} /\ k' = 0 /\ pin' = None /\ orgPin' = None
    /\ review' = Unread /\ queue' = {} /\ eligible' = {} /\ ranked' = {}
    /\ recorded' = {} /\ winner' = None
    /\ UNCHANGED <<world, cache, attempted, runs>>

Next ==
    \/ ChangePolicy \/ PostStop \/ Release \/ RecordElsewhere
    \/ Begin \/ Fatal \/ SkipRepository \/ Search \/ Review \/ Unreadable
    \/ PassOver \/ AssessStopped \/ AssessEligible \/ LeaveRepository
    \/ Rank \/ Accept \/ TurnDown \/ NoCandidate \/ End

Spec == Init /\ [][Next]_vars

------------------------------------------------------------------------------
(* Properties. *)

\* Where the policy files at the pinned commits state a ban, an issue is chosen
\* only on a reading that quotes those very files: not on a reading of files that
\* have changed since, and not on a claim without a quote (_ai_policy,
\* checked_ai_policy).
BanNeedsQuote ==
    winner # None /\ "ban" \in Texts(winner.files)
        => /\ winner.reading.quotes # {}
           /\ winner.reading.quotes \subseteq Texts(winner.files)

\* An issue is never chosen in a repository that was held when discovery began, or
\* in which it recorded a stop, however many issues it had found there by then.
HeldIsLeftAlone ==
    winner # None
        => /\ RepoOf(winner.issue) \notin held
           /\ \A c \in recorded : \A i \in Range(IssuesOf[RepoOf(winner.issue)]) :
                  c \notin Range(stops[i])

===============================================================================
