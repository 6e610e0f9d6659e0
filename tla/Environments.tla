----------------------------- MODULE Environments -----------------------------
(***************************************************************************)
(* The test environment of one repository (EnvironmentBuilder,             *)
(* EnvironmentSetup, ModelSetupAgent, the environment row of the store).   *)
(*                                                                         *)
(* Runs prepare it one after the other.  Between and during them the       *)
(* repository's dependency files change, the tag of the base image moves,  *)
(* Docker and the registry come and go, days pass and the process dies.    *)
(* A build is known by what went into it: the setup, the digest of the     *)
(* base image and the version of the dependency files.                     *)
(***************************************************************************)
EXTENDS Naturals

CONSTANTS
    Deps,           \* versions of the dependency files
    Digests,        \* what the tag of the base image may point to
    BlockDays,      \* ENVIRONMENT_FAILURE_BLOCK; 7 in the code
    MaxDays,        \* bound: days
    MaxChanges,     \* bound: changes of dependency files and of the tag
    DockerMayStop,  \* Docker may stop and start
    RegistryMayFail,\* the registry may be out of reach
    None            \* nothing

EnvironmentsConstants ==
    /\ Deps # {} /\ Digests # {}
    /\ BlockDays \in Nat \ {0} /\ MaxDays \in Nat /\ MaxChanges \in Nat
    /\ DockerMayStop \in BOOLEAN /\ RegistryMayFail \in BOOLEAN

VARIABLES
    day, changes,
    deps, tag,      \* the dependency files at the head, the digest behind the tag
    up,             \* Docker answers
    local,          \* the digest of the local copy of the base image
    images,         \* the tagged environment images: what built them, their tag (the key),
                    \* their labels, and what their archive holds
    row,            \* the repository's row in environment_recipes
    pc, p,          \* the run: where it is, and the locals of prepare
    prepared        \* history: the environment the last run accepted

world == <<day, changes, deps, tag, up>>
vars == <<world, local, images, row, pc, p, prepared>>

NoRow == [status |-> None, key |-> None, setup |-> None, at |-> 0, cause |-> None]
NotPrepared == [setup |-> None, base |-> None, deps |-> None, built |-> None, from |-> {}]

\* override: the configured setup; base: the one entry of _bases; setup, source,
\* key, fresh: the attempt; tried, failures, cause: what was tried and why it last
\* failed; out: whose output lies in the workspace; image: the image of the attempt.
Idle == [deps |-> None, override |-> None, base |-> None, setup |-> None, source |-> None,
         key |-> None, tried |-> {}, failures |-> FALSE, cause |-> None, out |-> {},
         image |-> None]

Init ==
    /\ day = 0 /\ changes = 0
    /\ deps \in Deps /\ tag \in Digests /\ up = TRUE
    /\ local = None
    /\ images = {}
    /\ row = NoRow
    /\ pc = "idle" /\ p = Idle
    /\ prepared = NotPrepared

------------------------------------------------------------------------------
(* The surroundings. *)

NextDay ==
    /\ day < MaxDays
    /\ day' = day + 1
    /\ UNCHANGED <<changes, deps, tag, up, local, images, row, pc, p, prepared>>

\* The repository's dependency files change, or a new image is pushed to the tag.
Change ==
    /\ changes < MaxChanges
    /\ changes' = changes + 1
    /\ \/ deps' \in Deps \ {deps} /\ UNCHANGED tag
       \/ tag' \in Digests \ {tag} /\ UNCHANGED deps
    /\ UNCHANGED <<day, up, local, images, row, pc, p, prepared>>

DockerStopsOrStarts ==
    /\ DockerMayStop
    /\ up' = ~up
    /\ UNCHANGED <<day, changes, deps, tag, local, images, row, pc, p, prepared>>

\* The run ends: with an environment, without one, with an error, or by dying.
Over == pc' = "idle" /\ p' = Idle

\* Docker, the model or the budget fails, or the process dies.  The row says
\* nothing of it.
RunFails ==
    /\ pc # "idle"
    /\ Over
    /\ UNCHANGED <<world, local, images, row, prepared>>

------------------------------------------------------------------------------
(* Keys, images and the row. *)

environment_cache_key(base, d) == <<base, d>>

environment_label(setup, key) == <<setup, key>>

\* Mutant: the tag decides.
Matching_tag(setup, key) == {i \in images : i.tag = key}

\* inspect_image of the tag, and its label.
Matching(setup, key) ==
    {i \in images : i.tag = key /\ environment_label(setup, key) \in i.labels}

\* pull_image: the tag is pulled every time; without the registry a local copy
\* serves, without that, or without Docker, there is none.
Pulled ==
    IF ~up THEN {None}
    ELSE {tag} \cup (IF RegistryMayFail THEN {local} ELSE {})

\* _base_image: a tag is resolved once in a prepare.
_base_image(b) ==
    IF p.base # None THEN b = p.base /\ UNCHANGED local
    ELSE b \in Pulled /\ local' = IF b = None THEN local ELSE b

\* mark_environment_failed
Failed(cause) ==
    row' = [status |-> "failed", key |-> None, setup |-> None, at |-> day, cause |-> cause]

\* environment_block
Blocked == row.status = "failed" /\ row.at + BlockDays > day

------------------------------------------------------------------------------
(* prepare. *)

\* A new clone; a block ends the run, and so does a Docker that does not answer.
prepare(override) ==
    /\ pc = "idle"
    /\ IF (override = None /\ Blocked) \/ ~up
       THEN UNCHANGED <<pc, p>>
       ELSE /\ pc' = IF override = None THEN "cached" ELSE "detect"
            /\ p' = [Idle EXCEPT !.deps = deps, !.override = override]
    /\ prepared' = NotPrepared
    /\ UNCHANGED <<world, local, images, row>>

Attempt(q, setup, source, key) ==
    /\ pc' = "attempt"
    /\ p' = [q EXCEPT !.setup = setup, !.source = source, !.key = key,
                      !.tried = @ \cup {setup}]

\* The stored recipe is tried while its key is that of the current base image and
\* dependency files.
Current(b) == b # None /\ row.key = environment_cache_key(b, p.deps)

TryCached ==
    /\ pc = "cached"
    /\ IF row.status = "ok"
       THEN \E b \in Digests \cup {None} :
               /\ _base_image(b)
               /\ LET q == [p EXCEPT !.base = b] IN
                  IF Current(b) THEN Attempt(q, row.setup, "cached", row.key)
                  ELSE pc' = "detect" /\ p' = q
       ELSE pc' = "detect" /\ UNCHANGED <<p, local>>
    /\ UNCHANGED <<world, images, row, prepared>>

\* Detection, completed by an override, unless the same setup was tried.
TryDetected ==
    /\ pc = "detect"
    /\ LET setup == IF p.override = None THEN "detected" ELSE p.override IN
       IF setup \in p.tried THEN pc' = "failed" /\ UNCHANGED p
       ELSE Attempt(p, setup, "detected", None)
    /\ UNCHANGED <<world, local, images, row, prepared>>

\* Detection finds no recipe: the repository is blocked unless one was tried.
DetectionFails ==
    /\ pc = "detect"
    /\ IF p.failures THEN pc' = "failed" /\ UNCHANGED <<p, row>>
       ELSE Failed("recipe") /\ Over
    /\ UNCHANGED <<world, local, images, prepared>>

\* The attempt fails; the next one is detection after a cached recipe, else the
\* setup agent, else the repository is blocked.
AttemptFails(cause, out) ==
    /\ p' = [p EXCEPT !.failures = TRUE, !.cause = cause, !.out = out, !.image = None]
    /\ pc' = CASE p.source = "cached" -> "detect"
               [] p.source = "agent" -> "blocked"
               [] OTHER -> "failed"

\* restore_base and remove_ignored, when an earlier attempt failed.
Replay == IF p.failures THEN {} ELSE p.out

\* _attempt begins: the workspace is put back, the base image resolved.
BeginAttempt ==
    /\ pc = "attempt"
    /\ \E b \in Digests \cup {None} :
          /\ _base_image(b)
          /\ IF b = None THEN AttemptFails(IF up THEN "recipe" ELSE "docker", Replay)
             ELSE /\ p' = [p EXCEPT !.base = b, !.out = Replay,
                             !.key = IF @ = None THEN environment_cache_key(b, p.deps) ELSE @]
                  /\ pc' = IF p.source = "agent" THEN "build" ELSE "reuse"
    /\ UNCHANGED <<world, images, row, prepared>>

\* restore_base cannot undo what an earlier attempt left.
ReplayFails ==
    /\ pc = "attempt" /\ p.failures
    /\ AttemptFails("recipe", p.out)
    /\ UNCHANGED <<world, local, images, row, prepared>>

\* EnvironmentSetup.reuse: an image with this label, whose archive is put back.
\* Otherwise one is built, over what an archive left.
Reuse ==
    /\ pc = "reuse" /\ up
    /\ \/ /\ Matching(p.setup, p.key) = {} /\ pc' = "build" /\ UNCHANGED p
       \/ \E i \in Matching(p.setup, p.key) :
             LET out == p.out \cup i.from IN
             \/ pc' = "baseline" /\ p' = [p EXCEPT !.image = i, !.out = out]
             \/ pc' = "build" /\ p' = [p EXCEPT !.out = out]
             \/ AttemptFails("recipe", out)
    /\ UNCHANGED <<world, local, images, row, prepared>>

\* EnvironmentSetup.build: a step fails, or the container is committed, with the
\* label when the workspace output could be archived.
Build ==
    /\ pc = "build" /\ up
    /\ LET built == <<p.setup, p.base, p.deps>>
           out == p.out \cup {built}
       IN \/ AttemptFails("recipe", out)
          \/ \E archived \in BOOLEAN :
                /\ pc' = "tag"
                /\ p' = [p EXCEPT !.out = out,
                                  !.image = [built |-> built, tag |-> p.key,
                                             from |-> IF archived THEN out ELSE {},
                                             labels |-> IF archived
                                                        THEN {environment_label(p.setup, p.key)}
                                                        ELSE {}]]
    /\ UNCHANGED <<world, local, images, row, prepared>>

\* tag_image: the images under the repository's other tags are deleted; one that
\* had this tag loses it.
tag_image(i) ==
    /\ images' = {i}

\* The image is tagged; an agent's recipe that changed tracked files fails.
Tag ==
    /\ pc = "tag" /\ up
    /\ tag_image(p.image)
    /\ \/ /\ p.source = "agent" /\ AttemptFails("recipe", p.out)
       \/ pc' = "baseline" /\ UNCHANGED p
    /\ UNCHANGED <<world, local, row, prepared>>

\* The snapshot and its baseline, accepted or not, and save_environment.
Baseline ==
    /\ pc = "baseline" /\ up
    /\ \/ AttemptFails("recipe", p.out) /\ UNCHANGED <<row, prepared>>
       \/ /\ row' = [status |-> "ok", key |-> p.key, setup |-> p.setup, at |-> day,
                     cause |-> None]
          /\ prepared' = [setup |-> p.setup, base |-> p.base, deps |-> p.deps,
                          built |-> p.image.built, from |-> p.out]
          /\ Over
    /\ UNCHANGED <<world, local, images>>

\* propose_recipe: the agent works in the workspace and submits a recipe that the
\* policy admits, or ends without one.
SetupAgent ==
    /\ pc = "failed"
    /\ \/ pc' = "blocked" /\ UNCHANGED p
       \/ /\ up
          /\ Attempt([p EXCEPT !.out = @ \cup {<<"session", None, None>>}], "agent", "agent", None)
    /\ UNCHANGED <<world, local, images, row, prepared>>

\* No recipe works.
Unavailable ==
    /\ pc = "blocked"
    /\ Failed(p.cause)
    /\ Over
    /\ UNCHANGED <<world, local, images, prepared>>

Next ==
    \/ NextDay \/ Change \/ DockerStopsOrStarts \/ RunFails
    \/ \E o \in {None, "detected", "config"} : prepare(o)
    \/ TryCached \/ TryDetected \/ DetectionFails \/ BeginAttempt \/ ReplayFails
    \/ Reuse \/ Build \/ Tag \/ Baseline \/ SetupAgent \/ Unavailable

Spec == Init /\ [][Next]_vars

------------------------------------------------------------------------------
(* Properties. *)

\* An accepted environment runs in an image that was built from its own setup, on
\* the base image this run resolved and with this run's dependency files, however
\* long ago another run built it (environment_cache_key, environment_label).
ImageMatches ==
    prepared.setup # None => prepared.built = <<prepared.setup, prepared.base, prepared.deps>>

\* The tests of an accepted environment ran over the clone and the output of its
\* own setup: nothing that an earlier attempt, the setup agent's session or an
\* archive of other content left (_attempt, remove_ignored, _archive_ignored).
SnapshotIsClean ==
    prepared.setup # None =>
        prepared.from \subseteq {<<prepared.setup, prepared.base, prepared.deps>>}

===============================================================================
