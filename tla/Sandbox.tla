-------------------------------- MODULE Sandbox --------------------------------
(***************************************************************************)
(* The containers of runs (sandbox.py): a session executes commands in a   *)
(* container with the workspace mounted, a setup session has a network     *)
(* with a proxy of its own, and each run first removes what dead ones left.*)
(*                                                                         *)
(* Every call to Docker may fail or time out.  A command may leave         *)
(* processes behind, some of which the command user cannot signal.         *)
(***************************************************************************)
EXTENDS Naturals

CONSTANTS
    MaxRuns,        \* bound: run ids, used again once nothing of them is left
    KillMayFail     \* docker kill and docker rm may fail too

ASSUME SandboxConstants == MaxRuns \in Nat \ {0} /\ KillMayFail \in BOOLEAN

RunIds == 1 .. MaxRuns
ReapAttempts == 3                       \* _REAP_ATTEMPTS
Processes == {"none", "own", "foreign"} \* left by a command: foreign ones run as another user
States == {"running", "stopped", "oom"}

VARIABLES
    pc,         \* the worker; idle between runs, host: the host reads the workspace
    run,        \* its run; 0: none
    status,     \* RunIds -> none, unfinished or finished
    things,     \* containers and networks: run, kind
    setup,      \* it is a setup session
    state,      \* of the session's container
    procs,      \* left in it
    stray,      \* a replaced container of the session still has processes
    reaps

vars == <<pc, run, status, things, setup, state, procs, stray, reaps>>
session == <<setup, state, procs, stray, reaps>>

Containers == {"session", "old", "proxy"}
Thing(r, kind) == [run |-> r, kind |-> kind]
Mine == {t \in things : t.run = run}

Init ==
    /\ pc = "idle" /\ run = 0
    /\ status = [r \in RunIds |-> "none"]
    /\ things = {}
    /\ setup = FALSE /\ state = "stopped" /\ procs = "none" /\ stray = FALSE /\ reaps = 0

\* What a removal of these leaves behind.
Removed(S) == IF KillMayFail THEN SUBSET S ELSE {{}}

------------------------------------------------------------------------------
(* The sweep, at the start of a run. *)

\* recover_stale_runs ends the runs of workers that stopped.
Recover ==
    /\ pc = "idle"
    /\ status' = [r \in RunIds |-> IF status[r] = "unfinished" THEN "finished" ELSE status[r]]
    /\ pc' = "containers"
    /\ UNCHANGED <<run, things, session>>

\* Objects of this store whose run is finished or unknown.
Listed == {t \in things : status[t.run] # "unfinished"}

\* remove_leftover_containers: containers first, then networks, each tried once;
\* a network that a container still uses stays.
SweepContainers ==
    /\ pc = "containers"
    /\ \E left \in Removed({t \in Listed : t.kind \in Containers}) :
          things' = left \cup (things \ {t \in Listed : t.kind \in Containers})
    /\ pc' = "networks"
    /\ UNCHANGED <<run, status, session>>

Used(t) == \E u \in things : u.run = t.run /\ u.kind \in Containers

SweepNetworks ==
    /\ pc = "networks"
    /\ LET gone == {t \in Listed : t.kind = "network" /\ ~Used(t)} IN
       \E left \in Removed(gone) : things' = left \cup (things \ gone)
    /\ pc' = "swept"
    /\ UNCHANGED <<run, status, session>>

\* A listing fails: no run starts.
SweepFails ==
    /\ pc \in {"containers", "networks"}
    /\ pc' = "idle"
    /\ UNCHANGED <<run, status, things, session>>

create_run ==
    /\ pc = "swept"
    /\ \E r \in RunIds :
          /\ \A t \in things : t.run # r
          /\ run' = r /\ status' = [status EXCEPT ![r] = "unfinished"]
    /\ pc' = "outside"
    /\ UNCHANGED <<things, session>>

\* The safety stop or a lost lease ends it before there is a run.
NoRun ==
    /\ pc = "swept"
    /\ pc' = "idle"
    /\ UNCHANGED <<run, status, things, session>>

------------------------------------------------------------------------------
(* A session. *)

\* EgressNetwork.start and SessionContainer._create: a start that fails, or is
\* not answered, is undone; what is not undone is left.
StartSession ==
    /\ pc = "outside"
    /\ setup' \in BOOLEAN
    /\ LET parts == {Thing(run, "session")} \cup
                    (IF setup' THEN {Thing(run, "network"), Thing(run, "proxy")} ELSE {})
       IN \/ /\ pc' = "host" /\ things' = things \cup parts
             /\ state' = "running" /\ procs' = "none" /\ stray' = FALSE
          \/ /\ pc' = "ending" /\ UNCHANGED <<state, procs, stray>>
             /\ \E left \in Removed(parts) : things' = things \cup left
    /\ reaps' = 0
    /\ UNCHANGED <<run, status>>

\* exec: the command ends or is stopped; it may leave processes, run out of memory
\* or take the container down.
Exec ==
    /\ pc = "host"
    /\ procs' \in Processes /\ state' \in States
    /\ pc' = "inspect" /\ reaps' = 0
    /\ UNCHANGED <<run, status, things, setup, stray>>

\* _infrastructure_failure
Inspect ==
    /\ pc = "inspect"
    /\ \/ state = "running" /\ pc' = "reap"
       \/ pc' = "restart"
    /\ UNCHANGED <<run, status, things, session>>

\* Mutant: the signal is enough.
Quiet_signalled(left) == left # "foreign"

\* Only the main process is listed.
Quiet(left) == left = "none"

\* _reap: a signal to every process of the command user, and a listing that may fail.
Reap ==
    /\ pc = "reap"
    /\ \E left \in (IF procs = "own" THEN {"none", "own"} ELSE {procs}) :
          /\ procs' = left
          /\ \/ pc' = "restart" /\ UNCHANGED reaps
             \/ /\ Quiet(left) /\ pc' = "host" /\ UNCHANGED reaps
             \/ /\ ~Quiet(left)
                /\ reaps' = reaps + 1
                /\ pc' = IF reaps' = ReapAttempts THEN "restart" ELSE "reap"
    /\ UNCHANGED <<run, status, things, setup, state, stray>>

\* docker kill, then docker start.  A container that does not come back is
\* replaced; a new one that does not start ends the session.
Restart ==
    /\ pc = "restart"
    /\ \E killed \in (IF KillMayFail THEN BOOLEAN ELSE {TRUE}) :
          LET alive == ~killed /\ state # "stopped" /\ procs # "none" IN
          \/ /\ killed \/ state = "running" \/ state = "stopped"
             /\ pc' = "host" /\ state' = "running"
             /\ procs' = IF alive THEN procs ELSE "none"
             /\ UNCHANGED <<things, stray>>
          \/ \E old \in Removed({Thing(run, "old")}) :
                /\ things' = things \cup old
                /\ stray' = (stray \/ (alive /\ old # {}))
                /\ procs' = "none"
                /\ \/ pc' = "host" /\ state' = "running"
                   \/ pc' = "ending" /\ state' = "stopped"
    /\ reaps' = 0
    /\ UNCHANGED <<run, status, setup>>

\* The session is removed.
EndSession ==
    /\ pc = "host"
    /\ pc' = "ending"
    /\ UNCHANGED <<run, status, things, session>>

\* remove, best effort, and the run's last status.
EndRun ==
    /\ pc = "ending"
    /\ \E left \in Removed(Mine) : things' = left \cup (things \ Mine)
    /\ status' = [status EXCEPT ![run] = "finished"]
    /\ pc' = "idle" /\ run' = 0
    /\ setup' = FALSE /\ state' = "stopped" /\ procs' = "none" /\ stray' = FALSE /\ reaps' = 0

\* The worker is killed.
Crash ==
    /\ run # 0
    /\ pc' = "idle" /\ run' = 0
    /\ setup' = FALSE /\ state' = "stopped" /\ procs' = "none" /\ stray' = FALSE /\ reaps' = 0
    /\ UNCHANGED <<status, things>>

Next ==
    \/ Recover \/ SweepContainers \/ SweepNetworks \/ SweepFails \/ create_run \/ NoRun
    \/ StartSession \/ Exec \/ Inspect \/ Reap \/ Restart \/ EndSession \/ EndRun \/ Crash

Spec == Init /\ [][Next]_vars

------------------------------------------------------------------------------
(* Properties. *)

\* While the host reads or edits the workspace no process of a command is there to
\* write to it: not in the session's container and not in one that was replaced
\* (exec, _reap, restart).
QuietWorkspace == pc = "host" => procs = "none" /\ ~stray

===============================================================================
