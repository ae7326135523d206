--------------------------- MODULE ComposeLifecycle ---------------------------
(***************************************************************************)
(* Compose projects of the hosted agent (src/src/compose_lifecycle.rs).    *)
(* A project has a directory with its compose file and extra files, a      *)
(* backup of that directory for rollback, and what docker runs for it.     *)
(* COMPOSE_UP writes new content or starts what is there, after restoring  *)
(* the backup if asked; COMPOSE_DOWN stops a project and removes its       *)
(* directory.  Every await of a handler is a step: other commands run      *)
(* between, and an abort or a restart of the agent may end it there.       *)
(*                                                                         *)
(* Content is a version of the compose file and of the extra files.        *)
(* Docker is external.                                                     *)
(***************************************************************************)
EXTENDS Naturals, FiniteSets

CONSTANTS
    Projects,
    NameMatches,      \* project -> the projects whose names contain its name
    NumVersions,  \* versions of content; each is sent once
    Tasks,        \* command handlers at work at a time
    MaxTries,     \* attempts of compose up
    MaxDowns,     \* bound: COMPOSE_DOWN commands
    Faults        \* bound: failed steps and interrupted handlers

ASSUME ComposeAssumption ==
    /\ \A p \in Projects : p \in NameMatches[p] /\ NameMatches[p] \subseteq Projects
    /\ IsFiniteSet(Tasks) /\ NumVersions \in Nat /\ MaxTries \in Nat \ {0} /\ Faults \in Nat /\ MaxDowns \in Nat

Versions == 1..NumVersions
NoDir == [compose |-> 0, extra |-> 0]
NoCmd == [project |-> 0, op |-> "none", v |-> 0, alone |-> TRUE]

VARIABLES
    dir, bak,       \* project -> its directory and the backup of it
    running,        \* project -> version docker runs, 0 for none
    dataVolume,         \* project -> its data volume is there
    sent,           \* versions sent so far
    coFaults, downs,
    coPc, cmd, tries, \* the handlers
    good, last,     \* project -> directories that were started in its life, the last one
    failed,         \* project -> handlers that failed since, or were at work beside that
    coSaid            \* the last thing reported: a command and its verdict

coHost == <<dir, bak, running, dataVolume>>
book == <<good, last, failed, coSaid>>
coVars == <<coHost, sent, coFaults, downs, coPc, cmd, tries, book>>

CoInit ==
    /\ dir = [p \in Projects |-> NoDir]
    /\ bak = [p \in Projects |-> NoDir]
    /\ running = [p \in Projects |-> 0]
    /\ dataVolume = [p \in Projects |-> FALSE]
    /\ sent = 0 /\ coFaults = 0 /\ downs = 0
    /\ coPc = [t \in Tasks |-> "idle"]
    /\ cmd = [t \in Tasks |-> NoCmd]
    /\ tries = [t \in Tasks |-> 0]
    /\ good = [p \in Projects |-> {}]
    /\ last = [p \in Projects |-> NoDir]
    /\ failed = [p \in Projects |-> 0]
    /\ coSaid = [NoCmd EXCEPT !.op = "nothing"]

P(t) == cmd[t].project
Handlers(p) == {t \in Tasks : coPc[t] # "idle" /\ P(t) = p}
DirExists(d) == d # NoDir
CoGo(t, l) == coPc' = [coPc EXCEPT ![t] = l]

\* A handler begins; alone says that its project had no other since.
Begin(t, p, op, v) ==
    cmd' = [u \in Tasks |->
        IF u = t THEN [project |-> p, op |-> op, v |-> v, alone |-> Handlers(p) = {}]
        ELSE IF u \in Handlers(p) THEN [cmd[u] EXCEPT !.alone = FALSE] ELSE cmd[u]]

\* A handler ends: the project's last good version and its failures since.
Report(t, verdict) ==
    /\ CoGo(t, "idle")
    /\ coSaid' = [cmd[t] EXCEPT !.op = verdict]
Completed(t) ==
    /\ Report(t, "started")
    /\ good' = [good EXCEPT ![P(t)] = @ \union {dir[P(t)]}]
    /\ last' = [last EXCEPT ![P(t)] = dir[P(t)]]
    /\ failed' = [failed EXCEPT ![P(t)] = Cardinality(Handlers(P(t)) \ {t})]
Failed(t) ==
    /\ Report(t, "failed")
    /\ failed' = [failed EXCEPT ![P(t)] = @ + 1]
    /\ UNCHANGED <<good, last>>
Ceased(t) ==
    /\ Report(t, "stopped")
    /\ good' = [good EXCEPT ![P(t)] = {}]
    /\ last' = [last EXCEPT ![P(t)] = NoDir]
    /\ failed' = [failed EXCEPT ![P(t)] = 0]
CoFault == coFaults < Faults /\ coFaults' = coFaults + 1

-----------------------------------------------------------------------------
(* COMPOSE_UP *)

\* The command arrives and the network is there.  With content the present
\* directory is backed up first; else the backup is restored if asked.
handle_compose_up(t, p, op) ==
    /\ coPc[t] = "idle"
    /\ Begin(t, p, op, IF op = "content" THEN sent + 1 ELSE 0)
    /\ tries' = [tries EXCEPT ![t] = 1]
    /\ \/ /\ op = "content"
          /\ sent < NumVersions /\ sent' = sent + 1
          /\ CoGo(t, IF DirExists(dir[p]) THEN "unback" ELSE "validate")
          /\ UNCHANGED book
       \/ /\ op = "restore" /\ DirExists(bak[p])
          /\ CoGo(t, "unlink")
          /\ last' = [last EXCEPT ![p] = IF bak[p] \in good[p] THEN bak[p] ELSE NoDir]
          /\ UNCHANGED <<sent, good, failed, coSaid>>
       \/ /\ op = "start" /\ dir[p].compose # 0
          /\ CoGo(t, "up")
          /\ UNCHANGED <<sent, book>>
    /\ UNCHANGED <<coHost, coFaults, downs>>

\* remove_dir_all of the old backup, then copy_dir file by file.
remove_backup_only(t) ==
    /\ coPc[t] = "unback"
    /\ bak' = [bak EXCEPT ![P(t)] = NoDir]
    /\ CoGo(t, "validate")
    /\ UNCHANGED <<dir, running, dataVolume, sent, coFaults, downs, cmd, tries, book>>
remove_backup(t) ==
    /\ coPc[t] = "unback"
    /\ bak' = [bak EXCEPT ![P(t)] = NoDir]
    /\ CoGo(t, "copy")
    /\ UNCHANGED <<dir, running, dataVolume, sent, coFaults, downs, cmd, tries, book>>

Copy(t) ==
    IF coPc[t] = "copy"
    THEN bak' = [bak EXCEPT ![P(t)].compose = dir[P(t)].compose] /\ CoGo(t, "copymore")
    ELSE bak' = [bak EXCEPT ![P(t)].extra = dir[P(t)].extra] /\ CoGo(t, "validate")
copy_dir(t) ==
    /\ coPc[t] \in {"copy", "copymore"}
    /\ \/ Copy(t) /\ UNCHANGED <<coFaults, book>>
       \/ CoFault /\ Failed(t) /\ UNCHANGED bak
    /\ UNCHANGED <<dir, running, dataVolume, sent, downs, cmd, tries>>

validate_compose_up_content(t) ==
    /\ coPc[t] = "validate"
    /\ \/ CoGo(t, "write") /\ UNCHANGED <<coFaults, book>>
       \/ CoFault /\ Failed(t)
    /\ UNCHANGED <<coHost, sent, downs, cmd, tries>>

\* The compose file, then the extra files, which replace those of that name.
Write(t) ==
    IF coPc[t] = "write"
    THEN dir' = [dir EXCEPT ![P(t)].compose = cmd[t].v] /\ CoGo(t, "extra")
    ELSE dir' = [dir EXCEPT ![P(t)].extra = cmd[t].v] /\ CoGo(t, "up")
write_compose_file(t) ==
    /\ coPc[t] \in {"write", "extra"}
    /\ \/ Write(t) /\ UNCHANGED <<coFaults, book>>
       \/ CoFault /\ Failed(t) /\ UNCHANGED dir
    /\ UNCHANGED <<bak, running, dataVolume, sent, downs, cmd, tries>>

\* The restore of a backup: the project directory is removed, then replaced.
remove_project_dir(t) ==
    /\ coPc[t] = "unlink"
    /\ dir' = [dir EXCEPT ![P(t)] = NoDir]
    /\ CoGo(t, "rename")
    /\ UNCHANGED <<bak, running, dataVolume, sent, coFaults, downs, cmd, tries, book>>
restore_project_backup(t) ==
    /\ coPc[t] = "rename"
    /\ \/ /\ DirExists(bak[P(t)])
          /\ dir' = [dir EXCEPT ![P(t)] = bak[P(t)]]
          /\ bak' = [bak EXCEPT ![P(t)] = NoDir]
          /\ IF bak[P(t)].compose # 0
             THEN CoGo(t, "up") /\ UNCHANGED book
             ELSE Failed(t)
          /\ UNCHANGED coFaults
       \/ CoFault /\ Failed(t) /\ UNCHANGED <<dir, bak>>
       \/ ~DirExists(bak[P(t)]) /\ Failed(t) /\ UNCHANGED <<dir, bak, coFaults>>
    /\ UNCHANGED <<running, dataVolume, sent, downs, cmd, tries>>

is_transient_failure(t) == tries[t] < MaxTries

\* Images are pulled, with failures ignored, and the services started.  A
\* transient failure is tried again; one that is not leaves the old containers
\* or none.  A compose file that is gone by now is a failure.
compose_up(t) ==
    LET v == dir[P(t)].compose IN
    /\ coPc[t] = "up"
    /\ \/ /\ v # 0
          /\ running' = [running EXCEPT ![P(t)] = v]
          /\ dataVolume' = [dataVolume EXCEPT ![P(t)] = TRUE]
          /\ Completed(t)
          /\ UNCHANGED <<coFaults, tries>>
       \/ /\ v = 0
          /\ Failed(t)
          /\ UNCHANGED <<running, dataVolume, coFaults, tries>>
       \/ /\ CoFault
          /\ is_transient_failure(t)
          /\ tries' = [tries EXCEPT ![t] = @ + 1]
          /\ UNCHANGED <<running, dataVolume, coPc, book>>
       \/ /\ CoFault
          /\ \E left \in {0, running[P(t)]} : running' = [running EXCEPT ![P(t)] = left]
          /\ Failed(t)
          /\ UNCHANGED <<dataVolume, tries>>
    /\ UNCHANGED <<dir, bak, sent, downs, cmd>>

-----------------------------------------------------------------------------
(* COMPOSE_DOWN *)

\* Without its compose file, and on any other error, the project is cleaned up
\* by name.
handle_compose_down(t, p, op) ==
    /\ coPc[t] = "idle" /\ downs < MaxDowns
    /\ downs' = downs + 1
    /\ Begin(t, p, op, 0)
    /\ \/ /\ dir[p].compose # 0
          /\ running' = [running EXCEPT ![p] = 0]
          /\ dataVolume' = IF op = "down" THEN dataVolume ELSE [dataVolume EXCEPT ![p] = FALSE]
          /\ CoGo(t, "rmdir")
          /\ UNCHANGED coFaults
       \/ /\ \/ dir[p].compose = 0 /\ UNCHANGED coFaults
             \/ dir[p].compose # 0 /\ CoFault
          /\ CoGo(t, "force")
          /\ UNCHANGED <<running, dataVolume>>
    /\ UNCHANGED <<dir, bak, sent, tries, book>>

\* Containers go by their project label, networks and volumes by name.  Docker
\* keeps a volume that a container still has.
named_volumes(p) == NameMatches[p]

force_cleanup_by_project(t) ==
    /\ coPc[t] = "force"
    /\ running' = [running EXCEPT ![P(t)] = 0]
    /\ CoGo(t, IF cmd[t].op = "down" THEN "rmdir" ELSE "forcemore")
    /\ UNCHANGED <<dir, bak, dataVolume, sent, coFaults, downs, cmd, tries, book>>

\* remove_project_images finds none: it looks for those of the project's
\* containers, which are gone by now.
remove_project_volumes(t) ==
    /\ coPc[t] = "forcemore"
    /\ dataVolume' = [p \in Projects |->
                    dataVolume[p] /\ ~(p \in named_volumes(P(t)) /\ running[p] = 0)]
    /\ CoGo(t, "rmdir")
    /\ UNCHANGED <<dir, bak, running, sent, coFaults, downs, cmd, tries, book>>

cleanup_deployment_dir(t) ==
    /\ coPc[t] = "rmdir"
    /\ dir' = [dir EXCEPT ![P(t)] = NoDir]
    /\ Ceased(t)
    /\ UNCHANGED <<bak, running, dataVolume, sent, coFaults, downs, cmd, tries>>

-----------------------------------------------------------------------------

\* An abort or a restart of the agent ends the handler where it is.
interrupted(t) ==
    /\ coPc[t] # "idle"
    /\ CoFault
    /\ Failed(t)
    /\ UNCHANGED <<coHost, sent, downs, cmd, tries>>

CoNext == \E t \in Tasks :
    \/ \E p \in Projects :
          \/ \E op \in {"content", "restore", "start"} : handle_compose_up(t, p, op)
          \/ \E op \in {"down", "down -v"} : handle_compose_down(t, p, op)
    \/ remove_backup(t) \/ copy_dir(t) \/ validate_compose_up_content(t)
    \/ write_compose_file(t) \/ remove_project_dir(t) \/ restore_project_backup(t) \/ compose_up(t)
    \/ force_cleanup_by_project(t) \/ remove_project_volumes(t) \/ cleanup_deployment_dir(t)
    \/ interrupted(t)

CoSpec == CoInit /\ [][CoNext]_coVars

-----------------------------------------------------------------------------
(* Properties *)

\* After one failed or interrupted up what was running before is still on disk,
\* in the project's directory or in its backup, with every file of it; from the
\* start of a rollback that holds for the deployment it goes back to.  Nothing is
\* said where two handlers were at work on the project at a time.
WayBack ==
    \A p \in Projects :
        \/ ~DirExists(last[p])
        \/ failed[p] + Cardinality(Handlers(p)) > 1
        \/ last[p] \in {dir[p], bak[p]}

\* A project that was stopped by a handler without another beside it has no
\* containers and no directory, until the next handler comes to it.
StoppedIsGone ==
    (coSaid.op = "stopped" /\ coSaid.alone /\ Handlers(coSaid.project) = {})
        => running[coSaid.project] = 0 /\ ~DirExists(dir[coSaid.project])

\* The volumes of a project are removed only when its own removal asked for it.
OwnVolumesOnly ==
    [][\A p \in Projects : (dataVolume[p] /\ ~dataVolume'[p]) =>
          \E t \in Tasks : cmd'[t].project = p /\ cmd'[t].op = "down -v"]_coVars
=============================================================================
