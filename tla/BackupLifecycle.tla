--------------------------- MODULE BackupLifecycle ---------------------------
(***************************************************************************)
(* The backup commands of the hosted agent (src/src/backup_lifecycle.rs):  *)
(* create, restore, verify, download, and the two that do nothing here,    *)
(* upload and cleanup.  Every command is a task that waits for one docker  *)
(* call after the other and may be cancelled while it waits.  They share   *)
(* the backup files, the services' containers, and the containers and      *)
(* volumes of verification, named after the first characters of the id.    *)
(*                                                                         *)
(* docker is external: a call succeeds, is refused, or is given up after   *)
(* its timeout, in which case docker may have done its work.               *)
(***************************************************************************)
EXTENDS Naturals, FiniteSets

CONSTANTS
    BkLoads     \* sets of commands in flight together, see parse_backup_payload

Engines == {"postgres", "mysql", "mongo", "redis", "unspecified"}

\* A command: the operation, the service and its engine, the id of the backup
\* (for restore, verify and download its storage path) and what the path names.
parse_backup_payload(op, svc, engine, id) ==
    [op |-> op, svc |-> svc, engine |-> engine, id |-> id, artifact |-> "none"]
\* A download of a CI artifact, a file or a directory.
Artifact(kind) == [parse_backup_payload("download", <<"none", "none">>, "unspecified", <<"none", 0>>)
                     EXCEPT !.artifact = kind]
\* An id is its first eight characters and the rest.
backup_short_id(id) == id[1]

\* Commands are numbered in the order they were sent; a backup is of one service,
\* so its id tells the engine; no service has a name of a verification.
ASSUME BkAssumption ==
    \A l \in BkLoads :
        /\ DOMAIN l.cmds \subseteq Nat
        /\ \A i, j \in DOMAIN l.cmds :
              l.cmds[i].op = "create" /\ l.cmds[j].op = "create" /\ l.cmds[i].id = l.cmds[j].id
                  => l.cmds[i].engine = l.cmds[j].engine
        /\ \A s \in l.services \cup {l.cmds[j].svc : j \in DOMAIN l.cmds} :
              \A k \in DOMAIN l.cmds : s # <<"verify", backup_short_id(l.cmds[k].id)>>

VARIABLES
    bkPc,     \* command -> where it waits
    bkAns,    \* command -> its answer, "none" before
    bkErr,    \* command -> the calls that failed it, "timed_out" among them
    bkFile,   \* the backup files: id -> "partial", "cut" (its dump failed) or "whole"
    bkTmp,    \* redis: ids whose temporary copy exists, with its state
    box,      \* containers: name -> whether it runs, and its data
    bkVol,    \* short ids with a verification volume
    zips,     \* downloads whose archive exists
    bkLoad    \* the commands and whether docker may fail; never changes

bkVars == <<bkPc, bkAns, bkErr, bkFile, bkTmp, box, bkVol, zips, bkLoad>>

BkJobs == DOMAIN bkLoad.cmds
Bk(j) == bkLoad.cmds[j]
Empty == [x \in {} |-> "none"]

BkInit ==
    /\ bkLoad \in BkLoads
    /\ bkPc = [j \in DOMAIN bkLoad.cmds |-> "idle"]
    /\ bkAns = [j \in DOMAIN bkLoad.cmds |-> "none"]
    /\ bkErr = [j \in DOMAIN bkLoad.cmds |-> {}]
    /\ bkFile = [i \in bkLoad.stored |-> "whole"]
    /\ bkTmp = Empty
    /\ box = [s \in bkLoad.services |-> [run |-> TRUE, data |-> "live"]]
    /\ bkVol = {} /\ zips = {}

BkGo(j, l) == bkPc' = [bkPc EXCEPT ![j] = l] /\ UNCHANGED bkAns
BkAnswer(j, a) == bkPc' = [bkPc EXCEPT ![j] = "done"] /\ bkAns' = [bkAns EXCEPT ![j] = a]
BkAt(j, op, l) == Bk(j).op = op /\ bkPc[j] = l
BkPut(f, x, v) == [y \in DOMAIN f \cup {x} |-> IF y = x THEN v ELSE f[y]]
Drop(f, x) == [y \in DOMAIN f \ {x} |-> f[y]]

\* A docker call: its outcome, and whether docker acted.
run_docker_output == {<<"ok", TRUE>>} \cup
    (IF bkLoad.fails THEN {<<"exit", FALSE>>, <<"timed_out", FALSE>>, <<"timed_out", TRUE>>} ELSE {})
run_docker_success(j, r, step) == bkErr' = IF r[1] = "ok" THEN bkErr
                                           ELSE [bkErr EXCEPT ![j] = @ \cup {step, r[1]}]

-----------------------------------------------------------------------------
(* Create *)

\* The output file must not exist yet; then docker exec writes into it.
opened(j) == Bk(j).id \notin DOMAIN bkFile
create_exec_stream_backup(j) ==
    /\ BkAt(j, "create", "idle") /\ Bk(j).engine \in {"postgres", "mysql", "mongo"}
    /\ IF opened(j) THEN bkFile' = BkPut(bkFile, Bk(j).id, "partial") /\ BkGo(j, "exec")
       ELSE UNCHANGED bkFile /\ BkAnswer(j, "failed")
    /\ UNCHANGED <<bkErr, bkTmp, box, bkVol, zips, bkLoad>>

\* A stream that ends badly takes the file with it.  The dump of mysql is piped
\* to gzip, whose exit status is the one docker exec reports.
exec_stream_to_file(j) ==
    /\ BkAt(j, "create", "exec")
    /\ \E r \in run_docker_output :
         \/ /\ r[1] = "ok"
            /\ bkFile' = BkPut(bkFile, Bk(j).id, "whole") /\ BkAnswer(j, "completed") /\ UNCHANGED bkErr
         \/ /\ r[1] # "ok" /\ Bk(j).engine = "mysql"
            /\ bkFile' = BkPut(bkFile, Bk(j).id, "cut") /\ BkAnswer(j, "completed") /\ UNCHANGED bkErr
         \/ /\ r[1] # "ok"
            /\ bkFile' = Drop(bkFile, Bk(j).id) /\ BkAnswer(j, "failed") /\ run_docker_success(j, r, "exec")
    /\ UNCHANGED <<bkTmp, box, bkVol, zips, bkLoad>>

\* Two of them at once with one id would share the name of the temporary copy:
\* the control plane sends an id again once it has the answer to the first.
SentAgain(j) ==
    \A k \in BkJobs : k < j /\ Bk(k).op = "create" /\ Bk(k).id = Bk(j).id => bkPc[k] = "done"

\* LASTSAVE, of which an error is an empty baseline, and BGSAVE; then up to five
\* minutes for a LASTSAVE that differs.
create_redis_backup(j) ==
    /\ BkAt(j, "create", "idle") /\ Bk(j).engine = "redis" /\ SentAgain(j)
    /\ \E r \in run_docker_output :
         /\ run_docker_success(j, r, "bgsave")
         /\ IF r[1] = "ok" THEN BkGo(j, "lastsave") ELSE BkAnswer(j, "failed")
    /\ UNCHANGED <<bkFile, bkTmp, box, bkVol, zips, bkLoad>>
\* The dump is copied to a temporary name, in place of a leftover of it, if there
\* is no output file yet.
wait_redis_bgsave(j) ==
    /\ BkAt(j, "create", "lastsave")
    /\ \E r \in run_docker_output :
         /\ run_docker_success(j, r, "lastsave")
         /\ IF r[1] = "ok" /\ opened(j) THEN BkGo(j, "cp_dump") /\ bkTmp' = BkPut(bkTmp, Bk(j).id, "partial")
            ELSE BkAnswer(j, "failed") /\ UNCHANGED bkTmp
    /\ UNCHANGED <<bkFile, box, bkVol, zips, bkLoad>>
copy_dump(j) ==
    /\ BkAt(j, "create", "cp_dump")
    /\ \E r \in run_docker_output :
         /\ run_docker_success(j, r, "cp_dump")
         /\ bkTmp' = IF r[1] = "ok" THEN BkPut(bkTmp, Bk(j).id, "whole") ELSE bkTmp
         /\ IF r[1] = "ok" THEN BkGo(j, "rename") ELSE BkAnswer(j, "failed")
    /\ UNCHANGED <<bkFile, box, bkVol, zips, bkLoad>>
rename_dump(j) ==
    /\ BkAt(j, "create", "rename")
    /\ IF Bk(j).id \in DOMAIN bkTmp
       THEN /\ bkFile' = BkPut(bkFile, Bk(j).id, bkTmp[Bk(j).id]) /\ bkTmp' = Drop(bkTmp, Bk(j).id)
            /\ BkAnswer(j, "completed")
       ELSE UNCHANGED <<bkFile, bkTmp>> /\ BkAnswer(j, "failed")
    /\ UNCHANGED <<bkErr, box, bkVol, zips, bkLoad>>

\* Nothing can be created for an engine that is not known; upload and cleanup are
\* answered without work.
unsupported_engine(j) ==
    /\ BkAt(j, "create", "idle") /\ Bk(j).engine = "unspecified"
    /\ BkAnswer(j, "failed")
    /\ UNCHANGED <<bkErr, bkFile, bkTmp, box, bkVol, zips, bkLoad>>
handle_backup_upload(j) ==
    /\ Bk(j).op \in {"upload", "cleanup"} /\ bkPc[j] = "idle"
    /\ BkAnswer(j, "completed")
    /\ UNCHANGED <<bkErr, bkFile, bkTmp, box, bkVol, zips, bkLoad>>

-----------------------------------------------------------------------------
(* Restore, of a service or of a verification container *)

resolve_local_path(j) == Bk(j).id \in DOMAIN bkFile

\* The container a restore works on, and the calls it makes, per engine.
BkTarget(j) == IF Bk(j).op = "verify" THEN <<"verify", backup_short_id(Bk(j).id)>> ELSE Bk(j).svc
Restores(engine) ==
    CASE engine = "postgres" -> <<"stop", "cp", "start", "replace", "restart">>
      [] engine = "mysql" -> <<"stop", "cp", "start", "replace">>
      [] engine = "mongo" -> <<"cp", "replace">>
      [] engine = "redis" -> <<"stop", "cp", "start">>
      [] OTHER -> <<>>
\* Where a failure leads: a verification still removes what it made.
FailAt(j) == IF Bk(j).op = "verify" THEN BkGo(j, "rm") ELSE BkAnswer(j, "failed")

restore_backup(j) ==
    /\ BkAt(j, "restore", "idle")
    /\ IF resolve_local_path(j) /\ Restores(Bk(j).engine) # <<>>
       THEN BkGo(j, Restores(Bk(j).engine)[1]) ELSE BkAnswer(j, "failed")
    /\ UNCHANGED <<bkErr, bkFile, bkTmp, box, bkVol, zips, bkLoad>>

\* After the last call a restore is done, a verification looks at the result.
After(j, step) ==
    LET calls == Restores(Bk(j).engine)
        n == CHOOSE k \in DOMAIN calls : calls[k] = step
    IN IF n + 1 \in DOMAIN calls THEN BkGo(j, calls[n + 1])
       ELSE IF Bk(j).op = "verify" THEN BkGo(j, "validate") ELSE BkAnswer(j, "completed")

\* What a call does to the container: copying redis's dump file into place is its
\* restore; replacing the others' data runs inside, and may end half done.
Ran(j, b) == [b EXCEPT !.run = TRUE]
Acted(j, step, b) ==
    CASE step = "stop" -> {[b EXCEPT !.run = FALSE]}
      [] step \in {"start", "undo", "restart"} -> {Ran(j, b)}
      [] step = "cp" -> {IF Bk(j).engine = "redis" THEN [b EXCEPT !.data = "restored"] ELSE b}
      [] step = "replace" -> {[b EXCEPT !.data = "restored"]}
HalfDone(j, step, b) ==
    IF step # "replace" THEN {b}
    ELSE {[b EXCEPT !.data = "lost", !.run = up] : up \in IF Bk(j).engine = "postgres" THEN BOOLEAN ELSE {b.run}}

\* stop, cp, start, replace, restart in the engine's order; a copy that failed is
\* followed by a start, every other failure ends it there.  exec needs a container
\* that runs.
Undo_none(j, step) == FailAt(j)
Undo(j, step) == IF step = "cp" /\ Bk(j).engine # "mongo" THEN BkGo(j, "undo") ELSE FailAt(j)
restore_step(j) ==
    LET step == bkPc[j]
        c == BkTarget(j)
    IN
    /\ Bk(j).op \in {"restore", "verify"} /\ step \in {"stop", "cp", "start", "replace", "restart"}
    /\ IF c \notin DOMAIN box \/ (step = "replace" /\ ~box[c].run)
       THEN Undo(j, step) /\ run_docker_success(j, <<"exit", FALSE>>, step) /\ UNCHANGED box
       ELSE \E r \in run_docker_output :
              /\ run_docker_success(j, r, step)
              /\ \E b \in IF r[2] THEN Acted(j, step, box[c]) ELSE HalfDone(j, step, box[c]) :
                   box' = [box EXCEPT ![c] = b]
              /\ IF r[1] = "ok" THEN After(j, step) ELSE Undo(j, step)
    /\ UNCHANGED <<bkFile, bkTmp, bkVol, zips, bkLoad>>
undo_start(j) ==
    /\ bkPc[j] = "undo"
    /\ \E r \in run_docker_output :
         /\ run_docker_success(j, r, "undo")
         /\ box' = IF r[2] /\ BkTarget(j) \in DOMAIN box THEN [box EXCEPT ![BkTarget(j)].run = TRUE] ELSE box
    /\ FailAt(j)
    /\ UNCHANGED <<bkFile, bkTmp, bkVol, zips, bkLoad>>

-----------------------------------------------------------------------------
(* Verify *)

verify_backup(j) ==
    /\ BkAt(j, "verify", "idle")
    /\ IF resolve_local_path(j) THEN BkGo(j, "volume") ELSE BkAnswer(j, "failed")
    /\ UNCHANGED <<bkErr, bkFile, bkTmp, box, bkVol, zips, bkLoad>>

\* A volume, which may be there already, and a container, whose name must be free.
create_verify_volume(j) ==
    /\ BkAt(j, "verify", "volume")
    /\ \E r \in run_docker_output :
         /\ run_docker_success(j, r, "volume")
         /\ bkVol' = IF r[2] THEN bkVol \cup {backup_short_id(Bk(j).id)} ELSE bkVol
         /\ IF r[1] = "ok" /\ Restores(Bk(j).engine) # <<>> THEN BkGo(j, "run") ELSE BkGo(j, "rm")
    /\ UNCHANGED <<bkFile, bkTmp, box, zips, bkLoad>>
create_verify_container(j) ==
    /\ BkAt(j, "verify", "run")
    /\ \E r \in run_docker_output :
         LET acts == r[2] /\ BkTarget(j) \notin DOMAIN box IN
         /\ run_docker_success(j, IF acts THEN r ELSE <<"exit", FALSE>>, "run")
         /\ box' = IF acts THEN BkPut(box, BkTarget(j), [run |-> TRUE, data |-> "fresh"]) ELSE box
         /\ IF acts /\ r[1] = "ok" THEN BkGo(j, "running") ELSE BkGo(j, "rm")
    /\ UNCHANGED <<bkFile, bkTmp, bkVol, zips, bkLoad>>
\* Half a minute for the container to run.
wait_container_running(j) ==
    /\ BkAt(j, "verify", "running")
    /\ IF BkTarget(j) \in DOMAIN box /\ box[BkTarget(j)].run THEN BkGo(j, Restores(Bk(j).engine)[1])
       ELSE BkGo(j, "rm")
    /\ IF BkTarget(j) \in DOMAIN box /\ box[BkTarget(j)].run THEN UNCHANGED bkErr
       ELSE run_docker_success(j, <<"timed_out", FALSE>>, "running")
    /\ UNCHANGED <<bkFile, bkTmp, box, bkVol, zips, bkLoad>>

\* A call into the container; what mysql answers is not looked at.
validate_service(j) ==
    /\ BkAt(j, "verify", "validate")
    /\ \E r \in run_docker_output :
         LET up == BkTarget(j) \in DOMAIN box /\ box[BkTarget(j)].run
             seen == IF up THEN r ELSE <<"exit", FALSE>>
         IN IF Bk(j).engine = "mysql" /\ seen[1] = "exit" THEN UNCHANGED bkErr
            ELSE run_docker_success(j, seen, "validate")
    /\ BkGo(j, "rm")
    /\ UNCHANGED <<bkFile, bkTmp, box, bkVol, zips, bkLoad>>

\* Five minutes for all of it: whatever it waits for is dropped, the rest stays.
verify_timed_out(j) ==
    /\ bkLoad.fails
    /\ Bk(j).op = "verify" /\ bkPc[j] \notin {"idle", "rm", "volume_rm", "done"}
    /\ bkErr' = [bkErr EXCEPT ![j] = @ \cup {"verify"}]
    /\ BkGo(j, "rm")
    /\ UNCHANGED <<bkFile, bkTmp, box, bkVol, zips, bkLoad>>

\* However it went, the container goes and then the volume; what that says is
\* ignored.
remove_verify_container(j) ==
    /\ BkAt(j, "verify", "rm")
    /\ \E r \in run_docker_output : box' = IF r[2] THEN Drop(box, BkTarget(j)) ELSE box
    /\ BkGo(j, "volume_rm")
    /\ UNCHANGED <<bkErr, bkFile, bkTmp, bkVol, zips, bkLoad>>
remove_verify_volume(j) ==
    /\ BkAt(j, "verify", "volume_rm")
    /\ \E r \in run_docker_output :
         bkVol' = IF r[2] /\ BkTarget(j) \notin DOMAIN box THEN bkVol \ {backup_short_id(Bk(j).id)} ELSE bkVol
    /\ BkAnswer(j, IF bkErr[j] = {} THEN "completed" ELSE "failed")
    /\ UNCHANGED <<bkErr, bkFile, bkTmp, box, zips, bkLoad>>

-----------------------------------------------------------------------------
(* Download *)

prepare_download(j) ==
    /\ BkAt(j, "download", "idle") /\ Bk(j).artifact # "directory"
    /\ IF resolve_local_path(j) \/ Bk(j).artifact = "file" THEN BkGo(j, "stream") ELSE BkAnswer(j, "failed")
    /\ UNCHANGED <<bkErr, bkFile, bkTmp, box, bkVol, zips, bkLoad>>
\* A directory is packed into an archive of its own name; packing that fails half
\* way leaves the archive.
zip_directory_artifact(j) ==
    /\ BkAt(j, "download", "idle") /\ Bk(j).artifact = "directory"
    /\ \/ zips' = zips \cup {j} /\ BkGo(j, "stream") /\ UNCHANGED bkErr
       \/ /\ bkLoad.fails /\ zips' \in {zips, zips \cup {j}} /\ BkAnswer(j, "failed")
          /\ bkErr' = [bkErr EXCEPT ![j] = @ \cup {"zip"}]
    /\ UNCHANGED <<bkFile, bkTmp, box, bkVol, bkLoad>>
\* Header and chunks, until the end of the file or a send that fails; then the
\* archive goes, either way.
Cleanup_path(j) == zips \ {j}
stream_download_file(j) ==
    /\ BkAt(j, "download", "stream")
    /\ zips' = Cleanup_path(j)
    /\ \/ BkAnswer(j, "completed") /\ UNCHANGED bkErr
       \/ bkLoad.fails /\ BkAnswer(j, "failed") /\ bkErr' = [bkErr EXCEPT ![j] = @ \cup {"send"}]
    /\ UNCHANGED <<bkFile, bkTmp, box, bkVol, bkLoad>>

-----------------------------------------------------------------------------

\* A cancelled command is dropped where it waits.
bk_cancelled(j) ==
    /\ bkLoad.cancel /\ bkPc[j] \notin {"idle", "done"}
    /\ BkAnswer(j, "cancelled")
    /\ UNCHANGED <<bkErr, bkFile, bkTmp, box, bkVol, zips, bkLoad>>

BkStep(j) ==
    \/ create_exec_stream_backup(j) \/ exec_stream_to_file(j) \/ create_redis_backup(j)
    \/ wait_redis_bgsave(j) \/ copy_dump(j) \/ rename_dump(j) \/ unsupported_engine(j)
    \/ handle_backup_upload(j) \/ restore_backup(j) \/ restore_step(j) \/ undo_start(j)
    \/ verify_backup(j) \/ create_verify_volume(j) \/ create_verify_container(j)
    \/ wait_container_running(j) \/ validate_service(j) \/ verify_timed_out(j)
    \/ remove_verify_container(j) \/ remove_verify_volume(j) \/ prepare_download(j)
    \/ zip_directory_artifact(j) \/ stream_download_file(j) \/ bk_cancelled(j)

BkNext == \E j \in BkJobs : BkStep(j)

-----------------------------------------------------------------------------
(* Properties *)

\* A backup that was reported stays whole whatever comes after it, a second
\* command with its id, a cancelled or a failing one; only mysql's, whose dump is
\* the first half of a pipe, may be cut short unnoticed.
ReportedIsWhole ==
    \A j \in BkJobs :
        Bk(j).op = "create" /\ bkAns[j] = "completed" =>
            /\ Bk(j).id \in DOMAIN bkFile
            /\ bkFile[Bk(j).id] = "whole" \/ (bkFile[Bk(j).id] = "cut" /\ Bk(j).engine = "mysql")

\* Backups that exist are not harmed by any command.
StoredStays == \A i \in bkLoad.stored : i \in DOMAIN bkFile /\ bkFile[i] = "whole"

BkBusy(c) == \E k \in BkJobs : bkPc[k] \notin {"idle", "done"} /\ BkTarget(k) = c
\* A restore that answered leaves its service running, unless a start of its own
\* failed, a call was given up, or the replacement of its data failed.
ServiceComesBack ==
    \A j \in BkJobs :
        Bk(j).op = "restore" /\ Bk(j).svc \in bkLoad.services
        /\ bkAns[j] \in {"completed", "failed"} /\ ~BkBusy(Bk(j).svc)
        /\ bkErr[j] \cap {"start", "undo", "restart", "timed_out", "replace"} = {}
        /\ (\A k \in BkJobs : BkTarget(k) = Bk(j).svc /\ k # j => bkErr[k] = {} /\ bkAns[k] # "cancelled")
            => box[Bk(j).svc].run
\* A restore that fails before its replacement leaves the data of the service as
\* they were.
DataKept ==
    \A s \in bkLoad.services :
        (\A j \in BkJobs : Bk(j).op = "restore" /\ Bk(j).svc = s /\ bkPc[j] # "idle" =>
            bkErr[j] \cap {"stop"} # {} \/ (bkErr[j] \cap {"cp"} # {} /\ "timed_out" \notin bkErr[j]))
            => box[s].data = "live"
\* Once it answered, nothing of a verification is left on the host but what docker
\* failed to remove, and of a download no archive but of a packing that failed.
NothingLeft ==
    ~bkLoad.fails =>
        \A j \in BkJobs :
            /\ Bk(j).op = "verify" /\ bkAns[j] \in {"completed", "failed"} /\ ~BkBusy(BkTarget(j))
               /\ (\A k \in BkJobs : BkTarget(k) = BkTarget(j) => bkAns[k] # "cancelled") =>
                  BkTarget(j) \notin DOMAIN box /\ backup_short_id(Bk(j).id) \notin bkVol
            /\ Bk(j).op = "download" /\ bkAns[j] \in {"completed", "failed"} => j \notin zips

\* Backups: what was reported is there and whole, what was stored stays.
BackupsHold == ReportedIsWhole /\ StoredStays
\* Restores and verifications: services come back, data survive early failures,
\* and nothing is left behind.
RestoresInOrder == ServiceComesBack /\ DataKept /\ NothingLeft
=============================================================================
