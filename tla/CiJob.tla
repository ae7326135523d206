-------------------------------- MODULE CiJob --------------------------------
(***************************************************************************)
(* The CI job runner of the hosted agent (src/src/job_deployment.rs): one  *)
(* blocking worker thread per CI_JOB command.  A worker checks out the     *)
(* repository, starts the service containers of the job, runs the steps in *)
(* order, saves the caches and cleans up.  Everything it does outside its  *)
(* own memory is a child process (git, docker, a shell), watched by        *)
(* wait_for_child_output against a deadline and the cancellation signal.   *)
(*                                                                         *)
(* Workers share the host: the workspaces, the docker networks and         *)
(* containers, the docker credential directories and the action caches.    *)
(* Output, logs, environments and redaction are not modelled; the cache    *)
(* directories themselves are in CiCache.                                  *)
(***************************************************************************)
EXTENDS Naturals, Sequences, FiniteSets, SequencesExt

CONSTANTS
    Deliveries,   \* deliveries of a CI_JOB command
    Loads,        \* the plans and lingering processes the runner is put under
    None

(***************************************************************************)
(* A load: the parsed payload of each delivery there is, and what a step   *)
(* may leave running ("piped": with the step's pipes open, "detached").    *)
(* A plan: its job id, workspace, whether it has a repository, a clone     *)
(* token and a job container, its services with credentials or not, and    *)
(* its steps.  A step has a kind, a condition, continue_on_error and the   *)
(* number of its children (substeps of a composite action, build and run   *)
(* of a docker action, pre, main and post of a JavaScript action, the last *)
(* under a condition, targets of cosign); an artifact step has a name.     *)
(***************************************************************************)

\* The payload comes from the control plane, which gives a job an id and a
\* workspace of its own.
ASSUME JobAssumption ==
    /\ None \notin Deliveries
    /\ \A l \in Loads :
          /\ DOMAIN l.plan \subseteq Deliveries
          /\ \A w \in DOMAIN l.plan :
                /\ DOMAIN l.plan[w].steps = 1..Len(l.plan[w].steps) /\ Len(l.plan[w].steps) \in Nat
                /\ DOMAIN l.plan[w].services = 1..Len(l.plan[w].services)
                /\ Len(l.plan[w].services) \in Nat
                /\ (l.plan[w].services = <<>>) = (Len(l.plan[w].services) = 0)
          /\ \A w, x \in DOMAIN l.plan : w # x =>
                l.plan[w].job # l.plan[x].job /\ l.plan[w].dir # l.plan[x].dir

VARIABLES
    pc,           \* where each worker is
    git,          \* git command of the checkout under way
    svc,          \* service being started
    at,           \* step under way
    phase,        \* child of the step under way
    child,        \* the watched process: none, alive, ok, fail, killed
    tail,         \* what outlives the watched process: none, piped, detached
    expired,      \* the job deadline has passed
    signal,       \* the cancellation flag
    saw_failure,
    bad,          \* a child of the running JavaScript action has failed
    statuses,     \* step_statuses
    failed_step,  \* failed_step_index
    saves,        \* pending_cache_saves: the steps that asked for one
    artifacts,    \* names uploaded by the steps so far
    conclusion,   \* decided result, sent when the worker is done
    work,         \* workspace -> the worker whose checkout it holds
    askpass,      \* workspaces with a git askpass helper beside them
    config,       \* job ids with a docker credential directory
    networks,     \* docker networks that exist
    containers,   \* service containers that exist: <<network, service>>
    kept,         \* what a best-effort docker rm failed to remove
    saved,        \* cache saves made: <<worker, step>>
    load          \* never changes

work_vars == <<work, askpass, config, networks, containers, kept, saved>>
step_vars == <<saw_failure, bad, statuses, failed_step, saves, artifacts, conclusion>>
jobVars == <<pc, git, svc, at, phase, child, tail, expired, signal, step_vars, work_vars, load>>

-----------------------------------------------------------------------------
Plan == load.plan
Workers == DOMAIN Plan
Linger == load.linger
Steps(w) == Plan[w].steps
Services(w) == Plan[w].services
Dirs == {Plan[w].dir : w \in Workers}
NumGit == 3                                   \* clone, fetch, checkout

\* The network and the containers of a job carry its id.
service_network_name(w) == <<Plan[w].job, "net">>
container_name(w, i) == <<service_network_name(w)[1], ToString(i)>>

\* Whether a step runs: "" and always() run after a tolerated failure too,
\* and cancelled() never holds.
should_run_ci_step(cond, saw) ==
    \/ cond \in {"", "always()"}
    \/ cond = "success()" /\ ~saw
    \/ cond = "failure()" /\ saw

JobInit ==
    /\ load \in Loads
    /\ pc = [w \in Workers |-> "idle"]
    /\ git = [w \in Workers |-> 0]
    /\ svc = [w \in Workers |-> 0]
    /\ at = [w \in Workers |-> 0]
    /\ phase = [w \in Workers |-> 0]
    /\ child = [w \in Workers |-> "none"]
    /\ tail = [w \in Workers |-> "none"]
    /\ expired = [w \in Workers |-> FALSE]
    /\ signal = [w \in Workers |-> FALSE]
    /\ saw_failure = [w \in Workers |-> FALSE]
    /\ bad = [w \in Workers |-> FALSE]
    /\ statuses = [w \in Workers |-> [i \in 1..Len(Steps(w)) |-> "none"]]
    /\ failed_step = [w \in Workers |-> 0]
    /\ saves = [w \in Workers |-> {}]
    /\ artifacts = [w \in Workers |-> {}]
    /\ conclusion = [w \in Workers |-> "none"]
    /\ work = [d \in Dirs |-> None]
    /\ askpass = {}
    /\ config = {}
    /\ networks = {}
    /\ containers = {}
    /\ kept = {}
    /\ saved = {}

Goto(w, l) == pc' = [pc EXCEPT ![w] = l]
Conclude(w, c) == conclusion' = [conclusion EXCEPT ![w] = c]

-----------------------------------------------------------------------------
(* Child processes *)

\* Starts a child of worker w; the caller has checked remaining_job_timeout.
Spawn(w) == child' = [child EXCEPT ![w] = "alive"]

\* The leader exits by itself, and may leave something behind.
ChildExits(w, status) ==
    /\ child[w] = "alive"
    /\ child' = [child EXCEPT ![w] = status]
    /\ \E t \in {"none"} \union (IF pc[w] = "step" THEN Linger ELSE {}) :
          tail' = [tail EXCEPT ![w] = t]
    /\ UNCHANGED <<pc, git, svc, at, phase, expired, signal, step_vars, work_vars, load>>

\* Cancelled or out of time: SIGTERM for the group, and SIGKILL only when the
\* leader is still there five seconds later.  A child's own limit (a step
\* timeout, 10 s for docker inspect) may pass before the job's deadline does.
terminate_child(w) ==
    /\ child[w] = "alive"
    /\ child' = [child EXCEPT ![w] = "killed"]
    /\ \E t \in {"none"} \union (IF pc[w] = "step" THEN Linger ELSE {}) :
          tail' = [tail EXCEPT ![w] = t]
    /\ \/ signal[w] /\ UNCHANGED expired
       \/ \E late \in {expired[w], TRUE} : expired' = [expired EXCEPT ![w] = late]
    /\ UNCHANGED <<pc, git, svc, at, phase, signal, step_vars, work_vars, load>>

\* The readers of stdout and stderr end when the last holder of the pipes does.
TailEnds(w) ==
    /\ tail[w] # "none"
    /\ tail' = [tail EXCEPT ![w] = "none"]
    /\ UNCHANGED <<pc, git, svc, at, phase, child, expired, signal, step_vars, work_vars, load>>

\* What wait_for_child_output returns: ok, fail, or err for a killed child.
Returned(w) == child[w] \in {"ok", "fail", "killed"} /\ tail[w] # "piped"
Outcome(w) == IF child[w] = "killed" THEN "err" ELSE child[w]
Collected(w) == child' = [child EXCEPT ![w] = "none"]

\* The next child of worker w, unless the job is out of time.
Next_child_late(w, l) == Spawn(w) /\ Goto(w, l)
Next_child(w, l) ==
    /\ ~expired[w]
    /\ Spawn(w)
    /\ Goto(w, l)

-----------------------------------------------------------------------------
(* Start and checkout *)

\* handle_ci_job_with_cancellation_and_logs up to the checkout: an invalid
\* payload and an early cancel end the job before anything exists.
execute_ci_job(w) ==
    /\ pc[w] = "idle"
    /\ IF ~Plan[w].valid
       THEN Goto(w, "done") /\ Conclude(w, "failure")
       ELSE IF signal[w]
       THEN Goto(w, "done") /\ Conclude(w, "cancelled")
       ELSE Goto(w, "checkout") /\ UNCHANGED conclusion
    /\ UNCHANGED <<git, svc, at, phase, child, tail, expired, signal, saw_failure, bad,
                   statuses, failed_step, saves, artifacts, work_vars, load>>

\* Any failure before the first step: the job is a failure, cancelled or not.
Give_up(w, l) ==
    /\ Conclude(w, "failure")
    /\ Goto(w, l)
    /\ UNCHANGED <<saw_failure, bad, statuses, failed_step, saves, artifacts>>

\* The workspace is emptied and the askpass helper written; with the deadline
\* already past the function returns from there, helper and all.
ensure_ci_checkout(w) ==
    /\ pc[w] = "checkout"
    /\ IF ~Plan[w].repo
       THEN /\ Goto(w, "bundles")
            /\ UNCHANGED <<git, child, work, askpass, step_vars>>
       ELSE /\ work' = [work EXCEPT ![Plan[w].dir] = None]
            /\ askpass' = askpass \union (IF Plan[w].token THEN {Plan[w].dir} ELSE {})
            /\ \/ Next_child(w, "git") /\ git' = [git EXCEPT ![w] = 1] /\ UNCHANGED step_vars
               \/ expired[w] /\ Give_up(w, "clean_checkout") /\ UNCHANGED <<git, child>>
    /\ UNCHANGED <<svc, at, phase, tail, expired, signal, config, networks, containers, kept, saved, load>>

\* clone, fetch and checkout in turn; the helper goes when the chain ends.
run_git_command(w) ==
    /\ pc[w] = "git" /\ Returned(w)
    /\ LET ok == Outcome(w) = "ok" IN
       /\ work' = IF ok THEN [work EXCEPT ![Plan[w].dir] = w] ELSE work
       /\ \/ /\ ok /\ git[w] < NumGit /\ Next_child(w, "git")
             /\ git' = [git EXCEPT ![w] = @ + 1]
             /\ UNCHANGED <<askpass, step_vars>>
          \/ /\ ok /\ git[w] = NumGit
             /\ Goto(w, "bundles") /\ Collected(w)
             /\ askpass' = askpass \ {Plan[w].dir}
             /\ UNCHANGED <<git, step_vars>>
          \/ /\ ~ok \/ (git[w] < NumGit /\ expired[w])
             /\ Give_up(w, "clean_checkout") /\ Collected(w)
             /\ askpass' = askpass \ {Plan[w].dir}
             /\ UNCHANGED git
    /\ UNCHANGED <<svc, at, phase, tail, expired, signal, config, networks, containers, kept, saved, load>>

\* Action bundles are written into the workspace, or fail on it.
materialize_action_bundles(w) ==
    /\ pc[w] = "bundles"
    /\ \/ Goto(w, "services") /\ UNCHANGED step_vars
       \/ Plan[w].bundles /\ Give_up(w, "clean_checkout")
    /\ UNCHANGED <<git, svc, at, phase, child, tail, expired, signal, work_vars, load>>

-----------------------------------------------------------------------------
(* Services *)

Creds(w) == \E i \in DOMAIN Services(w) : Services(w)[i].creds

\* DockerCredentialSession::for_plan and its Drop.
Open_session(w) == config' = IF Creds(w) THEN config \union {Plan[w].job} ELSE config
Drop_session(w) == config' = config \ {Plan[w].job}

\* Service startup that failed: what was started is removed again.
Services_failed_leaves(w) == Give_up(w, "clean_checkout") /\ Drop_session(w)
Services_failed(w) == Give_up(w, "clean_services") /\ Drop_session(w)

start_ci_services(w) ==
    /\ pc[w] = "services"
    /\ IF Services(w) = <<>>
       THEN Goto(w, "top") /\ at' = [at EXCEPT ![w] = 1] /\ UNCHANGED <<child, config, step_vars>>
       ELSE /\ \/ Next_child(w, "network") /\ Open_session(w) /\ UNCHANGED step_vars
               \/ expired[w] /\ Services_failed(w) /\ UNCHANGED child
            /\ UNCHANGED at
    /\ UNCHANGED <<git, svc, phase, tail, expired, signal, work, askpass, networks, containers, kept, saved, load>>

\* docker network create fails on a network that exists.
network_created(w) ==
    LET n == service_network_name(w) IN
    /\ pc[w] = "network" /\ Returned(w)
    /\ \/ /\ Outcome(w) = "ok" /\ n \notin networks
          /\ networks' = networks \union {n}
          /\ Goto(w, "login") /\ svc' = [svc EXCEPT ![w] = 1] /\ Collected(w)
          /\ UNCHANGED <<config, step_vars>>
       \/ /\ Outcome(w) # "ok"
          /\ networks' \in {networks, networks \union {n}}
          /\ Services_failed(w) /\ Collected(w) /\ UNCHANGED svc
       \/ /\ Outcome(w) = "ok" /\ n \in networks
          /\ Services_failed(w) /\ Collected(w) /\ UNCHANGED <<networks, svc>>
    /\ UNCHANGED <<git, at, phase, tail, expired, signal, work, askpass, containers, kept, saved, load>>

\* A service: registry login when it has credentials, then docker run.
start_service(w) ==
    /\ pc[w] = "login" /\ (child[w] = "none" \/ Returned(w))
    /\ LET s == Services(w)[svc[w]]
           login == s.creds /\ child[w] = "none"
       IN \/ (child[w] = "none" \/ Outcome(w) = "ok")
             /\ Next_child(w, IF login THEN "login" ELSE "run") /\ UNCHANGED <<config, step_vars>>
          \/ ((child[w] # "none" /\ Outcome(w) # "ok") \/ expired[w])
             /\ Services_failed(w) /\ Collected(w)
    /\ UNCHANGED <<git, svc, at, phase, tail, expired, signal, work, askpass, networks, containers, kept, saved, load>>

\* The container may exist although docker run failed or was killed.
service_started(w) ==
    LET c == container_name(w, svc[w]) IN
    /\ pc[w] = "run" /\ Returned(w)
    /\ \/ /\ Outcome(w) = "ok" /\ c \notin containers
          /\ containers' = containers \union {c}
          /\ \/ Next_child(w, "ready") /\ UNCHANGED <<config, step_vars>>
             \/ expired[w] /\ Services_failed(w) /\ Collected(w)
       \/ /\ Outcome(w) # "ok" \/ c \in containers
          /\ containers' \in {containers, containers \union {c}}
          /\ Services_failed(w) /\ Collected(w)
    /\ UNCHANGED <<git, svc, at, phase, tail, expired, signal, work, askpass, networks, kept, saved, load>>

\* docker inspect every 500 ms until the service is up, is not, or 60 s pass.
wait_for_ci_service_ready(w) ==
    /\ pc[w] = "ready" /\ Returned(w)
    /\ \/ /\ Outcome(w) = "ok"                              \* healthy or running
          /\ IF Plan[w].container
             THEN Goto(w, "next_service") /\ Collected(w) /\ UNCHANGED <<config, step_vars>>
             ELSE \/ Next_child(w, "ports") /\ UNCHANGED <<config, step_vars>>
                  \/ expired[w] /\ Services_failed(w) /\ Collected(w)
       \/ Outcome(w) = "ok" /\ Next_child(w, "ready")       \* still starting
                            /\ UNCHANGED <<config, step_vars>>
       \/ Services_failed(w) /\ Collected(w)                \* unhealthy, stopped, too late
    /\ UNCHANGED <<git, svc, at, phase, tail, expired, signal, work, askpass, networks,
                   containers, kept, saved, load>>

\* A host job learns the published ports.
record_host_shell_service_ports(w) ==
    /\ pc[w] = "ports" /\ Returned(w)
    /\ Collected(w)
    /\ IF Outcome(w) = "ok"
       THEN Goto(w, "next_service") /\ UNCHANGED <<config, step_vars>>
       ELSE Services_failed(w)
    /\ UNCHANGED <<git, svc, at, phase, tail, expired, signal, work, askpass, networks,
                   containers, kept, saved, load>>

next_service(w) ==
    /\ pc[w] = "next_service"
    /\ IF svc[w] < Len(Services(w))
       THEN Goto(w, "login") /\ svc' = [svc EXCEPT ![w] = @ + 1] /\ UNCHANGED <<at, config>>
       ELSE /\ Goto(w, "top") /\ at' = [at EXCEPT ![w] = 1]
            /\ Drop_session(w) /\ UNCHANGED svc
    /\ UNCHANGED <<git, phase, child, tail, expired, signal, step_vars, work, askpass,
                   networks, containers, kept, saved, load>>

-----------------------------------------------------------------------------
(* Steps *)

Status(w, s) == statuses' = [statuses EXCEPT ![w][at[w]] = s]

\* The Err and the unsuccessful arm: the loop goes on only past a tolerated
\* failure.
step_failed_goes_on(w) ==
    /\ Status(w, "failure")
    /\ saw_failure' = [saw_failure EXCEPT ![w] = TRUE]
    /\ Goto(w, "top") /\ at' = [at EXCEPT ![w] = @ + 1]
    /\ failed_step' = IF Steps(w)[at[w]].continue_on_error THEN failed_step
                      ELSE [failed_step EXCEPT ![w] = at[w]]
    /\ UNCHANGED conclusion
step_failed(w) ==
    /\ Status(w, "failure")
    /\ saw_failure' = [saw_failure EXCEPT ![w] = TRUE]
    /\ IF Steps(w)[at[w]].continue_on_error
       THEN Goto(w, "top") /\ at' = [at EXCEPT ![w] = @ + 1] /\ UNCHANGED failed_step
       ELSE Goto(w, "end") /\ failed_step' = [failed_step EXCEPT ![w] = at[w]] /\ UNCHANGED at
    /\ UNCHANGED conclusion

skip_step(w) ==
    /\ Status(w, "skipped") /\ at' = [at EXCEPT ![w] = @ + 1]

\* What the job does with the outcome of step at[w].
Settle(w, r) ==
    /\ phase' = [phase EXCEPT ![w] = 0]
    /\ bad' = [bad EXCEPT ![w] = FALSE]
    /\ CASE r = "ok" ->
              /\ Status(w, "success") /\ Goto(w, "top") /\ at' = [at EXCEPT ![w] = @ + 1]
              /\ UNCHANGED <<saw_failure, failed_step, conclusion>>
         [] r = "err" /\ signal[w] ->
              /\ Status(w, "cancelled") /\ Conclude(w, "cancelled") /\ Goto(w, "clean_services")
              /\ UNCHANGED <<at, saw_failure, failed_step>>
         [] OTHER -> step_failed(w)

\* Steps of the agent's own have no watched child and look at neither the
\* deadline nor the signal: what they may return, and what they leave.
Own_kinds == {"upload", "download", "cache"}

\* Without files the upload succeeds and leaves nothing, or fails.
upload_artifact_action(w, r) ==
    /\ r \in {"ok", "err"}
    /\ \E files \in BOOLEAN :
          artifacts' = IF r = "ok" /\ files
                       THEN [artifacts EXCEPT ![w] = @ \union {Steps(w)[at[w]].name}] ELSE artifacts
    /\ UNCHANGED saves

\* From this job's uploads, else from those the payload makes available.
download_artifact_action(w, r) ==
    /\ \/ r = "ok" /\ Steps(w)[at[w]].name \in artifacts[w] \union Plan[w].available
       \/ r = "err"
    /\ UNCHANGED <<artifacts, saves>>

\* A miss asks for a save unless the step only looks up; it fails the step
\* under fail-on-cache-miss.
actions_cache_action(w, r) ==
    /\ \E miss, lookup \in BOOLEAN :
          /\ r = "fail" => miss
          /\ saves' = IF r # "err" /\ miss /\ ~lookup
                      THEN [saves EXCEPT ![w] = @ \union {at[w]}] ELSE saves
    /\ UNCHANGED artifacts

\* The head of the loop: cancelled, skipped, or the step begins, unless its
\* directory or program is missing or the job is out of time.
begin_step(w) ==
    /\ pc[w] = "top" /\ at[w] <= Len(Steps(w))
    /\ LET s == Steps(w)[at[w]]
           runs == ~signal[w] /\ should_run_ci_step(s.cond, saw_failure[w])
       IN \/ /\ signal[w]
             /\ Status(w, "cancelled") /\ Conclude(w, "cancelled") /\ Goto(w, "clean_services")
             /\ UNCHANGED <<at, phase, child, saw_failure, bad, failed_step, saves, artifacts>>
          \/ /\ ~signal[w] /\ ~runs
             /\ skip_step(w)
             /\ UNCHANGED <<pc, phase, child, saw_failure, bad, failed_step, saves, artifacts, conclusion>>
          \/ /\ runs /\ s.kind \notin Own_kinds
             /\ \/ /\ Next_child(w, "step") /\ phase' = [phase EXCEPT ![w] = 1]
                   /\ UNCHANGED <<at, step_vars>>
                \/ Settle(w, "err") /\ UNCHANGED <<child, saves, artifacts>>
          \/ /\ runs /\ s.kind \in Own_kinds
             /\ Goto(w, "own") /\ UNCHANGED <<at, phase, child, step_vars>>
    /\ UNCHANGED <<git, svc, tail, expired, signal, work_vars, load>>

own_step(w) ==
    /\ pc[w] = "own"
    /\ \E r \in {"ok", "fail", "err"} :
          /\ Settle(w, r)
          /\ CASE Steps(w)[at[w]].kind = "upload" -> upload_artifact_action(w, r)
               [] Steps(w)[at[w]].kind = "download" -> download_artifact_action(w, r)
               [] OTHER -> actions_cache_action(w, r)
    /\ UNCHANGED <<git, svc, child, tail, expired, signal, work_vars, load>>

\* Whether another child follows child ph of step s that returned r.
run_local_composite_action(r) == r = "ok"
run_local_docker_action(r) == r = "ok"
cosign_sign_blob_action(r) == r = "ok"
\* A failing pre script ends a JavaScript action, its main script only marks it
\* failed, and its post script runs if its condition holds.
run_local_javascript_action(s, ph, r, failed) ==
    \/ ph = 1 /\ r = "ok"
    \/ ph = 2 /\ r # "err" /\ should_run_ci_step(s.post, failed)

goes_on(s, ph, r, failed) ==
    /\ ph < s.children
    /\ CASE s.kind = "composite" -> run_local_composite_action(r)
         [] s.kind = "docker" -> run_local_docker_action(r)
         [] s.kind = "cosign" -> cosign_sign_blob_action(r)
         [] s.kind = "node" -> run_local_javascript_action(s, ph, r, failed)
         [] OTHER -> FALSE

\* The outcome of a step whose last child returned r: cosign reports failure
\* as an error.
step_outcome(s, r, failed) ==
    IF r = "ok" /\ failed THEN "fail"
    ELSE IF s.kind = "cosign" /\ r = "fail" THEN "err" ELSE r

\* A child of a step has ended; reading its command files may fail as well.
execute_ci_step(w) ==
    /\ pc[w] = "step" /\ Returned(w)
    /\ \E r \in {Outcome(w), "err"} :
       LET s == Steps(w)[at[w]]
           failed == r # "ok" \/ bad[w]
           more == goes_on(s, phase[w], r, failed)
       IN \/ /\ more /\ Next_child(w, "step")
             /\ phase' = [phase EXCEPT ![w] = @ + 1]
             /\ bad' = [bad EXCEPT ![w] = failed]
             /\ UNCHANGED <<at, saw_failure, statuses, failed_step, saves, artifacts, conclusion>>
          \/ /\ more /\ expired[w]
             /\ Settle(w, "err") /\ Collected(w) /\ UNCHANGED <<saves, artifacts>>
          \/ /\ ~more
             /\ Settle(w, step_outcome(s, r, failed))
             /\ Collected(w) /\ UNCHANGED <<saves, artifacts>>
    /\ UNCHANGED <<git, svc, tail, expired, signal, work_vars, load>>

\* The caches asked for are saved unless a step ended the job.
save_caches(w) ==
    saved' = IF failed_step[w] = 0 THEN saved \union {<<w, i>> : i \in saves[w]} ELSE saved

\* After the last step, or the one that ended the job.
finish_steps(w) ==
    /\ \/ pc[w] = "end"
       \/ pc[w] = "top" /\ at[w] > Len(Steps(w))
    /\ save_caches(w)
    /\ Conclude(w, IF failed_step[w] = 0 THEN "success" ELSE "failure")
    /\ Goto(w, "clean_services")
    /\ UNCHANGED <<git, svc, at, phase, child, tail, expired, signal, saw_failure, bad,
                   statuses, failed_step, saves, artifacts, work, askpass, config, networks, containers, kept, load>>

-----------------------------------------------------------------------------
(* Cleanup and result *)

\* Best effort, with a signal and a deadline of its own: each docker rm may fail.
\* The network cannot be removed while a container of it is left.
cleanup_ci_services(w) ==
    LET n == service_network_name(w)
        mine == {container_name(w, i) : i \in DOMAIN Services(w)} \intersect containers
    IN /\ pc[w] = "clean_services"
       /\ IF Services(w) = <<>>
          THEN UNCHANGED <<containers, networks, kept>>
          ELSE \E stuck \in SUBSET mine, net \in BOOLEAN :
                 LET stays == n \in networks /\ (net \/ stuck # {}) IN
                 /\ containers' = containers \ (mine \ stuck)
                 /\ networks' = IF stays THEN networks ELSE networks \ {n}
                 /\ kept' = kept \union stuck \union (IF stays THEN {n} ELSE {})
       /\ Drop_session(w)
       /\ Goto(w, "clean_checkout")
       /\ UNCHANGED <<git, svc, at, phase, child, tail, expired, signal, step_vars, work, askpass, saved, load>>

cleanup_ci_checkout(w) ==
    /\ pc[w] = "clean_checkout"
    /\ work' = [work EXCEPT ![Plan[w].dir] = None]
    /\ Goto(w, "done")
    /\ UNCHANGED <<git, svc, at, phase, child, tail, expired, signal, step_vars, askpass,
                   config, networks, containers, kept, saved, load>>

\* CommandCancels::cancel, and the passing of the job deadline.
cancel(w) ==
    /\ ~signal[w] /\ pc[w] # "done"
    /\ signal' = [signal EXCEPT ![w] = TRUE]
    /\ UNCHANGED <<pc, git, svc, at, phase, child, tail, expired, step_vars, work_vars, load>>

Expire(w) ==
    /\ ~expired[w] /\ pc[w] \notin {"idle", "done"}
    /\ expired' = [expired EXCEPT ![w] = TRUE]
    /\ UNCHANGED <<pc, git, svc, at, phase, child, tail, signal, step_vars, work_vars, load>>

Own(w) ==
    \/ execute_ci_job(w) \/ ensure_ci_checkout(w) \/ run_git_command(w)
    \/ materialize_action_bundles(w) \/ start_ci_services(w) \/ network_created(w)
    \/ start_service(w) \/ service_started(w) \/ wait_for_ci_service_ready(w)
    \/ record_host_shell_service_ports(w) \/ next_service(w) \/ begin_step(w)
    \/ own_step(w) \/ execute_ci_step(w) \/ finish_steps(w)
    \/ cleanup_ci_services(w) \/ cleanup_ci_checkout(w)

JobNext == \E w \in Workers :
    \/ Own(w) \/ terminate_child(w) \/ TailEnds(w) \/ cancel(w) \/ Expire(w)
    \/ \E s \in {"ok", "fail"} : ChildExits(w, s)

JobSpec == JobInit /\ [][JobNext]_jobVars

\* A worker thread runs on, every wait has a timeout, and time passes.  Nothing
\* makes a background process of a step end.
JobFairSpec ==
    /\ JobSpec
    /\ \A w \in Deliveries : /\ WF_jobVars(w \in Workers /\ Own(w))
                            /\ WF_jobVars(w \in Workers /\ terminate_child(w))
                            /\ WF_jobVars(w \in Workers /\ Expire(w))

-----------------------------------------------------------------------------
(* Properties *)

Done(w) == pc[w] = "done"
InSteps(w) == pc[w] \in {"top", "own", "step", "end"}

\* On every way out of execute_ci_job the job's containers, network, docker
\* credentials and checkout are gone, except what docker refused to remove,
\* and no watched process is left.
CleanedUp ==
    \A w \in Workers : Done(w) =>
        /\ child[w] = "none"
        /\ work[Plan[w].dir] # w
        /\ Plan[w].job \notin config
        /\ networks \intersect {service_network_name(w)} \subseteq kept
        /\ {c \in containers : c[1] = Plan[w].job} \subseteq kept

\* A job has its own checkout, network and services while its steps run,
\* whatever the other workers do: names are per job.
Isolated ==
    \A w \in Workers : InSteps(w) =>
        /\ Plan[w].repo => work[Plan[w].dir] = w
        /\ Services(w) # <<>> => service_network_name(w) \in networks
        /\ \A i \in DOMAIN Services(w) : container_name(w, i) \in containers

\* Steps are taken in order and nothing is taken after the one that ended the
\* job, a failure without continue_on_error or the cancellation: no step, and no
\* cache is saved.
StopsThere ==
    /\ \A s \in saved : conclusion[s[1]] = "success"
    /\ \A w \in Workers : \A i, j \in 1..Len(Steps(w)) : i < j =>
           /\ statuses[w][j] # "none" => statuses[w][i] # "none"
           /\ statuses[w][i] = "cancelled" => statuses[w][j] = "none"
           /\ (statuses[w][i] = "failure" /\ ~Steps(w)[i].continue_on_error)
                 => statuses[w][j] = "none"

\* The result is what the steps say: a job that succeeded took every step and
\* tolerated every failure, a failed one names the step that ended it (or never
\* reached the steps), and only a cancelled job is reported cancelled.
ResultTruthful ==
    \A w \in Workers : Done(w) =>
        CASE conclusion[w] = "success" ->
                \A i \in 1..Len(Steps(w)) :
                    \/ statuses[w][i] \in {"success", "skipped"}
                    \/ statuses[w][i] = "failure" /\ Steps(w)[i].continue_on_error
          [] conclusion[w] = "failure" ->
                \/ \A i \in 1..Len(Steps(w)) : statuses[w][i] = "none"
                \/ failed_step[w] # 0 /\ statuses[w][failed_step[w]] = "failure"
          [] OTHER -> signal[w]

\* A started job ends, by its deadline at the latest, unless a process that a
\* step left behind keeps the step's pipes open (wait_for_child_output).
JobEnds == \A w \in Deliveries :
    (w \in Workers /\ pc[w] # "idle") ~> (w \in Workers /\ (Done(w) \/ tail[w] = "piped"))
=============================================================================
