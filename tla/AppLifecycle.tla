---------------------------- MODULE AppLifecycle ----------------------------
(***************************************************************************)
(* The commands for hosted apps and services (src/src/app_lifecycle.rs and *)
(* service_lifecycle.rs): clone, build, deploy, stop, roll back and clean  *)
(* up an app, create, start, stop, restart and destroy a service, probe a  *)
(* container's health.  Every command is a task of its own, waits for one  *)
(* docker or git call after the other and may be cancelled while it waits; *)
(* what they share is the host: directories, docker's containers, images   *)
(* and volumes, and the secret files.                                      *)
(*                                                                         *)
(* docker is external.  A call succeeds, exits with an error, or is given  *)
(* up after its timeout, in which case docker may have done its work.  The *)
(* handlers of apps look at the exit status of few calls, the handlers of  *)
(* services at that of most.                                               *)
(***************************************************************************)
EXTENDS Naturals, Sequences, FiniteSets, SequencesExt

CONSTANTS
    AppLoads    \* sets of commands in flight together, see AppCommand

NoName == <<>>
Prefix == "deploy-app"

\* A command: what it is, the container it names (a name is the sequence of its
\* parts between dashes) and the app it is for; then what of its payload steers it.
AppCommand(kind, name, slug) ==
    [kind |-> kind, name |-> name, slug |-> slug, dir |-> 0, token |-> FALSE, sha |-> FALSE,
     dockerfile |-> "repo", pull |-> FALSE, secret |-> FALSE, vols |-> {}, peer |-> NoName,
     keep |-> NoName, checked |-> FALSE]

\* A clone with or without a token and a commit to check out.
parse_clone_payload(slug, token, sha) ==
    [AppCommand("clone", NoName, slug) EXCEPT !.token = token, !.sha = sha]
\* A build in a clone's directory, and where its Dockerfile comes from.
parse_build_payload(slug, dir, dockerfile) ==
    [AppCommand("build", NoName, slug) EXCEPT !.dir = dir, !.dockerfile = dockerfile]
\* A deploy: whether it pulls, its secret file, volumes, and the container that
\* its environment names.
parse_deploy_payload(name, slug, pull, secret, vols, peer) ==
    [AppCommand("deploy", name, slug) EXCEPT !.pull = pull, !.secret = secret, !.vols = vols, !.peer = peer]
\* A service with its volumes and with or without a health check.
parse_create_service_payload(name, vols, checked) ==
    [AppCommand("service", name, name) EXCEPT !.vols = vols, !.checked = checked]
\* EXEC on a clone's directory.
parse_exec_payload(slug, dir) == [AppCommand("rmdir", NoName, slug) EXCEPT !.dir = dir]
cleanup_payload(slug, keep) == [AppCommand("cleanup", NoName, slug) EXCEPT !.keep = keep]

\* A secret is for a deploy, whose container the control plane names
\* deploy-app-<slug>-<n>; the containers there are before mount none.
ASSUME AppAssumption ==
    \A l \in AppLoads :
        /\ \A j \in DOMAIN l.cmds :
              LET c == l.cmds[j] IN
              c.secret => /\ c.kind = "deploy" /\ c.slug \in Seq(STRING) \ {<<>>}
                          /\ Len(c.name) > 0 /\ c.name = <<Prefix>> \o c.slug \o <<c.name[Len(c.name)]>>
        /\ \A n \in DOMAIN l.ctr :
              /\ DOMAIN l.ctr[n] = {"slug", "running", "restart", "vols", "nets", "healthy", "checked", "secret"}
              /\ l.ctr[n].secret = NoName

VARIABLES
    appPc,      \* command -> where it waits
    appAns,     \* command -> its answer, "none" before
    workdir,    \* clone directories that exist, named by the clone that made them
    askpass,    \* clones whose askpass script exists
    appLocks,   \* build_locks: directories with a build in flight
    ctr,        \* docker's containers: name -> its record
    volume,     \* docker's volumes
    image,      \* apps that have an image
    secretFile, \* secret directory -> the app whose secret its file holds
    rmList,     \* cleanup: containers it listed and has not come to
    volList,    \* cleanup: volumes it will remove
    appLoad     \* the commands and whether docker may fail; never changes

appVars == <<appPc, appAns, workdir, askpass, appLocks, ctr, volume, image, secretFile,
             rmList, volList, appLoad>>

Jobs == DOMAIN appLoad.cmds
AppCmd(j) == appLoad.cmds[j]
Containers == DOMAIN ctr

AppInit ==
    /\ appLoad \in AppLoads
    /\ appPc = [j \in DOMAIN appLoad.cmds |-> "idle"]
    /\ appAns = [j \in DOMAIN appLoad.cmds |-> "none"]
    /\ workdir = {} /\ askpass = {} /\ appLocks = {}
    /\ ctr = appLoad.ctr
    /\ volume = UNION {appLoad.ctr[n].vols : n \in DOMAIN appLoad.ctr}
    /\ image = {appLoad.ctr[n].slug : n \in DOMAIN appLoad.ctr}
    /\ secretFile = [s \in {} |-> NoName]
    /\ rmList = [j \in DOMAIN appLoad.cmds |-> {}]
    /\ volList = [j \in DOMAIN appLoad.cmds |-> {}]

AppGo(j, l) == appPc' = [appPc EXCEPT ![j] = l] /\ UNCHANGED appAns
Answer(j, a) == appPc' = [appPc EXCEPT ![j] = "done"] /\ appAns' = [appAns EXCEPT ![j] = a]
AppAt(j, kind, l) == AppCmd(j).kind = kind /\ appPc[j] = l
appHost == <<workdir, askpass, appLocks>>
daemon == <<ctr, volume, image>>
scan == <<rmList, volList>>

\* The outcome of a call to docker, and whether docker has acted: on success it
\* has, on an error exit it has not, after a timeout either.
Calls == {<<"ok", TRUE>>} \cup
         (IF appLoad.fails THEN {<<"exit", FALSE>>, <<"err", FALSE>>, <<"err", TRUE>>} ELSE {})

\* A streamed call (git, build, pull) fails for any exit but success.
Streamed == IF appLoad.fails THEN BOOLEAN ELSE {TRUE}

\* A network that cannot be inspected is created.
ensure_network(inspect, create) == inspect[1] = "ok" \/ create[1] = "ok"

-----------------------------------------------------------------------------
(* Clone and build *)

\* A new directory, and with a token a script that hands it to git; without the
\* script the directory goes again.
handle_app_clone(j) ==
    /\ AppAt(j, "clone", "idle")
    /\ \/ /\ workdir' = workdir \cup {j}
          /\ askpass' = IF AppCmd(j).token THEN askpass \cup {j} ELSE askpass
          /\ AppGo(j, "git_clone")
       \/ appLoad.fails /\ Answer(j, "failed") /\ UNCHANGED <<workdir, askpass>>
    /\ UNCHANGED <<appLocks, daemon, secretFile, scan, appLoad>>

\* Every way the clone can fail takes the script and the directory with it.
Clone_failed(j) ==
    /\ workdir' = workdir \ {j} /\ askpass' = askpass \ {j}
    /\ Answer(j, "failed")

\* git clone, then fetch and checkout of the commit when one is given; then the
\* script goes and the directory is the answer.
git_step(j) ==
    /\ AppCmd(j).kind = "clone" /\ appPc[j] \in {"git_clone", "git_fetch", "git_checkout"}
    /\ \/ /\ \/ appPc[j] = "git_clone" /\ AppCmd(j).sha /\ AppGo(j, "git_fetch") /\ UNCHANGED askpass
             \/ appPc[j] = "git_fetch" /\ AppGo(j, "git_checkout") /\ UNCHANGED askpass
             \/ /\ appPc[j] = "git_checkout" \/ ~AppCmd(j).sha
                /\ askpass' = askpass \ {j}
                /\ Answer(j, "completed")
          /\ UNCHANGED workdir
       \/ FALSE \in Streamed /\ Clone_failed(j)
    /\ UNCHANGED <<appLocks, daemon, secretFile, scan, appLoad>>

\* A configured Dockerfile must exist, a generated one is written, else the
\* repository's own is looked for.
resolve_dockerfile_strategy(j) == AppCmd(j).dockerfile \in {"configured", "generated", "repo"}

\* One build at a time in a directory.
acquire_always(d) == TRUE
acquire(d) == d \notin appLocks

handle_app_build(j) ==
    /\ AppAt(j, "build", "idle")
    /\ \/ /\ AppCmd(j).dir \in workdir /\ acquire(AppCmd(j).dir) /\ resolve_dockerfile_strategy(j)
          /\ appLocks' = appLocks \cup {AppCmd(j).dir}
          /\ AppGo(j, "docker_build")
       \/ /\ AppCmd(j).dir \notin workdir \/ ~acquire(AppCmd(j).dir) \/ ~resolve_dockerfile_strategy(j)
          /\ Answer(j, "failed") /\ UNCHANGED appLocks
    /\ UNCHANGED <<workdir, askpass, daemon, secretFile, scan, appLoad>>

\* The guard goes with the handler, however it ends.
Drop_guard(j) == appLocks' = IF AppAt(j, "build", "docker_build") THEN appLocks \ {AppCmd(j).dir} ELSE appLocks

docker_build(j) ==
    /\ AppAt(j, "build", "docker_build")
    /\ \E ok \in Streamed :
         IF ok /\ AppCmd(j).dir \in workdir
         THEN image' = image \cup {AppCmd(j).slug} /\ Answer(j, "completed")
         ELSE UNCHANGED image /\ Answer(j, "failed")
    /\ Drop_guard(j)
    /\ UNCHANGED <<workdir, askpass, ctr, volume, secretFile, scan, appLoad>>

\* EXEC with a clone_dir: removes the directory, also under a build.
cleanup_build_dir(j) ==
    /\ AppAt(j, "rmdir", "idle")
    /\ \/ workdir' = workdir \ {AppCmd(j).dir} /\ Answer(j, "completed")
       \/ appLoad.fails /\ UNCHANGED workdir /\ Answer(j, "failed")
    /\ UNCHANGED <<askpass, appLocks, daemon, secretFile, scan, appLoad>>

-----------------------------------------------------------------------------
(* Deploy *)

\* The app a container's name tells: deploy-app-<slug>-<n>.
extract_slug_from_container(name) ==
    IF Len(name) > 2 /\ name[1] = Prefix THEN SubSeq(name, 2, Len(name) - 1) ELSE <<"unknown">>

\* The network is ensured and the image pulled; then the secret files are written
\* to the directory of the app.
handle_app_deploy(j) ==
    /\ AppAt(j, "deploy", "idle")
    /\ \E inspect, create \in Calls :
         IF ensure_network(inspect, create)
         THEN AppGo(j, IF AppCmd(j).pull THEN "pull" ELSE "secrets") ELSE Answer(j, "failed")
    /\ UNCHANGED <<appHost, daemon, secretFile, scan, appLoad>>
pull_image(j) ==
    /\ AppAt(j, "deploy", "pull")
    /\ \E ok \in Streamed :
         IF ok THEN AppGo(j, "secrets") /\ image' = image \cup {AppCmd(j).slug}
         ELSE Answer(j, "failed") /\ UNCHANGED image
    /\ UNCHANGED <<appHost, ctr, volume, secretFile, scan, appLoad>>
write_secret_files(j) ==
    LET dir == extract_slug_from_container(AppCmd(j).name) IN
    /\ AppAt(j, "deploy", "secrets")
    /\ \/ AppGo(j, "create")
       \/ appLoad.fails /\ Answer(j, "failed")
    /\ secretFile' = IF ~AppCmd(j).secret THEN secretFile
                     ELSE [d \in DOMAIN secretFile \cup {dir} |->
                             IF d = dir THEN AppCmd(j).slug ELSE secretFile[d]]
    /\ UNCHANGED <<appHost, daemon, scan, appLoad>>

Container(j) ==
    [slug |-> AppCmd(j).slug, running |-> FALSE, restart |-> TRUE, vols |-> AppCmd(j).vols,
     nets |-> {AppCmd(j).slug}, healthy |-> FALSE, checked |-> AppCmd(j).checked,
     secret |-> IF AppCmd(j).secret THEN extract_slug_from_container(AppCmd(j).name) ELSE NoName]
Create(j) ==
    /\ ctr' = [n \in Containers \cup {AppCmd(j).name} |-> IF n = AppCmd(j).name THEN Container(j) ELSE ctr[n]]
    /\ volume' = volume \cup AppCmd(j).vols
Absent(j) == AppCmd(j).name \notin Containers

\* docker create: refused for a name that is taken, and then there is no container
\* id in its output; after a timeout the container may be there.
docker_create(j) ==
    /\ AppAt(j, "deploy", "create")
    /\ \E r \in Calls :
         LET acts == r[2] /\ Absent(j) IN
         /\ IF acts THEN Create(j) ELSE UNCHANGED <<ctr, volume>>
         /\ IF acts /\ r[1] = "ok" THEN AppGo(j, "connect") ELSE Answer(j, "failed")
    /\ UNCHANGED <<appHost, image, secretFile, scan, appLoad>>

\* Joins the networks of the containers its environment names, when they exist.
connect_app_to_service_networks(j) ==
    /\ AppAt(j, "deploy", "connect")
    /\ AppGo(j, "start")
    /\ \E r \in Calls :
         ctr' = IF r[2] /\ ~Absent(j) /\ AppCmd(j).peer \in Containers
                THEN [ctr EXCEPT ![AppCmd(j).name].nets = @ \cup ctr[AppCmd(j).peer].nets] ELSE ctr
    /\ UNCHANGED <<appHost, volume, image, secretFile, scan, appLoad>>

\* The exit status of docker start is not looked at: it counts as done unless the
\* call could not be made or timed out.
Start(n) == ctr' = IF n \in Containers THEN [ctr EXCEPT ![n].running = TRUE] ELSE ctr
docker_start(j) ==
    /\ AppCmd(j).kind \in {"deploy", "rollback"} /\ appPc[j] = "start"
    /\ \E r \in Calls :
         /\ IF r[2] THEN Start(AppCmd(j).name) ELSE UNCHANGED ctr
         /\ Answer(j, IF r[1] = "err" THEN "failed" ELSE "completed")
    /\ UNCHANGED <<appHost, volume, image, secretFile, scan, appLoad>>

\* Up to a minute of inspections: healthy by docker's own check or by the answer
\* of its port, failed once it is not there or does not run, or in the end.
probe_container_health(j) ==
    /\ AppAt(j, "probe", "idle")
    /\ \/ ~Absent(j) /\ (ctr[AppCmd(j).name].running \/ ctr[AppCmd(j).name].healthy) /\ Answer(j, "completed")
       \/ ~(~Absent(j) /\ ctr[AppCmd(j).name].healthy) /\ Answer(j, "failed")
    /\ UNCHANGED <<appHost, daemon, secretFile, scan, appLoad>>

-----------------------------------------------------------------------------
(* Stop, rollback, cleanup *)

Set_restart(n, on) == ctr' = IF n \in Containers THEN [ctr EXCEPT ![n].restart = on] ELSE ctr
Gone(ns) == ctr' = [n \in Containers \ ns |-> ctr[n]]

\* docker update --restart=no, stop, rm -f; only a stop that could not be run or
\* timed out is reported.
handle_app_stop(j) ==
    /\ AppAt(j, "stop", "idle")
    /\ \E r \in Calls : IF r[2] THEN Set_restart(AppCmd(j).name, FALSE) ELSE UNCHANGED ctr
    /\ AppGo(j, "docker_stop")
    /\ UNCHANGED <<appHost, volume, image, secretFile, scan, appLoad>>
docker_stop(j) ==
    /\ AppAt(j, "stop", "docker_stop")
    /\ \E r \in Calls :
         /\ ctr' = IF r[2] /\ ~Absent(j) THEN [ctr EXCEPT ![AppCmd(j).name].running = FALSE] ELSE ctr
         /\ IF r[1] = "err" THEN Answer(j, "failed") ELSE AppGo(j, "docker_rm")
    /\ UNCHANGED <<appHost, volume, image, secretFile, scan, appLoad>>
docker_rm(j) ==
    /\ AppAt(j, "stop", "docker_rm")
    /\ \E r \in Calls : IF r[2] THEN Gone({AppCmd(j).name}) ELSE UNCHANGED ctr
    /\ Answer(j, "completed")
    /\ UNCHANGED <<appHost, volume, image, secretFile, scan, appLoad>>

\* A container that is not there fails, one that runs is done with.
handle_app_rollback(j) ==
    /\ AppAt(j, "rollback", "idle")
    /\ \/ Absent(j) /\ Answer(j, "failed") /\ UNCHANGED ctr
       \/ appLoad.fails /\ Answer(j, "failed") /\ UNCHANGED ctr
       \/ ~Absent(j) /\ ctr[AppCmd(j).name].running /\ Answer(j, "completed") /\ UNCHANGED ctr
       \/ /\ ~Absent(j) /\ ~ctr[AppCmd(j).name].running
          /\ AppGo(j, "start")
          /\ \E r \in Calls : IF r[2] THEN Set_restart(AppCmd(j).name, TRUE) ELSE UNCHANGED ctr
    /\ UNCHANGED <<appHost, volume, image, secretFile, scan, appLoad>>

\* docker's name filter: containers whose name starts with deploy-app-<slug>-,
\* those of an app whose slug continues this one included.
Matches(j, n) == IsStrictPrefix(<<Prefix>> \o AppCmd(j).slug, n)
handle_app_cleanup(j) ==
    /\ AppAt(j, "cleanup", "idle")
    /\ \E r \in Calls :
         rmList' = [rmList EXCEPT ![j] = IF r[1] = "ok" THEN {n \in Containers : Matches(j, n)} ELSE {}]
    /\ AppGo(j, "containers")
    /\ UNCHANGED <<appHost, daemon, secretFile, volList, appLoad>>

\* One container after the other, but the one to keep; its volumes are noted.
Spared_none(j, n) == FALSE
Spared(j, n) == n = AppCmd(j).keep
remove_container(j) ==
    /\ AppAt(j, "cleanup", "containers") /\ rmList[j] # {}
    /\ \E n \in rmList[j] : \E r, seen \in Calls :
         /\ rmList' = [rmList EXCEPT ![j] = @ \ {n}]
         /\ volList' = IF Spared(j, n) \/ n \notin Containers \/ seen[1] # "ok" THEN volList
                       ELSE [volList EXCEPT ![j] = @ \cup ctr[n].vols]
         /\ IF Spared(j, n) \/ ~r[2] THEN UNCHANGED ctr ELSE Gone({n})
    /\ UNCHANGED <<appPc, appAns, appHost, volume, image, secretFile, appLoad>>

\* The volumes named after the app join the list; then its images go but the one
\* to keep, and then the volumes.  docker refuses what a container uses.
InUse(v) == \E n \in Containers : v \in ctr[n].vols
remove_images(j) ==
    /\ AppAt(j, "cleanup", "containers") /\ rmList[j] = {}
    /\ \E seen, listed, r \in Calls :
         /\ volList' = IF seen[1] # "ok" THEN volList
                       ELSE [volList EXCEPT ![j] = @ \cup {v \in volume : IsPrefix(<<Prefix>> \o AppCmd(j).slug, v)}]
         /\ image' = IF /\ listed[1] = "ok" /\ r[2] /\ AppCmd(j).keep = NoName
                        /\ \A n \in Containers : ctr[n].slug # AppCmd(j).slug
                     THEN image \ {AppCmd(j).slug} ELSE image
         /\ IF listed[1] # "ok" THEN Answer(j, "failed") ELSE AppGo(j, "volumes")
    /\ UNCHANGED <<appHost, ctr, volume, secretFile, rmList, appLoad>>
remove_volumes(j) ==
    /\ AppAt(j, "cleanup", "volumes")
    /\ IF volList[j] = {} THEN Answer(j, "completed") /\ UNCHANGED <<volume, volList>>
       ELSE \E v \in volList[j], r \in Calls :
              /\ volList' = [volList EXCEPT ![j] = @ \ {v}]
              /\ volume' = IF r[2] /\ ~InUse(v) THEN volume \ {v} ELSE volume
              /\ UNCHANGED <<appPc, appAns>>
    /\ UNCHANGED <<appHost, ctr, image, secretFile, rmList, appLoad>>

-----------------------------------------------------------------------------
(* Services *)

\* Pull, network and volumes; then create, whose exit status counts here.
handle_service_create(j) ==
    /\ AppAt(j, "service", "idle")
    /\ \E ok \in Streamed, inspect, create, r \in Calls :
         /\ image' = IF ok THEN image \cup {AppCmd(j).slug} ELSE image
         /\ IF ok /\ ensure_network(inspect, create) /\ r[1] # "err"
            THEN AppGo(j, "create") /\ volume' = IF r[2] THEN volume \cup AppCmd(j).vols ELSE volume
            ELSE Answer(j, "failed") /\ UNCHANGED volume
    /\ UNCHANGED <<appHost, ctr, secretFile, scan, appLoad>>
service_created(j) ==
    /\ AppAt(j, "service", "create")
    /\ \E r \in Calls :
         LET acts == r[2] /\ Absent(j) IN
         /\ IF acts THEN Create(j) ELSE UNCHANGED <<ctr, volume>>
         /\ IF acts /\ r[1] = "ok" THEN AppGo(j, "start") ELSE Answer(j, "failed")
    /\ UNCHANGED <<appHost, image, secretFile, scan, appLoad>>
service_started(j) ==
    /\ AppAt(j, "service", "start")
    /\ \E r \in Calls :
         /\ IF r[2] THEN Start(AppCmd(j).name) ELSE UNCHANGED ctr
         /\ IF r[1] = "err" THEN Answer(j, "failed")
            ELSE IF AppCmd(j).checked THEN AppGo(j, "health") ELSE Answer(j, "completed")
    /\ UNCHANGED <<appHost, volume, image, secretFile, scan, appLoad>>
\* A minute for docker's health check; a container that stopped or is gone ends
\* the wait.
wait_for_container_healthy(j) ==
    /\ AppAt(j, "service", "health")
    /\ \/ ~Absent(j) /\ ctr[AppCmd(j).name].healthy /\ Answer(j, "completed")
       \/ Answer(j, "failed")
    /\ UNCHANGED <<appHost, daemon, secretFile, scan, appLoad>>

\* stop, start, restart and destroy: one call, reported by its exit status; a
\* refused call (no such container) is a failure.  Stop switches the restart
\* policy off first, start switches it on once it succeeded.
ServiceOps == {"sv_stop", "sv_start", "sv_restart", "sv_destroy"}
handle_service_op(j) ==
    /\ AppCmd(j).kind \in ServiceOps /\ appPc[j] = "idle"
    /\ \E r, update \in Calls :
         LET n == AppCmd(j).name
             ok == r[1] = "ok" /\ ~Absent(j)
             runs == IF r[2] THEN AppCmd(j).kind # "sv_stop" ELSE ctr[n].running
             restarts == CASE AppCmd(j).kind = "sv_stop" /\ update[2] -> FALSE
                           [] AppCmd(j).kind = "sv_start" /\ ok /\ update[2] -> TRUE
                           [] OTHER -> ctr[n].restart
         IN
         /\ Answer(j, IF ok THEN "completed" ELSE "failed")
         /\ \/ Absent(j) /\ UNCHANGED ctr
            \/ /\ ~Absent(j) /\ AppCmd(j).kind = "sv_destroy"
               /\ IF r[2] THEN Gone({n}) ELSE UNCHANGED ctr
            \/ /\ ~Absent(j) /\ AppCmd(j).kind # "sv_destroy"
               /\ ctr' = [ctr EXCEPT ![n].running = runs, ![n].restart = restarts]
    /\ UNCHANGED <<appHost, volume, image, secretFile, scan, appLoad>>

\* What an inspection says of a container: without a health check, running is
\* healthy.
wait_result_from_inspect(n) ==
    IF n \in Containers /\ ctr[n].running /\ (ctr[n].checked => ctr[n].healthy)
    THEN "healthy" ELSE "unhealthy"
handle_wait_for_healthy(j) ==
    /\ AppAt(j, "wait", "idle")
    /\ Answer(j, wait_result_from_inspect(AppCmd(j).name))
    /\ UNCHANGED <<appHost, daemon, secretFile, scan, appLoad>>

-----------------------------------------------------------------------------
(* Cancellation, containers on their own *)

\* A cancelled command is dropped where it waits: nothing it made is undone, but
\* the guard of a build is released.
app_cancelled(j) ==
    /\ appLoad.cancel /\ appPc[j] \notin {"idle", "done"}
    /\ Drop_guard(j)
    /\ Answer(j, "cancelled")
    /\ UNCHANGED <<workdir, askpass, daemon, secretFile, scan, appLoad>>

\* A container's health check passes.
container_healthy(n) ==
    /\ ctr[n].checked /\ ctr[n].running /\ ~ctr[n].healthy
    /\ ctr' = [ctr EXCEPT ![n].healthy = TRUE]
    /\ UNCHANGED <<appPc, appAns, appHost, volume, image, secretFile, scan, appLoad>>

AppStep(j) ==
    \/ handle_app_clone(j) \/ git_step(j) \/ handle_app_build(j) \/ docker_build(j)
    \/ cleanup_build_dir(j) \/ handle_app_deploy(j) \/ pull_image(j) \/ write_secret_files(j)
    \/ docker_create(j) \/ connect_app_to_service_networks(j) \/ docker_start(j)
    \/ probe_container_health(j) \/ handle_app_stop(j) \/ docker_stop(j) \/ docker_rm(j)
    \/ handle_app_rollback(j) \/ handle_app_cleanup(j) \/ remove_container(j)
    \/ remove_images(j) \/ remove_volumes(j) \/ handle_service_create(j) \/ service_created(j)
    \/ service_started(j) \/ wait_for_container_healthy(j) \/ handle_service_op(j)
    \/ handle_wait_for_healthy(j)

AppNext == \/ \E j \in Jobs : AppStep(j) \/ app_cancelled(j)
           \/ \E n \in Containers : container_healthy(n)

-----------------------------------------------------------------------------
(* Properties *)

\* Builds never share a directory, and a directory is locked exactly while a
\* build is at work in it, also when builds fail or are cancelled (BuildGuard).
BuildsExclusive ==
    LET building == {j \in Jobs : AppAt(j, "build", "docker_build")} IN
    /\ \A i, j \in building : AppCmd(i).dir = AppCmd(j).dir => i = j
    /\ appLocks = {AppCmd(j).dir : j \in building}

\* A clone that was answered leaves no askpass script, and a failed one no
\* directory; only a cancelled one may (handle_app_clone).
CloneLeavesNothing ==
    \A j \in Jobs : AppCmd(j).kind = "clone" =>
        /\ appAns[j] \in {"completed", "failed"} => j \notin askpass
        /\ appAns[j] = "failed" => j \notin workdir

\* The secret file a container mounts holds a secret of its own app, whichever
\* apps are deployed together and however their names continue each other
\* (extract_slug_from_container, write_secret_files).
SecretsAreOwn ==
    \A n \in Containers : ctr[n].secret # NoName => secretFile[ctr[n].secret] = ctr[n].slug

FilesInOrder == BuildsExclusive /\ CloneLeavesNothing /\ SecretsAreOwn

\* A container goes only by a command that is in flight and names it, or by a
\* cleanup whose app its name continues and which does not keep it: a deploy of
\* a name that is taken replaces nothing (docker_create, handle_app_cleanup).
Condemned(n) ==
    \E j \in Jobs : /\ appPc[j] # "done"
                    /\ \/ AppCmd(j).kind \in {"stop", "sv_destroy"} /\ AppCmd(j).name = n
                       \/ AppCmd(j).kind = "cleanup" /\ Matches(j, n) /\ AppCmd(j).keep # n
RemovesOnPurpose == \A n \in Containers : n \notin Containers' => Condemned(n)
=============================================================================
