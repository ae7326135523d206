------------------------------- MODULE MCHosted ------------------------------
(***************************************************************************)
(* Small instances of the components of the agent that a control plane     *)
(* commands.  They share no state that the models keep, so a behaviour is  *)
(* one of one component: part says which, and the loads below what it is   *)
(* sent and what fails.                                                    *)
(***************************************************************************)
EXTENDS AppLifecycle, BackupLifecycle, MCComposeLifecycle, CiCache, MCLogSpool, HostedMetrics, DwaarGateway, AgentIdentity, TLC

VARIABLE part    \* the component this behaviour is about

-----------------------------------------------------------------------------
(* Applications and services, with their containers.                       *)

Web == <<"web">>
Api == <<"web", "api">>
Name(slug, n) == <<Prefix>> \o slug \o <<n>>
Db == <<"db">>
Data == <<Prefix, "web", "data">>
\* A container that was deployed before.
Old(slug) == [slug |-> slug, running |-> TRUE, restart |-> TRUE, vols |-> {Data}, nets |-> {slug},
              healthy |-> FALSE, checked |-> FALSE, secret |-> NoName]
\* Clone, build and run; a deployment replaced, cleaned up and rolled back;
\* the same with a docker that fails; a service through its life.
MCAppLoads ==
    {[cmds |-> <<parse_clone_payload(Web, TRUE, TRUE), parse_build_payload(Web, 1, "repo"),
                 parse_build_payload(Web, 1, "generated"), parse_exec_payload(Web, 1),
                 parse_clone_payload(Web, TRUE, FALSE)>>,
      ctr |-> <<>>, fails |-> TRUE, cancel |-> TRUE],
     [cmds |-> <<parse_deploy_payload(Name(Web, "2"), Web, TRUE, TRUE, {Data}, Name(Api, "1")),
                 parse_deploy_payload(Name(Api, "1"), Api, FALSE, TRUE, {}, NoName),
                 cleanup_payload(Web, Name(Web, "2")),
                 AppCommand("stop", Name(Web, "1"), Web),
                 AppCommand("rollback", Name(Web, "1"), Web)>>,
      ctr |-> Name(Web, "1") :> Old(Web), fails |-> FALSE, cancel |-> TRUE],
     [cmds |-> <<parse_deploy_payload(Name(Web, "2"), Web, FALSE, TRUE, {Data}, NoName),
                 cleanup_payload(Web, Name(Web, "2")),
                 AppCommand("probe", Name(Web, "2"), Web),
                 AppCommand("stop", Name(Web, "1"), Web)>>,
      ctr |-> Name(Web, "1") :> Old(Web), fails |-> TRUE, cancel |-> FALSE],
     [cmds |-> <<parse_create_service_payload(Db, {Db}, TRUE),
                 AppCommand("sv_stop", Db, Db), AppCommand("sv_start", Db, Db),
                 AppCommand("sv_restart", Db, Db), AppCommand("sv_destroy", Db, Db),
                 AppCommand("wait", Db, Db)>>,
      ctr |-> <<>>, fails |-> TRUE, cancel |-> FALSE]}

-----------------------------------------------------------------------------
(* Backups of a service of each engine.                                    *)

Svc == <<"service", "db">>
A1 == <<"a", 1>>
A2 == <<"a", 2>>
B1 == <<"b", 1>>
\* Two backups with one id and a restore; verifications, together and with a
\* docker that fails; a download of a backup and its archive.
MCBkLoads ==
  {[cmds |-> <<parse_backup_payload("create", Svc, e, A1), parse_backup_payload("create", Svc, e, A1),
               parse_backup_payload("restore", Svc, e, B1)>>,
    services |-> {Svc}, stored |-> {B1}, fails |-> f, cancel |-> ~f] : e \in Engines, f \in BOOLEAN}
  \cup
  {[cmds |-> <<parse_backup_payload("verify", Svc, e, A1), parse_backup_payload("verify", Svc, e, A2),
               Artifact("directory")>>,
    services |-> {Svc}, stored |-> {A1, A2}, fails |-> FALSE, cancel |-> FALSE] : e \in Engines}
  \cup
  {[cmds |-> <<parse_backup_payload("verify", Svc, e, A1), Artifact("directory")>>,
    services |-> {Svc}, stored |-> {A1}, fails |-> TRUE, cancel |-> TRUE] : e \in Engines}
  \cup
  {[cmds |-> <<parse_backup_payload("create", Svc, "mongo", A1), parse_backup_payload("download", Svc, "mongo", A1),
               Artifact("file"), parse_backup_payload("upload", Svc, "mongo", A1)>>,
    services |-> {Svc}, stored |-> {}, fails |-> TRUE, cancel |-> FALSE]}

-----------------------------------------------------------------------------
(* Uses of the CI cache.                                                   *)

\* Three keys, one used twice; the use of the second restores from any.
MCKeyOf == "a" :> 1 @@ "b" :> 2 @@ "c" :> 3 @@ "d" :> 1
MCPrefixOf == "a" :> {1} @@ "b" :> 1..3 @@ "c" :> {3} @@ "d" :> {1}

\* Four uses in turn, with copies that fail or not, and three at once.
MCCacheLoads == [uses : {Uses}, overlap : {FALSE}, fails : BOOLEAN]
           \cup {[uses |-> {"a", "b", "c"}, overlap |-> TRUE, fails |-> FALSE]}

-----------------------------------------------------------------------------
(* Access logs, heartbeats and health checks.                              *)

ALine == [size |-> "ok", json |-> TRUE, host |-> [name |-> "a", spelled |-> ""], path |-> <<"word">>, query |-> <<>>, status |-> 200, ms |-> 5,
          bytes |-> 3, ua |-> "Chrome", bot |-> FALSE, country |-> "IN", referrer |-> [name |-> "", spelled |-> ""], cache |-> "HIT",
          visitor |-> "v", body |-> <<>>]
BLine == [ALine EXCEPT !.host.name = "b", !.path = <<"digits", "hex">>, !.ms = 9, !.status = 502, !.bot = TRUE, !.referrer.name = "a", !.cache = "",
          !.body = <<"authorization:", "bearer", "plain", "bearer", "plain">>]
CLine == [ALine EXCEPT !.path = <<"uuid">>, !.host.spelled = ":443", !.status = 99, !.bytes = -1, !.ua = "crawler", !.visitor = "",
          !.referrer = [name |-> "a", spelled |-> ":443"], !.query = <<<<"utm_source", "email">>, <<"utm_term", "blank">>, <<"x", "y">>>>,
          !.cache = "MISS", !.body = <<"bearer", "plain">>]
DLine == [BLine EXCEPT !.host = [name |-> "a", spelled |-> ""], !.body = <<>>, !.referrer = [name |-> "q", spelled |-> "bad"]]
Broken == [ALine EXCEPT !.json = FALSE]
Unnamed == [ALine EXCEPT !.host = [name |-> "x", spelled |-> "bad"]]
Blank == [ALine EXCEPT !.size = "empty", !.json = FALSE]
Check(id, type) == [id |-> id, type |-> type, target |-> type, interval |-> 1, expected |-> 0]
MBase == [lines |-> <<>>, rotations |-> 0, checks |-> <<>>, configs |-> 0, interval |-> 1, faults |-> 1, start |-> 0, end |-> 1]
\* More routes, domains and samples than are kept.
Traffic == [MBase EXCEPT !.lines = <<ALine, CLine, DLine, ALine, BLine>>, !.interval = 5]
\* Lines that cannot be read, and no heartbeat interval.
Malformed == [MBase EXCEPT !.lines = <<Broken, Unnamed, Blank, BLine, CLine>>, !.interval = 0, !.end = 2, !.start = 2]
\* The log is rotated.
Rotating == [MBase EXCEPT !.lines = <<ALine, BLine, ALine>>, !.rotations = 1]
\* Health checks replaced while they run.
Checks == [MBase EXCEPT !.checks = <<Check("i", "http"), Check("i", "tcp"), [Check("j", "process") EXCEPT !.target = "http"], Check("k", "udp")>>, !.configs = 2, !.end = 1, !.faults = 0]
\* A check without an interval, configured again.
OneCheck == [MBase EXCEPT !.checks = <<[Check("i", "process") EXCEPT !.interval = 0]>>, !.configs = 3, !.end = 3]
MCMetricLoads == {Traffic, Malformed, Rotating, Checks, OneCheck}

-----------------------------------------------------------------------------
(* Commands to Dwaar.                                                      *)

RouteAdd(d, h) == [kind |-> "route_add", domain |-> d, host |-> h, replicas |-> <<>>, prefix |-> "", analytics |-> FALSE]
RouteRemove(d) == [kind |-> "route_remove", domain |-> d]
Listed(d, h, slug) == [kind |-> "route", domain |-> d, host |-> h, slug |-> slug, prefix |-> "", analytics |-> FALSE]
Patch(b, a, v) == [kind |-> "config_patch", id |-> "Dwaarfile", block |-> b, action |-> a, value |-> v]
Named(k, id) == [kind |-> k, id |-> id]
Tcp(id, ips) == [kind |-> "tcp_proxy_upsert", id |-> id, target |-> "t", ips |-> ips]
Plain(h, b) == [head |-> h, opens |-> 0, closes |-> 0, body |-> b]
Open(h) == [head |-> h, opens |-> 1, closes |-> 0, body |-> ""]
Close == [head |-> "", opens |-> 0, closes |-> 1, body |-> ""]
Box(n, s, r, a) == [name |-> n, slug |-> s, running |-> r, address |-> a]
\* Containers that run, stopped ones and one without an address.
GBase == [commands |-> <<>>, routes |-> <<>>, containers |-> <<Box("web", "web", TRUE, "10.1"), Box("web-2", "web", TRUE, "10.2"), Box("old", "web", FALSE, "10.3"), Box("bare", "bare", TRUE, "")>>,
          addresses |-> {"1.1", "2.2"}, conf |-> <<>>, faults |-> 0, throttles |-> FALSE, end |-> 0]
\* A route of two replicas is added, removed and replaced.
Adding == [GBase EXCEPT !.commands = <<[RouteAdd("d", "web") EXCEPT !.replicas = <<"web", "1.1">>], RouteRemove("d"), [RouteAdd("d", "bare") EXCEPT !.analytics = TRUE], RouteRemove("")>>, !.faults = 1]
\* Two handlers write one route.
Twins == [GBase EXCEPT !.commands = <<RouteAdd("d", "1.1"), [RouteAdd("d", "2.2") EXCEPT !.replicas = <<"2.2", "2.2">>], RouteAdd("d", "2.2")>>, !.faults = 1]
\* Routes that need a snippet; Dwaar answers 429.
Snippets == [GBase EXCEPT !.commands = <<[RouteAdd("d", "web") EXCEPT !.prefix = "/p"], [RouteAdd("d", "1.1") EXCEPT !.analytics = TRUE], RouteRemove("d")>>, !.faults = 1, !.throttles = TRUE]
\* The list of routes is applied while one is added.
Reconcile == [GBase EXCEPT !.commands = <<[kind |-> "reconcile"], RouteAdd("d", "1.1"), Named("look", "")>>, !.faults = 2,
              !.routes = <<Listed("d", "old", "web"), Listed("", "web", ""), [Listed("e", "web", "") EXCEPT !.analytics = TRUE], Listed("f", "bare", "bare")>>]
\* App and TCP proxies.
Files == [GBase EXCEPT !.commands = <<Named("app_proxy_setup", "web"), Named("app_proxy_remove", "web"), Tcp("x", {"10.0", ""}), Named("tcp_proxy_stop", "x"), Tcp("y", {"malformed"})>>, !.faults = 1]
Global == <<Open(""), Open("analytics"), Plain("", "on"), Close, Close, Open("site"), Plain("log_level", "x"), Close>>
\* Patches of the Dwaarfile at the same time.
Patching == [GBase EXCEPT !.commands = <<Patch("log_level", "upsert", "v"), Patch("analytics", "remove", ""), Patch("log_level", "upsert", "w"), Patch("log_level", "upsert", "")>>,
             !.conf = Global, !.end = 1]
\* A Dwaarfile without a global block.
Flat == [Patching EXCEPT !.conf = <<Open("site"), Close, BlockLine("log_level", "u"), Plain("", "")>>, !.faults = 1, !.end = 0, !.commands = SubSeq(@, 1, 3)]
\* A global block on one line.
OneLine == [Patching EXCEPT !.conf = <<[head |-> "", opens |-> 1, closes |-> 1, body |-> "b"], Open("site"), Close>>, !.end = 2, !.commands = SubSeq(@, 1, 3)]
MCGatewayLoads == {Adding, Twins, Snippets, Reconcile, Files, Patching, Flat, OneLine}

-----------------------------------------------------------------------------
(* Updates, tokens, secrets and enrolments.                                *)

NoUrl == [scheme |-> "", host |-> "", serves |-> <<>>]
Url(s, content) == [scheme |-> s, host |-> "h", serves |-> content]
Chunk(n, d, ck, total) == [seq |-> n, data |-> d, checksum |-> ck, total |-> total]
AB == <<"a", "b">>
Update(e) == [kind |-> "update", inline |-> <<>>, url |-> NoUrl, version |-> "2", expected |-> e, chunks |-> <<Chunk(0, <<"a">>, AB, 2), Chunk(1, <<"b">>, <<>>, 0)>>]
Token(k, t, key) == [kind |-> k, token |-> t, apex |-> "", sealed |-> key]
Rotate(s, key) == [kind |-> "rotate_agent", secret |-> s, sealed |-> key]
Enrol(id, s) == [kind |-> "reenroll", url |-> Url("https", <<>>), gives |-> <<id, s>>]
IBase == [commands |-> <<>>, env |-> <<<<"BACKEND", "x">>, <<"", "">>, <<"AGENT_SECRET", "s0">>, <<"SERVER_ID", "i0">>, <<"LOG", "y">>>>, token |-> "t0", key |-> 7,
          faults |-> 1, managed |-> TRUE, gateRestarts |-> FALSE]
\* Three updates: in chunks, inline and from an address.
Updates == [IBase EXCEPT !.key = 0, !.faults = 2, !.commands = <<Update(AB), [Update(<<"c">>) EXCEPT !.inline = <<"c">>],
             [Update(<<"d">>) EXCEPT !.chunks = <<Chunk(0, <<"d">>, <<>>, 0), Chunk(2, <<"d">>, <<>>, 0)>>, !.url = Url("https", <<"d">>)]>>]
\* Updates that must be refused.
BadUpdates == [IBase EXCEPT !.commands = <<[Update(AB) EXCEPT !.inline = <<"a", "b", "c", "d">>], [Update(AB) EXCEPT !.chunks = <<Chunk(0, <<"a">>, <<>>, 0)>>, !.url = Url("http", AB)],
             [Update(AB) EXCEPT !.chunks = <<Chunk(0, <<"a">>, <<>>, 0)>>], [Update(AB) EXCEPT !.chunks = <<Chunk(0, <<"a">>, AB, 2)>>], [Update(<<>>) EXCEPT !.inline = AB]>>]
\* Tokens rotate while Dwaar restarts.
Tokens == [IBase EXCEPT !.gateRestarts = TRUE, !.commands = <<Token("bootstrap", "t1", 7), Token("rotate", "t2", 7), [Token("rotate", "t1", 7) EXCEPT !.apex = "a"]>>]
\* The first token, sent twice, and malformed ones.
FirstToken == [IBase EXCEPT !.token = "", !.gateRestarts = TRUE, !.commands = <<Token("bootstrap", "t1", 7), Token("bootstrap", "t1", 7), [Token("rotate", "", 7) EXCEPT !.apex = "malformed"], Token("rotate", "", 7), Token("rotate", "t2", 8)>>]
\* The secret rotates while the agent is enrolled again.
Rotations == [IBase EXCEPT !.commands = <<Rotate("s1", 7), Rotate("s2", 7), Rotate("s3", 8), Enrol("i1", "e1")>>, !.faults = 2]
\* Enrolments, one at an address without TLS.
Enrolments == [IBase EXCEPT !.commands = <<Enrol("i1", "e1"), Enrol("i2", "e2"), [Enrol("i3", "e3") EXCEPT !.url = Url("http", <<>>)]>>, !.faults = 2]
\* The agent is uninstalled among other commands.
Removal == [IBase EXCEPT !.commands = <<[kind |-> "uninstall"], Rotate("s1", 7), Token("rotate", "t1", 7)>>, !.faults = 0]
\* Uninstalled without systemd.
Unmanaged == [Removal EXCEPT !.managed = FALSE, !.commands = SubSeq(@, 1, 1), !.faults = 1]
MCIdentityLoads == {Updates, BadUpdates, Tokens, FirstToken, Rotations, Enrolments, Removal, Unmanaged}

-----------------------------------------------------------------------------
(* One component runs; the variables of the others are zero.               *)

appsOff == appPc = 0 /\ appAns = 0 /\ workdir = 0 /\ askpass = 0 /\ appLocks = 0 /\ ctr = 0 /\ volume = 0 /\
           image = 0 /\ secretFile = 0 /\ rmList = 0 /\ volList = 0 /\ appLoad = 0
backupsOff == bkPc = 0 /\ bkAns = 0 /\ bkErr = 0 /\ bkFile = 0 /\ bkTmp = 0 /\ box = 0 /\ bkVol = 0 /\ zips = 0 /\
              bkLoad = 0
composeOff == dir = 0 /\ bak = 0 /\ running = 0 /\ dataVolume = 0 /\ sent = 0 /\ coFaults = 0 /\ downs = 0 /\
              coPc = 0 /\ cmd = 0 /\ tries = 0 /\ good = 0 /\ last = 0 /\ failed = 0 /\ coSaid = 0
cacheOff == entry = 0 /\ clock = 0 /\ cachePc = 0 /\ matched = 0 /\ restored = 0 /\ next = 0 /\ victims = 0 /\
            used = 0 /\ cacheLoad = 0
spoolOff == disk = 0 /\ sp = 0 /\ batch = 0 /\ tail = 0 /\ marks = 0 /\ maps = 0 /\ spNow = 0 /\ out = 0 /\
            ended = 0 /\ crashed = 0 /\ pushed = 0 /\ arrived = 0 /\ dropped = 0 /\ blind = 0 /\ lsLoad = 0
metricsOff == rt = 0 /\ ana = 0 /\ tailer = 0 /\ logs = 0 /\ mon = 0 /\ tasks = 0 /\ hb = 0 /\ every = 0 /\
              hmNow = 0 /\ hmFaults = 0 /\ seen = 0 /\ got = 0 /\ gone = 0 /\ applied = 0 /\ hmLoad = 0
gatewayOff == dw = 0 /\ names = 0 /\ inodes = 0 /\ conf = 0 /\ backups = 0 /\ jobs = 0 /\ answers = 0 /\
              gwNow = 0 /\ gwFaults = 0 /\ settled = 0 /\ overlaps = 0 /\ gwLoad = 0
identityOff == agent = 0 /\ hostFiles = 0 /\ gate = 0 /\ temps = 0 /\ work = 0 /\ said = 0 /\ idFaults = 0 /\
               installs = 0 /\ announced = 0 /\ asked = 0 /\ slips = 0 /\ idLoad = 0

MCInit ==
    \/ /\ part = "apps" /\ AppInit
       /\ backupsOff /\ composeOff /\ cacheOff /\ spoolOff /\ metricsOff /\ gatewayOff
       /\ identityOff
    \/ /\ part = "backups" /\ BkInit
       /\ appsOff /\ composeOff /\ cacheOff /\ spoolOff /\ metricsOff /\ gatewayOff /\ identityOff
    \/ /\ part = "compose" /\ CoInit
       /\ appsOff /\ backupsOff /\ cacheOff /\ spoolOff /\ metricsOff /\ gatewayOff /\ identityOff
    \/ /\ part = "cache" /\ CacheInit
       /\ appsOff /\ backupsOff /\ composeOff /\ spoolOff /\ metricsOff /\ gatewayOff /\ identityOff
    \/ /\ part = "spool" /\ LsInit
       /\ appsOff /\ backupsOff /\ composeOff /\ cacheOff /\ metricsOff /\ gatewayOff /\ identityOff
    \/ /\ part = "metrics" /\ HmInit
       /\ appsOff /\ backupsOff /\ composeOff /\ cacheOff /\ spoolOff /\ gatewayOff /\ identityOff
    \/ /\ part = "gateway" /\ GwInit
       /\ appsOff /\ backupsOff /\ composeOff /\ cacheOff /\ spoolOff /\ metricsOff /\ identityOff
    \/ /\ part = "identity" /\ IdInit
       /\ appsOff /\ backupsOff /\ composeOff /\ cacheOff /\ spoolOff /\ metricsOff /\ gatewayOff
MCNext ==
    \/ /\ part = "apps" /\ AppNext
       /\ UNCHANGED <<part, bkVars, coVars, cacheVars, lsVars, hmVars, gwVars, idVars>>
    \/ /\ part = "backups" /\ BkNext
       /\ UNCHANGED <<part, appVars, coVars, cacheVars, lsVars, hmVars, gwVars, idVars>>
    \/ /\ part = "compose" /\ CoNext
       /\ UNCHANGED <<part, appVars, bkVars, cacheVars, lsVars, hmVars, gwVars, idVars>>
    \/ /\ part = "cache" /\ CacheNext
       /\ UNCHANGED <<part, appVars, bkVars, coVars, lsVars, hmVars, gwVars, idVars>>
    \/ /\ part = "spool" /\ LsNext
       /\ UNCHANGED <<part, appVars, bkVars, coVars, cacheVars, hmVars, gwVars, idVars>>
    \/ /\ part = "metrics" /\ HmNext
       /\ UNCHANGED <<part, appVars, bkVars, coVars, cacheVars, lsVars, gwVars, idVars>>
    \/ /\ part = "gateway" /\ GwNext
       /\ UNCHANGED <<part, appVars, bkVars, coVars, cacheVars, lsVars, hmVars, idVars>>
    \/ /\ part = "identity" /\ IdNext
       /\ UNCHANGED <<part, appVars, bkVars, coVars, cacheVars, lsVars, hmVars, gwVars>>
allVars == <<part, appVars, bkVars, coVars, cacheVars, lsVars, hmVars, gwVars, idVars>>

Spec == MCInit /\ [][MCNext]_allVars

-----------------------------------------------------------------------------
(* What each component promises, about the behaviours that are its own.    *)

\* app_lifecycle.rs: two builds never share a directory, a clone that was
\* answered leaves no script and a failed one no directory, and the secret a
\* container mounts is its own app's (AppLifecycle).
AppFilesHold == part = "apps" => FilesInOrder

\* app_lifecycle.rs: a container goes only by a command that names it, or by a
\* cleanup of its app that does not keep it (Condemned).
AppsRemovedOnPurpose == [][part = "apps" /\ appVars' # appVars => RemovesOnPurpose]_allVars

\* backup_lifecycle.rs: a backup that was reported is whole and stays so; a
\* restore brings the service back, keeps its data when it fails early, and a
\* verification leaves nothing (BackupLifecycle).
HostedBackupsHold == part = "backups" => BackupsHold /\ RestoresInOrder

\* compose_lifecycle.rs: after a failed update the last project that ran can be
\* started again, and a stopped project is gone (ComposeLifecycle).
ComposeHolds == part = "compose" => WayBack /\ StoppedIsGone

\* The CI cache: a hit restores all its paths, and the store is within its
\* quota whenever nobody saves (CiCache).
CacheHolds == part = "cache" => HitIsComplete /\ QuotaHolds

\* What the agent reports of the host: a log line that was read is spooled,
\* sent, or counted as dropped, over crashes, full budgets and outages, and
\* spooled twice only in the second of its checkpoint (LogSpool); every access
\* is counted once, buckets agree with the lines, and checks run beside
\* themselves only where they were configured again (HostedMetrics).
ReportsHold == (part = "spool" => SpoolKeeps) /\ (part = "metrics" => MetricsHold)

\* dwaar handlers: a file that Dwaar loads is whole, a route whose last change
\* was alone is served or gone as it asked, and a patch changes its block only
\* (DwaarGateway).
DwaarHolds == part = "gateway" => GatewayHolds

\* self_update.rs and the identity: the binary, the environment and the token
\* are whole and verified however an update fails, and the key and the name
\* stay (AgentIdentity).
SelfChangesHold == part = "identity" => IdentityHolds
=============================================================================
