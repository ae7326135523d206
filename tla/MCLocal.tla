------------------------------- MODULE MCLocal -------------------------------
(***************************************************************************)
(* Small instances of the components of the agent that runs by itself.     *)
(* They share no state that the models keep, so a behaviour is one of one  *)
(* component: part says which, and the loads below what happens to it.     *)
(***************************************************************************)
EXTENDS MCBackupScheduler, Alerts, MCTelemetryStore, LogIngest, ArtifactStaging, LocalStreams, ChangeCalls, TLC

VARIABLE part    \* the component this behaviour is about

-----------------------------------------------------------------------------
(* Rules, channels and what the host reports.                              *)

\* A rule that is valid; the loads change what matters to them.
Spec0(conds) == [conditions |-> conds, named |-> TRUE, regex_ok |-> TRUE, window |-> Unset, for_duration |-> Unset,
   op |-> "gt", kind |-> "deploy_failed", scope |-> [service |-> ""], threshold |-> 1, repeat |-> 15, channels |-> {"c"},
   on_resolve |-> TRUE, enabled |-> TRUE]
Rule(id, s) == [do |-> "rule", id |-> id, spec |-> s]
Load(actions, start) == [actions |-> actions, start |-> start, occurrences |-> 0, drops |-> FALSE, series |-> {{}}, counts |-> {},
   builtins |-> {}, phases |-> {}, answers |-> {"delivered"}, channels |-> {"c"}, standing |-> {"c"}, tests |-> FALSE,
   restarts |-> FALSE, spacing |-> 2]
Chan(c) == [do |-> "channel", id |-> c]
M == Rule("m", [Spec0({"metric"}) EXCEPT !.for_duration = 5])
AlSilence(id, t) == [do |-> "silence", id |-> id, until |-> t]
High == {<<0, 2>>, <<>>}
\* A metric rises, misses samples and falls while its rule is silenced.
Metrics == [Load(<<Chan("c"), M, AlSilence("m", 4)>>, 2) EXCEPT !.series = {{}, High, {<<2, 0>>}}]
Broken == [M.spec EXCEPT !.op = "unspecified"]
\* The rule is replaced by an invalid one and deleted while it fires.
Changes == [Load(<<Chan("c"), M, Rule("m", Broken), [do |-> "delete", id |-> "m"]>>, 2) EXCEPT !.series = {High, {<<2, 0>>}}, !.tests = TRUE, !.occurrences = 2]
Beat == [kind |-> "cron_missed", scope |-> [service |-> "s"], source |-> "cron", subject |-> "j", standalone |-> TRUE, channels |-> {"c"}]
\* Missed cron jobs and failed backups, over a restart.
Beats == [Load(<<Chan("c")>>, 1) EXCEPT !.occurrences = 3, !.builtins = {Beat, [Beat EXCEPT !.kind = "backup_failed"]}, !.restarts = TRUE]
\* Deployments that fail, go on and succeed.
Deploys == [Load(<<Chan("c"), Rule("e", [Spec0({"event"}) EXCEPT !.scope = [service |-> "s"]])>>, 2)
   EXCEPT !.occurrences = 2, !.phases = {"failed", "live", "building"}]
\* Telemetry that drops records.
Drops == [Load(<<Chan("c"), Rule("d", [Spec0({"event"}) EXCEPT !.kind = "telemetry_dropping"])>>, 2) EXCEPT !.drops = TRUE]
\* Log counts, with a channel that fails and is deleted.
Logs == [Load(<<Chan("c"), Rule("l", Spec0({"log"})), [do |-> "channel_delete", id |-> "c"]>>, 2) EXCEPT !.counts = {1, 2}, !.answers = {"delivered", "later"},
   !.standing = {}]
MCAlertLoads == {Metrics, Changes, Beats, Deploys, Drops, Logs}

-----------------------------------------------------------------------------
(* What the runner writes and when the stream breaks.                      *)

L(src, sec, text) == [src |-> src, sec |-> sec, text |-> text, pem |-> "none", host |-> "", path |-> ""]
Key(sec, text, pem) == [L("c", sec, text) EXCEPT !.pem = pem]
Access(sec, host, path) == [L("dwaar.service", sec, path) EXCEPT !.host = host, !.path = path]
ILoad(script) == [script |-> script, units |-> {"dwaar.service", "ssh.service"}, allowed |-> {"dwaar.service"}, routes |-> Nothing,
   later |-> Nothing, server |-> TRUE, ahead |-> 0, restarts |-> 1, breaks |-> 1, sheds |-> FALSE, stops |-> FALSE, roomy |-> TRUE, until |-> 0]
\* Lines within one second, with a broken stream and a restart.
Lines == [ILoad(<<L("c", 1, "a"), L("c", 1, "b"), L("d", 2, "a"), L("c", 2, "a")>>) EXCEPT !.ahead = 3]
\* The same while time passes.
Timed == [ILoad(<<L("c", 1, "a"), L("c", 1, "b"), L("d", 2, "a")>>) EXCEPT !.ahead = 3, !.until = 1]
\* A key block over several lines, and shedding.
Keys == [ILoad(<<Key(1, "k", "begin"), Key(1, "l", "body"), Key(2, "m", "body"), Key(2, "n", "end"), L("ssh.service", 2, "x"), Key(3, "o", "body")>>)
   EXCEPT !.sheds = TRUE, !.breaks = 0, !.restarts = 0, !.ahead = 4, !.until = 1]
\* A container that stops inside a key block.
Stops == [Keys EXCEPT !.stops = TRUE, !.restarts = 1, !.breaks = 0, !.sheds = FALSE, !.until = 0]
\* Accesses of known, late and unknown hosts.
Hits == [ILoad(<<Access(1, "h", "p"), Access(2, "h", "q"), Access(3, "w", "p"), Access(4, "h", "p"), Access(6, "k", "p")>>)
   EXCEPT !.breaks = 0, !.restarts = 0, !.ahead = 3, !.later = [h \in {"h", "w"} |-> IF h = "h" THEN "svc" ELSE ""], !.until = 2]
MCIngestLoads == {Lines, Timed, Keys, Stops, Hits}

-----------------------------------------------------------------------------
(* Uploads, their manifests and the keys.                                  *)

Header(id, d) == [t |-> "header", id |-> id, digest |-> d, arch |-> "this"]
StageF(n, c) == [t |-> "file", name |-> n, size |-> Len(c), digest |-> c]
StageC(c) == [t |-> "chunk", data |-> c]
Whole(n, c) == <<StageF(n, c), StageC(c)>>
Commit == <<[t |-> "commit"]>>
M1 == <<"m1">>
M2 == <<"m2">>
M3 == <<"m3">>
Full(id, m, s, bins) == <<Header(id, m)>> \o Whole("manifest.json", m) \o Whole("manifest.sig.json", s) \o FlattenSeq([i \in DOMAIN bins |-> Whole(bins[i], <<bins[i], "!">>)]) \o Commit
Entries == [n \in {"dwaar", "runner"} |-> <<n, "!">>]
ABase == [uploads |-> <<>>, manifests |-> (M1 :> [canonical |-> TRUE, entries |-> Entries]) @@ (M2 :> [canonical |-> TRUE, entries |-> Entries]) @@ (M3 :> [canonical |-> TRUE, entries |-> Entries]),
          signatures |-> (<<"s1">> :> [key |-> "k", over |-> M1]) @@ (<<"s2">> :> [key |-> "k", over |-> M2]) @@ (<<"s3">> :> [key |-> "l", over |-> M3]),
          binaries |-> {"dwaar", "runner"}, keys |-> [ok |-> TRUE, pinned |-> {"k", "l"}, revoked |-> {}], newKeys |-> [ok |-> TRUE, pinned |-> {"k", "l"}, revoked |-> {}],
          trustTest |-> FALSE, faults |-> 1, consumes |-> FALSE, end |-> 0]
\* One set uploaded three times, once with the id of the first, and consumed.
Again == [ABase EXCEPT !.uploads = <<Full("a", M1, <<"s1">>, <<"dwaar">>), Full("b", M1, <<"s1">>, <<"dwaar", "runner">>), Full("a", M1, <<"s1">>, <<>>)>>, !.consumes = TRUE]
\* More sets than are kept.
Three == [ABase EXCEPT !.uploads = <<Full("a", M1, <<"s1">>, <<>>), Full("b", M2, <<"s2">>, <<"runner">>), Full("c", M3, <<"s3">>, <<>>)>>, !.end = 2]
\* A set consumed while the next is staged.
Consuming == [ABase EXCEPT !.uploads = <<Full("a", M1, <<"s1">>, <<"dwaar">>), Full("b", M1, <<"s1">>, <<"dwaar">>), Full("c", M2, <<"s2">>, <<>>)>>, !.consumes = TRUE, !.faults = 2]
\* Sets that do not verify.
Wrong == [ABase EXCEPT !.uploads = <<<<Header("a", M1)>> \o Whole("manifest.json", M1) \o Whole("dwaar", <<"evil">>) \o Whole("manifest.sig.json", <<"s1">>) \o Commit,
             <<Header("b", M1)>> \o Whole("manifest.json", M2) \o Whole("manifest.sig.json", <<"s2">>) \o Commit,
             <<Header("c", M1)>> \o Whole("manifest.json", M1) \o Whole("manifest.sig.json", <<"s2">>) \o Commit,
             <<Header("d", M1), StageC(<<"x">>)>>, <<Header("e", M1), StageF("manifest.json", M1)>> \o Commit,
             <<Header("f", M1)>> \o Whole("other", M1), <<Header("g", M1)>> \o Whole("manifest.json", M1) \o Commit>>, !.faults = 0]
\* A key is revoked between two uploads of what it signed.
Revoked == [ABase EXCEPT !.uploads = <<Full("a", M3, <<"s3">>, <<"dwaar">>), Full("b", M3, <<"s3">>, <<"dwaar">>), <<Header("c", M1), StageF("manifest.json", <<"a", "b", "c", "d">>)>>, <<[Header("d", M1) EXCEPT !.arch = "other"]>>>>,
             !.newKeys = [ok |-> TRUE, pinned |-> {"k", "l"}, revoked |-> {"l"}], !.end = 2]
MCStagingLoads == {Again, Three, Consuming, Wrong, Revoked}

-----------------------------------------------------------------------------
(* Published events, subscribers, watchers, readers of pages and clients.  *)

SEv(k, s, i) == [kind |-> k, state |-> s, id |-> i, project |-> "p", service |-> "s"]
SBase == [publishes |-> <<>>, subs |-> Empty, conns |-> {}, hooks |-> FALSE, status |-> FALSE, end |-> 0, operations |-> {}, records |-> Empty,
          watches |-> Empty, readers |-> Empty, admissions |-> 0, boots |-> 1, feed |-> FALSE]
SSub(c, k, p, r) == [conn |-> c, kinds |-> k, project |-> p, service |-> "", resumes |-> r]
\* A slow subscriber that resumes, over a restart.
Subscribed == [SBase EXCEPT !.publishes = <<SEv("alert", "firing", ""), SEv("trust", "", ""), SEv("alert", "resolved", ""), SEv("alert", "firing", "")>>,
   !.subs = (1 :> SSub(1, {}, "", TRUE)) @@ (2 :> SSub(1, {"alert"}, "p", FALSE)), !.boots = 2]
SRec(o, l) == [op |-> o, last |-> l]
\* Two tasks write to an operation that two watchers follow.
Watched == [SBase EXCEPT !.operations = {"o", "q"}, !.records = (1 :> <<SRec("o", FALSE), SRec("o", TRUE)>>) @@ (2 :> <<SRec("q", FALSE), SRec("o", FALSE)>>),
   !.watches = (1 :> [op |-> "o", after |-> 0]) @@ (2 :> [op |-> "o", after |-> 1]), !.boots = 2]
\* Lists read in pages while entries come and end.
Paged == [SBase EXCEPT !.admissions = 4, !.readers = (1 :> [list |-> "operations", size |-> 2, states |-> {"open"}]) @@ (2 :> [list |-> "operations", size |-> 1, states |-> {"ended"}]) @@
   (3 :> [list |-> "admissions", size |-> 2, states |-> {}])]
\* Standing rules are listed while they are added.
Ruled == [SBase EXCEPT !.admissions = 4, !.readers = 1 :> [list |-> "rules", size |-> 1, states |-> {"open"}]]
\* Two clients come and go.
Present == [SBase EXCEPT !.conns = {1, 2}, !.subs = (1 :> SSub(1, {}, "", FALSE)) , !.end = 2, !.hooks = TRUE, !.feed = TRUE,
   !.publishes = <<SEv("operation", "failed", "o")>>]
\* Streams opened before Hello.
Early == [SBase EXCEPT !.conns = {1}, !.subs = (1 :> SSub(1, {"x"}, "", FALSE)) @@ (2 :> SSub(1, {"x"}, "", FALSE)), !.end = 1, !.status = TRUE]
\* Events that the state feed counts or not.
Counted == [SBase EXCEPT !.conns = {1}, !.end = 2, !.feed = TRUE, !.publishes = <<SEv("operation", "succeeded", "o"), SEv("cron_run", "timed_out", ""), SEv("cron_run", "missed", ""),
   SEv("backup_run", "missed", ""), SEv("verification", "failed", ""), SEv("operation", "rolled_back", "q"), SEv("alert", "firing", "")>>]
MCStreamLoads == {Subscribed, Watched, Paged, Ruled, Present, Early, Counted}

-----------------------------------------------------------------------------
(* Signed plans submitted, verified, cancelled and opened as shells.       *)

CPlan(i, d, k) == [id |-> i, digest |-> d, kinds |-> k, updates |-> {}, valid |-> TRUE, host |-> FALSE, ttl |-> 2, cancels |-> ""]
CCall(r, p) == [rpc |-> r, plan |-> p, target |-> "", opens |-> TRUE]
CBase == [calls |-> <<>>, staging |-> TRUE, staged |-> {"u"}, work |-> [results |-> 0, lines |-> 0, frames |-> 0], runnerFull |-> FALSE,
          abandons |-> FALSE, frames |-> {}, breaks |-> FALSE, end |-> 0, deadlines |-> {1, 4}]
CDeploy == CPlan("a", 1, {"deploy"})
CUpdate(d) == [CPlan("u", 1, {"agent.update"}) EXCEPT !.updates = {[kind |-> "agent.update", component |-> "", bundle |-> d], [kind |-> "component.update", component |-> "os_packages", bundle |-> ""]}]
CCancel(t) == [CPlan("c", 1, {"operation.cancel"}) EXCEPT !.cancels = t]
CShell(i, h) == [CPlan(i, 1, {"shell.open"}) EXCEPT !.host = h]
\* A plan sent twice, another plan with its id, and cancellations.
Submitted == [CBase EXCEPT !.calls = <<CCall("submit", CDeploy), CCall("submit", CDeploy), CCall("submit", [CDeploy EXCEPT !.digest = 2]),
    [CCall("cancel", CCancel("a")) EXCEPT !.target = "a"], [CCall("cancel", CCancel("b")) EXCEPT !.target = "a"], CCall("verify", CDeploy)>>, !.end = 1, !.abandons = TRUE]
\* Updates with and without their staged set, and plans that are not valid.
Checked == [CBase EXCEPT !.calls = <<CCall("submit", CUpdate("u")), CCall("submit", CUpdate("v")), CCall("verify", CUpdate("v")), CCall("submit", CShell("s", FALSE)),
    CCall("verify", CShell("s", FALSE)), CCall("submit", [CDeploy EXCEPT !.valid = FALSE]), CCall("submit", CDeploy), CCall("verify", [CDeploy EXCEPT !.valid = FALSE])>>]
\* No staging in this agent.
Unstaged == [CBase EXCEPT !.staging = FALSE, !.calls = <<CCall("submit", CUpdate("u")), CCall("submit", CDeploy), CCall("verify", CDeploy)>>, !.end = 2]
\* Shells beyond the slots, one plan opened twice.
Shells == [CBase EXCEPT !.calls = <<CCall("shell", CShell("s", TRUE)), CCall("shell", CShell("s", TRUE)), CCall("shell", CShell("t", FALSE)), 
    [CCall("shell", CShell("y", TRUE)) EXCEPT !.opens = FALSE], CCall("shell", CDeploy)>>, !.runnerFull = TRUE, !.abandons = TRUE, !.work = [results |-> 1, lines |-> 0, frames |-> 0]]
\* One session with every frame, a silent client and its deadline.
Pumped == [CBase EXCEPT !.calls = <<CCall("shell", [CShell("s", TRUE) EXCEPT !.ttl = 3])>>, !.abandons = TRUE, !.breaks = TRUE, !.end = 5,
    !.frames = {"stdin", "TERM", "bad", "end"}, !.work = [results |-> 1, lines |-> 1, frames |-> 2]]
\* Two sessions that end.
TwoPumped == [CBase EXCEPT !.calls = <<CCall("shell", CShell("s", TRUE)), CCall("shell", [CShell("t", FALSE) EXCEPT !.ttl = 9])>>, !.end = 2,
    !.frames = {"end"}, !.work = [results |-> 1, lines |-> 0, frames |-> 0]]
MCCallLoads == {Submitted, Checked, Unstaged, Shells, Pumped, TwoPumped}

-----------------------------------------------------------------------------
(* One component runs; the variables of the others are zero.               *)

schedOff == clock = 0 /\ crashes = 0 /\ signed = 0 /\ defs = 0 /\ checkpoint = 0 /\ runRows = 0 /\ slots = 0 /\
            queue = 0 /\ retries = 0 /\ busy = 0 /\ server_busy = 0 /\ recovering = 0 /\ running = 0 /\
            popped = 0 /\ task = 0 /\ tick = 0 /\ runner = 0 /\ calls = 0 /\ artifact = 0 /\ vrow = 0 /\
            verifying = 0 /\ vtask = 0 /\ vcall = 0 /\ manual = 0 /\ bsLoad = 0
alertsOff == now = 0 /\ applied = 0 /\ state = 0 /\ stored = 0 /\ ev = 0 /\ sending = 0 /\ notes = 0 /\
             seen = 0 /\ clobbered = 0 /\ restarts = 0 /\ left = 0 /\ alLoad = 0
storeOff == st = 0 /\ waiting = 0 /\ writing = 0 /\ barriers = 0 /\ watched = 0 /\ lost = 0 /\ view = 0 /\
            tnow = 0 /\ tcrashes = 0 /\ born = 0 /\ base = 0 /\ refused = 0 /\ synced = 0 /\ handed = 0 /\
            tsLoad = 0
ingestOff == accepted = 0 /\ durable = 0 /\ gone = 0 /\ epoch = 0 /\ wrote = 0 /\ conn = 0 /\ g = 0 /\
             saved = 0 /\ routes = 0 /\ lnow = 0 /\ lbreaks = 0 /\ fate = 0 /\ life = 0 /\ told = 0 /\
             counted = 0 /\ rows = 0 /\ floor = 0 /\ liLoad = 0
stagingOff == dirs = 0 /\ drafts = 0 /\ setRows = 0 /\ up = 0 /\ eats = 0 /\ uploadResults = 0 /\ keyFile = 0 /\
              asNow = 0 /\ asFaults = 0 /\ raced = 0 /\ asLoad = 0
streamsOff == boot = 0 /\ sent = 0 /\ published = 0 /\ subs = 0 /\ engine = 0 /\ feedAt = 0 /\ lastStatus = 0 /\
              opEvents = 0 /\ chan = 0 /\ writers = 0 /\ watches = 0 /\ ledger = 0 /\ readers = 0 /\
              leftConns = 0 /\ streamNow = 0 /\ streamLoad = 0
callsOff == handlers = 0 /\ admitted = 0 /\ submissions = 0 /\ hostShells = 0 /\ passes = 0 /\ freeSlots = 0 /\ opened = 0 /\
            work = 0 /\ callNow = 0 /\ callLoad = 0

MCInit ==
    \/ /\ part = "sched" /\ BsInit
       /\ alertsOff /\ storeOff /\ ingestOff /\ stagingOff /\ streamsOff /\ callsOff
    \/ /\ part = "alerts" /\ AlInit
       /\ schedOff /\ storeOff /\ ingestOff /\ stagingOff /\ streamsOff /\ callsOff
    \/ /\ part = "store" /\ TsInit
       /\ schedOff /\ alertsOff /\ ingestOff /\ stagingOff /\ streamsOff /\ callsOff
    \/ /\ part = "ingest" /\ LiInit
       /\ schedOff /\ alertsOff /\ storeOff /\ stagingOff /\ streamsOff /\ callsOff
    \/ /\ part = "staging" /\ AsInit
       /\ schedOff /\ alertsOff /\ storeOff /\ ingestOff /\ streamsOff /\ callsOff
    \/ /\ part = "streams" /\ StInit
       /\ schedOff /\ alertsOff /\ storeOff /\ ingestOff /\ stagingOff /\ callsOff
    \/ /\ part = "calls" /\ CcInit
       /\ schedOff /\ alertsOff /\ storeOff /\ ingestOff /\ stagingOff /\ streamsOff
MCNext ==
    \/ /\ part = "sched" /\ BsNext
       /\ UNCHANGED <<part, alVars, tsVars, liVars, asVars, stVars, ccVars>>
    \/ /\ part = "alerts" /\ AlNext
       /\ UNCHANGED <<part, bsVars, tsVars, liVars, asVars, stVars, ccVars>>
    \/ /\ part = "store" /\ TsNext
       /\ UNCHANGED <<part, bsVars, alVars, liVars, asVars, stVars, ccVars>>
    \/ /\ part = "ingest" /\ LiNext
       /\ UNCHANGED <<part, bsVars, alVars, tsVars, asVars, stVars, ccVars>>
    \/ /\ part = "staging" /\ AsNext
       /\ UNCHANGED <<part, bsVars, alVars, tsVars, liVars, stVars, ccVars>>
    \/ /\ part = "streams" /\ StNext
       /\ UNCHANGED <<part, bsVars, alVars, tsVars, liVars, asVars, ccVars>>
    \/ /\ part = "calls" /\ CcNext
       /\ UNCHANGED <<part, bsVars, alVars, tsVars, liVars, asVars, stVars>>
allVars == <<part, bsVars, alVars, tsVars, liVars, asVars, stVars, ccVars>>

Spec == MCInit /\ [][MCNext]_allVars

-----------------------------------------------------------------------------
(* What each component promises, about the behaviours that are its own.    *)

\* sched/backup.rs: the runner gets no attempt twice and a finished row says
\* what it answered; on one thread one run has the server, and every policy
\* with a run in progress, waiting or to be retried is busy (BackupScheduler).
BackupRunsHold == part = "sched" => RunsInOrder /\ SlotsHeld

\* sched/alerts.rs: what is stored is open, one missed sample resolves nothing,
\* what is open was announced or is held by a silence, repeats keep their
\* interval, and a notification is sent or counted in a later one (Alerts).
AlertsHold == part = "alerts" => AlertsAgree

\* telemetry/store.rs: sequence numbers stay in order over restarts, every
\* record is kept, dropped or evicted and counted as such, what was synced
\* survives a crash, and a page misses nothing that was there, nor does a live
\* cursor stand for another record (TelemetryStore).
TelemetryHolds == part = "store" => StoreKeeps

\* telemetry/store.rs implements RecordLog: each step of the store is one of
\* its steps, where the version of the directory is known.
TelemetryIsRecordLog ==
    /\ part = "store" => R!RlInit
    /\ [][part = "store" /\ tsVars' # tsVars => tsLoad.resets \/ R!RlNext]_allVars

\* telemetry/ingest.rs: a line is stored once however the stream breaks, the
\* checkpoint passes no line that may still come, drops are told, key blocks
\* are hidden over restarts, and accesses are counted once (LogIngest).
IngestHolds == part = "ingest" => IngestAccounts

\* local/artifacts.rs: a staged set is whole and verified by a key that
\* was pinned, each row has its files, and no more is kept than the limits
\* (ArtifactStaging).
ArtifactsHold == part = "staging" => StagingHolds

\* local/events.rs, local/change.rs, local/presence.rs: a subscriber is told
\* when it missed events, a watcher sees each event of its operation, a list
\* read in pages is complete, and presence agrees with the streams
\* (LocalStreams).
LocalStreamsHold == part = "streams" => StreamsHold

\* local/change.rs, local/shell.rs: every slot comes back, one plan opens one
\* shell, a repeated plan answers with its operation, the limits hold, and a
\* session that is read ends in time with the first reason (ChangeCalls).
ChangeCallsHold == part = "calls" => CallsHold
=============================================================================
