----------------------------- MODULE MCTriggers -----------------------------
(***************************************************************************)
(* Instances of what starts work by itself: pushes and the clock.  The     *)
(* webhook pipeline and the cron scheduler share no state that the models  *)
(* keep; part says which of the two a behaviour is about.                  *)
(***************************************************************************)
EXTENDS Webhooks, Cron, TLC

CONSTANTS d1, d2, s1, s2, c1, c2

VARIABLE part    \* the component this behaviour is about

-----------------------------------------------------------------------------
(* Two pushes, the second of the newer commit, and two rules, one of them  *)
(* over two services.                                                      *)

TwoCommits == d1 :> c1 @@ d2 :> c2
Times == c1 :> 1 @@ c2 :> 2
OneAndBoth == <<<<s1>>, <<s1, s2>>>>

\* Two pushes under one rule with a limit, and a restart.
Racing == [pushes |-> {d1, d2}, rules |-> {1}, scope |-> Deliveries \X {1}, limit |-> 1,
           fails |-> {"failed"}, ends |-> {"succeeded", "failed"}, refuses |-> FALSE,
           pool |-> 2, time |-> 1, crashes |-> 1]
\* One push under the rule of two services, and every way it can end.
RefusedPush == [pushes |-> {d1}, rules |-> {1, 2}, scope |-> {<<d1, 2>>}, limit |-> 1,
            fails |-> {"failed", "cancelled"}, ends |-> BuildEnds, refuses |-> TRUE,
            pool |-> 2, time |-> 2, crashes |-> 0]
\* Two pushes while both rules come and go, one push in the scope of both.
Matched == [pushes |-> {d1, d2}, rules |-> {1, 2}, scope |-> {<<d1, 1>>, <<d2, 1>>, <<d2, 2>>},
            limit |-> 9, fails |-> {"failed"}, ends |-> {"succeeded"}, refuses |-> FALSE,
            pool |-> 2, time |-> 0, crashes |-> 0]
\* The same with a task more and a rule for each push.
Apart == [Matched EXCEPT !.scope = {<<d1, 1>>, <<d2, 2>>}, !.pool = 3]
HookLoads == {Racing, RefusedPush, Matched, Apart}

-----------------------------------------------------------------------------
(* Two jobs and two manual runs of the first.                              *)

Two == {1, 2}
TwoPlans == {101, 102}
FirstJob == [p \in Plans |-> 1]

Each(x) == [j \in Jobs |-> x]

\* One job over three fire times, with the clock set back and history pruned.
Base == [jobs |-> {1}, overlap |-> Each("skip"), retries |-> Each(0), fires |-> Each(1..3),
         running |-> 2, history |-> 1, plans |-> {}, time |-> 3, jumps |-> 1, crashes |-> 0,
         changes |-> 0, outages |-> 0]

\* That with a restart, or with a store that cannot be written for a while.
Restarted == [Base EXCEPT !.crashes = 1]
Unwritable == [Base EXCEPT !.outages = 1]
\* A queueing job that is retried, changed twice, and a restart.
Retried == [Base EXCEPT !.overlap = Each("queue"), !.retries = Each(1), !.history = 2, !.jumps = 0,
                        !.crashes = 1, !.changes = 2]
\* Two jobs, one queueing and one allowing overlap, for two slots.
Shared == [Base EXCEPT !.jobs = Jobs, !.overlap = [j \in Jobs |-> IF j = 1 THEN "queue" ELSE "allow"],
                       !.history = 2, !.jumps = 0]
\* Two manual runs and a scheduled one for one slot, and a restart.
Manual == [Base EXCEPT !.overlap = Each("allow"), !.fires = Each({1}), !.running = 1, !.history = 2,
                       !.plans = Plans, !.time = 1, !.jumps = 0, !.crashes = 1]

CronEverything == {Restarted, Unwritable, Retried, Shared, Manual}

-----------------------------------------------------------------------------

hooksOff == /\ now = 0 /\ row = 0 /\ rec = 0 /\ rules = 0 /\ protected = 0 /\ plans = 0 /\ builds = 0
            /\ deployed = 0 /\ sb = 0 /\ tasks = 0 /\ slot = 0 /\ queue = 0 /\ events = 0
            /\ crashes = 0 /\ load = 0
cronOff == /\ cronNow = 0 /\ jumps = 0 /\ defs = 0 /\ changes = 0 /\ cronStore = 0 /\ adm = 0
           /\ down = 0 /\ outages = 0 /\ box = 0 /\ m = 0 /\ tick = 0 /\ cronCrashes = 0 /\ cronLoad = 0

\* The pushes come to an end; the scheduler never has to stop.
MCInit == \/ part = "hooks" /\ Init /\ cronOff
          \/ part = "cron" /\ CronInit /\ hooksOff
MCNext ==
  \/ part = "hooks" /\ Next /\ UNCHANGED <<part, cronVars>>
  \/ part = "hooks" /\ UNCHANGED <<part, vars, cronVars>>
  \/ part = "cron" /\ CronNext /\ UNCHANGED <<part, vars>>
MCSpec == MCInit /\ [][MCNext]_<<part, vars, cronVars>>

\* hooks/pipeline.rs: no service goes back to an older commit, and no rule
\* deploys more often than its limit, for two pushes at once and over a
\* restart.
HookDeploysHold == part = "hooks" => NeverOlder /\ HourlyLimit

\* hooks/pipeline.rs, admissions/webhooks.rs: a delivery is processed once, and none
\* that a rule matches is overlooked.
HookDeliveriesHold == part = "hooks" => ProcessedOnce /\ NothingOverlooked

\* hooks/pipeline.rs, admissions/webhooks.rs: what the records say is what happened,
\* and every build ends.
HookRecordsHold == part = "hooks" => StatusTruthful /\ BuildsEnd

\* sched/cron.rs: a fire time starts one run, and runs overlap only where the
\* job allows it.
CronFiresHold == part = "cron" => FiredOnce /\ OverlapRespected

\* sched/cron.rs: every run gives its slot back, and a queued run waits only
\* behind one that is active.
CronSlotsHold == part = "cron" => SlotsReturned /\ QueuedBehindActive
=============================================================================
