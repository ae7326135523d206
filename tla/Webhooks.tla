------------------------------ MODULE Webhooks ------------------------------
(***************************************************************************)
(* From a verified push to a rule deploy (src/local/hooks, the webhook     *)
(* tables of src/admissions/webhooks.rs and the rule checks of             *)
(* src/signed_plan/verify.rs).                                             *)
(*                                                                         *)
(* Every delivery is a task; so is every re-match after a rule.create.     *)
(* They share the deliveries rows (the claim gate), the records of ops.db, *)
(* the builds table and the one build slot.  The runner's build_image, the *)
(* rule plan's execution and every other plan are the environment.         *)
(* One project, repository and ref; Scope says which rules a delivery is   *)
(* in the scope of.                                                        *)
(***************************************************************************)
EXTENDS Integers, Sequences, FiniteSets, SequencesExt

CONSTANTS
  Deliveries, Services, Commits,
  Rules,          \* numbers, in admission order
  CommitOf,       \* [Deliveries -> Commits]
  CommitTime,     \* [Commits -> Nat]
  ServicesOf,     \* [Rules -> Seq(Services)], sorted and without repeats
  Specs,          \* services with an admitted spec
  STALE, TTL, HOUR, MAX_QUEUED_BUILDS,
  Reproducible,   \* whether two builds of a commit give the same image
  Loads           \* the loads the pipeline is put under, see Load

BuildEnds == {"succeeded", "rolled_back", "cancelled", "failed"}

\* The pushes and rules there are, which rules a push is in the scope of,
\* max_invocations_per_hour, how builds and rule plans may end, whether
\* protection changes and other refusals happen, and the bounds on pipeline
\* tasks at once, time and restarts.
Load == [pushes : SUBSET Deliveries, rules : SUBSET Rules, scope : SUBSET (Deliveries \X Rules),
         limit : Nat, fails : SUBSET {"failed", "cancelled"}, ends : SUBSET BuildEnds,
         refuses : BOOLEAN, pool : Nat, time : Nat, crashes : Nat]

ASSUME HookAssumption ==
  /\ CommitOf \in [Deliveries -> Commits] /\ CommitTime \in [Commits -> Nat]
  /\ ServicesOf \in [Rules -> Seq(Services)]
  /\ {STALE, TTL, HOUR} \subseteq Nat \ {0} /\ Rules \subseteq Nat
  /\ MAX_QUEUED_BUILDS \in Nat /\ \A l \in Loads : l \in Load

VARIABLES
  now,
  row,        \* deliveries: status and received_at
  rec,        \* the WebhookDelivery record of ops.db: its status
  rules,      \* rules rows: none, active, revoked
  protected,  \* env.protection.set
  plans,      \* rule plans in admission order, with their outcome
  builds,     \* the builds table, by service and commit
  deployed,   \* deployed_commits
  sb,         \* ServerBuild records
  tasks, slot, queue,   \* pipeline tasks, the build slot and its FIFO
  events,     \* TrustChanged events the rule watch has not received
  crashes,
  load        \* never changes

store == <<row, rec, rules, protected, plans, builds, deployed, sb>>
memory == <<tasks, slot, queue, events>>
vars == <<now, store, memory, crashes, load>>

NoBuild == [by |-> <<>>, started |-> 0, built |-> 0]

Idle == [at |-> "idle", d |-> CHOOSE d \in Deliveries : TRUE, list |-> <<>>, only |-> Rules,
         rules |-> <<>>, ends |-> {}, to |-> "none", i |-> 0, started |-> 0]

----------------------------------------------------------------------------
(* Tasks.                                                                  *)

Pool == load.pool
Free == {t \in 1..Pool : tasks[t].at = "idle"}
NextFree == CHOOSE t \in Free : \A u \in Free : t <= u

\* process_for of the deliveries in list, one after the other; only: the rules
\* the match is restricted to.
Started(list, only) == [Idle EXCEPT !.at = "match", !.d = Head(list), !.list = Tail(list),
                                    !.only = only]

\* The task leaves its delivery.
Done(t) == IF tasks[t].list = <<>> THEN Idle ELSE Started(tasks[t].list, tasks[t].only)

At(t, at) == tasks[t].at = at
Go(t, at) == tasks' = [tasks EXCEPT ![t] = [@ EXCEPT !.at = at]]
Leave(t) == tasks' = [tasks EXCEPT ![t] = Done(t)]

\* The members of s, the one with the least key first.
InOrder(s, key) ==
  CHOOSE q \in [1..Cardinality(s) -> s] :
    /\ Range(q) = s
    /\ \A i, j \in 1..Cardinality(s) : i < j => key[q[i]] <= key[q[j]]

----------------------------------------------------------------------------
(* Intake.                                                                 *)

\* A verified push whose body is new.  Refused and repeated requests change
\* none of this state.
Insert(d) ==
  /\ d \in load.pushes /\ row[d].status = "none"
  /\ row' = [row EXCEPT ![d] = [status |-> "pending", at |-> now, recorded |-> FALSE]]
  /\ UNCHANGED <<now, rec, rules, protected, plans, builds, deployed, sb, memory, crashes, load>>

\* put_delivery and enqueue, by the request that inserted the row.
Accept(d) ==
  /\ row[d].status # "none" /\ ~row[d].recorded /\ Free # {}
  /\ row' = [row EXCEPT ![d].recorded = TRUE]
  /\ rec' = [rec EXCEPT ![d] = "pending"]
  /\ tasks' = [tasks EXCEPT ![NextFree] = Started(<<d>>, Rules)]
  /\ UNCHANGED <<now, rules, protected, plans, builds, deployed, sb, slot, queue, events, crashes, load>>

----------------------------------------------------------------------------
(* Matching.                                                               *)

received(d) == row[d].at

Expired(d) == received(d) + TTL <= now

Invocations(r) == {n \in DOMAIN plans : plans[n].r = r /\ plans[n].at > now - HOUR}

InScope(d, r) == <<d, r>> \in load.scope /\ rules[r] = "active" /\ Cardinality(Invocations(r)) < load.limit

\* The rules in scope, and whether protection held one back.
matching_rules(d) ==
  IF protected THEN {} ELSE {r \in Rules : InScope(d, r)}
HeldBack(d) == protected /\ \E r \in Rules : InScope(d, r)

\* process_for up to the claim: what the task will try to move the row to.
Match(t) ==
  /\ At(t, "match")
  /\ LET d == tasks[t].d  found == matching_rules(d) \cap tasks[t].only
         To(status, rs) == tasks' = [tasks EXCEPT ![t] = [@ EXCEPT !.at = "claim", !.to = status, !.rules = rs]]
     IN  IF row[d].status # "pending" \/ Expired(d) \/ rec[d] = "none" THEN Leave(t)
         ELSE IF now - received(d) > STALE THEN To("stale", <<>>)
         ELSE IF found # {} THEN To("building", InOrder(found, [r \in Rules |-> r]))
         ELSE IF HeldBack(d) THEN To("ignored", <<>>)
         ELSE Leave(t)
  /\ UNCHANGED <<now, store, slot, queue, events, crashes, load>>

\* Mutant: any path may claim a delivery that was pending when it was read.
claim_delivery_late(d) == row[d].status \in {"pending", "building"}

claim_delivery(d) == row[d].status = "pending"

\* The row moves out of pending atomically; one task wins.
Claim(t) ==
  /\ At(t, "claim")
  /\ LET d == tasks[t].d  to == tasks[t].to
     IN  IF claim_delivery(d)
         THEN /\ row' = [row EXCEPT ![d].status = to]
              /\ Go(t, IF to = "building" THEN "rule" ELSE "end")
         ELSE Leave(t) /\ UNCHANGED row
  /\ UNCHANGED <<now, rec, rules, protected, plans, builds, deployed, sb, slot, queue, events,
                 crashes, load>>

\* set_status: the record, when there is one, and the row.
set_status(d, to) ==
  /\ row' = IF rec[d] = "none" THEN row ELSE [row EXCEPT ![d].status = to]
  /\ rec' = IF rec[d] = "none" THEN rec ELSE [rec EXCEPT ![d] = to]

End(t) ==
  /\ At(t, "end")
  /\ set_status(tasks[t].d, tasks[t].to)
  /\ Leave(t)
  /\ UNCHANGED <<now, rules, protected, plans, builds, deployed, sb, slot, queue, events, crashes, load>>

\* The first of deployed, failed, stale and ignored among the rules' ends.
EndOf(ends) ==
  CASE "deployed" \in ends -> "deployed"
    [] "deployed" \notin ends /\ "failed" \in ends -> "failed"
    [] ends \cap {"deployed", "failed"} = {} /\ "stale" \in ends -> "stale"
    [] OTHER -> "ignored"

----------------------------------------------------------------------------
(* run_rule.                                                               *)

Rule(t) == Head(tasks[t].rules)
Svcs(t) == ServicesOf[Rule(t)]
Commit(t) == CommitOf[tasks[t].d]
Current(t) == Svcs(t)[tasks[t].i]

\* The commit differs from the one recorded for each service and is not older.
newer(s, c) == deployed[s] = {} \/ (c \notin deployed[s] /\ \A x \in deployed[s] : CommitTime[c] >= CommitTime[x])
commit_is_newer(t) == \A s \in Range(Svcs(t)) : newer(s, Commit(t))

\* The records of the task's rule at the places in which become status.
Built(t, which, status) ==
  [sb EXCEPT ![tasks[t].d][Rule(t)] = [i \in DOMAIN @ |-> IF i \in which THEN status ELSE @[i]]]

\* The rule ends for this delivery; the next one follows.
RuleEnd(t, end) == [tasks EXCEPT ![t] =
  [@ EXCEPT !.at = "rule", !.rules = Tail(tasks[t].rules), !.ends = tasks[t].ends \cup {end}, !.i = 0]]

RunRule(t) ==
  /\ At(t, "rule")
  /\ \/ /\ tasks[t].rules = <<>>
        /\ tasks' = [tasks EXCEPT ![t] = [@ EXCEPT !.at = "end", !.to = EndOf(tasks[t].ends)]]
        /\ UNCHANGED <<row, rec, sb>>
     \/ /\ tasks[t].rules # <<>> /\ ~commit_is_newer(t)
        /\ tasks' = RuleEnd(t, "ignored") /\ UNCHANGED <<row, rec, sb>>
     \/ /\ tasks[t].rules # <<>> /\ commit_is_newer(t)
        /\ set_status(tasks[t].d, "building")
        /\ sb' = Built(t, DOMAIN Svcs(t), "queued")
        /\ tasks' = [tasks EXCEPT ![t] = [@ EXCEPT !.at = "build", !.i = 1]]
  /\ UNCHANGED <<now, rules, protected, plans, builds, deployed, slot, queue, events, crashes, load>>

\* Mutant: the record of the build at hand is forgotten.
fail_builds_none(t, status) == sb

\* The build at hand and those after it end; the ones before it do not.
fail_builds(t, status) == Built(t, tasks[t].i..Len(Svcs(t)), status)

\* build_one: the next service takes its place in the queue, or the builds end.
Enqueue(t) ==
  /\ At(t, "build") /\ tasks[t].i <= Len(Svcs(t))
  /\ IF Current(t) \in Specs /\ Len(queue) < MAX_QUEUED_BUILDS
     THEN queue' = Append(queue, t) /\ Go(t, "wait") /\ UNCHANGED sb
     ELSE tasks' = RuleEnd(t, "failed") /\ sb' = fail_builds(t, "failed") /\ UNCHANGED queue
  /\ UNCHANGED <<now, row, rec, rules, protected, plans, builds, deployed, slot, events, crashes, load>>

\* The permit, and build_image starts.
Acquire(t) ==
  /\ At(t, "wait") /\ slot = 0 /\ queue # <<>> /\ Head(queue) = t
  /\ slot' = t /\ queue' = Tail(queue)
  /\ sb' = Built(t, {tasks[t].i}, "building")
  /\ tasks' = [tasks EXCEPT ![t] = [@ EXCEPT !.at = "image", !.started = now]]
  /\ UNCHANGED <<now, row, rec, rules, protected, plans, builds, deployed, events, crashes, load>>

\* The upsert: image, start and end are those of the latest build.
record_build(t) == [builds EXCEPT ![Current(t)][Commit(t)] =
                      [by |-> <<tasks[t].d, Rule(t)>>, started |-> tasks[t].started, built |-> now]]

\* build_image answers: the image is recorded, or the rule's builds end.
Image(t) ==
  /\ At(t, "image")
  /\ slot' = 0
  /\ \/ /\ builds' = record_build(t)
        /\ sb' = Built(t, {tasks[t].i}, "deploying")
        /\ tasks' = [tasks EXCEPT ![t] = [@ EXCEPT !.at = "build", !.i = tasks[t].i + 1]]
     \/ /\ \E end \in load.fails : sb' = fail_builds(t, end)
        /\ tasks' = RuleEnd(t, "failed")
        /\ UNCHANGED builds
  /\ UNCHANGED <<now, row, rec, rules, protected, plans, deployed, queue, events, crashes, load>>

Window(t, s) == builds[s][Commit(t)]

still_fresh(t, at) ==
  \A s \in Range(Svcs(t)) :
    \/ at - received(tasks[t].d) <= STALE
    \/ /\ Window(t, s) # NoBuild
       /\ Window(t, s).started - received(tasks[t].d) <= STALE /\ at - Window(t, s).built <= STALE

\* Every build is there: the plan is built, unless the delivery went stale.
\* Trust or the state head may be unavailable.
Deploy(t) ==
  /\ At(t, "build") /\ tasks[t].i > Len(Svcs(t))
  /\ \/ /\ still_fresh(t, now)
        /\ Go(t, "submit") /\ UNCHANGED sb
     \/ /\ still_fresh(t, now) /\ load.refuses
        /\ sb' = Built(t, DOMAIN Svcs(t), "failed") /\ tasks' = RuleEnd(t, "failed")
     \/ /\ ~still_fresh(t, now)
        /\ sb' = Built(t, DOMAIN Svcs(t), "failed") /\ tasks' = RuleEnd(t, "stale")
  /\ UNCHANGED <<now, row, rec, rules, protected, plans, builds, deployed, slot, queue, events,
                 crashes, load>>

\* The deployments of the plan carry the images the task's builds returned.
OwnImages(t) == Reproducible \/ \A s \in Range(Svcs(t)) : Window(t, s).by = <<tasks[t].d, Rule(t)>>

consumed(d, r) == \E n \in DOMAIN plans : plans[n].d = d /\ plans[n].r = r

\* Mutants of check_rule: without the hourly limit; without the commit check;
\* without the rule's state.
check_rule_unlimited(t) ==
  LET d == tasks[t].d  r == Rule(t)
  IN  /\ rules[r] = "active" /\ ~protected
      /\ row[d].status \in {"pending", "building", "deployed", "failed"} /\ ~consumed(d, r)
      /\ still_fresh(t, now) /\ commit_is_newer(t) /\ OwnImages(t)
\* Steps 11 and 12 for a rule plan, in the admitting transaction.
check_rule(t) ==
  LET d == tasks[t].d  r == Rule(t)
  IN  /\ rules[r] = "active" /\ ~protected /\ Cardinality(Invocations(r)) < load.limit
      /\ row[d].status \in {"pending", "building", "deployed", "failed"} /\ ~consumed(d, r)
      /\ still_fresh(t, now) /\ commit_is_newer(t) /\ OwnImages(t)

\* submit: admitted, or refused (by the checks, or because another plan moved
\* the head).
Submit(t) ==
  /\ At(t, "submit")
  /\ LET d == tasks[t].d  r == Rule(t)
     IN  \/ /\ check_rule(t)
            /\ plans' = Append(plans, [d |-> d, r |-> r, at |-> now, outcome |-> "open"])
            /\ deployed' = [s \in Services |-> IF s \in Range(Svcs(t)) THEN {Commit(t)} ELSE deployed[s]]
            /\ set_status(d, "building")
            /\ Go(t, "finish")
            /\ UNCHANGED sb
         \/ /\ ~check_rule(t) \/ load.refuses
            /\ sb' = Built(t, DOMAIN Svcs(t), "failed")
            /\ \E end \in IF now - received(d) > STALE THEN {"stale", "failed"} ELSE {"failed"} :
                 tasks' = RuleEnd(t, end)
            /\ UNCHANGED <<plans, deployed, row, rec>>
  /\ UNCHANGED <<now, rules, protected, builds, slot, queue, events, crashes, load>>

PlanOf(t) == CHOOSE n \in DOMAIN plans : plans[n].d = tasks[t].d /\ plans[n].r = Rule(t)

\* wait_finished: the admission's outcome, or the deadline, which runs on the
\* monotonic clock and may pass at any time of the wall clock.
Finish(t) ==
  /\ At(t, "finish")
  /\ LET outcome == plans[PlanOf(t)].outcome
     IN  \/ /\ outcome # "open"
            /\ sb' = Built(t, DOMAIN Svcs(t), outcome)
            /\ tasks' = RuleEnd(t, IF outcome = "succeeded" THEN "deployed" ELSE "failed")
         \/ /\ outcome = "open"
            /\ sb' = Built(t, DOMAIN Svcs(t), "failed") /\ tasks' = RuleEnd(t, "failed")
  /\ UNCHANGED <<now, row, rec, rules, protected, plans, builds, deployed, slot, queue, events,
                 crashes, load>>

Pipeline(t) == Match(t) \/ Claim(t) \/ End(t) \/ RunRule(t) \/ Enqueue(t) \/ Acquire(t)
               \/ Image(t) \/ Deploy(t) \/ Submit(t) \/ Finish(t)

----------------------------------------------------------------------------
(* Rules, the sweeper and the environment.                                 *)

Pending == {d \in Deliveries : rec[d] = "pending"}
\* Oldest received_at first.
Oldest(s) == InOrder(s, [d \in Deliveries |-> received(d)])

RuleCreate(r) ==
  /\ r \in load.rules /\ rules[r] = "none" /\ \A q \in Rules : q < r => rules[q] # "none"
  /\ rules' = [rules EXCEPT ![r] = "active"]
  /\ events' = events \cup {r}
  /\ UNCHANGED <<now, row, rec, protected, plans, builds, deployed, sb, tasks, slot, queue, crashes, load>>

\* An admitted revocation counts at once.
RuleRevoke(r) ==
  /\ rules[r] = "active"
  /\ rules' = [rules EXCEPT ![r] = "revoked"]
  /\ UNCHANGED <<now, row, rec, protected, plans, builds, deployed, sb, memory, crashes, load>>

\* The pending deliveries a new rule is matched with.
rule_admitted(r) == IF rules[r] = "active" THEN Oldest(Pending) ELSE <<>>

\* The rule watch receives the event.
Watch(r) ==
  /\ r \in events /\ Free # {}
  /\ events' = events \ {r}
  /\ tasks' = IF rule_admitted(r) = <<>> THEN tasks
              ELSE [tasks EXCEPT ![NextFree] = Started(rule_admitted(r), {r})]
  /\ UNCHANGED <<now, store, slot, queue, crashes, load>>

\* env.protection.set of another plan.
Protect ==
  /\ load.refuses /\ protected' = ~protected
  /\ UNCHANGED <<now, row, rec, rules, plans, builds, deployed, sb, memory, crashes, load>>

\* The executor and the reconciler end the rule plan.
PlanEnds(n) ==
  /\ n \in DOMAIN plans /\ plans[n].outcome = "open"
  /\ \E o \in load.ends : plans' = [plans EXCEPT ![n].outcome = o]
  /\ UNCHANGED <<now, row, rec, rules, protected, builds, deployed, sb, memory, crashes, load>>

Expirable(d) == row[d].status = "pending" /\ Expired(d)

\* sweep: expire_deliveries in one statement; then set_status of each.
Sweep ==
  /\ \E d \in Deliveries : Expirable(d)
  /\ LET gone == {d \in Deliveries : Expirable(d)}
     IN  /\ row' = [d \in Deliveries |-> IF d \in gone THEN [row[d] EXCEPT !.status = "expired"] ELSE row[d]]
         /\ rec' = [d \in Deliveries |-> IF d \in gone /\ rec[d] # "none" THEN "expired" ELSE rec[d]]
  /\ UNCHANGED <<now, rules, protected, plans, builds, deployed, sb, memory, crashes, load>>

\* A request that inserted its row goes on at once.
Tick ==
  /\ now < load.time /\ now' = now + 1
  /\ \A d \in Deliveries : row[d].status = "none" \/ row[d].recorded
  /\ UNCHANGED <<store, memory, crashes, load>>

\* The agent stops and starts: the tables and records stay, every task is
\* gone, and nothing starts one again.
Crash ==
  /\ crashes < load.crashes /\ crashes' = crashes + 1
  /\ row' = [d \in Deliveries |-> [row[d] EXCEPT !.recorded = row[d].status # "none"]]
  /\ tasks' = [t \in 1..Pool |-> Idle] /\ slot' = 0 /\ queue' = <<>> /\ events' = {}
  /\ UNCHANGED <<now, rec, rules, protected, plans, builds, deployed, sb, load>>

Init ==
  /\ load \in Loads
  /\ now = 0 /\ protected = FALSE /\ plans = <<>> /\ crashes = 0
  /\ row = [d \in Deliveries |-> [status |-> "none", at |-> 0, recorded |-> FALSE]]
  /\ rec = [d \in Deliveries |-> "none"]
  /\ \E n \in load.rules \cup {0} : rules = [r \in Rules |-> IF r <= n THEN "active" ELSE "none"]
  /\ builds = [s \in Services |-> [c \in Commits |-> NoBuild]]
  /\ deployed = [s \in Services |-> {}]
  /\ sb = [d \in Deliveries |-> [r \in Rules |-> [i \in DOMAIN ServicesOf[r] |-> "none"]]]
  /\ tasks = [t \in 1..Pool |-> Idle] /\ slot = 0 /\ queue = <<>> /\ events = {}

Next ==
  \/ \E d \in Deliveries : Insert(d) \/ Accept(d)
  \/ \E t \in 1..Pool : Pipeline(t)
  \/ \E r \in Rules : RuleCreate(r) \/ RuleRevoke(r) \/ Watch(r)
  \/ \E n \in DOMAIN plans : PlanEnds(n)
  \/ Protect \/ Sweep \/ Tick \/ Crash

Spec == Init /\ [][Next]_vars

----------------------------------------------------------------------------
(* Properties.                                                             *)

Holds(t) == tasks[t].at \in {"end", "rule", "build", "wait", "image", "submit", "finish"}
AtWork(d) == \E t \in 1..Pool : tasks[t].at # "idle" /\ (tasks[t].d = d \/ d \in Range(tasks[t].list))

\* One task at a time works on a delivery once it is claimed, whatever intake,
\* re-matches and the sweeper do (claim_delivery).
ProcessedOnce == \A t, u \in 1..Pool : t # u /\ Holds(t) /\ Holds(u) => tasks[t].d # tasks[u].d

\* No rule deploys more often than its hourly limit, although deliveries are
\* matched long before their plans are admitted (check_rule).
HourlyLimit ==
  \A n \in DOMAIN plans :
    Cardinality({m \in 1..n : plans[m].r = plans[n].r /\ plans[m].at > plans[n].at - HOUR}) <= load.limit

Deploys(n, s) == s \in Range(ServicesOf[plans[n].r])
Pushed(n) == CommitOf[plans[n].d]

\* Rule deploys of a service never go back to an older commit, whichever build
\* was faster, and come back to a commit only after another one of the same
\* commit time: the pushed commit differs from the deployed one and is not
\* older (commit_is_newer, check_rule).
NeverOlder ==
  \A s \in Services : \A n \in DOMAIN plans : \A m \in 1..(n - 1) :
    Deploys(m, s) /\ Deploys(n, s) =>
      /\ CommitTime[Pushed(m)] <= CommitTime[Pushed(n)]
      /\ Pushed(m) = Pushed(n) =>
           \E k \in (m + 1)..(n - 1) : /\ Deploys(k, s) /\ Pushed(k) # Pushed(n)
                                       /\ CommitTime[Pushed(k)] = CommitTime[Pushed(n)]

\* At rest the row and the record of a delivery agree, and deployed means that
\* a plan it backed succeeded (set_status, claim, sweep).
StatusTruthful ==
  \A d \in Deliveries :
    /\ crashes = 0 /\ ~AtWork(d) /\ rec[d] # "none" => row[d].status = rec[d]
    /\ rec[d] = "deployed" => \E n \in DOMAIN plans : plans[n].d = d /\ plans[n].outcome = "succeeded"

\* A fresh pending delivery that an active rule covers is on its way to a match,
\* whichever of the two came first (enqueue, rule_admitted): unless the rule's
\* limit held it back, or a restart lost it.
NothingOverlooked ==
  crashes = 0 => \A d \in Deliveries, r \in Rules :
    rec[d] = "pending" /\ row[d].status = "pending" /\ ~Expired(d) /\ <<d, r>> \in load.scope
      /\ rules[r] = "active" /\ Cardinality({n \in DOMAIN plans : plans[n].r = r}) < load.limit
      => r \in events \/ AtWork(d)

\* No build record of a delivery at rest is still queued or building; one stays
\* deploying only when a later build of its rule failed (fail_builds, deploy).
BuildsEnd ==
  \A d \in Deliveries, r \in Rules : crashes = 0 /\ ~AtWork(d) =>
    \A i \in DOMAIN sb[d][r] :
      \/ sb[d][r][i] \in BuildEnds \cup {"none"}
      \/ sb[d][r][i] = "deploying" /\ \E j \in DOMAIN sb[d][r] : j > i /\ sb[d][r][j] \in BuildEnds
=============================================================================
