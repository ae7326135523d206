-------------------------------- MODULE Cron --------------------------------
(***************************************************************************)
(* The cron scheduler (src/local/sched/cron.rs) on its history store       *)
(* (src/local/sched/ops_store.rs): the tick, the chains of attempts, the   *)
(* overlap policy, the server's container slots, manual runs (cron.run     *)
(* plans) and what a restart makes of interrupted runs.                    *)
(*                                                                         *)
(* The tick takes its steps one store transaction at a time; run tasks end *)
(* in between, the runner works on its own, definitions change, the clock  *)
(* may jump back, the store may be unwritable for a while and the agent    *)
(* may crash anywhere.  A record's id is its place in recs.                *)
(***************************************************************************)
EXTENDS Integers, Sequences, FiniteSets, SequencesExt, FiniteSetsExt

CONSTANTS
  Jobs,          \* numbers, in the order of their cron_id
  MAX_ALLOWED_CHAINS, DOWNTIME,
  Backoff,       \* the wait before a retry
  Plans,         \* cron.run plans: numbers no record has; a manual run is named after its plan
  JobOf, Expiry, \* [Plans -> Jobs], and when the plans expire
  Outcomes,      \* how a container may end
  Refuses,       \* whether the runner may refuse a run
  MaxTime,       \* bound, for TLC
  CronLoads      \* the loads the scheduler is put under, see Load

\* The jobs there are and their settings, MAX_RUNNING, HISTORY, the cron.run
\* plans that are submitted, and the bounds: the last time, clock jumps,
\* restarts, changes of definitions, and times the store cannot be written.
CronLoad ==
  [jobs : SUBSET Jobs, overlap : [Jobs -> {"skip", "queue", "allow"}], retries : [Jobs -> 0..1],
   fires : [Jobs -> SUBSET (1..MaxTime)], running : 1..2, history : 1..2, plans : SUBSET Plans,
   time : 1..MaxTime, jumps : 0..1, crashes : 0..1, changes : 0..2, outages : 0..1]

ASSUME CronAssumption ==
  /\ Jobs \subseteq Nat /\ {MAX_ALLOWED_CHAINS, DOWNTIME, Backoff} \subseteq Nat \ {0}
  /\ Outcomes \subseteq {"succeeded", "failed", "cancelled"}
  /\ Plans \subseteq Nat \ (1..100) /\ JobOf \in [Plans -> Jobs] /\ Expiry \in Nat
  /\ \A l \in CronLoads : l \in CronLoad

VARIABLES
  cronNow, jumps,
  defs, changes,  \* recorded definitions: state and active_from
  cronStore,          \* ops.db: recs, claimed slots, slot floor, checkpoint,
                  \* manual runs and manual reservations
  adm,            \* admission and outcome of each cron.run plan
  down, outages,  \* the store cannot be written
  box,            \* what the runner did with each run
  m,              \* the scheduler's State, with its tasks
  tick,           \* the tick in progress
  cronCrashes,
  cronLoad            \* never changes

cronVars == <<cronNow, jumps, defs, changes, cronStore, adm, down, outages, box, m, tick, cronCrashes, cronLoad>>
world == <<cronNow, jumps, defs, changes, down, outages, cronCrashes, cronLoad>>

Overlap == cronLoad.overlap
Retries == cronLoad.retries
Fires == cronLoad.fires
MAX_RUNNING == cronLoad.running
HISTORY == cronLoad.history

Open == {"pending", "running"}
Final == {"succeeded", "failed", "cancelled", "skipped", "missed"}

NoJob == [state |-> "none", from |-> 0]
NoTick == [at |-> "idle", boot |-> FALSE, now |-> 0, rows |-> <<>>, due |-> <<>>, failed |-> FALSE]
Empty == [x \in {} |-> x]

\* State::default(), and the work in flight.  held: manual_reservations; begun:
\* manual runs the executor has dispatched; looks: what reconcile_manual has
\* read, by reader.
Fresh == [jobs |-> [j \in Jobs |-> NoJob], chains |-> Empty, running |-> 0, slots |-> <<>>,
          queued |-> Empty, recovering |-> {}, held |-> {}, submitting |-> {},
          tasks |-> {}, begun |-> {}, looks |-> Empty]

Without(f, x) == [y \in DOMAIN f \ {x} |-> f[y]]
With(f, x, v) == [y \in DOMAIN f \cup {x} |-> IF y = x THEN v ELSE f[y]]
Sorted(set) == SetToSortSeq(set, <)

CronInit ==
  /\ cronLoad \in CronLoads
  /\ cronNow = 0 /\ jumps = 0 /\ changes = 0 /\ cronCrashes = 0 /\ down = FALSE /\ outages = 0
  /\ defs = [j \in Jobs |-> IF j \in cronLoad.jobs THEN [state |-> "on", from |-> 0] ELSE NoJob]
  /\ cronStore = [recs |-> <<>>, claimed |-> {}, floor |-> 0, checkpoint |-> 0,
              mrun |-> [p \in Plans |-> "none"], resv |-> {}]
  /\ adm = [p \in Plans |-> "none"] /\ box = Empty /\ m = Fresh /\ tick = NoTick

----------------------------------------------------------------------------
(* Chains, the overlap policy and the container slots.  These operators    *)
(* take and return [st, m]: the store and the scheduler's state.           *)

Chain(j, run, waiting) == [job |-> j, run |-> run, retry |-> 0, waiting |-> waiting]

\* Running, waiting for a retry or a slot; the queued chain is not counted.
active_chains(x, j) ==
  Cardinality({c \in DOMAIN x.chains : x.chains[c].job = j /\ ~(j \in DOMAIN x.queued /\ x.queued[j] = c)})
  + Cardinality({p \in x.held : JobOf[p] = j})

\* Containers that run and slots reserved for manual runs.
Used(x) == x.running + Cardinality(x.held)

Status(st, run, status) == [st EXCEPT !.recs[run].status = status]

\* One turn of the loop for the first waiting chain.  A failed write puts it
\* back and ends the loop.
fill_one(acc, c) ==
  LET x == acc.m  keep == [acc EXCEPT !.m.slots = Append(@, c)]
  IN  IF acc.stop \/ Used(x) >= MAX_RUNNING THEN [keep EXCEPT !.stop = TRUE]
      ELSE IF c \notin DOMAIN x.chains THEN acc
      ELSE IF down THEN [keep EXCEPT !.stop = TRUE, !.failed = TRUE]
      ELSE IF x.jobs[x.chains[c].job].state = "none"
           THEN [acc EXCEPT !.st = Status(@, x.chains[c].run, "cancelled"), !.m.chains = Without(@, c)]
      ELSE IF ~x.chains[c].waiting THEN acc
      ELSE [acc EXCEPT !.st = Status(@, x.chains[c].run, "running"),
                       !.m.chains[c].waiting = FALSE, !.m.running = @ + 1,
                       !.m.tasks = @ \cup {[chain |-> c, run |-> x.chains[c].run]}]

\* Starts waiting chains while fewer than MAX_RUNNING containers run (launch).
fill_slots(s) ==
  LET end == FoldLeft(fill_one, [st |-> s.st, m |-> [s.m EXCEPT !.slots = <<>>], stop |-> FALSE,
                                 failed |-> FALSE], s.m.slots)
  IN  [st |-> end.st, m |-> end.m, failed |-> end.failed]

skips(x, j) ==
  CASE Overlap[j] = "skip" -> active_chains(x, j) > 0
    [] Overlap[j] = "queue" -> active_chains(x, j) > 0 /\ j \in DOMAIN x.queued
    [] Overlap[j] = "allow" -> active_chains(x, j) >= MAX_ALLOWED_CHAINS

\* The claimed run starts, waits or is skipped.
start_chain(s, j, run) ==
  LET chained == [s EXCEPT !.m.chains = With(@, run, Chain(j, run, TRUE))]
  IN  IF skips(s.m, j) THEN [st |-> Status(s.st, run, "skipped"), m |-> s.m, failed |-> FALSE]
      ELSE IF Overlap[j] = "queue" /\ active_chains(s.m, j) > 0
           THEN [st |-> s.st, m |-> [chained.m EXCEPT !.queued = With(@, j, run)], failed |-> FALSE]
      ELSE fill_slots([chained EXCEPT !.m.slots = Append(@, run)])

\* Mutant: the queued chain is not started.
end_chain_last(s, j, c) == [s EXCEPT !.m.chains = Without(@, c)]

\* The chain is over: the queued one follows when no other is active.  The
\* alerts it opens or resolves are left out.
end_chain(s, j, c) ==
  LET gone == [s EXCEPT !.m.chains = Without(@, c)]
  IN  IF active_chains(gone.m, j) = 0 /\ j \in DOMAIN gone.m.queued
      THEN [gone EXCEPT !.m.slots = Append(@, gone.m.queued[j]), !.m.queued = Without(@, j)]
      ELSE gone

Set(s) == cronStore' = s.st /\ m' = s.m
Here == [st |-> cronStore, m |-> m]
Failed(s) == tick' = [tick EXCEPT !.failed = @ \/ s.failed]

----------------------------------------------------------------------------
(* Manual runs.                                                            *)

\* commit_manual_run and the chains of the plans: the history and the release
\* of the reservation are one commit.
record_manual(s, plans) ==
  LET new == {p \in plans : s.st.mrun[p] # "final" /\ p \notin DOMAIN s.m.chains}
  IN  [s EXCEPT !.st.mrun = [p \in Plans |-> IF p \in plans /\ @[p] = "none" THEN "running" ELSE @[p]],
                !.st.resv = @ \ plans, !.m.held = @ \ plans, !.m.submitting = @ \ plans,
                !.m.running = @ + Cardinality(new),
                !.m.chains = [c \in DOMAIN @ \cup new |-> IF c \in new THEN Chain(JobOf[c], c, FALSE) ELSE @[c]]]

\* Durable reservations count again; the admitted ones become runs, and the
\* expired ones that no submission is at work on are dropped.
refresh(s) ==
  LET held == [s EXCEPT !.m.held = @ \cup s.st.resv]
      admitted == {p \in s.st.resv : adm[p] # "none"}
      gone == {p \in s.st.resv : adm[p] = "none" /\ Expiry < cronNow /\ p \notin s.m.submitting}
      drop == [held EXCEPT !.st.resv = @ \ gone, !.m.held = @ \ gone]
  IN  IF down THEN held ELSE record_manual(drop, admitted)

\* One cron.run action as reconcile_manual read it: it counts until it ends.
reconcile_one(look, acc, p) ==
  LET o == look.adm[p]  j == JobOf[p]
      row == IF look.mrun[p] = "running" THEN "running" ELSE acc.st.mrun[p]
      counted == p \in DOMAIN acc.m.chains
      settled == [acc EXCEPT !.st.mrun[p] = "final", !.m.chains = Without(@, p),
                             !.m.running = IF counted /\ @ > 0 THEN @ - 1 ELSE @]
  IN  IF o = "none" \/ row = "final" \/ (row = "none" /\ o = "open" /\ p \notin DOMAIN box) THEN acc
      ELSE IF down /\ (o # "open" \/ row = "none") THEN [acc EXCEPT !.failed = TRUE]
      ELSE IF o # "open" THEN IF acc.m.jobs[j].state = "none" THEN settled ELSE end_chain(settled, j, p)
      ELSE [acc EXCEPT !.st.mrun[p] = IF row = "none" THEN "running" ELSE @, !.m.running = IF counted THEN @ ELSE @ + 1,
                       !.m.chains = IF counted THEN @ ELSE With(@, p, Chain(j, p, FALSE))]

Look == [adm |-> adm, mrun |-> cronStore.mrun]

reconcile_manual(s, look) ==
  LET end == FoldLeft(LAMBDA acc, p : reconcile_one(look, acc, p), [st |-> s.st, m |-> s.m, failed |-> FALSE],
                      SetToSeq(Plans))
      filled == fill_slots(end)
  IN  [filled EXCEPT !.failed = @ \/ end.failed]

\* The overlap policy for a manual run: it cannot wait.
Limit(j) == IF Overlap[j] = "allow" THEN MAX_ALLOWED_CHAINS ELSE 1

\* reserve_manual: capacity is durable before the admission.  A refused
\* request changes none of this state.
Reserve(p) ==
  LET s == refresh([st |-> cronStore, m |-> [m EXCEPT !.jobs = defs]])  j == JobOf[p]
  IN  /\ ~tick.boot /\ adm[p] = "none" /\ p \notin s.m.submitting /\ cronNow <= Expiry
      /\ \/ /\ p \in s.m.held
            /\ Set([s EXCEPT !.m.submitting = @ \cup {p}])
         \/ /\ p \notin s.m.held /\ ~down /\ s.m.jobs[j].state # "none"
            /\ active_chains(s.m, j) < Limit(j) /\ Used(s.m) < MAX_RUNNING
            /\ Set([s EXCEPT !.st.resv = @ \cup {p}, !.m.held = @ \cup {p}, !.m.submitting = @ \cup {p}])
      /\ UNCHANGED <<adm, box, tick, world>>

\* The submission is admitted (with a reservation, or on the generic route).
Admit(p) ==
  /\ adm[p] = "none" /\ cronNow <= Expiry
  /\ adm' = [adm EXCEPT ![p] = "open"]
  /\ UNCHANGED <<cronStore, box, m, tick, world>>

\* Or refused: release_unadmitted_manual.
Refused(p) ==
  /\ p \in m.submitting /\ adm[p] = "none"
  /\ Set(IF down THEN [Here EXCEPT !.m.submitting = @ \ {p}]
         ELSE [Here EXCEPT !.m.submitting = @ \ {p}, !.st.resv = @ \ {p}, !.m.held = @ \ {p}])
  /\ UNCHANGED <<adm, box, tick, world>>

\* The request records the run once its plan is admitted.
Record(p) ==
  /\ p \in m.submitting /\ adm[p] # "none"
  /\ Set(IF down THEN [Here EXCEPT !.m.submitting = @ \ {p}] ELSE record_manual(Here, {p}))
  /\ UNCHANGED <<adm, box, tick, world>>

\* The capacity the other runs leave.
gate(x, p) ==
  LET own == IF p \in DOMAIN x.chains \/ p \in x.held THEN 1 ELSE 0
  IN  /\ x.jobs[JobOf[p]].state # "none"
      /\ active_chains(x, JobOf[p]) - own < Limit(JobOf[p]) /\ Used(x) - own < MAX_RUNNING

\* begin_admitted_manual: every dispatch of a cron.run passes the gate; a
\* refused one ends its action as failed and is reconciled.
Begin(p) ==
  LET s == reconcile_manual(refresh([st |-> cronStore, m |-> [m EXCEPT !.jobs = defs]]), Look)
  IN  /\ ~tick.boot /\ adm[p] = "open" /\ p \notin m.begun /\ p \notin DOMAIN box /\ "exec" \notin DOMAIN m.looks
      /\ \/ /\ gate(s.m, p) /\ ~down
            /\ LET done == record_manual([st |-> s.st, m |-> s.m], {p})
               IN  Set([done EXCEPT !.m.begun = @ \cup {p}])
            /\ UNCHANGED adm
         \/ /\ ~gate(s.m, p) \/ down
            /\ adm' = [adm EXCEPT ![p] = "failed"]
            /\ Set([s EXCEPT !.m.looks = With(@, "exec", [adm |-> adm', mrun |-> s.st.mrun])])
      /\ UNCHANGED <<box, tick, world>>

ManualStarts(p) ==
  /\ p \in m.begun /\ p \notin DOMAIN box
  /\ box' = With(box, p, "running")
  /\ UNCHANGED <<cronStore, adm, m, tick, world>>

\* The action's outcome is recorded, by its executor, which then reconciles
\* (finish_admitted_manual), or from the log after a restart.
ManualOutcome(p) ==
  /\ adm[p] = "open" /\ p \in DOMAIN box /\ box[p] \in Outcomes
  /\ "exec" \notin DOMAIN m.looks
  /\ adm' = [adm EXCEPT ![p] = box[p]]
  /\ m' = IF p \notin m.begun THEN m
          ELSE [m EXCEPT !.begun = @ \ {p}, !.looks = With(@, "exec", [adm |-> adm', mrun |-> cronStore.mrun])]
  /\ UNCHANGED <<cronStore, box, tick, world>>

\* What reconcile_manual read is applied: by the executor.
Reconcile ==
  /\ "exec" \in DOMAIN m.looks
  /\ LET s == reconcile_manual(Here, m.looks["exec"])
     IN  Set([s EXCEPT !.m.looks = Without(@, "exec")]) /\ Failed(s)
  /\ UNCHANGED <<adm, box, world>>

----------------------------------------------------------------------------
(* The tick.                                                               *)

Rows == Sorted({i \in DOMAIN cronStore.recs : cronStore.recs[i].status \in Open})

\* reload, the reservations, and the unfinished rows recover will look at, as
\* they are now.
TickStart ==
  /\ tick.at = "idle"
  /\ Set(refresh([st |-> cronStore, m |-> [m EXCEPT !.jobs = defs]]))
  /\ tick' = [NoTick EXCEPT !.at = "recover", !.now = cronNow,
                            !.rows = [i \in DOMAIN Rows |-> [run |-> Rows[i], status |-> cronStore.recs[Rows[i]].status]]]
  /\ UNCHANGED <<adm, box, world>>

Result(run) == IF run \in DOMAIN box /\ box[run] \in Outcomes THEN {box[run]} ELSE {}

\* The runner's run_result line says how the row ended.
recovered(row) == Result(row.run) # {}

\* One unfinished row that no chain of this process is at work on: its result
\* if there is one, else it keeps a slot as an unknown outcome.
RecoverRow ==
  /\ tick.at = "recover" /\ tick.rows # <<>>
  /\ LET row == Head(tick.rows)  run == row.run  j == cronStore.recs[run].job
         ours == run \in DOMAIN m.chains /\ run \notin m.recovering
         rest == [tick EXCEPT !.rows = Tail(@)]
     IN  \/ /\ ours /\ tick' = rest /\ UNCHANGED <<cronStore, m>>
         \/ /\ ~ours /\ down
            /\ tick' = [rest EXCEPT !.failed = TRUE] /\ UNCHANGED <<cronStore, m>>
         \/ /\ ~ours /\ ~down /\ recovered(row)
            /\ cronStore' = Status(cronStore, run, IF Result(run) = {} THEN "failed" ELSE CHOOSE o \in Result(run) : TRUE)
            /\ m' = [m EXCEPT !.recovering = @ \ {run}, !.chains = Without(@, run),
                              !.running = IF run \in m.recovering /\ @ > 0 THEN @ - 1 ELSE @]
            /\ tick' = rest
         \/ /\ ~ours /\ ~down /\ ~recovered(row)
            /\ cronStore' = Status(cronStore, run, row.status)
            /\ m' = [m EXCEPT !.recovering = @ \cup {run}, !.chains = With(@, run, Chain(j, run, FALSE)),
                              !.running = IF run \in m.recovering THEN @ ELSE @ + 1]
            /\ tick' = rest
  /\ UNCHANGED <<adm, box, world>>

\* What fire_due does for a job: every fire time since the checkpoint, or after
\* downtime one record of the missed ones and the latest run late.
fire_due(j) ==
  LET x == m.jobs[j]
      from == Max({Min({cronStore.checkpoint, tick.now}), x.from})
      times == {t \in Fires[j] : from < t /\ t <= tick.now}
      late == times # {} /\ tick.now - Max(times) <= DOWNTIME
      Start(t) == [job |-> j, slot |-> t, missed |-> 0]
      missed == Cardinality(times) - (IF late THEN 1 ELSE 0)
  IN  IF x.state # "on" \/ times = {} THEN <<>>
      ELSE IF tick.now - cronStore.checkpoint <= DOWNTIME
           THEN [i \in 1..Cardinality(times) |-> Start(Sorted(times)[i])]
      ELSE (IF missed > 0 THEN <<[job |-> j, slot |-> Min(times), missed |-> missed]>> ELSE <<>>)
           \o (IF late THEN <<Start(Max(times))>> ELSE <<>>)

\* The rows are done; the manual runs are read.  After a failed write the tick
\* ends here.
Recovered ==
  /\ tick.at = "recover" /\ tick.rows = <<>>
  /\ IF tick.boot THEN tick' = NoTick /\ UNCHANGED m
     ELSE IF tick.failed THEN tick' = [tick EXCEPT !.at = "end"] /\ UNCHANGED m
     ELSE tick' = [tick EXCEPT !.at = "manual"] /\ m' = [m EXCEPT !.looks = With(@, "tick", Look)]
  /\ UNCHANGED <<cronStore, adm, box, world>>

\* reconcile_manual of the tick, before the fire times and after the retries.
ManualDone ==
  /\ tick.at \in {"manual", "again"}
  /\ LET s == reconcile_manual(Here, m.looks["tick"])
         failed == tick.failed \/ s.failed
     IN  /\ Set([s EXCEPT !.m.looks = Without(@, "tick")])
         /\ tick' = IF tick.at = "again" \/ failed THEN [tick EXCEPT !.at = "end", !.failed = failed]
                    ELSE [tick EXCEPT !.at = "fire",
                                      !.due = FlattenSeq([i \in 1..Cardinality(Jobs) |-> fire_due(Sorted(Jobs)[i])])]
  /\ UNCHANGED <<adm, box, world>>

\* Below the floor, claimed or on record.
has_slot(j, t) ==
  \/ t < cronStore.floor
  \/ <<j, t>> \in cronStore.claimed
  \/ \E i \in DOMAIN cronStore.recs : cronStore.recs[i].job = j /\ cronStore.recs[i].slot = t /\ cronStore.recs[i].status # "gone"

NewRun(st, j, t, attempt, status) ==
  [st EXCEPT !.recs = Append(@, [job |-> j, slot |-> t, attempt |-> attempt, status |-> status])]

\* claim_scheduled: the slot and its pending record in one commit.
claim_scheduled(j, t) == [NewRun(cronStore, j, t, 1, "pending") EXCEPT !.claimed = @ \cup {<<j, t>>}]

record_missed(due) ==
  [cronStore EXCEPT !.recs = Append(@, [job |-> due.job, slot |-> due.slot, attempt |-> 1, status |-> "missed"])]

\* start_scheduled or record_missed of the next fire time.
FireOne ==
  /\ tick.at = "fire" /\ tick.due # <<>>
  /\ LET due == Head(tick.due)  rest == [tick EXCEPT !.due = Tail(@)]
     IN  \/ /\ has_slot(due.job, due.slot)
            /\ tick' = rest /\ UNCHANGED <<cronStore, m>>
         \/ /\ ~has_slot(due.job, due.slot) /\ due.missed > 0
            /\ IF down THEN tick' = [rest EXCEPT !.failed = TRUE] /\ UNCHANGED cronStore
               ELSE cronStore' = record_missed(due) /\ tick' = rest
            /\ UNCHANGED m
         \/ /\ ~has_slot(due.job, due.slot) /\ due.missed = 0
            /\ IF down THEN tick' = [rest EXCEPT !.failed = TRUE] /\ UNCHANGED <<cronStore, m>>
               ELSE LET s == start_chain([st |-> claim_scheduled(due.job, due.slot), m |-> m], due.job,
                                         Len(cronStore.recs) + 1)
                    IN  Set(s) /\ tick' = rest
  /\ UNCHANGED <<adm, box, world>>

\* One due retry: none follows for a paused or deleted job; else a new run of
\* the same chain waits for a slot.
retry_one(s, c) ==
  LET x == s.m.chains[c]  last == s.st.recs[x.run]  run == Len(s.st.recs) + 1
  IN  IF s.m.jobs[x.job].state # "on" THEN [s EXCEPT !.m.chains = Without(@, c)]
      ELSE IF down THEN [s EXCEPT !.failed = TRUE]
      ELSE [s EXCEPT !.st = NewRun(@, x.job, last.slot, last.attempt + 1, "pending"),
                     !.m.chains[c] = Chain(x.job, run, TRUE), !.m.slots = Append(@, c)]

RetriesDue ==
  /\ tick.at = "fire" /\ tick.due = <<>>
  /\ \E order \in SetToSeqs({c \in DOMAIN m.chains : m.chains[c].retry > 0 /\ m.chains[c].retry <= tick.now}) :
       LET s == FoldLeft(retry_one, [st |-> cronStore, m |-> m, failed |-> FALSE], order)
           filled == fill_slots(s)
       IN  /\ Set([filled EXCEPT !.m.looks = With(@, "tick", [adm |-> adm, mrun |-> filled.st.mrun])])
           /\ tick' = [tick EXCEPT !.at = "again", !.failed = @ \/ s.failed \/ filled.failed]
  /\ UNCHANGED <<adm, box, world>>

\* Mutant: the floor follows the clock back.
slot_floor_clock == cronNow - HISTORY

slot_floor == Max({cronStore.floor, cronNow - HISTORY})

\* Old history and the claims below the floor go.
try_prune(st) ==
  [st EXCEPT !.floor = slot_floor,
             !.claimed = {x \in @ : x[2] >= slot_floor},
             !.recs = [i \in DOMAIN @ |-> IF @[i].status \in Final /\ @[i].slot < slot_floor
                                          THEN [@[i] EXCEPT !.status = "gone"] ELSE @[i]]]

\* The checkpoint, only when every write of the tick succeeded; then prune.
TickEnd ==
  /\ tick.at = "end" /\ tick' = NoTick
  /\ cronStore' = IF down THEN cronStore
              ELSE try_prune(IF tick.failed THEN cronStore ELSE [cronStore EXCEPT !.checkpoint = tick.now])
  /\ UNCHANGED <<adm, box, m, world>>

----------------------------------------------------------------------------
(* Run tasks and the runner.                                               *)

RunnerStarts(x) ==
  /\ x \in m.tasks /\ x.run \notin DOMAIN box
  /\ box' = With(box, x.run, "running")
  /\ UNCHANGED <<cronStore, adm, m, tick, world>>

\* The container ends and the runner writes its run_result line.
RunnerEnds(run) ==
  /\ box[run] = "running"
  /\ \E o \in Outcomes : box' = [box EXCEPT ![run] = o]
  /\ UNCHANGED <<cronStore, adm, m, tick, world>>

\* The answer, or the line a lost answer is replaced by; a refused run failed
\* and is not retried.
finish(x, status) ==
  LET j == cronStore.recs[x.run].job
      retry == status = "failed" /\ x.run \in DOMAIN box /\ m.jobs[j].state # "none"
               /\ cronStore.recs[x.run].attempt <= Retries[j]
      s == [Here EXCEPT !.st = Status(@, x.run, status), !.m.tasks = @ \ {x},
                        !.m.running = IF @ > 0 THEN @ - 1 ELSE @]
  IN  fill_slots(IF retry /\ x.chain \in DOMAIN m.chains
                 THEN [s EXCEPT !.m.chains[x.chain].retry = cronNow + Backoff, !.m.chains[x.chain].run = x.run]
                 ELSE IF retry THEN s
                 ELSE end_chain(s, j, x.chain))

\* When the end cannot be recorded the chain waits for recover.
FinishRun(x) ==
  /\ x \in m.tasks
  /\ \E status \in Result(x.run) \cup (IF Refuses /\ x.run \notin DOMAIN box THEN {"failed"} ELSE {}) :
       IF down THEN /\ m' = [m EXCEPT !.recovering = @ \cup {x.chain}, !.tasks = @ \ {x}]
                    /\ tick' = [tick EXCEPT !.failed = TRUE] /\ UNCHANGED cronStore
       ELSE LET s == finish(x, status) IN Set(s) /\ Failed(s)
  /\ UNCHANGED <<adm, box, world>>

----------------------------------------------------------------------------
(* Definitions, time, the store and crashes.                               *)

\* A recorded cron.pause, cron.resume, cron.delete or cron.create (an update
\* is a create of the same job).
Define(j) ==
  /\ changes < cronLoad.changes /\ changes' = changes + 1
  /\ \/ /\ defs[j].state = "on" /\ defs' = [defs EXCEPT ![j].state = "off"]
     \/ /\ defs[j].state = "off" /\ defs' = [defs EXCEPT ![j] = [state |-> "on", from |-> Max({@.from, cronNow})]]
     \/ /\ defs[j].state # "none" /\ defs' = [defs EXCEPT ![j] = NoJob]
     \/ /\ defs[j].state = "none" /\ defs' = [defs EXCEPT ![j] = [state |-> "on", from |-> cronNow]]
  /\ UNCHANGED <<cronNow, jumps, cronStore, adm, down, outages, box, m, tick, cronCrashes, cronLoad>>

CronClock ==
  /\ cronNow < cronLoad.time /\ cronNow' = cronNow + 1
  /\ UNCHANGED <<jumps, defs, changes, cronStore, adm, down, outages, box, m, tick, cronCrashes, cronLoad>>

JumpBack ==
  /\ jumps < cronLoad.jumps /\ jumps' = jumps + 1
  /\ \E t \in 0..(cronNow - 1) : cronNow' = t
  /\ UNCHANGED <<defs, changes, cronStore, adm, down, outages, box, m, tick, cronCrashes, cronLoad>>

Outage ==
  /\ \/ outages < cronLoad.outages /\ ~down /\ down' = TRUE /\ outages' = outages + 1
     \/ down /\ down' = FALSE /\ UNCHANGED outages
  /\ UNCHANGED <<cronNow, jumps, defs, changes, cronStore, adm, box, m, tick, cronCrashes, cronLoad>>

\* The agent restarts: recover runs before the first tick, with no definitions.
CronCrash ==
  /\ cronCrashes < cronLoad.crashes /\ cronCrashes' = cronCrashes + 1
  /\ Set(refresh([st |-> cronStore, m |-> Fresh]))
  /\ tick' = [NoTick EXCEPT !.at = "recover", !.boot = TRUE,
                            !.rows = [i \in DOMAIN Rows |-> [run |-> Rows[i], status |-> cronStore.recs[Rows[i]].status]]]
  /\ UNCHANGED <<cronNow, jumps, defs, changes, adm, down, outages, box, cronLoad>>

TickSteps == TickStart \/ RecoverRow \/ Recovered \/ ManualDone \/ FireOne \/ RetriesDue \/ TickEnd

CronNext ==
  \/ TickSteps
  \/ \E x \in m.tasks : RunnerStarts(x) \/ FinishRun(x)
  \/ \E run \in DOMAIN box : RunnerEnds(run)
  \/ \E j \in cronLoad.jobs : Define(j)
  \/ \E p \in cronLoad.plans : Reserve(p) \/ Admit(p) \/ Refused(p) \/ Record(p) \/ Begin(p)
                      \/ ManualStarts(p) \/ ManualOutcome(p)
  \/ Reconcile
  \/ CronClock \/ JumpBack \/ Outage \/ CronCrash

CronSpec == CronInit /\ [][CronNext]_cronVars

----------------------------------------------------------------------------
(* Properties.                                                             *)

\* No fire time is run twice, over restarts, clock jumps, failed writes and
\* pruned history (claim_scheduled, has_slot, try_prune).
FiredOnce ==
  \A a, b \in DOMAIN cronStore.recs :
    a # b /\ cronStore.recs[a].job = cronStore.recs[b].job /\ cronStore.recs[a].slot = cronStore.recs[b].slot
      => cronStore.recs[a].attempt # cronStore.recs[b].attempt

RunJob(r) == IF r \in Plans THEN JobOf[r] ELSE cronStore.recs[r].job
Containers(j) == {r \in DOMAIN box : box[r] = "running" /\ RunJob(r) = j}

\* A job never has more containers than its overlap policy allows, and the
\* server never more than MAX_RUNNING, also when a restart, a failed write or
\* a retry comes in between (start_chain, recover, fill_slots).
OverlapRespected ==
  /\ \A j \in Jobs : Cardinality(Containers(j)) <= Limit(j)
  /\ Cardinality(UNION {Containers(j) : j \in Jobs}) <= MAX_RUNNING

AtRest ==
  /\ tick.at = "idle" /\ m.tasks = {} /\ m.looks = Empty /\ m.submitting = {} /\ cronStore.resv = {}
  /\ \A i \in DOMAIN cronStore.recs : cronStore.recs[i].status \notin Open
  /\ \A p \in Plans : cronStore.mrun[p] # "running"

\* Runs of the fire times themselves: no retry, no manual run.
Scheduled ==
  (\A i \in DOMAIN cronStore.recs : cronStore.recs[i].attempt = 1) /\ (\A p \in Plans : cronStore.mrun[p] = "none")

\* When no run is unfinished every container slot is free and no chain but
\* those waiting for a retry is active (finish, recover): over restarts, failed
\* writes, clock jumps, and skipped and queued chains, for the runs of the fire
\* times themselves.
SlotsReturned ==
  Scheduled /\ AtRest => Used(m) = 0 /\ \A c \in DOMAIN m.chains : m.chains[c].retry > 0

\* A chain only waits for its job while another chain of the job is active
\* (start_chain, end_chain): for the runs of the fire times themselves, as long
\* as none is recovered and the job is not paused or deleted.
QueuedBehindActive ==
  Scheduled /\ changes + cronCrashes + outages = 0 => \A j \in DOMAIN m.queued : active_chains(m, j) > 0
=============================================================================
