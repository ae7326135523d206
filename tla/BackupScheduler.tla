--------------------------- MODULE BackupScheduler ---------------------------
(***************************************************************************)
(* The backup scheduler (src/src/local/sched/backup.rs): at the fire times *)
(* of a policy it claims the fire time, waits for the one backup slot of   *)
(* the server, hands the run to the runner, retries, prunes, verifies, and *)
(* after a restart finds out what became of the runs in flight.            *)
(*                                                                         *)
(* Two kinds of threads share its state: the tick, and one task per run    *)
(* that waits for the runner and then finishes the run.  A step here is    *)
(* what a thread does between two points where the other can come in: the  *)
(* state lock is released, or the store is called.  With load.atomic the   *)
(* threads only switch where they wait (one worker thread).  Runs and fire *)
(* times are numbered; a run is <<policy, fire time, number>>.             *)
(***************************************************************************)
EXTENDS Naturals, Sequences, FiniteSets, SequencesExt

CONSTANTS
    SchedLoads,     \* policies, their fire times, what may fail; see BsInit
    MaxTime,        \* bound on the clock
    MaxCrashes,     \* bound on restarts
    LateStart,      \* LATE_START_SECONDS, in ticks of the clock
    Downtime        \* DOWNTIME_SECONDS, in ticks of the clock

ASSUME SchedBounds == MaxTime \in Nat /\ MaxCrashes \in Nat /\ LateStart \in Nat /\ Downtime \in Nat

RUN_ATTEMPTS == 3
NoRun == <<"none", 0, 0>>
Tick == <<"tick", 0, 0>>

VARIABLES
    clock, crashes,
    signed,     \* the policies that the ledger has
    defs,       \* the policies as last read
    checkpoint, \* the last tick that went through, 0 before
    runRows,       \* stored runs: run -> status, whether its authority is bound
    slots,      \* claimed fire times: <<policy, time>>
    queue, retries, busy, server_busy, recovering, running,
    popped,     \* thread -> the run it took from the queue and has not started
    task,       \* run -> where its task is
    tick,       \* the tick's place, the rows it read, the policies to come to, failures
    runner,     \* run -> what the runner made of it
    calls,      \* the calls made to the runner: <<policy, time, attempt>>, in order
    artifact,   \* backups on record: run -> "kept" or "expired"
    vrow,       \* verifications: <<policy, time>> -> status
    verifying, vtask, vcall,    \* policies held by one, those with a task, the runner's answers
    manual,     \* manual backups: action -> row, "none" before it is recorded
    bsLoad

disk == <<runRows, slots, checkpoint, artifact, vrow>>
memory == <<queue, retries, busy, server_busy, recovering, running, popped, task, verifying, vtask>>
bsVars == <<clock, crashes, signed, defs, disk, memory, tick, runner, calls, vcall, manual, bsLoad>>

NoRows == [r \in {} |-> NoRun]
BsInit ==
    /\ bsLoad \in SchedLoads
    /\ clock = 1 /\ crashes = 0
    /\ signed = DOMAIN bsLoad.fires /\ defs = DOMAIN bsLoad.fires
    /\ checkpoint = 1
    /\ runRows = NoRows /\ slots = {} /\ artifact = NoRows /\ vrow = NoRows
    /\ queue = <<>> /\ retries = {} /\ busy = {} /\ server_busy = FALSE
    /\ recovering = {} /\ running = NoRun
    /\ popped = NoRows /\ task = NoRows /\ verifying = {} /\ vtask = {}
    /\ tick = [pc |-> "idle", scan |-> NoRows, cur |-> NoRun, todo |-> {}, bad |-> FALSE]
    /\ runner = NoRows /\ calls = <<>> /\ vcall = NoRows
    /\ manual = "none"

Set(f, x, v) == [y \in DOMAIN f \cup {x} |-> IF y = x THEN v ELSE f[y]]
Without(f, x) == [y \in DOMAIN f \ {x} |-> f[y]]
policy(r) == r[1]

\* With one worker thread, a thread moves only while the others wait.
Alone(t) ==
    bsLoad.atomic =>
        /\ t # Tick => tick.pc = "idle"
        /\ \A r \in DOMAIN task : r # t => task[r] = "runner"
        /\ \A u \in DOMAIN popped : u = t
Stored == IF bsLoad.fails THEN BOOLEAN ELSE {TRUE}

Unfinished == {r \in DOMAIN runRows : runRows[r].st \in {"pending", "dumping"}}

-----------------------------------------------------------------------------
(* Starting the next backup: called by the tick and by a task that finishes *)

\* Takes the first waiting run when the server has none.
next_backup(t) ==
    /\ Alone(t) /\ ~server_busy /\ queue # <<>>
    /\ popped' = Set(popped, t, Head(queue))
    /\ queue' = Tail(queue)
    /\ server_busy' = TRUE

\* Attempts are counted from the records of the fire time.
attempt_of_first(r) == 1
attempt_of(r) == Cardinality({o \in DOMAIN runRows : o[1] = r[1] /\ o[2] = r[2] /\ o # r}) + 1

\* The run is recorded as running with its authority before the runner is called.
Start(t) ==
    LET r == popped[t] IN
    /\ t \in DOMAIN popped /\ Alone(t)
    /\ \/ /\ policy(r) \notin defs
          /\ runRows' = Set(runRows, r, [st |-> "cancelled", bound |-> TRUE])
          /\ server_busy' = FALSE /\ busy' = busy \ {policy(r)}
          /\ UNCHANGED <<queue, running, task, runner, calls>>
       \/ /\ attempt_of(r) > 3 \/ FALSE \in Stored
          /\ server_busy' = FALSE /\ queue' = <<r>> \o queue
          /\ UNCHANGED <<runRows, busy, running, task, runner, calls>>
       \/ /\ policy(r) \in defs /\ attempt_of(r) <= 3
          /\ runRows' = Set(runRows, r, [st |-> "dumping", bound |-> TRUE])
          /\ running' = r
          /\ task' = Set(task, r, "runner")
          /\ runner' = Set(runner, r, "live")
          /\ calls' = Append(calls, <<r[1], r[2], attempt_of(r)>>)
          /\ UNCHANGED <<queue, busy, server_busy>>
    /\ popped' = Without(popped, t)

-----------------------------------------------------------------------------
(* Finishing a run *)

\* The answer of the runner ends the wait; the run is no longer the running one.
run_scheduled(r) ==
    /\ r \in DOMAIN task /\ task[r] = "runner" /\ runner[r] # "live" /\ Alone(r)
    /\ task' = [task EXCEPT ![r] = "took"]
    /\ running' = NoRun
    /\ UNCHANGED <<clock, crashes, signed, defs, disk, queue, retries, busy, server_busy,
                   recovering, popped, verifying, vtask, tick, runner, calls, vcall, manual, bsLoad>>

\* What the runner's answer makes of the run; only its own failures are retried,
\* not a refusal.
apply_backup_result(a) == IF a = "refused" THEN "failed" ELSE a
retryable(a) == a = "failed"

\* The outcome is stored, with the artifact of a success; when that fails the run
\* is left to recovery, and keeps the server.
save_result(r) ==
    /\ r \in DOMAIN task /\ task[r] = "took" /\ Alone(r)
    /\ \/ /\ runRows' = [runRows EXCEPT ![r].st = apply_backup_result(runner[r])]
          /\ artifact' = IF runner[r] = "succeeded" THEN Set(artifact, r, "kept") ELSE artifact
          /\ task' = [task EXCEPT ![r] = "saved"]
          /\ UNCHANGED recovering
       \/ /\ FALSE \in Stored
          /\ recovering' = recovering \cup {r}
          /\ task' = Without(task, r)
          /\ UNCHANGED <<runRows, artifact>>
    /\ UNCHANGED <<clock, crashes, signed, defs, slots, checkpoint, vrow, queue, retries, busy,
                   server_busy, running, popped, verifying, vtask, tick, runner, calls, vcall, manual, bsLoad>>

\* The server is free; the policy stays busy for a retry.
finish_backup(r) ==
    LET retry == retryable(runner[r]) /\ policy(r) \in defs /\ r[3] < RUN_ATTEMPTS IN
    /\ r \in DOMAIN task /\ task[r] = "saved" /\ Alone(r)
    /\ server_busy' = FALSE
    /\ retries' = IF retry THEN retries \cup {<<r[1], r[2], r[3] + 1>>} ELSE retries
    /\ busy' = IF retry THEN busy ELSE busy \ {policy(r)}
    /\ task' = [task EXCEPT ![r] = IF runner[r] = "succeeded" THEN "prune" ELSE "next"]
    /\ UNCHANGED <<clock, crashes, signed, defs, disk, queue, recovering, running, popped, verifying, vtask,
                   tick, runner, calls, vcall, manual, bsLoad>>

\* backup_prune under the run's binding: what the runner deleted is marked, but
\* never the backup just made nor another policy's.
Deletable(r) == {a \in DOMAIN artifact : a # r /\ policy(a) = policy(r)}
prune(r) ==
    /\ r \in DOMAIN task /\ task[r] = "prune" /\ Alone(r)
    /\ \E gone \in SUBSET {a \in Deletable(r) : artifact[a] = "kept"} :
         artifact' = [a \in DOMAIN artifact |-> IF a \in gone THEN "expired" ELSE artifact[a]]
    /\ task' = [task EXCEPT ![r] = "next"]
    /\ UNCHANGED <<clock, crashes, signed, defs, runRows, slots, checkpoint, vrow, queue, retries, busy,
                   server_busy, recovering, running, popped, verifying, vtask, tick, runner, calls, vcall,
                   manual, bsLoad>>

\* The last thing a task does is to start the next run; it ends when there is none
\* or the server is taken.
task_next(r) ==
    /\ r \in DOMAIN task /\ task[r] = "next" /\ r \notin DOMAIN popped /\ Alone(r)
    /\ IF server_busy \/ queue = <<>>
       THEN task' = Without(task, r) /\ UNCHANGED <<popped, queue, server_busy>>
       ELSE next_backup(r) /\ UNCHANGED task
    /\ UNCHANGED <<clock, crashes, signed, defs, disk, retries, busy, recovering, running, verifying, vtask,
                   tick, runner, calls, vcall, manual, bsLoad>>
thread_start(t) ==
    /\ Start(t)
    /\ UNCHANGED <<clock, crashes, signed, defs, slots, checkpoint, artifact, vrow, retries,
                   recovering, verifying, vtask, tick, vcall, manual, bsLoad>>

-----------------------------------------------------------------------------
(* The tick *)

\* The definitions are read again, and the rows of unfinished runs.
reload(now) ==
    /\ tick.pc = "idle" /\ Alone(Tick)
    /\ defs' = signed
    /\ tick' = [pc |-> "recover", scan |-> [r \in Unfinished |-> runRows[r].st], cur |-> NoRun,
                todo |-> signed, bad |-> FALSE]
    /\ UNCHANGED <<clock, crashes, signed, disk, memory, runner, calls, vcall, manual, bsLoad>>

\* A row whose run is neither running nor queued here: what the runner's log says.
Elsewhere(r) == running # r /\ \A i \in DOMAIN queue : queue[i] # r
recover_look(r) ==
    /\ tick.pc = "recover" /\ r \in DOMAIN tick.scan /\ tick.cur = NoRun /\ Alone(Tick)
    /\ tick' = IF Elsewhere(r) THEN [tick EXCEPT !.cur = r] ELSE [tick EXCEPT !.scan = Without(@, r)]
    /\ UNCHANGED <<clock, crashes, signed, defs, disk, memory, runner, calls, vcall, manual, bsLoad>>

\* The result line of a run that is bound to its authority; a refusal has none.
run_result(r) == r \in DOMAIN runner /\ runRows[r].bound /\ runner[r] \in {"succeeded", "failed", "cancelled"}
Free(r, held) == server_busy' = IF held = {} /\ running = NoRun THEN FALSE ELSE server_busy

\* With a result the run is settled and its policy and the server are free;
\* without one both are held until there is one.
recover(r) ==
    IF run_result(r)
    THEN /\ runRows' = [runRows EXCEPT ![r].st = apply_backup_result(runner[r])]
         /\ artifact' = IF runner[r] = "succeeded" /\ r \notin DOMAIN artifact
                        THEN Set(artifact, r, "kept") ELSE artifact
         /\ recovering' = recovering \ {r}
         /\ busy' = busy \ {policy(r)}
         /\ Free(r, recovering \ {r})
    ELSE /\ runRows' = [runRows EXCEPT ![r].st = tick.scan[r]]
         /\ recovering' = recovering \cup {r}
         /\ busy' = busy \cup {policy(r)}
         /\ server_busy' = TRUE
         /\ UNCHANGED artifact
recover_row ==
    LET r == tick.cur IN
    /\ tick.pc = "recover" /\ r # NoRun /\ Alone(Tick)
    /\ \/ recover(r) /\ tick' = [tick EXCEPT !.cur = NoRun, !.scan = Without(@, r)]
       \/ /\ FALSE \in Stored
          /\ tick' = [tick EXCEPT !.cur = NoRun, !.scan = Without(@, r), !.bad = TRUE]
          /\ UNCHANGED <<runRows, artifact, busy, server_busy, recovering>>
    /\ UNCHANGED <<clock, crashes, signed, defs, slots, checkpoint, vrow, queue, retries, running,
                   popped, task, verifying, vtask, runner, calls, vcall, manual, bsLoad>>

\* The running verifications: settled from the log, else their policy is held.
recover_verifications ==
    /\ tick.pc = "recover" /\ tick.scan = NoRows /\ Alone(Tick)
    /\ LET lost == {v \in DOMAIN vrow : vrow[v] = "running" /\ v \notin vtask}
           known == {v \in lost : vcall[v] \in {"passed", "failed", "cancelled"}}
       IN /\ vrow' = [v \in DOMAIN vrow |-> IF v \in known THEN vcall[v] ELSE vrow[v]]
          /\ verifying' = (verifying \cup {v[1] : v \in lost}) \ {v[1] : v \in known}
    /\ tick' = [tick EXCEPT !.pc = IF tick.bad THEN "idle" ELSE "fire"]
    /\ UNCHANGED <<clock, crashes, signed, defs, runRows, slots, checkpoint, artifact, queue, retries, busy,
                   server_busy, recovering, running, popped, task, vtask, runner, calls, vcall, manual, bsLoad>>

\* The fire times since the last tick that went through.
fire_times(p) == {s \in bsLoad.fires[p] : checkpoint < s /\ s <= clock}
Latest(S) == CHOOSE s \in S : \A o \in S : o <= s

\* A fire time is claimed once; a busy policy skips it without a claim.
has_slot(p, s) == <<p, s>> \in slots \/ <<p, s, 1>> \in DOMAIN runRows
start_backup(p, s) ==
    IF has_slot(p, s) \/ p \in busy THEN UNCHANGED <<runRows, slots, busy, queue>>
    ELSE /\ busy' = busy \cup {p}
         /\ slots' = slots \cup {<<p, s>>}
         /\ runRows' = Set(runRows, <<p, s, 1>>, [st |-> "pending", bound |-> TRUE])
         /\ queue' = Append(queue, <<p, s, 1>>)
\* After downtime the latest fire time runs if it is not too old, else it is
\* recorded as missed.
after_downtime(p, s) ==
    IF clock - s <= LateStart THEN start_backup(p, s)
    ELSE /\ UNCHANGED <<busy, queue, slots>>
         /\ runRows' = IF has_slot(p, s) THEN runRows
                    ELSE Set(runRows, <<p, s, 1>>, [st |-> "missed", bound |-> FALSE])
\* A verification runs beside backups, one per policy.
start_verify(p, s) ==
    IF bsLoad.verify /\ <<p, s>> \notin DOMAIN vrow /\ p \notin verifying
    THEN /\ verifying' = verifying \cup {p} /\ vtask' = vtask \cup {<<p, s>>}
         /\ vrow' = Set(vrow, <<p, s>>, "running") /\ vcall' = Set(vcall, <<p, s>>, "live")
    ELSE UNCHANGED <<verifying, vtask, vrow, vcall>>

fire(p) ==
    /\ tick.pc = "fire" /\ p \in tick.todo /\ Tick \notin DOMAIN popped /\ Alone(Tick)
    /\ tick' = [tick EXCEPT !.todo = @ \ {p}]
    /\ IF fire_times(p) = {} THEN UNCHANGED <<runRows, slots, busy, queue, verifying, vtask, vrow, vcall>>
       ELSE LET s == Latest(fire_times(p)) IN
            /\ IF clock - checkpoint > Downtime THEN after_downtime(p, s) ELSE start_backup(p, s)
            /\ IF clock - checkpoint <= Downtime \/ clock - s <= LateStart
               THEN start_verify(p, s) ELSE UNCHANGED <<verifying, vtask, vrow, vcall>>
    /\ UNCHANGED <<clock, crashes, signed, defs, checkpoint, artifact, retries, server_busy, recovering,
                   running, popped, task, runner, calls, manual, bsLoad>>

\* start_backup ends with next_backup, and so does retries_due.
tick_next ==
    /\ tick.pc \in {"fire", "manual"} /\ Tick \notin DOMAIN popped
    /\ next_backup(Tick)
    /\ UNCHANGED <<clock, crashes, signed, defs, disk, retries, busy, recovering, running, task,
                   verifying, vtask, tick, runner, calls, vcall, manual, bsLoad>>
NothingToStart == server_busy \/ queue = <<>>

\* Retries that are due get their row and join the queue.
retries_due ==
    /\ tick.pc = "fire" /\ tick.todo = {} /\ NothingToStart /\ Tick \notin DOMAIN popped /\ Alone(Tick)
    /\ \E due \in SUBSET retries :
         /\ runRows' = [r \in DOMAIN runRows \cup due |->
                       IF r \in due THEN [st |-> "pending", bound |-> FALSE] ELSE runRows[r]]
         /\ queue' = queue \o SetToSeq(due)
         /\ retries' = retries \ due
    /\ tick' = [tick EXCEPT !.pc = "manual"]
    /\ UNCHANGED <<clock, crashes, signed, defs, slots, checkpoint, artifact, vrow, busy, server_busy,
                   recovering, running, popped, task, verifying, vtask, runner, calls, vcall, manual, bsLoad>>

\* Manual backups are run by the executor; their row follows the ledger, and a
\* finished one is left alone.
reconcile_manual ==
    /\ tick.pc = "manual" /\ NothingToStart /\ Tick \notin DOMAIN popped /\ Alone(Tick)
    /\ manual' = CASE manual = "none" /\ bsLoad.manual -> "dumping"
                   [] manual = "dumping" -> "succeeded"
                   [] OTHER -> manual
    /\ tick' = [tick EXCEPT !.pc = "note", !.cur = IF running # NoRun /\ ~bsLoad.atomic THEN running ELSE NoRun]
    /\ UNCHANGED <<clock, crashes, signed, defs, disk, memory, runner, calls, vcall, bsLoad>>

\* The running row is written again with the runner's id; the run may have ended
\* since it was read.  Then the checkpoint moves.
note_runner_id ==
    /\ tick.pc = "note" /\ Alone(Tick)
    /\ runRows' = IF tick.cur = NoRun THEN runRows ELSE [runRows EXCEPT ![tick.cur].st = "dumping"]
    /\ checkpoint' \in {clock} \cup (IF FALSE \in Stored THEN {checkpoint} ELSE {})
    /\ tick' = [tick EXCEPT !.pc = "idle", !.cur = NoRun]
    /\ UNCHANGED <<clock, crashes, signed, defs, slots, artifact, vrow, memory, runner, calls, vcall,
                   manual, bsLoad>>

-----------------------------------------------------------------------------
(* Verifications, the runner, the operator, time and restarts *)

\* A verification that was cancelled is no failure; the row says what happened.
\* If it cannot be saved the policy stays held until a restart.
apply_verify_result(a) == IF a = "refused" THEN "failed" ELSE a
finish_verify(v) ==
    /\ v \in DOMAIN vrow /\ vrow[v] = "running" /\ vcall[v] # "live" /\ v \in vtask
    /\ vtask' = vtask \ {v}
    /\ \/ vrow' = [vrow EXCEPT ![v] = apply_verify_result(vcall[v])] /\ verifying' = verifying \ {v[1]}
       \/ FALSE \in Stored /\ UNCHANGED <<vrow, verifying>>
    /\ UNCHANGED <<clock, crashes, signed, defs, runRows, slots, checkpoint, artifact, queue, retries, busy,
                   server_busy, recovering, running, popped, task, tick, runner, calls, vcall, manual, bsLoad>>

runner_ends(r) ==
    /\ runner[r] = "live"
    /\ \E o \in bsLoad.outcomes : runner' = [runner EXCEPT ![r] = o]
    /\ UNCHANGED <<clock, crashes, signed, defs, disk, memory, tick, calls, vcall, manual, bsLoad>>
verifier_ends(v) ==
    /\ vcall[v] = "live"
    /\ \E o \in {"passed", "failed", "cancelled", "refused"} : vcall' = [vcall EXCEPT ![v] = o]
    /\ UNCHANGED <<clock, crashes, signed, defs, disk, memory, tick, runner, calls, manual, bsLoad>>
policy_deleted(p) ==
    /\ bsLoad.deletes /\ signed' = signed \ {p} /\ signed' # signed
    /\ UNCHANGED <<clock, crashes, defs, disk, memory, tick, runner, calls, vcall, manual, bsLoad>>
Pass ==
    /\ clock < MaxTime /\ tick.pc = "idle"
    /\ clock' = clock + 1
    /\ UNCHANGED <<crashes, signed, defs, disk, memory, tick, runner, calls, vcall, manual, bsLoad>>

\* What is in memory is lost; the runner goes on.
crash ==
    /\ crashes < MaxCrashes
    /\ crashes' = crashes + 1
    /\ queue' = <<>> /\ retries' = {} /\ busy' = {} /\ server_busy' = FALSE /\ recovering' = {}
    /\ running' = NoRun /\ popped' = NoRows /\ task' = NoRows
    /\ verifying' = {} /\ vtask' = {}
    /\ tick' = [pc |-> "recover", scan |-> [r \in Unfinished |-> runRows[r].st], cur |-> NoRun,
                todo |-> signed, bad |-> TRUE]
    /\ defs' = signed
    /\ UNCHANGED <<clock, signed, disk, runner, calls, vcall, manual, bsLoad>>

Finish(r) == run_scheduled(r) \/ save_result(r) \/ finish_backup(r) \/ prune(r) \/ task_next(r)
BsNext ==
    \/ \E r \in DOMAIN task : Finish(r)
    \/ \E t \in DOMAIN popped : thread_start(t)
    \/ reload(clock)
    \/ \E r \in DOMAIN tick.scan : recover_look(r)
    \/ recover_row \/ recover_verifications
    \/ \E p \in tick.todo : fire(p)
    \/ tick_next \/ retries_due \/ reconcile_manual \/ note_runner_id
    \/ \E r \in DOMAIN runner : runner_ends(r)
    \/ \E v \in DOMAIN vcall : finish_verify(v) \/ verifier_ends(v)
    \/ \E p \in signed : policy_deleted(p)
    \/ Pass \/ crash

-----------------------------------------------------------------------------
(* Properties *)

Live == {r \in DOMAIN runner : runner[r] = "live"}

\* The runner never gets an attempt of a fire time twice, nor a fourth one,
\* whatever ticks, tasks and restarts do.
AttemptOnce ==
    /\ \A i, k \in DOMAIN calls : calls[i] = calls[k] => i = k
    /\ \A i \in DOMAIN calls : calls[i][3] <= RUN_ATTEMPTS

\* A row that says how a run ended says what the runner said, and a success has
\* its artifact on record.
RowsTruthful ==
    \A r \in DOMAIN runRows : runRows[r].st \in {"succeeded", "failed"} =>
        /\ r \in DOMAIN runner /\ runRows[r].st = apply_backup_result(runner[r])
        /\ runRows[r].st = "succeeded" => r \in DOMAIN artifact

\* One backup on the server at a time, those of an earlier process included.
OneRunPerServer == Cardinality(Live) <= 1

\* A policy with a run in progress, waiting, to be retried or unknown is busy, and
\* a run in progress or unknown has the server.
Held ==
    /\ \A r \in Live \cup Range(queue) \cup retries \cup recovering : tick.pc = "idle" => policy(r) \in busy
    /\ tick.pc = "idle" /\ (running # NoRun \/ recovering # {}) => server_busy

\* With one worker thread, and the second while the store works.
SlotsHeld == bsLoad.atomic => OneRunPerServer /\ (bsLoad.fails \/ Held)
\* What holds for every interleaving.
RunsInOrder == AttemptOnce /\ RowsTruthful
=============================================================================
