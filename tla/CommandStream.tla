---------------------------- MODULE CommandStream ----------------------------
(***************************************************************************)
(* The command stream of the hosted agent (src/src/command.rs, with        *)
(* command_runtime.rs and v1_guard.rs).  The control plane dispatches      *)
(* commands over a stream and the agent runs each one in a task of its     *)
(* own: it acknowledges the command, refuses it once signed plans rule,    *)
(* runs its handler and sends the result on the stream it came by.  A      *)
(* cancel command aborts the task through a registry kept by command id.   *)
(* A task that runs a CI job waits for a blocking worker, which an abort   *)
(* does not stop: the worker has a flag of its own.                        *)
(*                                                                         *)
(* The control plane is external: a command's row is pending until it is   *)
(* acknowledged, and a pending command is dispatched again.                *)
(***************************************************************************)
EXTENDS Naturals, FiniteSets

CONSTANTS
    Commands,      \* command ids
    Kinds,         \* the loads: id -> "ci", "work", "reads", "bypass" or "invalid"
    MaxPermits,    \* MAX_CONCURRENT_COMMANDS
    MaxDispatch,   \* bound: dispatches of each command
    MaxBreaks,     \* bound: breaks of the stream and exits of the process
    MaxCancels,    \* bound: cancel commands
    AckFails       \* acknowledgements may fail or time out

ASSUME CommandAssumption ==
    /\ IsFiniteSet(Commands)
    /\ Kinds \subseteq [Commands -> {"ci", "work", "reads", "bypass", "invalid"}]
    /\ MaxPermits \in Nat \ {0} /\ MaxDispatch \in [Commands -> Nat \ {0}]
    /\ MaxBreaks \in Nat /\ MaxCancels \in Nat
    /\ AckFails \in BOOLEAN

Dispatches == UNION {{c} \X (1..MaxDispatch[c]) : c \in Commands}
NoDispatch == <<>>

VARIABLES
    row,       \* the control plane's row of a command
    sent,      \* how often it was dispatched
    stream,    \* number of the present or last stream
    up,        \* it is open
    cmdPc,        \* task of a dispatch
    via,       \* the stream its results go to
    permit,    \* it holds one of the permits
    started,   \* its handler has begun
    aborted, cmdSignal,   \* its abort handle, and a CI job's own flag
    worker,    \* the blocking worker of a CI job
    answer,    \* its final result on the way to the control plane
    registry,  \* CommandCancels: id -> the dispatch registered last
    permits,   \* free permits of the semaphore
    trust,     \* /etc/permanu/trusted-keys.json exists
    breaks, cancels,
    kind       \* what each command is; never changes

taskVars == <<cmdPc, via, permit, started, aborted, cmdSignal, worker, answer, registry, permits>>
cmdVars == <<row, sent, stream, up, taskVars, trust, breaks, cancels, kind>>

CmdInit ==
    /\ row = [c \in Commands |-> "pending"]
    /\ sent = [c \in Commands |-> 0]
    /\ stream = 1 /\ up = TRUE
    /\ cmdPc = [d \in Dispatches |-> "none"]
    /\ via = [d \in Dispatches |-> 0]
    /\ permit = [d \in Dispatches |-> FALSE]
    /\ started = [d \in Dispatches |-> FALSE]
    /\ aborted = [d \in Dispatches |-> FALSE]
    /\ cmdSignal = [d \in Dispatches |-> FALSE]
    /\ worker = [d \in Dispatches |-> "none"]
    /\ answer = [d \in Dispatches |-> "none"]
    /\ registry = [c \in Commands |-> NoDispatch]
    /\ permits = MaxPermits
    /\ trust = FALSE
    /\ breaks = 0 /\ cancels = 0
    /\ kind \in Kinds

KindOf(d) == kind[d[1]]
is_read_only(k) == k = "reads"
command_requires_ack(k) == k = "ci"
command_bypasses_limit(k) == k = "bypass"

Go(d, l) == cmdPc' = [cmdPc EXCEPT ![d] = l]
\* A task between its start and its end, with its handler or on its last send.
Handling(d) == cmdPc[d] \in {"ack", "run", "answer"}
Live(d) == Handling(d) \/ cmdPc[d] = "cancelled"

-----------------------------------------------------------------------------
(* The stream and its dispatcher *)

\* An invalid command, or one over the limit, is answered by a task that takes
\* no permit and is not registered.
admission_for(c) ==
    IF kind[c] = "invalid" THEN "reject"
    ELSE IF command_bypasses_limit(kind[c]) \/ permits > 0 THEN "ack" ELSE "reject"

\* The dispatch of a pending command, and what the agent's loop does with it.
\* The control plane waits for the end of the agent's acknowledgement before
\* it takes a command for not received.
run(c) ==
    LET d == <<c, sent[c] + 1>> IN
    /\ up
    /\ row[c] = "pending" /\ sent[c] < MaxDispatch[c]
    /\ sent[c] > 0 => cmdPc[<<c, sent[c]>>] \notin {"ack", "reject"}
    /\ sent' = [sent EXCEPT ![c] = @ + 1]
    /\ Go(d, admission_for(c))
    /\ via' = [via EXCEPT ![d] = stream]
    /\ IF admission_for(c) = "reject"
       THEN UNCHANGED <<permit, permits, registry>>
       ELSE /\ registry' = [registry EXCEPT ![c] = d]
            /\ IF command_bypasses_limit(kind[c])
               THEN UNCHANGED <<permit, permits>>
               ELSE permit' = [permit EXCEPT ![d] = TRUE] /\ permits' = permits - 1
    /\ UNCHANGED <<row, stream, up, started, aborted, cmdSignal, worker, answer, trust, breaks, cancels, kind>>

\* The stream ends; results still queued on it are gone.
stream_breaks ==
    /\ up /\ breaks < MaxBreaks
    /\ up' = FALSE
    /\ breaks' = breaks + 1
    /\ answer' = [d \in Dispatches |-> IF answer[d] = "queued" THEN "lost" ELSE answer[d]]
    /\ UNCHANGED <<row, sent, stream, cmdPc, via, permit, started, aborted, cmdSignal, worker,
                   registry, permits, trust, cancels, kind>>

reconnect ==
    /\ ~up
    /\ up' = TRUE /\ stream' = stream + 1
    /\ UNCHANGED <<row, sent, taskVars, trust, breaks, cancels, kind>>

\* RESTART_SELF, an update or a crash: the tasks, the registry and the permits
\* go with the process, and so do CI workers.
process_exit ==
    /\ breaks < MaxBreaks
    /\ breaks' = breaks + 1
    /\ up' = FALSE
    /\ cmdPc' = [d \in Dispatches |-> IF cmdPc[d] = "none" THEN "none" ELSE "ended"]
    /\ permit' = [d \in Dispatches |-> FALSE]
    /\ worker' = [d \in Dispatches |-> "none"]
    /\ answer' = [d \in Dispatches |->
                    IF cmdPc[d] # "none" /\ answer[d] # "delivered" THEN "lost" ELSE answer[d]]
    /\ registry' = [c \in Commands |-> NoDispatch]
    /\ permits' = MaxPermits
    /\ UNCHANGED <<row, sent, stream, via, started, aborted, cmdSignal, trust, cancels, kind>>

-----------------------------------------------------------------------------
(* A command's task *)

\* The end of a task: its registration goes, whichever dispatch it names, and
\* its permit is free again.  The tasks that reject have neither.
Release(d) ==
    /\ permit' = [permit EXCEPT ![d] = FALSE]
    /\ permits' = IF permit[d] THEN permits + 1 ELSE permits
Unregister(d) == registry' = [registry EXCEPT ![d[1]] = NoDispatch]

\* Whether signed plans rule out a command of this kind.
signing_refusal(k) == trust /\ ~is_read_only(k)

\* Up to three seconds for the acknowledgement.  The control plane may have
\* recorded one that timed out here.  Without a needed one the handler ends with
\* an error and no result.  The trust file is looked up afterwards.
End_after_ack(d) == Go(d, "ended") /\ Unregister(d) /\ Release(d)
ack_command_receipt(d) ==
    /\ cmdPc[d] \in {"ack", "reject"}
    /\ \E seen, ok \in BOOLEAN :
       /\ ~AckFails => seen /\ ok
       /\ ok => seen
       /\ row' = IF seen /\ row[d[1]] = "pending"
                 THEN [row EXCEPT ![d[1]] = "dispatched"] ELSE row
       /\ \/ /\ cmdPc[d] = "reject"
             /\ Go(d, "rejected")
             /\ UNCHANGED <<permit, permits, registry, started, worker>>
          \/ /\ cmdPc[d] = "ack" /\ ~ok /\ command_requires_ack(KindOf(d))
             /\ End_after_ack(d)
             /\ UNCHANGED <<started, worker>>
          \/ /\ cmdPc[d] = "ack" /\ (ok \/ ~command_requires_ack(KindOf(d)))
             /\ IF signing_refusal(KindOf(d))
                THEN Go(d, "answer") /\ UNCHANGED <<started, worker>>
                ELSE /\ Go(d, "run")
                     /\ started' = [started EXCEPT ![d] = TRUE]
                     /\ worker' = IF KindOf(d) = "ci"
                                  THEN [worker EXCEPT ![d] = "running"] ELSE worker
             /\ UNCHANGED <<permit, permits, registry>>
    /\ UNCHANGED <<sent, stream, up, via, aborted, cmdSignal, answer, trust, breaks, cancels, kind>>

\* A CI worker returns in its own time; it looks at its flag as it goes.
worker_returns(d) ==
    /\ worker[d] = "running"
    /\ worker' = [worker EXCEPT ![d] = "ended"]
    /\ UNCHANGED <<row, sent, stream, up, cmdPc, via, permit, started, aborted, cmdSignal, answer,
                   registry, permits, trust, breaks, cancels, kind>>

\* The handler has its result: handle_ci_job_command when the worker returned.
handle_command(d) ==
    /\ cmdPc[d] = "run"
    /\ KindOf(d) = "ci" => worker[d] = "ended"
    /\ Go(d, "answer")
    /\ UNCHANGED <<row, sent, stream, up, via, permit, started, aborted, cmdSignal, worker, answer,
                   registry, permits, trust, breaks, cancels, kind>>

\* The abort drops the handler at the point where it waits.  What is left of the
\* task takes it off the registry and reports it cancelled.
abort_handler_silent(d) ==
    /\ aborted[d] /\ Handling(d)
    /\ Go(d, "ended")
    /\ Unregister(d) /\ Release(d)
    /\ UNCHANGED <<row, sent, stream, up, via, started, aborted, cmdSignal, worker, answer,
                   trust, breaks, cancels, kind>>
abort_handler(d) ==
    /\ aborted[d] /\ Handling(d)
    /\ Go(d, "cancelled")
    /\ Unregister(d)
    /\ UNCHANGED <<row, sent, stream, up, via, permit, started, aborted, cmdSignal, worker, answer,
                   permits, trust, breaks, cancels, kind>>

\* The final result goes to the stream the command came by, and is dropped with
\* a warning when that stream is gone.
send_result(d) ==
    /\ cmdPc[d] \in {"answer", "cancelled", "rejected"}
    /\ answer' = [answer EXCEPT ![d] = IF up /\ via[d] = stream THEN "queued" ELSE "lost"]
    /\ Go(d, "ended")
    /\ Release(d)
    /\ IF cmdPc[d] = "answer" THEN Unregister(d) ELSE UNCHANGED registry
    /\ UNCHANGED <<row, sent, stream, up, via, started, aborted, cmdSignal, worker, trust, breaks, cancels, kind>>

receive_result(d) ==
    /\ answer[d] = "queued"
    /\ answer' = [answer EXCEPT ![d] = "delivered"]
    /\ row' = [row EXCEPT ![d[1]] = "final"]
    /\ UNCHANGED <<sent, stream, up, cmdPc, via, permit, started, aborted, cmdSignal, worker, registry,
                   permits, trust, breaks, cancels, kind>>

-----------------------------------------------------------------------------
(* Cancel, and the trust file *)

\* What CommandCancels::cancel does to the dispatch it finds: a CI job's flag is
\* set with the abort.
cancel_entry_abort_only(d) == aborted' = [aborted EXCEPT ![d] = TRUE] /\ UNCHANGED cmdSignal
cancel_entry(d) ==
    /\ aborted' = [aborted EXCEPT ![d] = TRUE]
    /\ cmdSignal' = IF KindOf(d) = "ci" THEN [cmdSignal EXCEPT ![d] = TRUE] ELSE cmdSignal

\* A cancel for a command that was dispatched; without an entry it is answered
\* with "no such command".
handle_cancel_command(c) ==
    /\ up /\ cancels < MaxCancels /\ sent[c] > 0
    /\ cancels' = cancels + 1
    /\ IF registry[c] = NoDispatch THEN UNCHANGED <<aborted, cmdSignal>> ELSE cancel_entry(registry[c])
    /\ UNCHANGED <<row, sent, stream, up, cmdPc, via, permit, started, worker, answer, registry,
                   permits, trust, breaks, kind>>

\* The first trusted key is written: from here on the server wants signed plans.
signing_enabled ==
    /\ ~trust /\ trust' = TRUE
    /\ UNCHANGED <<row, sent, stream, up, taskVars, breaks, cancels, kind>>

TaskStep(d) ==
    \/ ack_command_receipt(d) \/ worker_returns(d) \/ handle_command(d)
    \/ abort_handler(d) \/ send_result(d) \/ receive_result(d)

CmdNext ==
    \/ \E c \in Commands : run(c) \/ handle_cancel_command(c)
    \/ \E d \in Dispatches : TaskStep(d)
    \/ stream_breaks \/ reconnect \/ process_exit \/ signing_enabled

CmdSpec == CmdInit /\ [][CmdNext]_cmdVars

\* Handlers and CI workers return (they have deadlines), and the stream is opened
\* again.
CmdFairSpec == CmdSpec /\ WF_cmdVars(reconnect) /\ \A d \in Dispatches : WF_cmdVars(TaskStep(d))

-----------------------------------------------------------------------------
(* Properties *)

\* A command is refused for capacity only while that many commands are being
\* handled: every way a task can end gives its permit back.
CapacityAccounted ==
    permits + Cardinality({d \in Dispatches : Live(d) /\ ~command_bypasses_limit(KindOf(d))}) = MaxPermits

\* A CI worker whose task is gone has been told to stop.
OrphansAreSignalled ==
    \A d \in Dispatches : (worker[d] = "running" /\ ~Handling(d)) => cmdSignal[d]

\* A CI job is started once, however often it is dispatched.
CiStartedOnce ==
    \A c \in Commands : kind[c] = "ci" =>
        Cardinality({n \in 1..MaxDispatch[c] : started[<<c, n>>]}) <= 1

\* The control plane gets an answer to every command the agent took, unless the
\* stream broke or the process ended first, or a CI job's acknowledgement was
\* not confirmed (handle_command, send_result).
Answered(d) ==
    \/ answer[d] = "delivered"
    \/ answer[d] = "lost" /\ breaks > 0
    \/ cmdPc[d] = "ended" /\ ~started[d] /\ KindOf(d) = "ci" /\ AckFails
EveryCommandAnswered == \A d \in Dispatches : cmdPc[d] # "none" ~> Answered(d)
=============================================================================
