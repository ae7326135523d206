------------------------------- MODULE ChangeCalls -------------------------------
(***************************************************************************)
(* The calls by which a client of the local socket changes the server:     *)
(* SubmitSignedPlan, VerifySignedPlan and CancelOperation                  *)
(* (src/src/local/change.rs) and the shell stream                          *)
(* (src/src/local/shell.rs), with the limits of                            *)
(* src/src/local/execution.rs.                                             *)
(*                                                                         *)
(* Calls run concurrently, each a handler that awaits between its steps; a *)
(* client may abandon one at any of them.  The runner at the other end of  *)
(* a shell is external: it opens, refuses, sends output, and ends a        *)
(* session or its connection whenever it likes.  The agent's timers are    *)
(* assumed to fire before the clock moves on, unless the task waits for    *)
(* the client to read.                                                     *)
(***************************************************************************)
EXTENDS Integers, Sequences, FiniteSets, SequencesExt

CONSTANTS
    CallLoads,          \* the calls, their plans and what is staged
    MaxShells,          \* MAX_SHELLS
    SubmitLimit,        \* SUBMISSIONS_PER_MINUTE
    HostLimit,          \* HOST_SHELLS_PER_HOUR
    Window,             \* the length of both windows
    IdleTime,           \* IDLE
    Grace,              \* CLOSE_GRACE
    MaxTtl,             \* the longest session (900 s)
    Frames              \* the capacity of the stream to the client

ASSUME CallAssumption ==
    /\ {MaxShells, SubmitLimit, HostLimit, Window, IdleTime, Grace, MaxTtl, Frames} \subseteq Nat \ {0}
    /\ \A l \in CallLoads :
         /\ IsFiniteSet(DOMAIN l.calls) /\ l.deadlines \subseteq Nat
         /\ \A c \in DOMAIN l.calls : l.calls[c].rpc \in {"submit", "verify", "cancel", "shell"} /\ l.calls[c].plan.ttl \in Int

VARIABLES
    handlers,              \* call -> where its handler is; a shell's session too
    admitted,           \* plan id -> its digest and operation
    submissions,        \* times of the submissions in the window
    hostShells,         \* times of the host shell opens
    passes,             \* history: times of all that passed each limit
    freeSlots,          \* permits of the shell semaphore
    opened,             \* history: plan id -> sessions the runner opened for it
    work,               \* frames and lines still to come
    callNow, callLoad

ccVars == <<handlers, admitted, submissions, hostShells, passes, freeSlots, opened, work, callNow, callLoad>>
limitVars == <<submissions, hostShells, passes>>

NoTime == -1
NoReason == "none"
WithKey(f, x, v) == [y \in DOMAIN f \cup {x} |-> IF y = x THEN v ELSE f[y]]
At(c) == IF c \in DOMAIN handlers THEN handlers[c].at ELSE "new"
Moves(c, at) == handlers' = WithKey(handlers, c, [at |-> at])
PlanOf(c) == callLoad.calls[c].plan
Rpc(c) == callLoad.calls[c].rpc

-----------------------------------------------------------------------------
(* The gate.                                                                *)

\* Entries leave at the front while they are past the window.
expire_slots(list, window) ==
    LET gone == CHOOSE n \in 0..Len(list) : /\ \A i \in 1..n : callNow - list[i] > window
                                            /\ n < Len(list) => callNow - list[n + 1] <= window
    IN  SubSeq(list, gone + 1, Len(list))
slot_open(list, limit, window) == Len(expire_slots(list, window)) < limit
take_slot(list, limit, window) ==
    IF slot_open(list, limit, window) THEN Append(expire_slots(list, window), callNow) ELSE expire_slots(list, window)

holds_kind(plan, kind) == kind \in plan.kinds
\* A host shell has a limit of its own.
HostShell(c) == Rpc(c) = "shell" /\ PlanOf(c).host
counts_as(c) == IF HostShell(c) THEN "host shells" ELSE "submissions"
allowed(c) ==
    IF counts_as(c) = "host shells" THEN slot_open(hostShells, HostLimit, Window) ELSE slot_open(submissions, SubmitLimit, Window)
consumes(c) ==
    IF counts_as(c) = "host shells"
    THEN hostShells' = take_slot(hostShells, HostLimit, Window) /\ UNCHANGED submissions
    ELSE submissions' = take_slot(submissions, SubmitLimit, Window) /\ UNCHANGED hostShells
\* Every update of the plan is staged; without staging the agent's and the
\* runner's are refused.
update_digests(plan) == {a.bundle : a \in {b \in plan.updates : b.kind = "agent.update" \/ b.component # "os_packages"}}
not_supported_yet(plan) == \E a \in plan.updates : a.kind = "agent.update" \/ a.component \in {"runner", "permanu-env"}
stageable(plan) == IF callLoad.staging THEN update_digests(plan) \subseteq callLoad.staged ELSE ~not_supported_yet(plan)

gate ==
    /\ \E c \in DOMAIN callLoad.calls :
         /\ At(c) = "gate" /\ consumes(c)
         /\ passes' = IF ~allowed(c) THEN passes
                      ELSE IF HostShell(c) THEN [passes EXCEPT !.hostShells = Append(@, callNow)]
                      ELSE [passes EXCEPT !.submissions = Append(@, callNow)]
         /\ Moves(c, IF ~allowed(c) THEN "rate limited" ELSE IF ~stageable(PlanOf(c)) THEN "refused" ELSE "admit")
         /\ freeSlots' = IF Rpc(c) = "shell" /\ ~(allowed(c) /\ stageable(PlanOf(c))) THEN freeSlots + 1 ELSE freeSlots
    /\ UNCHANGED <<admitted, opened, work, callNow, callLoad>>

-----------------------------------------------------------------------------
(* Submit, verify, cancel.                                                  *)

CcInit ==
    /\ callLoad \in CallLoads
    /\ handlers = [c \in {} |-> 0] /\ admitted = [p \in {} |-> 0] /\ submissions = <<>> /\ hostShells = <<>>
    /\ passes = [submissions |-> <<>>, hostShells |-> <<>>]
    /\ freeSlots = MaxShells /\ opened = [p \in {} |-> 0] /\ work = callLoad.work /\ callNow = 0

\* A plan whose id is recorded is verified again and answered with its
\* operation, or refused as a replay, without the limit.
verified_existing(c) ==
    LET plan == PlanOf(c) IN
    IF plan.id \notin DOMAIN admitted THEN "gate"
    ELSE IF ~plan.valid THEN "refused" ELSE IF admitted[plan.id].digest # plan.digest THEN "replay" ELSE "existing"
submit_enters(c) == IF holds_kind(PlanOf(c), "shell.open") THEN "refused" ELSE verified_existing(c)

submit_signed_plan ==
    /\ \E c \in DOMAIN callLoad.calls : At(c) = "new" /\ Rpc(c) = "submit" /\ Moves(c, submit_enters(c))
    /\ UNCHANGED <<admitted, limitVars, freeSlots, opened, work, callNow, callLoad>>

\* The plan's only action cancels this operation's plan.
cancel_operation ==
    /\ \E c \in DOMAIN callLoad.calls :
         LET target == callLoad.calls[c].target IN
         /\ At(c) = "new" /\ Rpc(c) = "cancel"
         /\ Moves(c, IF target \notin DOMAIN admitted THEN "not found"
                     ELSE IF PlanOf(c).kinds # {"operation.cancel"} \/ PlanOf(c).cancels # target THEN "refused"
                     ELSE submit_enters(c))
    /\ UNCHANGED <<admitted, limitVars, freeSlots, opened, work, callNow, callLoad>>

\* The same refusals, with a look at the limit that takes nothing.
verify_signed_plan ==
    /\ \E c \in DOMAIN callLoad.calls :
         /\ At(c) = "new" /\ Rpc(c) = "verify"
         /\ Moves(c, IF holds_kind(PlanOf(c), "shell.open") THEN "refused" ELSE IF ~allowed(c) THEN "rate limited"
                     ELSE IF ~stageable(PlanOf(c)) THEN "refused" ELSE IF PlanOf(c).valid THEN "valid" ELSE "invalid")
    /\ UNCHANGED <<admitted, limitVars, freeSlots, opened, work, callNow, callLoad>>

\* ChangeCore::submit, one transaction (AdmissionLedger): the id is new, or
\* it is the same plan, or a replay.  A shell of a plan that was admitted
\* before is refused.
admit ==
    /\ \E c \in DOMAIN callLoad.calls :
         LET plan == PlanOf(c)
             known == plan.id \in DOMAIN admitted
             same == known /\ admitted[plan.id].digest = plan.digest
             next == IF ~plan.valid THEN "refused" ELSE IF known /\ ~same THEN "replay"
                     ELSE IF Rpc(c) # "shell" THEN IF known THEN "existing" ELSE "admitted"
                     ELSE IF known THEN "refused" ELSE "bind"
         IN  /\ At(c) = "admit" /\ Moves(c, next)
             /\ admitted' = IF plan.valid /\ ~known THEN WithKey(admitted, plan.id, [digest |-> plan.digest, by |-> c]) ELSE admitted
             /\ freeSlots' = IF Rpc(c) = "shell" /\ next # "bind" THEN freeSlots + 1 ELSE freeSlots
    /\ UNCHANGED <<limitVars, opened, work, callNow, callLoad>>

-----------------------------------------------------------------------------
(* The shell.                                                               *)

\* The first frame is an open, a slot is free, the plan is one shell.open.
shell ==
    /\ \E c \in DOMAIN callLoad.calls :
         LET ok == PlanOf(c).kinds = {"shell.open"} IN
         /\ At(c) = "new" /\ Rpc(c) = "shell"
         /\ Moves(c, IF ~callLoad.calls[c].opens THEN "invalid" ELSE IF freeSlots = 0 THEN "shell limit" ELSE IF ok THEN "gate" ELSE "refused")
         /\ freeSlots' = IF callLoad.calls[c].opens /\ freeSlots > 0 /\ ok THEN freeSlots - 1 ELSE freeSlots
    /\ UNCHANGED <<admitted, limitVars, opened, work, callNow, callLoad>>

\* The action is bound and the runner asked; either may fail, which gives
\* the slot back (and reconciles the log, AdmissionLedger).
bind_shell ==
    /\ \E c \in DOMAIN handlers :
         /\ At(c) = "bind"
         /\ \/ Moves(c, "opening") /\ UNCHANGED freeSlots
            \/ Moves(c, "failed") /\ freeSlots' = freeSlots + 1
    /\ UNCHANGED <<admitted, limitVars, opened, work, callNow, callLoad>>

\* The end is the earlier of the signed ttl and the runner's deadline, which is
\* now if it is past and the ttl's if it has none.
clamp_ttl(ttl) == IF ttl < 1 THEN 1 ELSE IF ttl > MaxTtl THEN MaxTtl ELSE ttl
deadline_of(c, runners) == LET own == callNow + clamp_ttl(PlanOf(c).ttl) IN IF runners < own THEN runners ELSE own

runner_answers ==
    /\ \E c \in DOMAIN handlers :
         /\ At(c) = "opening"
         /\ \/ /\ \E left \in callLoad.deadlines :
                    handlers' = [handlers EXCEPT ![c] = [at |-> "pump", reason |-> NoReason, clientOpen |-> TRUE, listens |-> TRUE, closing |-> NoTime, asked |-> FALSE,
                        activity |-> callNow, deadline |-> deadline_of(c, callNow + left), out |-> 1, chunks |-> 0, cause |-> NoReason, exits |-> 0, stalled |-> FALSE]]
               /\ opened' = WithKey(opened, PlanOf(c).id, IF PlanOf(c).id \in DOMAIN opened THEN opened[PlanOf(c).id] + 1 ELSE 1)
               /\ UNCHANGED freeSlots
            \/ Moves(c, "failed") /\ freeSlots' = freeSlots + 1 /\ UNCHANGED opened
            \/ callLoad.runnerFull /\ Moves(c, "shell limit") /\ freeSlots' = freeSlots + 1 /\ UNCHANGED opened
    /\ UNCHANGED <<admitted, limitVars, work, callNow, callLoad>>

\* Before its stream is there the handler ends with its client.
call_abandoned ==
    /\ callLoad.abandons
    /\ \E c \in DOMAIN handlers :
         /\ At(c) \in {"gate", "admit", "bind", "opening"} /\ Moves(c, "abandoned")
         /\ freeSlots' = IF Rpc(c) = "shell" THEN freeSlots + 1 ELSE freeSlots
    /\ UNCHANGED <<admitted, limitVars, opened, work, callNow, callLoad>>

\* A session that the pump decides to end: why, by when, and the runner told.
Closes(v, reason) == [v EXCEPT !.reason = reason, !.closing = callNow + Grace, !.asked = TRUE, !.cause = reason]
Exits(v, reason) == [v EXCEPT !.at = "exiting", !.reason = IF v.reason = NoReason THEN reason ELSE v.reason]
Pumping(c) == At(c) = "pump" /\ handlers[c].chunks = 0
Spend(what) == work[what] > 0 /\ work' = [work EXCEPT ![what] = @ - 1]
SessionIs(c, v) == handlers' = [handlers EXCEPT ![c] = v]

\* The runner's result, a line of output, or the end of the connection.
pump_line ==
    /\ \E c \in {d \in DOMAIN handlers : Pumping(d)} :
         \/ \E ended \in {"error", "expired", "exited"} : Spend("results") /\ SessionIs(c, Exits(handlers[c], ended))
         \/ Spend("results") /\ SessionIs(c, Exits(handlers[c], "error"))
         \/ /\ Spend("lines")
            /\ \E n \in 1..2 : SessionIs(c, [handlers[c] EXCEPT !.activity = callNow, !.chunks = n])
    /\ UNCHANGED <<admitted, limitVars, freeSlots, opened, callNow, callLoad>>
\* A chunk of output waits for room; a client that is gone closes.
pump_chunk ==
    /\ \E c \in DOMAIN handlers :
         LET v == handlers[c] IN
         /\ At(c) = "pump" /\ v.chunks > 0
         /\ IF v.listens THEN v.out < Frames /\ SessionIs(c, [v EXCEPT !.out = @ + 1, !.chunks = @ - 1])
            ELSE LET u == [v EXCEPT !.chunks = 0, !.clientOpen = FALSE] IN SessionIs(c, IF u.closing = NoTime THEN Closes(u, "client_closed") ELSE u)
    /\ UNCHANGED <<admitted, limitVars, freeSlots, opened, work, callNow, callLoad>>

\* What a frame asks for: a line to the runner, or the end.
frame_reason(frame) ==
    CASE frame \in {"stdin", "resize", "INT", "close_stdin"} -> NoReason [] frame = "TERM" -> "client_closed" [] frame = "bad" -> "error" [] frame = "end" -> "client_closed"
\* Mutant: a late frame gives the session another reason.
pump_reason_last(v, why) == why
\* The first reason is kept.
pump_reason(v, why) == IF v.reason = NoReason THEN why ELSE v.reason
\* A frame is heard; a bad one, and one the runner does not get, ends.
Heard(v, frame) == [v EXCEPT !.clientOpen = @ /\ frame # "end", !.activity = IF frame = "end" THEN @ ELSE callNow]
frame_ends(frame, delivered) ==
    IF frame_reason(frame) # NoReason THEN frame_reason(frame) ELSE IF delivered THEN NoReason ELSE "error"
AfterFrame(v, u, why) ==
    IF why = NoReason THEN u
    ELSE IF v.closing = NoTime THEN Closes(u, pump_reason(v, why)) ELSE [u EXCEPT !.reason = pump_reason(v, why)]
pump_frame ==
    /\ \E c \in {d \in DOMAIN handlers : Pumping(d)} : \E frame \in callLoad.frames : \E delivered \in BOOLEAN :
         LET v == handlers[c] IN
         /\ v.clientOpen /\ (frame # "end" => v.listens)
         /\ IF frame = "end" THEN UNCHANGED work ELSE Spend("frames")
         /\ (~delivered => callLoad.breaks /\ frame_reason(frame) = NoReason)
         /\ SessionIs(c, AfterFrame(v, Heard(v, frame), frame_ends(frame, delivered)))
    /\ UNCHANGED <<admitted, limitVars, freeSlots, opened, callNow, callLoad>>

pump_timer ==
    /\ \E c \in {d \in DOMAIN handlers : Pumping(d)} :
         LET v == handlers[c] IN
         \/ v.closing # NoTime /\ callNow >= v.closing /\ SessionIs(c, Exits(v, "error"))
         \/ v.closing = NoTime /\ callNow >= v.deadline /\ SessionIs(c, Closes(v, "expired"))
         \/ v.closing = NoTime /\ callNow >= v.activity + IdleTime /\ SessionIs(c, Closes(v, "idle_timeout"))
    /\ UNCHANGED <<admitted, limitVars, freeSlots, opened, work, callNow, callLoad>>

\* One exit frame, for which there must be room or nobody to read it; the
\* slot comes back with the end of the task.
shell_exits ==
    /\ \E c \in DOMAIN handlers :
         LET v == handlers[c] IN
         /\ At(c) = "exiting" /\ (v.listens => v.out < Frames)
         /\ SessionIs(c, [v EXCEPT !.at = "closed", !.exits = @ + 1]) /\ freeSlots' = freeSlots + 1
    /\ UNCHANGED <<admitted, limitVars, opened, work, callNow, callLoad>>

\* The client reads a frame, or drops its call.
client_reads ==
    /\ \E c \in DOMAIN handlers : At(c) \in {"pump", "exiting"} /\ handlers[c].out > 0 /\ SessionIs(c, [handlers[c] EXCEPT !.out = @ - 1])
    /\ UNCHANGED <<admitted, limitVars, freeSlots, opened, work, callNow, callLoad>>
client_goes ==
    /\ \E c \in DOMAIN handlers : At(c) \in {"pump", "exiting"} /\ handlers[c].listens /\ callLoad.abandons /\ SessionIs(c, [handlers[c] EXCEPT !.listens = FALSE])
    /\ UNCHANGED <<admitted, limitVars, freeSlots, opened, work, callNow, callLoad>>

TimerDue(v) ==
    IF v.at = "exiting" THEN ~v.listens \/ v.out < Frames
    ELSE /\ v.at = "pump" /\ (v.chunks > 0 => (v.out < Frames \/ ~v.listens))
         /\ v.chunks > 0 \/ callNow >= (IF v.closing # NoTime THEN v.closing ELSE IF v.deadline < v.activity + IdleTime THEN v.deadline ELSE v.activity + IdleTime)
call_clock ==
    /\ callNow < callLoad.end /\ ~\E c \in DOMAIN handlers : TimerDue(handlers[c])
    /\ callNow' = callNow + 1
    /\ handlers' = [c \in DOMAIN handlers |-> IF At(c) = "pump" /\ ~Pumping(c) THEN [handlers[c] EXCEPT !.stalled = TRUE] ELSE handlers[c]]
    /\ UNCHANGED <<admitted, limitVars, freeSlots, opened, work, callLoad>>

CcNext ==
    \/ submit_signed_plan \/ cancel_operation \/ verify_signed_plan \/ gate \/ admit \/ shell \/ bind_shell \/ runner_answers \/ call_abandoned
    \/ pump_line \/ pump_chunk \/ pump_frame \/ pump_timer \/ shell_exits \/ client_reads \/ client_goes \/ call_clock

-----------------------------------------------------------------------------
(* Properties.                                                              *)

HoldsSlot(c) == Rpc(c) = "shell" /\ At(c) \in {"gate", "admit", "bind", "opening", "pump", "exiting"}
\* Every permit is free or held by one shell on its way, in every
\* interleaving of opens, refusals, abandoned calls and ends (shell).
SlotsReturn == freeSlots + Cardinality({c \in DOMAIN handlers : HoldsSlot(c)}) = MaxShells

\* One signed shell.open opens one session, no other plan opens one, and no
\* plan with a shell.open was admitted by another call (shell, submit).
OnePlanOneShell ==
    /\ \A p \in DOMAIN opened : opened[p] = 1 /\ p \in DOMAIN admitted
    /\ \A p \in DOMAIN admitted : holds_kind(PlanOf(admitted[p].by), "shell.open") <=> Rpc(admitted[p].by) = "shell"

\* An answer "existing" is for the plan that was admitted under its id, and
\* of two calls with one plan exactly one admitted it (verified_existing,
\* admit): the other has its operation.
SameOperation ==
    \A c \in DOMAIN handlers :
        /\ At(c) = "existing" => admitted[PlanOf(c).id].digest = PlanOf(c).digest /\ admitted[PlanOf(c).id].by # c
        /\ At(c) = "admitted" => admitted[PlanOf(c).id].by = c

\* No time of the length of the window, wherever it begins, has more calls that
\* passed than the limit, although the list forgets; and a host shell takes
\* nothing of the submissions (take_slot, gate).
Within(times, limit) == \A n \in DOMAIN times : Cardinality({m \in 1..n : times[n] - times[m] <= Window}) <= limit
LimitsKept ==
    /\ Within(passes.submissions, SubmitLimit) /\ Within(passes.hostShells, HostLimit)
    /\ (\A c \in DOMAIN handlers : Rpc(c) = "verify" \/ HostShell(c)) => submissions = <<>>

\* A session whose client reads is over by its deadline and the grace after
\* it, and by its idle time and the grace; only a client that leaves its
\* stream full can hold it longer (pump).
EndsInTime ==
    \A c \in DOMAIN handlers : At(c) = "pump" =>
        LET v == handlers[c] IN
        /\ v.closing # NoTime <=> v.reason # NoReason
        /\ v.closing # NoTime => v.asked
        /\ ~v.stalled => callNow <= v.deadline + Grace /\ (v.closing # NoTime => callNow <= v.closing)
        /\ (~v.stalled /\ v.closing = NoTime) => callNow <= v.activity + IdleTime

\* The exit tells why the session began to end, and is sent once.
ReasonIsFirst == \A c \in DOMAIN handlers : At(c) \in {"pump", "exiting", "closed"} =>
    (handlers[c].cause # NoReason => handlers[c].reason = handlers[c].cause) /\ handlers[c].exits = (IF At(c) = "closed" THEN 1 ELSE 0)

CallsHold == SlotsReturn /\ OnePlanOneShell /\ SameOperation /\ LimitsKept /\ EndsInTime /\ ReasonIsFirst
==================================================================================
