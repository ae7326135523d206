------------------------------ MODULE Executor ------------------------------
(***************************************************************************)
(* The executors of src/local/execution.rs: one task per admitted plan     *)
(* binds its actions to the runner and runs their ops, one plan at a time; *)
(* the executor of an operation.cancel runs beside them and stops another  *)
(* plan; the reconciler applies the runner's log to the admission store;   *)
(* a restarted agent resumes from the store and the log.                   *)
(*                                                                         *)
(* The store is the one of AdmissionLedger, and every step here is one of  *)
(* its steps or leaves it alone: its Spec is a property of ExecSpec.  A    *)
(* pass of reconcile_once is several Reconcile steps; a task that calls it *)
(* waits for a moment when every line is applied.                          *)
(***************************************************************************)
EXTENDS AdmissionLedger

CONSTANTS
  Earlier,      \* plans whose service had a release before the modelled ones
  CancelFails   \* whether the runner may refuse or fail cancel_execution

OpNames ==
  {"restart_release", "stage_artifact_verify", "install_artifact", "upgrade_database",
   "cancel_running", "cancel_execution", "close", "prepare_release", "verify_health",
   "activate_release", "prune_releases", "rollback_release", "cleanup_candidate"}

ASSUME ExecutorAssumption ==
  /\ Ops = OpNames /\ Reported = Outcomes
  /\ Earlier \subseteq Plans /\ CancelFails \in BOOLEAN
  /\ \A l \in Loads : /\ l.target \in [Plans -> Plans \cup {NoPlan}]
                      /\ l.crashes \in Nat /\ l.unreliable \in BOOLEAN

VARIABLES
  ex,         \* the executor of each plan
  lock,       \* who holds ChangeCore::execution
  cancelled,  \* ChangeCore::cancelled
  held,       \* ChangeCore::held, its keys
  skipped,    \* ChangeCore::held, its values
  call,       \* the runner call each action's executor waits for
  busy,       \* the op the runner is running for each action
  finals,     \* final steps emitted for each action
  fins,       \* `finished` events emitted for each operation
  resume,     \* admissions a restarted agent still has to resume
  resuming,   \* the one it resumed last
  booting,    \* the agent restarted and has not listed them yet
  crashes

flags == <<cancelled, held, skipped>>
wire == <<call, busy>>
events == <<finals, fins>>
boot == <<resume, resuming, booting, crashes>>
execVars == <<ex, lock, flags, wire, events, boot>>
allVars == <<vars, execVars>>

\* The plan an operation.cancel names, the bound on crashes of the agent, and
\* whether the runner may refuse a call or answer too late.
Target == load.target
MaxCrashes == load.crashes
Unreliable == load.unreliable

NoStep == <<NoPlan, 0>>
NoCall == [op |-> "", st |-> "none"]
NoSnap == [consumed |-> {}, ended |-> {}, bad |-> {}, ops |-> {}]

\* at: where the task is; i: index of the action; k: index of its op;
\* step, out, ret: what `complete` ends, how, and what follows it.
Idle == [at |-> "idle", i |-> 1, k |-> 1, failed |-> FALSE, out |-> "", activated |-> FALSE,
         restorable |-> FALSE, newly |-> FALSE, step |-> NoStep, recorded |-> FALSE,
         ret |-> "", todo |-> {}, snap |-> NoSnap]

Cur(p) == <<p, ex[p].i>>
CancelOnly(p) == Len(Actions[p]) = 1 /\ Kind(<<p, 1>>) = "operation.cancel"

----------------------------------------------------------------------------
(* How a kind is executed.                                                 *)

InputKinds == {"env.set", "secret.set", "domain.add"}

OpsOf(kind) ==
  CASE kind = "restart" -> <<"restart_release">>
    [] kind = "component.update" -> <<"stage_artifact_verify", "install_artifact">>
    [] kind = "db.upgrade" -> <<"upgrade_database">>
    [] kind = "operation.cancel" -> <<"cancel_running", "cancel_execution">>
    [] kind = "deploy" ->
         <<"prepare_release", "verify_health", "activate_release", "prune_releases">>
    [] OTHER -> <<>>

exec_of(kind) ==
  CASE kind \in AgentKinds -> "Agent"
    [] kind \in DefinitionKinds -> "Definition"
    [] kind \in InputKinds -> "Input"
    [] kind = "shell.open" -> "Shell"
    [] OpsOf(kind) # <<>> -> "Ops"
    [] OTHER -> "NotImplemented"

\* An earlier admission of the scope whose deploy or restart succeeded.
has_previous_release(p) ==
  \/ p \in Earlier
  \/ \E s \in Steps : /\ adm[s[1]].seq \in 1..(adm[p].seq - 1) /\ Scope[s[1]] = Scope[p]
                      /\ Kind(s) \in {"deploy", "restart"} /\ act[s].outcome = "succeeded"

\* The rows and the op lines the executor reads once, before its loop; it
\* cannot tell a close from the action's own cancel_execution.
Snapshot(p) ==
  [consumed |-> {s \in StepsOf(p) : act[s].consumed # 0},
   ended |-> {s \in StepsOf(p) : act[s].done},
   bad |-> {s \in StepsOf(p) : act[s].done /\ act[s].outcome # "succeeded"},
   ops |-> {o \in StepsOf(p) \X Ops :
              /\ Kind(o[1]) # "db.upgrade"
              /\ LoggedOp(o[1], o[2]) \/ (o[2] = "cancel_execution" /\ LoggedOp(o[1], "close"))}]

\* Mutant: nothing is remembered of what ran before a restart.
Ran_never(p, op) == FALSE

Ran(p, op) == <<Cur(p), op>> \in ex[p].snap.ops

----------------------------------------------------------------------------
(* Moves of one task.                                                      *)

Move(p, r) == ex' = [ex EXCEPT ![p] = r]
To(p, at) == [ex[p] EXCEPT !.at = at]
\* Mutant: a failure is forgotten at the next action.
NextAction_forgets(p, failed) ==
  [Idle EXCEPT !.at = "loop", !.i = ex[p].i + 1, !.snap = ex[p].snap]

NextAction(p, failed) ==
  [Idle EXCEPT !.at = "loop", !.i = ex[p].i + 1, !.failed = failed, !.snap = ex[p].snap]
Ended(p, out, activated) ==
  [ex[p] EXCEPT !.at = "outcome", !.out = out, !.activated = activated]
Completing(p, s, out, ret) ==
  [ex[p] EXCEPT !.at = "complete", !.step = s, !.out = out, !.ret = ret]

Hold(p) == held' = held \cup {p}

\* Sends op k of the action, or the named recovery op.
Send(p, op) == call' = [call EXCEPT ![Cur(p)] = [op |-> op, st |-> "sent"]]
Taken(p) == call' = [call EXCEPT ![Cur(p)] = NoCall]

Reconciled == cursor = Len(log)

Bump(f, S) == [x \in DOMAIN f |-> IF x \in S /\ f[x] < 2 THEN f[x] + 1 ELSE f[x]]

----------------------------------------------------------------------------
(* submit, execute and the loop of execute_inner.                          *)

\* check_cancel: the plan to cancel is admitted.
Submit(p) ==
  /\ Target[p] # NoPlan => Target[p] \in Admitted
  /\ Admit(p)
  /\ Move(p, To(p, "queued"))
  /\ UNCHANGED <<lock, flags, wire, events, boot>>

Start(p) ==
  /\ ex[p].at = "queued"
  /\ CancelOnly(p) \/ lock = NoPlan
  /\ lock' = IF CancelOnly(p) THEN lock ELSE p
  /\ Move(p, IF adm[p].done THEN To(p, "exit")
             ELSE [Idle EXCEPT !.at = "loop", !.snap = Snapshot(p)])
  /\ UNCHANGED <<vars, flags, wire, events, boot>>

\* One turn of the loop, up to the first runner call.
Loop(p) ==
  /\ ex[p].at = "loop"
  /\ LET s == Cur(p)  e == ex[p]
         late == now > adm[p].at + Window
         refused == IF late THEN "expired" ELSE "failed"
         closed == Kind(s) # "operation.cancel" /\ Ran(p, "cancel_execution")
         mark == cancelled' = cancelled \cup {p} /\ UNCHANGED call
         same == UNCHANGED <<cancelled, call>>
     IN  IF e.i > Len(Actions[p]) \/ p \in cancelled THEN Move(p, To(p, "tail")) /\ same
         ELSE IF s \in e.snap.ended
           THEN Move(p, NextAction(p, e.failed \/ s \in e.snap.bad)) /\ same
         ELSE IF late \/ e.failed
           THEN /\ same
                /\ Move(p, IF s \in e.snap.consumed THEN NextAction(p, e.failed)
                           ELSE Completing(p, s, refused, "loop"))
         ELSE IF closed THEN Move(p, To(p, "tail")) /\ mark
         ELSE CASE exec_of(Kind(s)) = "Agent" ->
                     /\ \E out \in {"succeeded", "failed"} : Move(p, Ended(p, out, FALSE))
                     /\ same
                [] exec_of(Kind(s)) = "NotImplemented" ->
                     Move(p, Ended(p, "failed", FALSE)) /\ same
                [] exec_of(Kind(s)) = "Shell" -> Move(p, NextAction(p, FALSE)) /\ same
                [] OTHER ->
                     IF s \in e.snap.consumed THEN Move(p, To(p, "bound")) /\ same
                     ELSE Move(p, To(p, "bind")) /\ Send(p, "bind_plan") /\ UNCHANGED cancelled
  /\ UNCHANGED <<vars, lock, held, skipped, busy, events, boot>>

\* The runner answered bind_plan.
bind(p) ==
  /\ ex[p].at = "bind" /\ call[Cur(p)].st \in {"ok", "failed", "refused", "timeout"}
  /\ Move(p, IF call[Cur(p)].st = "ok" THEN To(p, "bound") ELSE Ended(p, "failed", FALSE))
  /\ Taken(p)
  /\ UNCHANGED <<vars, lock, flags, busy, events, boot>>

\* Mutant: a deploy whose recovery ran is taken up again.
Bound_again(p) ==
  /\ ex[p].at = "bound"
  /\ Move(p, [To(p, "ready") EXCEPT !.k = IF Ran(p, "activate_release") THEN 4 ELSE 1])
  /\ UNCHANGED <<vars, lock, flags, wire, events, boot>>

\* A bound action: inputs and definitions need no op; a cancel sets its flag
\* and its hold first.
Bound(p) ==
  /\ ex[p].at = "bound"
  /\ LET kind == Kind(Cur(p))  t == Target[p]
     IN  CASE exec_of(kind) \in {"Input", "Definition"} ->
                Move(p, NextAction(p, ex[p].failed)) /\ UNCHANGED <<cancelled, held>>
           [] kind = "operation.cancel" ->
                /\ cancelled' = cancelled \cup {t} /\ Hold(p)
                /\ Move(p, [To(p, "ready") EXCEPT !.newly = t \notin cancelled])
           [] kind = "deploy" /\ (Ran(p, "rollback_release") \/ Ran(p, "cleanup_candidate")) ->
                Move(p, Ended(p, "failed", FALSE)) /\ UNCHANGED <<cancelled, held>>
           [] OTHER -> Move(p, To(p, "ready")) /\ UNCHANGED <<cancelled, held>>
  /\ UNCHANGED <<vars, lock, skipped, wire, events, boot>>

----------------------------------------------------------------------------
(* run_ops, run_deploy and run_cancel: op k, then its answer.              *)

SkipsOp(p, op) ==
  Ran(p, op) \/ (op = "cancel_running" /\ Ran(p, "cancel_execution"))

RunOp(p) ==
  /\ ex[p].at = "ready"
  /\ LET kind == Kind(Cur(p))  k == ex[p].k
         op == OpsOf(kind)[k]
         send == Move(p, To(p, "op")) /\ Send(p, op)
         skip == Move(p, [ex[p] EXCEPT !.k = k + 1]) /\ UNCHANGED <<call, held>>
         end(r) == Move(p, r) /\ UNCHANGED <<call, held>>
     IN  IF k > Len(OpsOf(kind))
           THEN end(IF kind = "operation.cancel" THEN To(p, "victims")
                    ELSE Ended(p, "succeeded", kind = "deploy"))
         ELSE IF op = "activate_release" /\ p \in cancelled THEN end(Ended(p, "cancelled", FALSE))
         ELSE IF op = "activate_release" /\ Ran(p, op) THEN end(Ended(p, "succeeded", TRUE))
         ELSE IF SkipsOp(p, op) THEN skip
         ELSE IF op \in {"verify_health", "activate_release"} THEN send /\ Hold(p)
         ELSE send /\ UNCHANGED held
  /\ UNCHANGED <<vars, lock, cancelled, skipped, busy, events, boot>>

Answer(p) == call[Cur(p)].st
Answered(p) == ex[p].at = "op" /\ Answer(p) \notin {"sent", "waiting"}

\* run_ops
OpsAnswer(p) ==
  /\ Answered(p) /\ Kind(Cur(p)) \notin {"deploy", "operation.cancel"}
  /\ Move(p, IF Answer(p) = "ok" THEN [To(p, "ready") EXCEPT !.k = @ + 1]
             ELSE Ended(p, "failed", FALSE))
  /\ Taken(p)
  /\ UNCHANGED <<vars, lock, flags, busy, events, boot>>

Recover(p, restorable, activated) ==
  [To(p, "recover") EXCEPT !.restorable = restorable, !.activated = activated]

\* run_deploy: the start phase stops early, without a failure, once the plan
\* is cancelled; a runner hand-back ends the action; a prepare refused at
\* the runner's checks needs no recovery.
DeployAnswer(p) ==
  /\ Answered(p) /\ Kind(Cur(p)) = "deploy"
  /\ LET op == call[Cur(p)].op  a == Answer(p)  active == ex[p].k > 2
     IN  CASE op \in {"rollback_release", "cleanup_candidate"} ->
                Move(p, Ended(p, IF a = "ok" /\ op = "rollback_release" THEN "rolled_back"
                                 ELSE "failed", ex[p].activated))
           [] op = "prune_releases" -> Move(p, Ended(p, "succeeded", TRUE))
           [] op \in {"prepare_release", "verify_health"} /\ a = "ok" ->
                Move(p, [To(p, "ready") EXCEPT !.k = IF p \in cancelled THEN 3 ELSE @ + 1])
           [] op = "activate_release" /\ a = "ok" -> Move(p, [To(p, "ready") EXCEPT !.k = 4])
           [] a = "rolled_back" -> Move(p, Ended(p, "rolled_back", active))
           [] op = "prepare_release" /\ a = "refused" ->
                Move(p, Ended(p, IF p \in cancelled THEN "cancelled" ELSE "failed", FALSE))
           [] OTHER -> Move(p, Recover(p, op # "prepare_release" \/ a = "timeout", active))
  /\ Taken(p)
  /\ UNCHANGED <<vars, lock, flags, busy, events, boot>>

\* The recovery op: back to an earlier release, or away with the candidate.
RunRecovery(p) ==
  /\ ex[p].at = "recover"
  /\ IF ~ex[p].activated /\ p \in cancelled
       THEN Move(p, Ended(p, "cancelled", FALSE)) /\ UNCHANGED call
       ELSE /\ Move(p, To(p, "op"))
            /\ Send(p, IF ex[p].restorable /\ has_previous_release(p)
                       THEN "rollback_release" ELSE "cleanup_candidate")
  /\ UNCHANGED <<vars, lock, flags, busy, events, boot>>

\* run_cancel: cancel_running may fail; a failed cancel_execution stands only
\* when the log has its result line, else the flag is taken back.
CancelAnswer(p) ==
  /\ Answered(p) /\ Kind(Cur(p)) = "operation.cancel"
  /\ LET op == call[Cur(p)].op
         stands == act[Cur(p)].done /\ act[Cur(p)].outcome = "succeeded"
     IN  IF op = "cancel_running" \/ Answer(p) = "ok"
           THEN Move(p, [To(p, "ready") EXCEPT !.k = @ + 1]) /\ UNCHANGED cancelled
           ELSE /\ Reconciled
                /\ IF stands THEN Move(p, To(p, "victims")) /\ UNCHANGED cancelled
                   ELSE /\ Move(p, Ended(p, "failed", FALSE))
                        /\ cancelled' = IF ex[p].newly THEN cancelled \ {Target[p]} ELSE cancelled
  /\ Taken(p)
  /\ UNCHANGED <<vars, lock, held, skipped, busy, events, boot>>

\* The rows of the cancelled plan the runner left unfinished.
Victims(p) ==
  /\ ex[p].at = "victims" /\ Reconciled
  /\ Move(p, [To(p, "closing") EXCEPT !.todo =
       {v \in StepsOf(Target[p]) : ~act[v].done /\ ~LoggedOp(v, "activate_release")}])
  /\ UNCHANGED <<vars, lock, flags, wire, events, boot>>

CloseVictim(p) ==
  /\ ex[p].at = "closing"
  /\ LET first(v) == \A w \in ex[p].todo : v[2] <= w[2]
     IN  IF ex[p].todo = {} THEN Move(p, Ended(p, "succeeded", FALSE))
         ELSE \E v \in ex[p].todo :
                /\ first(v)
                /\ Move(p, [Completing(p, v, "cancelled", "closing") EXCEPT !.todo = @ \ {v}])
  /\ UNCHANGED <<vars, lock, flags, wire, events, boot>>

----------------------------------------------------------------------------
(* The end of an action, of the loop and of the task.                      *)

\* Mutant: a failed action is left to its result line, whatever its kind.
Outcome_drops(p) ==
  /\ ex[p].at = "outcome"
  /\ Move(p, IF ex[p].out # "succeeded" THEN To(p, "exit")
             ELSE Completing(p, Cur(p), ex[p].out, "loop"))
  /\ UNCHANGED <<vars, lock, flags, wire, events, boot>>

\* A failed upgrade is ended by the runner's result line only.
Outcome(p) ==
  /\ ex[p].at = "outcome"
  /\ LET s == Cur(p)  bad == ex[p].out # "succeeded"
     IN  IF Kind(s) = "db.upgrade" /\ bad
           THEN /\ Reconciled
                /\ Move(p, IF act[s].done
                           THEN NextAction(p, ex[p].failed \/ act[s].outcome # "succeeded")
                           ELSE To(p, "exit"))
         ELSE IF p \in cancelled /\ ~ex[p].activated THEN Move(p, To(p, "tail"))
         ELSE Move(p, [Completing(p, s, ex[p].out, "loop") EXCEPT !.failed = @ \/ bad])
  /\ UNCHANGED <<vars, lock, flags, wire, events, boot>>

\* complete: reconcile_once, finish_action with the final step, then the end
\* of the hold and `finished`.
CompleteReconcile(p) ==
  /\ ex[p].at = "complete" /\ Reconciled
  /\ Move(p, To(p, "record"))
  /\ UNCHANGED <<vars, lock, flags, wire, events, boot>>

CompleteRecord(p) ==
  /\ ex[p].at = "record"
  /\ LET s == ex[p].step  recorded == ~act[s].done
     IN  /\ Commit(finish_action(tables, s, ex[p].out))
         /\ finals' = IF recorded THEN Bump(finals, {s}) ELSE finals
         /\ Move(p, [To(p, "release") EXCEPT !.recorded = recorded])
  /\ UNCHANGED <<load, now, heads, log, cursor, lock, flags, wire, fins, boot>>

\* Mutant: the end of the operation is not announced.
ReleaseHeld_silent(q, fin) ==
  /\ held' = held \ {q} /\ skipped' = skipped \ StepsOf(q)
  /\ UNCHANGED <<finals, fins>>

\* Ends the hold on q: the skipped final steps come now.
ReleaseHeld(q, fin) ==
  /\ held' = held \ {q}
  /\ finals' = IF q \in held THEN Bump(finals, skipped \cap StepsOf(q)) ELSE finals
  /\ skipped' = skipped \ StepsOf(q)
  /\ fins' = IF fin /\ adm[q].done THEN Bump(fins, {q}) ELSE fins

CompleteRelease(p) ==
  /\ ex[p].at = "release"
  /\ LET q == ex[p].step[1]
     IN  /\ ReleaseHeld(q, ex[p].recorded \/ q \in held)
         /\ Move(p, IF ex[p].ret = "loop" THEN NextAction(p, ex[p].failed) ELSE To(p, ex[p].ret))
  /\ UNCHANGED <<vars, lock, cancelled, wire, boot>>

\* After the loop, unless cancelled, bound inputs take the plan's outcome.
AfterLoop(p) ==
  /\ ex[p].at = "tail" /\ Reconciled
  /\ Move(p, To(p, IF p \in cancelled THEN "exit" ELSE "compose"))
  /\ UNCHANGED <<vars, lock, flags, wire, events, boot>>

Compose(p) ==
  /\ ex[p].at = "compose"
  /\ LET open == {s \in StepsOf(p) : Kind(s) \in InputKinds /\ ~act[s].done /\ act[s].consumed # 0}
         composed == IF ex[p].failed THEN "failed" ELSE "succeeded"
     IN  IF open = {} THEN Move(p, To(p, "exit"))
         ELSE \E s \in open : /\ \A t \in open : s[2] <= t[2]
                              /\ Move(p, Completing(p, s, composed, "compose"))
  /\ UNCHANGED <<vars, lock, flags, wire, events, boot>>

\* A hold the executor did not end through complete is ended here.
Exit(p) ==
  /\ ex[p].at = "exit"
  /\ ReleaseHeld(p, p \in held)
  /\ Move(p, Idle)
  /\ lock' = IF lock = p THEN NoPlan ELSE lock
  /\ UNCHANGED <<vars, cancelled, wire, boot>>

----------------------------------------------------------------------------
(* reconcile_once: the store's steps with their effects.                   *)

ReconcileLine ==
  /\ Reconcile
  /\ LET line == log[cursor + 1]  s == line.step  p == s[1]
     IN  IF line.event # "result" THEN UNCHANGED <<skipped, events>>
         ELSE IF p \in held
           THEN skipped' = skipped \cup {s} /\ UNCHANGED <<events>>
         ELSE /\ finals' = Bump(finals, {s})
              /\ fins' = IF adm'[p].done # adm[p].done THEN Bump(fins, {p}) ELSE fins
              /\ UNCHANGED skipped
  /\ UNCHANGED <<ex, lock, cancelled, held, wire, boot>>

ExpirePass ==
  /\ ExpireWindows
  /\ LET over == {p \in Plans : Expirable(p)}
     IN  /\ finals' = Bump(finals, {s \in Steps : s[1] \in over /\ act'[s].outcome = "expired"})
         /\ fins' = Bump(fins, over)
  /\ UNCHANGED <<ex, lock, flags, wire, boot>>

----------------------------------------------------------------------------
(* Crash and restart (spawn_background).                                   *)

Crash ==
  /\ crashes < MaxCrashes /\ crashes' = crashes + 1
  /\ ex' = [p \in Plans |-> Idle] /\ lock' = NoPlan
  /\ cancelled' = {} /\ held' = {} /\ skipped' = {}
  /\ call' = [s \in Steps |-> NoCall]
  /\ resume' = {} /\ resuming' = NoPlan /\ booting' = TRUE
  /\ UNCHANGED <<vars, busy, events>>

ListOpen ==
  /\ booting /\ Reconciled
  /\ booting' = FALSE /\ resume' = {p \in Admitted : ~adm[p].done}
  /\ UNCHANGED <<vars, ex, lock, flags, wire, events, resuming, crashes>>

\* One at a time: cancels before the rest, each in admission order.
Before(p, q) ==
  \/ CancelOnly(p) /\ ~CancelOnly(q)
  \/ CancelOnly(p) = CancelOnly(q) /\ adm[p].seq < adm[q].seq

\* A plan with an executor running is left to it.
Resume(p) ==
  /\ p \in resume /\ \A q \in resume \ {p} : Before(p, q)
  /\ resuming # NoPlan => ex[resuming].at = "idle"
  /\ resume' = resume \ {p}
  /\ IF ex[p].at = "idle" THEN Move(p, To(p, "queued")) /\ resuming' = p
                          ELSE UNCHANGED <<ex, resuming>>
  /\ UNCHANGED <<vars, lock, flags, wire, events, booting, crashes>>

----------------------------------------------------------------------------
(* The runner (external): it answers calls and writes lines.  An answer    *)
(* may be lost after the line was written.  One op at a time per action.   *)

Closed(s) == LoggedOp(s, "close")
Reply(s, st) == call' = [call EXCEPT ![s].st = st]
KeepsLog == UNCHANGED vars
Runner == UNCHANGED <<ex, lock, flags, events, boot>>

\* E_PLAN_CONSUMED, for a consumed or a closed action, is taken for success.
RunnerBind(s) ==
  /\ call[s] = [op |-> "bind_plan", st |-> "sent"]
  /\ IF Logged("consumed", s) \/ Closed(s) THEN KeepsLog /\ Reply(s, "ok")
     ELSE \/ RunnerConsume(s) /\ \E st \in {"ok", "failed"} : Reply(s, st)
          \/ (Unreliable \/ now > adm[s[1]].at + Window) /\ KeepsLog /\ Reply(s, "refused")
  /\ UNCHANGED busy /\ Runner

\* A definition is recorded at once.
RunnerRecords(s) ==
  /\ Kind(s) \in DefinitionKinds /\ Logged("consumed", s) /\ ~Logged("result", s)
  /\ RunnerWrites("result", s, "", "succeeded")
  /\ UNCHANGED <<wire>> /\ Runner

\* An op of a bound, open action, logged when it starts; prune_releases may
\* follow the action's end, and an upgrade is re-entered.
RunnerStart(s) ==
  /\ call[s].st = "sent" /\ call[s].op # "bind_plan" /\ busy[s] = ""
  /\ Logged("consumed", s) /\ ~Closed(s)
  /\ LET op == call[s].op
     IN  /\ ~Logged("result", s) \/ op = "prune_releases"
         /\ IF Kind(s) = "db.upgrade" /\ LoggedOp(s, op) THEN KeepsLog
                                                       ELSE RunnerWrites("op", s, op, "")
  /\ busy' = [busy EXCEPT ![s] = call[s].op]
  /\ Reply(s, "waiting")
  /\ Runner

\* Refused at its checks, as an op of a closed action always is.
RunnerRefuse(s) ==
  /\ call[s].st = "sent" /\ call[s].op # "bind_plan"
  /\ Unreliable \/ Logged("result", s) \/ Closed(s)
  /\ call[s].op = "cancel_execution" => CancelFails
  /\ Reply(s, "refused")
  /\ UNCHANGED <<vars, busy>> /\ Runner

\* start_timeout, op_timeout: the agent stops waiting, the runner goes on.
Timeout(s) ==
  /\ Unreliable /\ call[s].st \in {"sent", "waiting"}
  /\ call[s].op = "cancel_execution" => CancelFails
  /\ Reply(s, "timeout")
  /\ UNCHANGED <<vars, busy>> /\ Runner

\* The caller still waits for this op, or gave up on it.
Ends(s, st) ==
  /\ busy' = [busy EXCEPT ![s] = ""]
  /\ IF call[s] = [op |-> busy[s], st |-> "waiting"] THEN Reply(s, st) ELSE UNCHANGED call

\* The result line an op that succeeded writes, if any.
ResultOf(s, op) ==
  CASE op \in {"activate_release", "cancel_execution", "restart_release", "install_artifact",
               "upgrade_database"} -> "succeeded"
    [] op = "rollback_release" -> "rolled_back"
    [] op = "cleanup_candidate" -> "failed"
    [] OTHER -> ""

\* Actions of the cancelled plan that cancel_execution must still end, bound
\* or not.
Open(p) == {v \in StepsOf(p) : ~Logged("result", v) /\ ~LoggedOp(v, "activate_release")}

RunnerOk(s) ==
  /\ busy[s] # ""
  /\ busy[s] = "cancel_execution" => Open(Target[s[1]]) = {}
  /\ LET out == ResultOf(s, busy[s])
     IN  IF out = "" \/ Logged("result", s) THEN KeepsLog
         ELSE RunnerWrites("result", s, "", out)
  /\ \E st \in {"ok", "failed"} :
       /\ st = "failed" => ResultOf(s, busy[s]) # ""
       /\ Ends(s, st)
  /\ Runner

RunnerFails(s) ==
  /\ busy[s] # ""
  /\ busy[s] = "cancel_execution" => CancelFails
  /\ KeepsLog /\ Ends(s, "failed")
  /\ Runner

\* verify_health or activate_release restarted the previous release itself.
RunnerHandsBack(s) ==
  /\ busy[s] \in {"verify_health", "activate_release"} /\ ~Logged("result", s)
  /\ RunnerWrites("result", s, "", "rolled_back")
  /\ Ends(s, "rolled_back")
  /\ Runner

\* cancel_execution first closes every open action, stopping its op, and only
\* then ends them: no action is bound after one of them ended.
RunnerCloses(v) ==
  /\ \E c \in Steps : Target[c[1]] = v[1] /\ busy[c] = "cancel_execution"
  /\ v \in Open(v[1]) /\ ~Closed(v)
  /\ RunnerWrites("op", v, "close", "")
  /\ IF busy[v] # "" THEN Ends(v, "failed") ELSE UNCHANGED <<wire>>
  /\ Runner

RunnerCancels(v) ==
  /\ Closed(v) /\ ~Logged("result", v)
  /\ \A w \in Open(v[1]) : Closed(w)
  /\ RunnerWrites("result", v, "", "cancelled")
  /\ UNCHANGED <<wire>> /\ Runner

Clock == Tick /\ UNCHANGED execVars

----------------------------------------------------------------------------

ExecInit ==
  /\ Init
  /\ ex = [p \in Plans |-> Idle] /\ lock = NoPlan
  /\ cancelled = {} /\ held = {} /\ skipped = {}
  /\ call = [s \in Steps |-> NoCall] /\ busy = [s \in Steps |-> ""]
  /\ finals = [s \in Steps |-> 0] /\ fins = [p \in Plans |-> 0]
  /\ resume = {} /\ resuming = NoPlan /\ booting = FALSE /\ crashes = 0

Task(p) ==
  \/ Start(p) \/ Loop(p) \/ bind(p) \/ Bound(p) \/ RunOp(p) \/ OpsAnswer(p)
  \/ DeployAnswer(p) \/ RunRecovery(p) \/ CancelAnswer(p) \/ Victims(p) \/ CloseVictim(p)
  \/ Outcome(p) \/ CompleteReconcile(p) \/ CompleteRecord(p) \/ CompleteRelease(p)
  \/ AfterLoop(p) \/ Compose(p) \/ Exit(p)

RunnerEnds(s) == RunnerOk(s) \/ RunnerFails(s) \/ RunnerHandsBack(s)
RunnerAnswers(s) == RunnerBind(s) \/ RunnerStart(s) \/ RunnerRefuse(s)
RunnerWorks(s) == RunnerRecords(s) \/ RunnerCloses(s) \/ RunnerCancels(s)

ExecNext ==
  \/ \E p \in Plans : Submit(p) \/ Task(p) \/ Resume(p)
  \/ \E s \in Steps : RunnerEnds(s) \/ RunnerAnswers(s) \/ RunnerWorks(s) \/ Timeout(s)
  \/ ReconcileLine \/ ExpirePass \/ Crash \/ ListOpen \/ Clock

ExecSpec == ExecInit /\ [][ExecNext]_allVars

\* The tasks of the agent's runtime run, the runner works on and answers, and
\* the background pass comes every two seconds.
Fairness ==
  /\ \A p \in Plans :
       /\ WF_allVars(Task(p)) /\ WF_allVars(Resume(p))
       /\ WF_allVars(\E s \in StepsOf(p) : RunnerEnds(s))
       /\ WF_allVars(\E s \in StepsOf(p) : RunnerAnswers(s))
       /\ WF_allVars(\E s \in StepsOf(p) : RunnerWorks(s))
  /\ WF_allVars(ReconcileLine) /\ WF_allVars(ListOpen)
  /\ WF_allVars(ExpirePass) /\ WF_allVars(Clock)

FairExecSpec == ExecSpec /\ Fairness
----------------------------------------------------------------------------
(* Properties.                                                             *)

Quiet(p) ==
  /\ ex[p].at = "idle" /\ p \notin resume /\ ~booting
  /\ \A q \in Plans : Target[q] = p => ex[q].at = "idle" /\ q \notin resume

\* An action starts only while no earlier action of its plan ended badly: the
\* executor's `failed` flag agrees with the rows, also after a restart
\* (execute_inner), except for an activation a restart interrupted, which
\* FailedActivationRecovers is about.
StopsAtFailure ==
  [][\A s \in Steps :
       (~Logged("consumed", s) /\ Logged("consumed", s)') =>
         \A t \in StepsOf(s[1]) :
           t[2] < s[2] /\ act[t].done =>
             \/ act[t].outcome = "succeeded"
             \/ crashes > 0 /\ LoggedOp(t, "activate_release")]_allVars

\* Once a recovery op of a deploy started, no op of its way forward starts,
\* whatever timed out, was cancelled or was resumed before (run_deploy).
NothingAfterRecovery ==
  [][\A s \in Steps :
       LoggedOp(s, "rollback_release") \/ LoggedOp(s, "cleanup_candidate") =>
         \A op \in {"prepare_release", "verify_health", "activate_release"} :
           LoggedOp(s, op)' => LoggedOp(s, op)]_allVars

\* When nobody works on a plan any more, every ended action had its final
\* step and a finished operation its `finished` (complete, release_held,
\* apply_effect), so a watcher is not left waiting.  A crash loses events.
EndsAreAnnounced ==
  \A p \in Plans :
    Quiet(p) /\ crashes = 0 =>
      /\ adm[p].done => fins[p] > 0
      /\ \A s \in StepsOf(p) : act[s].done => finals[s] > 0

\* A bound action that a resumed executor leaves alone: the windows end only
\* unconsumed actions (expire_windows), so it waits for a line of the runner
\* that may never come.  The executor comes too late for the plan's window,
\* returns at an earlier action that failed, or finds its deploy cancelled
\* while it was being activated (execute_inner, run_deploy).
PassedOver(s) ==
  /\ crashes > 0 /\ Logged("consumed", s)
  /\ \/ now > adm[s[1]].at + Window
     \/ \E t \in StepsOf(s[1]) : t[2] < s[2] /\ act[t].done /\ act[t].outcome # "succeeded"
     \/ LoggedOp(s, "activate_release") /\ \E q \in Admitted : Target[q] = s[1]

\* A plan nobody works on has ended, or the log will end it (execute_inner,
\* run_cancel): no path of the executors drops a plan, except that a restart
\* may leave a bound action to the runner.  A plan with a database upgrade or a
\* shell is excepted: an upgrade's executor leaves when the runner's answer is
\* lost, a shell's action ends with its session, and only the windows end the
\* actions that come after.
NothingDropped ==
  \A p \in Admitted :
    /\ Quiet(p) /\ Reconciled
    /\ \A s \in StepsOf(p) : busy[s] = "" /\ Kind(s) \notin {"db.upgrade", "shell.open"}
    => \/ adm[p].done
       \/ \E s \in StepsOf(p) :
            /\ ~Logged("result", s)
            /\ \/ Closed(s)
               \/ Logged("consumed", s) /\ Kind(s) \in DefinitionKinds
               \/ PassedOver(s)

\* The executors keep to the ledger: their outcomes, the runner's lines and the
\* reconciler's passes are steps of AdmissionLedger, so no op of an action is
\* started twice, also not by a resumed executor (logged_ops), and no outcome
\* is written that finish_action would not write.  This is the ledger's Spec,
\* with the steps that leave it alone told first.
RefinesLedger == Init /\ [][vars' # vars => Next]_vars

\* Every admitted plan ends (execute, reconcile_once).
EveryPlanEnds == \A p \in Plans : p \in Admitted ~> adm[p].done

\* Nobody works on the action, its plan or the runner's log any more.
Settled(s) == Quiet(s[1]) /\ Reconciled /\ busy[s] = ""

----------------------------------------------------------------------------
(* What a comment of the code says and the code does not do.               *)

\* "a failed `activate_release` -> `rollback_release` when the service has an
\* earlier release, else `cleanup_candidate`" (run_deploy): a deploy that
\* settled as succeeded is one whose activation the runner ended as succeeded.
FailedActivationRecovers ==
  \A s \in Steps :
    Kind(s) = "deploy" /\ Settled(s) /\ act[s].outcome = "succeeded" => act[s].result # 0
=============================================================================
