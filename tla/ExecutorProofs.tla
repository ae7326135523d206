--------------------------- MODULE ExecutorProofs ---------------------------
(***************************************************************************)
(* Proof that the executors keep to the ledger, for any plans, any cancels *)
(* among them, any number of crashes and any runner: every step of         *)
(* Executor is a step of AdmissionLedger or leaves its variables alone, so *)
(* what LedgerProofs shows of the ledger holds of the executors; and that  *)
(* every end of a plan or an action that they record is announced to those *)
(* who watch.                                                              *)
(***************************************************************************)
EXTENDS Executor, LedgerProofs

Places == {"idle", "queued", "loop", "bind", "bound", "ready", "op", "recover", "victims",
           "closing", "outcome", "complete", "record", "release", "tail", "compose", "exit"}
Returns == {"", "loop", "closing", "compose"}
Snap == [consumed : SUBSET Steps, ended : SUBSET Steps, bad : SUBSET Steps,
         ops : SUBSET (Steps \X Ops)]
TaskRow ==
  [at : Places, i : Nat \ {0}, k : Nat \ {0}, failed : BOOLEAN, out : EndNames, activated : BOOLEAN,
   restorable : BOOLEAN, newly : BOOLEAN, step : Steps \cup {NoStep}, recorded : BOOLEAN,
   ret : Returns, todo : SUBSET Steps, snap : Snap]
CallRow == [op : Ops \cup {"", "bind_plan"},
            st : {"none", "sent", "waiting", "ok", "failed", "refused", "timeout", "rolled_back"}]

ExecType ==
  /\ ex \in [Plans -> TaskRow]
  /\ call \in [Steps -> CallRow] /\ busy \in [Steps -> Ops \cup {""}]
  /\ booting \in BOOLEAN /\ resume \subseteq Plans

\* Where a task is about the action at its index.
InAction == {"bind", "bound", "ready", "op", "recover", "victims", "closing", "outcome"}
Finishing == {"complete", "record", "release"}
Acting(r) == r.at \in InAction \/ (r.at \in Finishing /\ r.ret = "closing")

\* Where it runs the ops of that action.
Operating(r) ==
  \/ r.at \in {"ready", "op", "recover", "victims", "closing"}
  \/ r.at \in Finishing /\ r.ret = "closing"

\* Where it still goes through the actions it read the snapshot of.
Looping(r) ==
  \/ r.at \in InAction \cup {"loop"}
  \/ r.at \in Finishing /\ r.ret \in {"loop", "closing"}

\* Where every consumed line of the plan is in the store.
Caught(r) ==
  \/ r.at \in {"queued", "compose", "exit"}
  \/ r.at = "idle" /\ ~booting
  \/ r.at \in Finishing /\ r.ret = "compose"

Recovery == {"rollback_release", "cleanup_candidate"}

\* Only admitted plans have a task, and a cancel names an admitted plan.
TasksAdmitted ==
  /\ \A p \in Plans : ex[p].at # "idle" => p \in Admitted
  /\ \A p \in Admitted : Target[p] # NoPlan => Target[p] \in Admitted
  /\ resume \subseteq Admitted /\ (booting => resume = {})

\* A call belongs to the action its task waits in; what is sent was not started.
CallsOwned ==
  \A s \in Steps :
    /\ call[s] # NoCall => ex[s[1]].at \in {"bind", "op"} /\ s = Cur(s[1])
    /\ call[s].st = "sent" /\ call[s].op # "bind_plan" /\ Kind(s) # "db.upgrade" =>
         ~LoggedOp(s, call[s].op)
    /\ busy[s] # "" => Logged("consumed", s)

\* The action at the index, how it is executed, and the op c of the call the
\* task waits for.
ActionOf(p, r, c) ==
  LET s == <<p, r.i>>
  IN  /\ Acting(r) => s \in Steps
      /\ r.at \in {"bind", "bound"} => exec_of(Kind(s)) \in {"Input", "Definition", "Ops"}
      /\ Operating(r) => exec_of(Kind(s)) = "Ops"
      /\ r.at = "recover" => Kind(s) = "deploy"
      /\ r.at = "bind" => c = "bind_plan"
      /\ r.at = "op" => \/ r.k \in 1..Len(OpsOf(Kind(s))) /\ c = OpsOf(Kind(s))[r.k]
                        \/ Kind(s) = "deploy" /\ c \in Recovery

\* What a task is about to record is an outcome the agent may record.
OutcomeOf(p, r) ==
  /\ r.at = "outcome" =>
       /\ r.out \in Outcomes \ {"expired"}
       /\ r.out = "succeeded" => Kind(<<p, r.i>>) \notin DefinitionKinds
  /\ r.at \in {"complete", "record"} =>
       /\ r.step \in Steps /\ r.step[1] \in Admitted /\ r.out \in Outcomes
       /\ r.out = "succeeded" => Kind(r.step) \notin DefinitionKinds
       /\ r.out = "expired" =>
            /\ r.step = <<p, r.i>> /\ r.ret = "loop"
            /\ now > adm[p].at + Window /\ ~Logged("consumed", r.step)
  /\ r.at \in Finishing => r.ret # ""
  /\ \A v \in r.todo : v[1] \in Admitted

\* The snapshot knows what was consumed of the actions still to come, and a
\* task that is through has read every consumed line.
ConsumedKnown(p, r) ==
  /\ Looping(r) =>
       \A t \in StepsOf(p) :
         (t[2] > r.i \/ (t[2] = r.i /\ r.at = "loop")) /\ Logged("consumed", t) =>
           t \in r.snap.consumed
  /\ Caught(r) =>
       \A k \in 1..Len(log) : log[k].event = "consumed" /\ log[k].step[1] = p => k <= cursor

\* An op the snapshot knows, if it was started.
Known(r, t, op) == LoggedOp(t, op) => <<t, op>> \in r.snap.ops

\* The snapshot knows the ops started of the actions still to come; the ops of
\* the way forward that are still to come were not started in this run, and a
\* recovery op only after the others.
OpsKnown(p, r, c) ==
  LET s == <<p, r.i>>
  IN  /\ Looping(r) =>
           \A t \in StepsOf(p) :
             /\ t[2] > r.i \/ (t[2] = r.i /\ r.at \in {"loop", "bind", "bound"})
             /\ Kind(t) # "db.upgrade"
             => \A op \in Ops \ {"close"} : Known(r, t, op)
      /\ (r.at = "ready" \/ (r.at = "op" /\ c \notin Recovery)) /\ Kind(s) # "db.upgrade" =>
           \A j \in 1..Len(OpsOf(Kind(s))) :
             j > r.k \/ (j = r.k /\ r.at = "ready") => Known(r, s, OpsOf(Kind(s))[j])
      /\ /\ r.at \in {"ready", "recover"} \/ (r.at = "op" /\ c \notin Recovery)
         /\ Kind(s) = "deploy"
         => \A op \in Recovery : ~LoggedOp(s, op)

TaskOk(p, r, c) ==
  ActionOf(p, r, c) /\ OutcomeOf(p, r) /\ ConsumedKnown(p, r) /\ OpsKnown(p, r, c)

CallOp(p) == IF Cur(p) \in Steps THEN call[Cur(p)].op ELSE ""
TasksOk == \A p \in Plans : TaskOk(p, ex[p], CallOp(p))

ExecInv == ExecType /\ TasksAdmitted /\ CallsOwned /\ TasksOk

----------------------------------------------------------------------------
(* What the invariants say of a task depends on the log only through what  *)
(* is new in it.                                                           *)

\* The ops of a kind are different ops of the runner, and never a close.
LEMMA OpsOfNames ==
  ASSUME NEW kind
  PROVE  /\ Len(OpsOf(kind)) \in 0..4
         /\ \A j \in 1..Len(OpsOf(kind)) : OpsOf(kind)[j] \in Ops \ ({"close"} \cup Recovery)
         /\ \A j, k \in 1..Len(OpsOf(kind)) : OpsOf(kind)[j] = OpsOf(kind)[k] => j = k
  BY ExecutorAssumption DEF OpsOf, OpNames, Recovery

\* Nothing was appended that the task of q would have to know of.
Quiescent(q) ==
  /\ \A t \in StepsOf(q) : Logged("consumed", t)' => Logged("consumed", t)
  /\ \A t \in StepsOf(q), op \in Ops \ {"close"} : LoggedOp(t, op)' => LoggedOp(t, op)
  /\ \A k \in 1..Len(log)' : log'[k].event = "consumed" /\ log'[k].step[1] = q =>
       k \in 1..Len(log) /\ log[k] = log'[k]
  /\ Admitted \subseteq Admitted' /\ now <= now' /\ cursor <= cursor'
  /\ q \in Admitted => adm'[q].at = adm[q].at

\* A task that stands still stays well placed.
LEMMA TaskKept ==
  ASSUME LedgerInv, LedgerInv', NEW q \in Plans, NEW r \in TaskRow, NEW c, TaskOk(q, r, c),
         load' = load, Quiescent(q), booting' = booting \/ (booting /\ r.at # "idle"),
         r.at # "idle" => q \in Admitted
  PROVE  TaskOk(q, r, c)'
<1>1. /\ Steps' = Steps /\ StepsOf(q)' = StepsOf(q)
      /\ \A s : Kind(s)' = Kind(s)
  BY Frame
<1>2. ActionOf(q, r, c)'
  BY <1>1 DEF TaskOk, ActionOf
<1>3. OutcomeOf(q, r)'
  <2>1. OutcomeOf(q, r)
    BY DEF TaskOk
  <2>2. CASE r.at \in {"complete", "record"} /\ r.out = "expired"
    <3>1. /\ r.step \in Steps /\ r.step = <<q, r.i>> /\ r.ret = "loop" /\ r.step[1] \in Admitted
          /\ now > adm[q].at + Window /\ ~Logged("consumed", r.step)
      BY <2>1, <2>2 DEF OutcomeOf
    <3>2. q \in Admitted /\ r.step \in StepsOf(q)
      BY <3>1 DEF StepsOf
    <3>3. now' > adm'[q].at + Window
      <4>1. now \in Nat /\ now' \in Nat /\ adm[q].at \in Nat /\ Window \in Nat
        BY LedgerAssumption DEF LedgerInv, LedgerType, AdmRow
      <4> QED
        BY <3>1, <3>2, <4>1 DEF Quiescent
    <3>4. ~Logged("consumed", r.step)'
      BY <3>1, <3>2 DEF Quiescent
    <3> QED
      BY <1>1, <2>1, <2>2, <3>1, <3>2, <3>3, <3>4 DEF OutcomeOf, Quiescent
  <2>3. CASE ~(r.at \in {"complete", "record"} /\ r.out = "expired")
    BY <1>1, <2>1, <2>3 DEF OutcomeOf, Quiescent
  <2> QED
    BY <2>2, <2>3
<1>4. ConsumedKnown(q, r)'
  <2>1. ConsumedKnown(q, r) /\ (Looping(r)' <=> Looping(r)) /\ (Caught(r)' => Caught(r))
    BY DEF TaskOk, Looping, Caught
  <2>2. Looping(r) =>
          \A t \in StepsOf(q) :
            (t[2] > r.i \/ (t[2] = r.i /\ r.at = "loop")) /\ Logged("consumed", t)' =>
              t \in r.snap.consumed
    BY <2>1 DEF ConsumedKnown, Quiescent
  <2>3. Caught(r)' => \A k \in 1..Len(log') : log'[k].event = "consumed" /\ log'[k].step[1] = q =>
                       k <= cursor'
    <3> SUFFICES ASSUME Caught(r), NEW k \in 1..Len(log'), log'[k].event = "consumed",
                        log'[k].step[1] = q
                 PROVE  k <= cursor'
      BY <2>1
    <3>1. k \in 1..Len(log) /\ log[k] = log'[k] /\ cursor <= cursor'
      BY DEF Quiescent
    <3>2. k <= cursor
      BY <2>1, <3>1 DEF ConsumedKnown
    <3> QED
      BY <3>1, <3>2 DEF LedgerInv, LedgerType
  <2> QED
    BY <1>1, <2>1, <2>2, <2>3 DEF ConsumedKnown
<1>5. OpsKnown(q, r, c)'
  <2>1. OpsKnown(q, r, c) /\ (Looping(r)' <=> Looping(r))
    BY DEF TaskOk, Looping
  <2>2. ActionOf(q, r, c)
    BY DEF TaskOk
  <2>3. \A t \in StepsOf(q), op \in Ops \ {"close"} : Known(r, t, op) => Known(r, t, op)'
    BY DEF Quiescent, Known
  <2>4. r.at \in {"ready", "op", "recover"} => <<q, r.i>> \in StepsOf(q)
    BY <2>2 DEF ActionOf, Acting, InAction, StepsOf
  <2>5. \A j \in 1..Len(OpsOf(Kind(<<q, r.i>>))) : OpsOf(Kind(<<q, r.i>>))[j] \in Ops \ {"close"}
    BY OpsOfNames
  <2>6. \A op \in Recovery : op \in Ops \ {"close"}
    BY ExecutorAssumption DEF Recovery, OpNames
  <2> QED
    BY <1>1, <2>1, <2>3, <2>4, <2>5, <2>6 DEF OpsKnown, Quiescent
<1> QED
  BY <1>2, <1>3, <1>4, <1>5 DEF TaskOk

----------------------------------------------------------------------------
(* Moves of one task.                                                      *)

\* The fields a move to another place leaves alone.
Kept(r, e) ==
  /\ r.i = e.i /\ r.k = e.k /\ r.out = e.out /\ r.step = e.step /\ r.ret = e.ret
  /\ r.todo = e.todo /\ r.snap = e.snap

\* A task moves on.
LEMMA AtRow ==
  ASSUME NEW e \in TaskRow, NEW at \in Places
  PROVE  LET r == [e EXCEPT !.at = at] IN r \in TaskRow /\ r.at = at /\ Kept(r, e)
  BY DEF TaskRow, Kept

\* To(p, at) and the moves that start with it.
LEMMA ToRow ==
  ASSUME ExecType, NEW p \in Plans, NEW at \in Places
  PROVE  To(p, at) \in TaskRow /\ To(p, at).at = at /\ Kept(To(p, at), ex[p])
<1>1. ex[p] \in TaskRow
  BY DEF ExecType
<1> QED
  BY <1>1, AtRow DEF To

\* The idle task.
LEMMA IdleRow ==
  /\ Idle \in TaskRow /\ Idle.at = "idle" /\ Idle.i = 1 /\ Idle.k = 1 /\ Idle.todo = {} /\ Idle.ret = ""
  /\ Idle.out = ""
  BY DEF Idle, NoSnap, TaskRow, Snap, Places, Returns, EndNames

\* The next turn of the loop keeps the snapshot.
LEMMA NextRow ==
  ASSUME ExecType, NEW p \in Plans, NEW failed \in BOOLEAN
  PROVE  LET r == NextAction(p, failed)
         IN  /\ r \in TaskRow /\ r.at = "loop" /\ r.i = ex[p].i + 1 /\ r.snap = ex[p].snap
             /\ r.todo = {} /\ r.ret = "" /\ r.k = 1
<1> DEFINE e == ex[p]
           n == e.i + 1
           sn == e.snap
<1>1. e \in TaskRow
  BY DEF ExecType
<1> HIDE DEF e
<1>2. n \in Nat \ {0} /\ sn \in Snap
  BY <1>1 DEF TaskRow
<1> HIDE DEF n, sn
<1>3. LET w == [Idle EXCEPT !.at = "loop", !.i = n, !.failed = failed, !.snap = sn]
      IN  w \in TaskRow /\ w.at = "loop" /\ w.i = n /\ w.snap = sn /\ w.todo = {} /\ w.ret = "" /\ w.k = 1
  <2>1. Idle \in TaskRow /\ Idle.todo = {} /\ Idle.ret = "" /\ Idle.k = 1 /\ "loop" \in Places
    BY IdleRow DEF Places
  <2> DEFINE d == Idle
  <2> HIDE DEF d
  <2>2. d \in TaskRow /\ d.todo = {} /\ d.ret = "" /\ d.k = 1
    BY <2>1 DEF d
  <2>3. LET w == [d EXCEPT !.at = "loop", !.i = n, !.failed = failed, !.snap = sn]
        IN  w \in TaskRow /\ w.at = "loop" /\ w.i = n /\ w.snap = sn /\ w.todo = {} /\ w.ret = "" /\ w.k = 1
    BY <1>2, <2>1, <2>2 DEF TaskRow
  <2> QED
    BY <2>3 DEF d
<1> QED
  BY <1>3 DEF n, sn, e, NextAction

\* The end of the action at the index.
LEMMA EndedRow ==
  ASSUME ExecType, NEW p \in Plans, NEW out \in EndNames, NEW activated \in BOOLEAN
  PROVE  LET r == Ended(p, out, activated)
         IN  /\ r \in TaskRow /\ r.at = "outcome" /\ r.out = out /\ r.i = ex[p].i
             /\ r.snap = ex[p].snap /\ r.todo = ex[p].todo /\ r.ret = ex[p].ret
<1>1. ex[p] \in TaskRow
  BY DEF ExecType
<1> DEFINE e == ex[p]
<1> HIDE DEF e
<1>2. e \in TaskRow
  BY <1>1 DEF e
<1>3. LET w == [e EXCEPT !.at = "outcome", !.out = out, !.activated = activated]
      IN  /\ w \in TaskRow /\ w.at = "outcome" /\ w.out = out /\ w.i = e.i
          /\ w.snap = e.snap /\ w.todo = e.todo /\ w.ret = e.ret
  BY <1>2 DEF TaskRow, Places
<1> QED
  BY <1>3 DEF e, Ended

\* A row to record.
LEMMA CompletingRow ==
  ASSUME ExecType, NEW p \in Plans, NEW s \in Steps, NEW out \in EndNames, NEW ret \in Returns
  PROVE  LET r == Completing(p, s, out, ret)
         IN  /\ r \in TaskRow /\ r.at = "complete" /\ r.out = out /\ r.step = s /\ r.ret = ret
             /\ r.i = ex[p].i /\ r.snap = ex[p].snap /\ r.todo = ex[p].todo
<1>1. ex[p] \in TaskRow
  BY DEF ExecType
<1> DEFINE e == ex[p]
<1> HIDE DEF e
<1>2. e \in TaskRow
  BY <1>1 DEF e
<1>3. LET w == [e EXCEPT !.at = "complete", !.step = s, !.out = out, !.ret = ret]
      IN  /\ w \in TaskRow /\ w.at = "complete" /\ w.out = out /\ w.step = s /\ w.ret = ret
          /\ w.i = e.i /\ w.snap = e.snap /\ w.todo = e.todo
  BY <1>2 DEF TaskRow, Places
<1> QED
  BY <1>3 DEF e, Completing

\* The call of a task that waits for none.
LEMMA NoCallFields == NoCall.op = "" /\ NoCall.st = "none"
  BY DEF NoCall

\* The plan whose task moved has no call left.
LEMMA QuietCalls ==
  ASSUME ExecInv, NEW p \in Plans,
         (call' = call /\ ex[p].at \notin {"bind", "op"}) \/ (Taken(p) /\ Cur(p) \in Steps)
  PROVE  /\ call' \in [Steps -> CallRow]
         /\ \A s \in Steps : call'[s] = IF s[1] = p THEN NoCall ELSE call[s]
<1>1. call \in [Steps -> CallRow] /\ NoCall \in CallRow
  BY DEF ExecInv, ExecType, CallRow, NoCall
<1>2. \A s \in Steps : s[1] = p /\ call[s] # NoCall => ex[p].at \in {"bind", "op"} /\ s = Cur(p)
  BY DEF ExecInv, CallsOwned
<1>3. CASE call' = call /\ ex[p].at \notin {"bind", "op"}
  BY <1>1, <1>2, <1>3
<1>4. CASE Taken(p) /\ Cur(p) \in Steps
  <2>1. Cur(p)[1] = p
    BY DEF Cur
  <2>2. call' = [call EXCEPT ![Cur(p)] = NoCall]
    BY <1>4 DEF Taken
  <2> QED
    BY <1>1, <1>2, <1>4, <2>1, <2>2
<1> QED
  BY <1>3, <1>4

\* The runner wrote nothing and no plan was admitted.
Steady ==
  /\ UNCHANGED <<load, now, log, cursor>> /\ Admitted' = Admitted
  /\ \A q \in Plans : adm'[q].at = adm[q].at

\* A steady step appends nothing.
LEMMA SteadyQuiet == ASSUME LedgerInv, Steady, NEW q \in Plans PROVE Quiescent(q)
  BY DEF Steady, Quiescent, Logged, LoggedOp, LedgerInv, LedgerType

\* A move of one task, with the call it leaves.
LEMMA MoveStep ==
  ASSUME LedgerInv, ExecInv, NEW p \in Plans, NEW r \in TaskRow, ex' = [ex EXCEPT ![p] = r],
         p \in Admitted, LedgerInv', Steady, UNCHANGED <<busy, booting>>, resume' \subseteq resume,
         call' \in [Steps -> CallRow],
         \A s \in Steps : s[1] # p => call'[s] = call[s],
         \A s \in Steps : s[1] = p =>
           /\ call'[s] # NoCall => r.at \in {"bind", "op"} /\ s = <<p, r.i>>
           /\ call'[s].st = "sent" /\ call'[s].op # "bind_plan" /\ Kind(s) # "db.upgrade" =>
                ~LoggedOp(s, call'[s].op),
         NEW c, c = IF <<p, r.i>> \in Steps THEN call'[<<p, r.i>>].op ELSE "", TaskOk(p, r, c)
  PROVE  ExecInv'
<1>2. ex' \in [Plans -> TaskRow] /\ ex'[p] = r /\ \A q \in Plans \ {p} : ex'[q] = ex[q]
  BY DEF ExecInv, ExecType
<1>3. /\ Steps' = Steps /\ Admitted' = Admitted /\ Target' = Target
      /\ \A s : Kind(s)' = Kind(s)
      /\ \A s, op : LoggedOp(s, op)' = LoggedOp(s, op)
      /\ \A s : \A event : Logged(event, s)' = Logged(event, s)
  BY Frame DEF Steady, Target, LoggedOp, Logged
<1>4. ExecType'
  BY <1>2, <1>3 DEF ExecInv, ExecType, TaskRow, CallRow, Snap
<1>5. TasksAdmitted'
  BY <1>2, <1>3 DEF ExecInv, TasksAdmitted
<1>6. CallsOwned'
  <2> SUFFICES ASSUME NEW s \in Steps
               PROVE  /\ call'[s] # NoCall => ex'[s[1]].at \in {"bind", "op"} /\ s = <<s[1], ex'[s[1]].i>>
                      /\ call'[s].st = "sent" /\ call'[s].op # "bind_plan" /\ Kind(s) # "db.upgrade" =>
                           ~LoggedOp(s, call'[s].op)
                      /\ busy[s] # "" => Logged("consumed", s)
    BY <1>3 DEF CallsOwned, Cur
  <2>1. s[1] \in Plans
    BY StepParts DEF LedgerInv, LedgerType
  <2>2. /\ call[s] # NoCall => ex[s[1]].at \in {"bind", "op"} /\ s = <<s[1], ex[s[1]].i>>
        /\ call[s].st = "sent" /\ call[s].op # "bind_plan" /\ Kind(s) # "db.upgrade" =>
             ~LoggedOp(s, call[s].op)
        /\ busy[s] # "" => Logged("consumed", s)
    BY DEF ExecInv, CallsOwned, Cur
  <2>3. CASE s[1] = p
    BY <1>2, <2>2, <2>3
  <2>4. CASE s[1] # p
    BY <1>2, <2>1, <2>2, <2>4
  <2> QED
    BY <2>3, <2>4
<1>7. TasksOk'
  <2> SUFFICES ASSUME NEW q \in Plans PROVE TaskOk(q, ex[q], CallOp(q))'
    BY DEF TasksOk
  <2>1. CASE q = p
    <3>1. ex'[q] = r /\ CallOp(q)' = c
      BY <1>2, <1>3, <2>1 DEF CallOp, Cur
    <3>2. TaskOk(p, r, c)'
      BY SteadyQuiet, TaskKept DEF Steady
    <3> QED
      BY <2>1, <3>1, <3>2 DEF TaskOk
  <2>2. CASE q # p
    <3> DEFINE cq == CallOp(q)
               e == ex[q]
    <3>1. ex'[q] = e /\ CallOp(q)' = cq
      <4>1. Cur(q)' = Cur(q) /\ Cur(q)[1] = q
        BY <1>2, <2>2 DEF Cur
      <4> QED
        BY <1>2, <1>3, <2>2, <4>1 DEF CallOp
    <3>2. TaskOk(q, e, cq) /\ e \in TaskRow /\ (e.at # "idle" => q \in Admitted)
      BY DEF ExecInv, TasksOk, ExecType, TasksAdmitted
    <3>3. PICK cc, ee : cc = cq /\ ee = e
      OBVIOUS
    <3>4. TaskOk(q, ee, cc)'
      <4> HIDE DEF cq, e
      <4>1. TaskOk(q, ee, cc) /\ ee \in TaskRow /\ (ee.at # "idle" => q \in Admitted)
        BY <3>2, <3>3
      <4> QED
        BY <4>1, SteadyQuiet, TaskKept DEF Steady
    <3>5. ex'[q] = ee /\ CallOp(q)' = cc
      BY <3>1, <3>3
    <3> HIDE DEF cq, e
    <3> QED
      BY <3>4, <3>5 DEF TaskOk
  <2> QED
    BY <2>1, <2>2
<1> QED
  BY <1>4, <1>5, <1>6, <1>7 DEF ExecInv

\* A move that leaves the plan with no call.
LEMMA QuietMove ==
  ASSUME LedgerInv, ExecInv, NEW p \in Plans, NEW r \in TaskRow, ex' = [ex EXCEPT ![p] = r],
         r.at \notin {"bind", "op"}, p \in Admitted, TaskOk(p, r, ""),
         UNCHANGED <<vars, busy, booting, resume>>,
         (call' = call /\ ex[p].at \notin {"bind", "op"}) \/ (Taken(p) /\ Cur(p) \in Steps)
  PROVE  ExecInv'
<1>1. /\ call' \in [Steps -> CallRow]
      /\ \A s \in Steps : call'[s] = IF s[1] = p THEN NoCall ELSE call[s]
  BY QuietCalls
<1>2. NoCall.op = "" /\ NoCall.st = "none"
  BY DEF NoCall
<1>3. "" = IF <<p, r.i>> \in Steps THEN call'[<<p, r.i>>].op ELSE ""
  BY <1>1, <1>2
<1>4. \A s \in Steps : s[1] # p => call'[s] = call[s]
  BY <1>1
<1>5. \A s \in Steps : s[1] = p =>
        /\ call'[s] # NoCall => r.at \in {"bind", "op"} /\ s = <<p, r.i>>
        /\ call'[s].st = "sent" /\ call'[s].op # "bind_plan" /\ Kind(s) # "db.upgrade" =>
             ~LoggedOp(s, call'[s].op)
  BY <1>1, <1>2
<1>6. LedgerInv' /\ Steady
  BY NextLedger DEF Steady, vars, Admitted
<1> QED
  BY <1>1, <1>3, <1>4, <1>5, <1>6, MoveStep

\* A move that sends bind_plan or an op that was not started yet.
LEMMA SendMove ==
  ASSUME LedgerInv, ExecInv, NEW p \in Plans, NEW r \in TaskRow, ex' = [ex EXCEPT ![p] = r],
         p \in Admitted, r.at \in {"bind", "op"}, r.i = ex[p].i, Cur(p) \in Steps,
         ex[p].at \notin {"bind", "op"}, NEW op \in Ops \cup {"bind_plan"}, Send(p, op),
         op # "bind_plan" /\ Kind(Cur(p)) # "db.upgrade" => ~LoggedOp(Cur(p), op),
         TaskOk(p, r, op), UNCHANGED <<vars, busy, booting, resume>>
  PROVE  ExecInv'
<1> DEFINE row == [op |-> op, st |-> "sent"]
<1>1. row \in CallRow /\ row.op = op
  BY DEF CallRow
<1>2. call' = [call EXCEPT ![Cur(p)] = row] /\ call \in [Steps -> CallRow]
  BY DEF Send, ExecInv, ExecType
<1> HIDE DEF row
<1>3. call' \in [Steps -> CallRow] /\ call'[Cur(p)] = row /\ \A s \in Steps \ {Cur(p)} : call'[s] = call[s]
  BY <1>1, <1>2
<1>4. Cur(p) = <<p, r.i>> /\ Cur(p)[1] = p
  BY DEF Cur
<1>5. op = IF <<p, r.i>> \in Steps THEN call'[<<p, r.i>>].op ELSE ""
  BY <1>1, <1>3, <1>4
<1>6. \A s \in Steps : s[1] = p /\ s # Cur(p) => call'[s] = NoCall
  BY <1>3 DEF ExecInv, CallsOwned
<1>7. NoCall.st = "none"
  BY DEF NoCall
<1>8. \A s \in Steps : s[1] # p => call'[s] = call[s]
  BY <1>3, <1>4
<1>9. \A s \in Steps : s[1] = p =>
        /\ call'[s] # NoCall => r.at \in {"bind", "op"} /\ s = <<p, r.i>>
        /\ call'[s].st = "sent" /\ call'[s].op # "bind_plan" /\ Kind(s) # "db.upgrade" =>
             ~LoggedOp(s, call'[s].op)
  BY <1>1, <1>3, <1>4, <1>6, <1>7
<1>10. LedgerInv' /\ Steady
  BY NextLedger DEF Steady, vars, Admitted
<1> QED
  BY <1>3, <1>5, <1>8, <1>9, <1>10, MoveStep

\* Out of the loop.
LEMMA TailOk ==
  ASSUME NEW p \in Plans, NEW e \in TaskRow, NEW c, TaskOk(p, e, c), NEW r \in TaskRow,
         r.at = "tail", r.todo = e.todo
  PROVE  TaskOk(p, r, "")
  BY DEF TaskOk, ActionOf, OutcomeOf, ConsumedKnown, OpsKnown, Acting, Operating, Looping, Caught,
     InAction, Finishing

\* On to the next action.
LEMMA NextOk ==
  ASSUME NEW p \in Plans, NEW e \in TaskRow, NEW c, TaskOk(p, e, c), NEW r \in TaskRow,
         Looping(e), r.at = "loop", r.i = e.i + 1, r.snap = e.snap, r.todo = {}, load \in Loads
  PROVE  TaskOk(p, r, "")
<1>1. ActionOf(p, r, "") /\ OutcomeOf(p, r)
  BY DEF ActionOf, OutcomeOf, Acting, Operating, InAction, Finishing
<1>2. e.i \in Nat /\ \A t \in StepsOf(p) : t[2] \in Nat
  BY StepParts DEF TaskRow, StepsOf
<1>3. \A t \in StepsOf(p) : t[2] > r.i \/ t[2] = r.i => t[2] > e.i
  BY <1>2
<1>4. ConsumedKnown(p, r)
  BY <1>3 DEF ConsumedKnown, Looping, Caught, InAction, Finishing, TaskOk
<1>5. OpsKnown(p, r, "")
  BY <1>3 DEF OpsKnown, Known, Looping, InAction, Finishing, TaskOk
<1> QED
  BY <1>1, <1>4, <1>5 DEF TaskOk

\* The end of the action at the index.
LEMMA EndedOk ==
  ASSUME NEW p \in Plans, NEW e \in TaskRow, NEW c, TaskOk(p, e, c), NEW r \in TaskRow,
         Looping(e), <<p, e.i>> \in Steps, r.at = "outcome", r.i = e.i, r.snap = e.snap,
         r.todo = e.todo, r.out \in Outcomes \ {"expired"},
         r.out = "succeeded" => Kind(<<p, e.i>>) \notin DefinitionKinds
  PROVE  TaskOk(p, r, "")
<1>1. ActionOf(p, r, "") /\ OutcomeOf(p, r)
  BY DEF ActionOf, OutcomeOf, Acting, Operating, InAction, Finishing, TaskOk
<1>2. ConsumedKnown(p, r)
  BY DEF ConsumedKnown, Looping, Caught, InAction, Finishing, TaskOk
<1>3. OpsKnown(p, r, "")
  BY DEF OpsKnown, Known, Looping, InAction, Finishing, TaskOk
<1> QED
  BY <1>1, <1>2, <1>3 DEF TaskOk

\* What the task records next, before it goes on with the loop.
LEMMA CompletingOk ==
  ASSUME NEW p \in Admitted, NEW e \in TaskRow, NEW c, TaskOk(p, e, c), NEW r \in TaskRow,
         Looping(e), <<p, e.i>> \in Steps, r.at = "complete", r.ret = "loop", r.i = e.i,
         r.snap = e.snap, r.todo = e.todo, r.step = <<p, e.i>>, r.out \in Outcomes,
         r.out = "succeeded" => Kind(<<p, e.i>>) \notin DefinitionKinds,
         r.out = "expired" => now > adm[p].at + Window /\ ~Logged("consumed", r.step)
  PROVE  TaskOk(p, r, "")
<1>1. ActionOf(p, r, "") /\ OutcomeOf(p, r)
  <2>1. r.step \in Steps /\ r.step[1] = p
    OBVIOUS
  <2>2. \A v \in e.todo : v[1] \in Admitted
    BY DEF TaskOk, OutcomeOf
  <2>3. OutcomeOf(p, r)
    BY <2>1, <2>2 DEF OutcomeOf, Finishing
  <2> QED
    BY <2>3 DEF ActionOf, Acting, Operating, InAction, Finishing
<1>2. ConsumedKnown(p, r)
  BY DEF ConsumedKnown, Looping, Caught, InAction, Finishing, TaskOk
<1>3. OpsKnown(p, r, "")
  BY DEF OpsKnown, Known, Looping, InAction, Finishing, TaskOk
<1> QED
  BY <1>1, <1>2, <1>3 DEF TaskOk

\* The action at the index is about to be bound, or is.
LEMMA BoundOk ==
  ASSUME NEW p \in Plans, NEW e \in TaskRow, NEW c, TaskOk(p, e, c), NEW r \in TaskRow,
         e.at \in {"loop", "bind"}, <<p, e.i>> \in Steps, Kept(r, e),
         r.at \in {"bind", "bound"}, exec_of(Kind(<<p, e.i>>)) \in {"Input", "Definition", "Ops"},
         NEW d, r.at = "bind" => d = "bind_plan"
  PROVE  TaskOk(p, r, d)
<1>1. ActionOf(p, r, d) /\ OutcomeOf(p, r)
  BY DEF ActionOf, OutcomeOf, Acting, Operating, InAction, Finishing, TaskOk, Kept
<1>2. ConsumedKnown(p, r)
  BY DEF ConsumedKnown, Looping, Caught, InAction, Finishing, TaskOk, Kept
<1>3. OpsKnown(p, r, d)
  BY DEF OpsKnown, Known, Looping, InAction, Finishing, TaskOk, Kept
<1> QED
  BY <1>1, <1>2, <1>3 DEF TaskOk

----------------------------------------------------------------------------
(* The steps of a task.                                                    *)

\* What the invariants say of one task.
LEMMA TaskFacts ==
  ASSUME LedgerInv, ExecInv, NEW p \in Plans
  PROVE  /\ ex[p] \in TaskRow /\ ExecType /\ load \in Loads
         /\ ex[p].at # "idle" => p \in Admitted
         /\ TaskOk(p, ex[p], CallOp(p))
         /\ Cur(p) = <<p, ex[p].i>> /\ Cur(p)[1] = p
         /\ ex[p].at \in InAction => Cur(p) \in Steps /\ Looping(ex[p])
  BY DEF ExecInv, ExecType, TasksAdmitted, TasksOk, LedgerInv, LedgerType, Cur, TaskOk, ActionOf,
     Acting, Looping

\* A step of a task that touches neither the store nor the log and leaves the
\* plan with no call.
Withdrawn(p) ==
  /\ p \in Admitted /\ UNCHANGED <<vars, busy, booting, resume>>
  /\ (call' = call /\ ex[p].at \notin {"bind", "op"}) \/ (Taken(p) /\ Cur(p) \in Steps)

\* Such a step keeps the invariant when the task is well placed after it.
LEMMA QuietStep ==
  ASSUME LedgerInv, ExecInv, NEW p \in Plans, Withdrawn(p), NEW r \in TaskRow, Move(p, r),
         r.at \notin {"bind", "op"}, TaskOk(p, r, "")
  PROVE  ExecInv'
<1>1. ex' = [ex EXCEPT ![p] = r] /\ p \in Admitted /\ UNCHANGED <<vars, busy, booting, resume>>
  BY DEF Withdrawn, Move
<1>2. (call' = call /\ ex[p].at \notin {"bind", "op"}) \/ (Taken(p) /\ Cur(p) \in Steps)
  BY DEF Withdrawn
<1> QED
  BY <1>1, <1>2, QuietMove

\* It leaves the loop,
LEMMA TailStep ==
  ASSUME LedgerInv, ExecInv, NEW p \in Plans, Withdrawn(p), Move(p, To(p, "tail"))
  PROVE  ExecInv'
<1> DEFINE r == To(p, "tail")
<1>1. ex[p] \in TaskRow /\ ExecType /\ TaskOk(p, ex[p], CallOp(p))
  BY TaskFacts
<1>2. r \in TaskRow /\ r.at = "tail" /\ Kept(r, ex[p])
  BY <1>1, ToRow DEF Places
<1> HIDE DEF r
<1>3. TaskOk(p, r, "")
  BY <1>1, <1>2, TailOk DEF Kept
<1> QED
  BY <1>2, <1>3, QuietStep DEF r

\* goes on to the next action,
LEMMA NextStep ==
  ASSUME LedgerInv, ExecInv, NEW p \in Plans, Withdrawn(p), Looping(ex[p]), NEW f \in BOOLEAN,
         Move(p, NextAction(p, f))
  PROVE  ExecInv'
<1> DEFINE r == NextAction(p, f)
<1>1. ex[p] \in TaskRow /\ ExecType /\ TaskOk(p, ex[p], CallOp(p)) /\ load \in Loads
  BY TaskFacts
<1>2. r \in TaskRow /\ r.at = "loop" /\ r.i = ex[p].i + 1 /\ r.snap = ex[p].snap /\ r.todo = {}
  BY <1>1, NextRow
<1> HIDE DEF r
<1>3. TaskOk(p, r, "")
  BY <1>1, <1>2, NextOk
<1> QED
  BY <1>2, <1>3, QuietStep DEF r

\* or has the outcome of its action.
LEMMA EndedStep ==
  ASSUME LedgerInv, ExecInv, NEW p \in Plans, Withdrawn(p), Looping(ex[p]), Cur(p) \in Steps,
         NEW out \in Outcomes \ {"expired"}, NEW activated \in BOOLEAN,
         out = "succeeded" => Kind(Cur(p)) \notin DefinitionKinds,
         Move(p, Ended(p, out, activated))
  PROVE  ExecInv'
<1> DEFINE r == Ended(p, out, activated)
<1>1. /\ ex[p] \in TaskRow /\ ExecType /\ TaskOk(p, ex[p], CallOp(p)) /\ Cur(p) = <<p, ex[p].i>>
      /\ out \in EndNames
  BY TaskFacts DEF EndNames
<1>2. /\ r \in TaskRow /\ r.at = "outcome" /\ r.out = out /\ r.i = ex[p].i
      /\ r.snap = ex[p].snap /\ r.todo = ex[p].todo
  BY <1>1, EndedRow
<1> HIDE DEF r
<1>3. TaskOk(p, r, "")
  BY <1>1, <1>2, EndedOk
<1> QED
  BY <1>2, <1>3, QuietStep DEF r

\* The executor starts: it reads the rows and the log.
LEMMA StartStep == ASSUME LedgerInv, ExecInv, NEW p \in Plans, Start(p) PROVE ExecInv'
<1>1. /\ ex[p] \in TaskRow /\ ExecType /\ load \in Loads /\ p \in Admitted /\ ex[p].at = "queued"
      /\ TaskOk(p, ex[p], CallOp(p))
  BY TaskFacts DEF Start
<1>2. Withdrawn(p)
  BY <1>1 DEF Start, wire, boot, Withdrawn
<1>3. ASSUME NEW r \in TaskRow, Move(p, r), r.at \notin {"bind", "op"}, TaskOk(p, r, "")
      PROVE  ExecInv'
  BY <1>2, <1>3, QuietStep
<1>4. CASE adm[p].done
  <2> DEFINE r == To(p, "exit")
  <2>1. r \in TaskRow /\ r.at = "exit" /\ Kept(r, ex[p])
    BY <1>1, ToRow DEF Places
  <2> HIDE DEF r
  <2>2. TaskOk(p, r, "")
    BY <1>1, <2>1 DEF TaskOk, ActionOf, OutcomeOf, ConsumedKnown, OpsKnown, Acting, Operating,
       Looping, Caught, InAction, Finishing, Kept
  <2> QED
    BY <1>3, <1>4, <2>1, <2>2 DEF Start, r
<1>5. CASE ~adm[p].done
  <2> DEFINE sn == Snapshot(p)
             r == [Idle EXCEPT !.at = "loop", !.snap = sn]
  <2>1. sn \in Snap
    BY DEF Snapshot, Snap, StepsOf
  <2>2. sn.consumed = {s \in StepsOf(p) : act[s].consumed # 0}
    BY DEF Snapshot
  <2>3. \A t \in StepsOf(p), op \in Ops : Kind(t) # "db.upgrade" /\ LoggedOp(t, op) => <<t, op>> \in sn.ops
    BY DEF Snapshot
  <2> HIDE DEF sn
  <2>4. r \in TaskRow /\ r.at = "loop" /\ r.snap = sn /\ r.todo = {} /\ r.i = 1
    <3> DEFINE d == Idle
    <3> HIDE DEF d
    <3>1. d \in TaskRow /\ d.todo = {} /\ d.i = 1 /\ "loop" \in Places
      BY IdleRow DEF d, Places
    <3>2. LET w == [d EXCEPT !.at = "loop", !.snap = sn]
          IN  w \in TaskRow /\ w.at = "loop" /\ w.snap = sn /\ w.todo = {} /\ w.i = 1
      BY <2>1, <3>1 DEF TaskRow
    <3> QED
      BY <3>2 DEF d
  <2> HIDE DEF r
  <2>5. \A t \in StepsOf(p) : Logged("consumed", t) => t \in sn.consumed
    <3> SUFFICES ASSUME NEW t \in StepsOf(p), NEW k \in 1..Len(log), log[k].event = "consumed",
                        log[k].step = t
                 PROVE  act[t].consumed # 0
      BY <2>2 DEF Logged
    <3>1. k <= cursor
      BY <1>1 DEF TaskOk, ConsumedKnown, Caught, StepsOf
    <3>2. k \in 1..cursor
      BY <3>1 DEF LedgerInv, LedgerType
    <3> QED
      BY <3>2 DEF LedgerInv, LogWins, StepsOf
  <2>6. TaskOk(p, r, "")
    BY <2>3, <2>4, <2>5 DEF TaskOk, ActionOf, OutcomeOf, ConsumedKnown, OpsKnown, Known, Acting,
       Operating, Caught, InAction, Finishing
  <2> QED
    BY <1>3, <1>5, <2>4, <2>6 DEF Start, r, sn
<1> QED
  BY <1>4, <1>5

\* The action at the index of a task in the loop.
LEMMA LoopAction ==
  ASSUME load \in Loads, NEW p \in Plans, ex[p] \in TaskRow, ~(ex[p].i > Len(Actions[p]))
  PROVE  Cur(p) \in Steps
<1>1. Actions[p] \in Seq([kind : STRING, rule : Rules \cup {NoRule}])
  BY LedgerAssumption DEF Actions
<1>2. ex[p].i \in Nat \ {0} /\ Len(Actions[p]) \in Nat
  BY <1>1 DEF TaskRow
<1>3. ex[p].i \in 1..Len(Actions[p])
  BY <1>2
<1> QED
  BY <1>3 DEF Cur, Steps

\* One turn of the loop.
LEMMA LoopStep == ASSUME LedgerInv, ExecInv, NEW p \in Plans, Loop(p) PROVE ExecInv'
<1> DEFINE s == Cur(p)
           e == ex[p]
           late == now > adm[p].at + Window
           refused == IF late THEN "expired" ELSE "failed"
<1>1. /\ e \in TaskRow /\ ExecType /\ load \in Loads /\ p \in Admitted /\ e.at = "loop"
      /\ TaskOk(p, e, CallOp(p)) /\ Looping(e) /\ s = <<p, e.i>> /\ e.failed \in BOOLEAN
  BY TaskFacts DEF Loop, Looping, TaskRow
<1>2. UNCHANGED <<vars, busy, booting, resume>>
  BY DEF Loop, boot
<1>3. ASSUME call' = call PROVE Withdrawn(p)
  BY <1>1, <1>2, <1>3 DEF Withdrawn
<1>4. ASSUME call' = call, Move(p, To(p, "tail")) PROVE ExecInv'
  BY <1>3, <1>4, TailStep
<1>5. ASSUME call' = call, NEW f \in BOOLEAN, Move(p, NextAction(p, f)) PROVE ExecInv'
  BY <1>1, <1>3, <1>5, NextStep
<1>6. CASE e.i > Len(Actions[p]) \/ p \in cancelled
  BY <1>4, <1>6 DEF Loop
<1>7. ASSUME ~(e.i > Len(Actions[p]) \/ p \in cancelled) PROVE ExecInv'
  <2>1. s \in Steps
    BY <1>1, <1>7, LoopAction
  <2>2. CASE s \in e.snap.ended
    <3>1. Move(p, NextAction(p, e.failed \/ s \in e.snap.bad)) /\ call' = call
      BY <1>7, <2>2 DEF Loop
    <3> QED
      BY <1>5, <3>1
  <2>3. CASE s \notin e.snap.ended /\ (late \/ e.failed)
    <3>1. call' = call
      BY <1>7, <2>3 DEF Loop
    <3>2. CASE s \in e.snap.consumed
      BY <1>1, <1>5, <1>7, <2>3, <3>1, <3>2 DEF Loop
    <3>3. CASE s \notin e.snap.consumed
      <4> DEFINE r == Completing(p, s, refused, "loop")
      <4>1. Move(p, r)
        BY <1>7, <2>3, <3>3 DEF Loop
      <4>2. refused \in EndNames /\ refused \in Outcomes /\ refused # "succeeded" /\ "loop" \in Returns
        BY DEF EndNames, Outcomes, Returns
      <4>3. /\ r \in TaskRow /\ r.at = "complete" /\ r.out = refused /\ r.step = s /\ r.ret = "loop"
            /\ r.i = e.i /\ r.snap = e.snap /\ r.todo = e.todo
        <5> HIDE DEF refused
        <5> QED
          BY <1>1, <2>1, <4>2, CompletingRow
      <4>4. ~Logged("consumed", s)
        <5>1. s \in StepsOf(p) /\ s[2] = e.i
          BY <1>1, <2>1 DEF StepsOf
        <5> QED
          BY <1>1, <3>3, <5>1 DEF TaskOk, ConsumedKnown
      <4>5. refused = "expired" => now > adm[p].at + Window
        OBVIOUS
      <4> HIDE DEF r, refused
      <4>6. TaskOk(p, r, "")
        BY <1>1, <2>1, <4>2, <4>3, <4>4, <4>5, CompletingOk
      <4> QED
        BY <1>3, <3>1, <4>1, <4>3, <4>6, QuietStep
    <3> QED
      BY <3>2, <3>3
  <2>4. ASSUME s \notin e.snap.ended, ~(late \/ e.failed) PROVE ExecInv'
    <3> DEFINE closed == Kind(s) # "operation.cancel" /\ Ran(p, "cancel_execution")
    <3>1. CASE closed
      BY <1>4, <1>7, <2>4, <3>1 DEF Loop
    <3>2. ASSUME NEW out \in {"succeeded", "failed"}, out = "succeeded" => Kind(s) \notin DefinitionKinds,
                 Move(p, Ended(p, out, FALSE)), call' = call
          PROVE  ExecInv'
      <4>1. out \in Outcomes \ {"expired"}
        BY DEF Outcomes
      <4> QED
        BY <1>1, <1>3, <2>1, <3>2, <4>1, EndedStep
    <3>3. CASE ~closed /\ exec_of(Kind(s)) = "Agent"
      <4>1. Kind(s) \notin DefinitionKinds
        BY <3>3 DEF exec_of, AgentKinds, DefinitionKinds
      <4>2. PICK out \in {"succeeded", "failed"} : Move(p, Ended(p, out, FALSE)) /\ call' = call
        BY <1>7, <2>4, <3>3 DEF Loop
      <4> QED
        BY <3>2, <4>1, <4>2
    <3>4. CASE ~closed /\ exec_of(Kind(s)) = "NotImplemented"
      <4>1. Move(p, Ended(p, "failed", FALSE)) /\ call' = call
        BY <1>7, <2>4, <3>4 DEF Loop
      <4> QED
        BY <3>2, <4>1
    <3>5. CASE ~closed /\ exec_of(Kind(s)) = "Shell"
      <4>1. Move(p, NextAction(p, FALSE)) /\ call' = call
        BY <1>7, <2>4, <3>5 DEF Loop
      <4> QED
        BY <1>5, <4>1
    <3>6. ASSUME ~closed, exec_of(Kind(s)) \notin {"Agent", "NotImplemented", "Shell"} PROVE ExecInv'
      <4>1. exec_of(Kind(s)) \in {"Input", "Definition", "Ops"}
        BY <3>6 DEF exec_of
      <4>2. CASE s \in e.snap.consumed
        <5> DEFINE r == To(p, "bound")
        <5>1. Move(p, r) /\ call' = call
          BY <1>7, <2>4, <3>6, <4>2 DEF Loop
        <5>2. r \in TaskRow /\ r.at = "bound" /\ Kept(r, e)
          BY <1>1, ToRow DEF Places
        <5> HIDE DEF r
        <5>3. TaskOk(p, r, "")
          BY <1>1, <2>1, <4>1, <5>2, BoundOk
        <5> QED
          BY <1>3, <5>1, <5>2, <5>3, QuietStep
      <4>3. CASE s \notin e.snap.consumed
        <5> DEFINE r == To(p, "bind")
        <5>1. Move(p, r) /\ Send(p, "bind_plan")
          BY <1>7, <2>4, <3>6, <4>3 DEF Loop
        <5>2. r \in TaskRow /\ r.at = "bind" /\ Kept(r, e)
          BY <1>1, ToRow DEF Places
        <5> HIDE DEF r
        <5>3. TaskOk(p, r, "bind_plan")
          BY <1>1, <2>1, <4>1, <5>2, BoundOk
        <5>4. r.i = e.i
          BY <5>2 DEF Kept
        <5> QED
          BY <1>1, <1>2, <2>1, <5>1, <5>2, <5>3, <5>4, SendMove DEF Move
      <4> QED
        BY <4>2, <4>3
    <3> QED
      BY <3>1, <3>3, <3>4, <3>5, <3>6
  <2> QED
    BY <2>2, <2>3, <2>4
<1> QED
  BY <1>6, <1>7

\* The fields of a row that a move changes one at a time.
LEMMA FieldRow ==
  ASSUME NEW e \in TaskRow
  PROVE  /\ \A k \in Nat \ {0} :
              LET r == [e EXCEPT !.k = k]
              IN  r \in TaskRow /\ r.k = k /\ r.at = e.at /\ r.i = e.i /\ r.snap = e.snap /\ r.todo = e.todo
         /\ \A b \in BOOLEAN :
              /\ LET r == [e EXCEPT !.newly = b] IN r \in TaskRow /\ r.at = e.at /\ Kept(r, e)
              /\ LET r == [e EXCEPT !.failed = b] IN r \in TaskRow /\ r.at = e.at /\ Kept(r, e)
              /\ LET r == [e EXCEPT !.recorded = b] IN r \in TaskRow /\ r.at = e.at /\ Kept(r, e)
         /\ \A todo \in SUBSET Steps :
              LET r == [e EXCEPT !.todo = todo]
              IN  /\ r \in TaskRow /\ r.todo = todo /\ r.at = e.at /\ r.i = e.i /\ r.snap = e.snap
                  /\ r.step = e.step /\ r.out = e.out /\ r.ret = e.ret
  BY DEF TaskRow, Kept

\* An action runs its ops, from op k on.
LEMMA ReadyOk ==
  ASSUME NEW p \in Plans, NEW e \in TaskRow, NEW c, TaskOk(p, e, c), NEW r \in TaskRow, Looping(e),
         <<p, e.i>> \in Steps, exec_of(Kind(<<p, e.i>>)) = "Ops",
         r.at = "ready", r.i = e.i, r.snap = e.snap, r.todo = e.todo,
         Kind(<<p, e.i>>) # "db.upgrade" =>
           \A j \in 1..Len(OpsOf(Kind(<<p, e.i>>))) :
             j >= r.k => Known(e, <<p, e.i>>, OpsOf(Kind(<<p, e.i>>))[j]),
         Kind(<<p, e.i>>) = "deploy" => \A op \in Recovery : ~LoggedOp(<<p, e.i>>, op)
  PROVE  TaskOk(p, r, "")
<1>1. ActionOf(p, r, "") /\ OutcomeOf(p, r)
  BY DEF ActionOf, OutcomeOf, Acting, Operating, InAction, Finishing, TaskOk
<1>2. ConsumedKnown(p, r)
  BY DEF ConsumedKnown, Looping, Caught, InAction, Finishing, TaskOk
<1>3. OpsKnown(p, r, "")
  <2>1. r.k \in Nat /\ \A j \in 1..Len(OpsOf(Kind(<<p, e.i>>))) :
           j > r.k \/ (j = r.k /\ r.at = "ready") => j >= r.k
    BY OpsOfNames DEF TaskRow
  <2> QED
    BY <2>1 DEF OpsKnown, Known, Looping, InAction, Finishing, TaskOk
<1> QED
  BY <1>1, <1>2, <1>3 DEF TaskOk

\* An action waits for its op k or for its recovery.
LEMMA SentOk ==
  ASSUME NEW p \in Plans, NEW e \in TaskRow, NEW c, TaskOk(p, e, c), NEW r \in TaskRow, NEW op,
         e.at \in {"ready", "recover"}, r.at = "op", Kept(r, e),
         \/ e.at = "ready" /\ e.k \in 1..Len(OpsOf(Kind(<<p, e.i>>))) /\ op = OpsOf(Kind(<<p, e.i>>))[e.k]
         \/ e.at = "recover" /\ op \in Recovery
  PROVE  TaskOk(p, r, op)
<1>1. ActionOf(p, r, op) /\ OutcomeOf(p, r)
  BY DEF ActionOf, OutcomeOf, Acting, Operating, InAction, Finishing, TaskOk, Kept
<1>2. ConsumedKnown(p, r)
  BY DEF ConsumedKnown, Looping, Caught, InAction, Finishing, TaskOk, Kept
<1>3. OpsKnown(p, r, op)
  BY DEF OpsKnown, Known, Looping, InAction, Finishing, TaskOk, Kept
<1> QED
  BY <1>1, <1>2, <1>3 DEF TaskOk

\* An action whose ops are through: recovery, or the end of a cancel.
LEMMA OperatingOk ==
  ASSUME NEW p \in Plans, NEW e \in TaskRow, NEW c, TaskOk(p, e, c), NEW r \in TaskRow, Looping(e),
         <<p, e.i>> \in Steps, exec_of(Kind(<<p, e.i>>)) = "Ops",
         r.at \in {"recover", "victims", "closing"}, r.i = e.i, r.snap = e.snap,
         \A v \in r.todo : v[1] \in Admitted,
         r.at = "recover" =>
           Kind(<<p, e.i>>) = "deploy" /\ \A op \in Recovery : ~LoggedOp(<<p, e.i>>, op)
  PROVE  TaskOk(p, r, "")
<1>1. ActionOf(p, r, "") /\ OutcomeOf(p, r)
  BY DEF ActionOf, OutcomeOf, Acting, Operating, InAction, Finishing, TaskOk
<1>2. ConsumedKnown(p, r)
  BY DEF ConsumedKnown, Looping, Caught, InAction, Finishing, TaskOk
<1>3. OpsKnown(p, r, "")
  BY DEF OpsKnown, Known, Looping, InAction, Finishing, TaskOk
<1> QED
  BY <1>1, <1>2, <1>3 DEF TaskOk

\* The ops of a kind that runs ops, and no definition has any.
LEMMA OpsKind ==
  ASSUME NEW kind, exec_of(kind) = "Ops"
  PROVE  kind \notin DefinitionKinds /\ OpsOf(kind) # <<>>
<1>1. kind \notin DefinitionKinds
  BY DEF exec_of, DefinitionKinds, AgentKinds, InputKinds, OpsOf
<1> QED
  BY <1>1 DEF exec_of

\* The answer to bind_plan.
LEMMA BindStep == ASSUME LedgerInv, ExecInv, NEW p \in Plans, bind(p) PROVE ExecInv'
<1>1. /\ ex[p] \in TaskRow /\ ExecType /\ p \in Admitted /\ ex[p].at = "bind"
      /\ TaskOk(p, ex[p], CallOp(p)) /\ Cur(p) = <<p, ex[p].i>>
  BY TaskFacts DEF bind
<1>2. Cur(p) \in Steps /\ Looping(ex[p]) /\ exec_of(Kind(Cur(p))) \in {"Input", "Definition", "Ops"}
  BY <1>1, TaskFacts DEF InAction, TaskOk, ActionOf
<1>3. Withdrawn(p)
  BY <1>1, <1>2 DEF bind, boot, Withdrawn
<1>4. CASE call[Cur(p)].st = "ok"
  <2> DEFINE r == To(p, "bound")
  <2>1. r \in TaskRow /\ r.at = "bound" /\ Kept(r, ex[p])
    BY <1>1, ToRow DEF Places
  <2>2. Move(p, r)
    BY <1>4 DEF bind
  <2> HIDE DEF r
  <2>3. TaskOk(p, r, "")
    BY <1>1, <1>2, <2>1, BoundOk
  <2> QED
    BY <1>3, <2>1, <2>2, <2>3, QuietStep
<1>5. CASE call[Cur(p)].st # "ok"
  <2>1. Move(p, Ended(p, "failed", FALSE)) /\ "failed" \in Outcomes \ {"expired"}
    BY <1>5 DEF bind, Outcomes
  <2> QED
    BY <1>2, <1>3, <2>1, EndedStep
<1> QED
  BY <1>4, <1>5

\* What a bound action does first.
LEMMA BoundStep == ASSUME LedgerInv, ExecInv, NEW p \in Plans, Bound(p) PROVE ExecInv'
<1> DEFINE kind == Kind(Cur(p))
           e == ex[p]
<1>1. /\ e \in TaskRow /\ ExecType /\ p \in Admitted /\ e.at = "bound"
      /\ TaskOk(p, e, CallOp(p)) /\ Cur(p) = <<p, e.i>>
  BY TaskFacts DEF Bound
<1>2. /\ Cur(p) \in Steps /\ Cur(p) \in StepsOf(p) /\ Looping(e)
      /\ exec_of(kind) \in {"Input", "Definition", "Ops"} /\ e.failed \in BOOLEAN
  BY <1>1, TaskFacts DEF InAction, TaskOk, ActionOf, StepsOf, TaskRow
<1>3. Withdrawn(p)
  BY <1>1 DEF Bound, boot, wire, Withdrawn
<1>4. CASE exec_of(kind) \in {"Input", "Definition"}
  <2>1. kind \notin {"operation.cancel", "deploy"}
    BY <1>4 DEF exec_of, OpsOf, AgentKinds, DefinitionKinds, InputKinds
  <2>2. Move(p, NextAction(p, e.failed))
    BY <1>4, <2>1 DEF Bound
  <2> QED
    BY <1>2, <1>3, <2>2, NextStep
<1>5. ASSUME exec_of(kind) = "Ops", NEW r \in TaskRow, r.at = "ready", Kept(r, e), Move(p, r),
             kind = "deploy" => ~Ran(p, "rollback_release") /\ ~Ran(p, "cleanup_candidate")
      PROVE  ExecInv'
  <2>1. kind # "db.upgrade" => \A op \in Ops \ {"close"} : Known(e, Cur(p), op)
    BY <1>1, <1>2 DEF TaskOk, OpsKnown
  <2>2. kind # "db.upgrade" => \A j \in 1..Len(OpsOf(kind)) : Known(e, Cur(p), OpsOf(kind)[j])
    BY <2>1, OpsOfNames
  <2>3. kind = "deploy" => \A op \in Recovery : ~LoggedOp(Cur(p), op)
    BY <1>5, <2>1, ExecutorAssumption DEF Known, Ran, Recovery, OpNames
  <2>4. TaskOk(p, r, "")
    BY <1>1, <1>2, <1>5, <2>2, <2>3, ReadyOk DEF Kept
  <2> QED
    BY <1>3, <1>5, <2>4, QuietStep
<1>6. CASE kind = "operation.cancel"
  <2> DEFINE b == Target[p] \notin cancelled
             f == To(p, "ready")
             r == [f EXCEPT !.newly = b]
  <2>1. exec_of(kind) = "Ops" /\ kind # "deploy"
    BY <1>6 DEF exec_of, OpsOf, AgentKinds, DefinitionKinds, InputKinds
  <2>2. Move(p, r)
    BY <1>6, <2>1 DEF Bound
  <2>3. f \in TaskRow /\ f.at = "ready" /\ Kept(f, e)
    BY <1>1, ToRow DEF Places
  <2>4. b \in BOOLEAN
    OBVIOUS
  <2> HIDE DEF f, b
  <2>5. r \in TaskRow /\ r.at = "ready" /\ Kept(r, f)
    BY <2>3, <2>4, FieldRow
  <2> HIDE DEF r
  <2>6. Kept(r, e)
    BY <2>3, <2>5 DEF Kept
  <2> QED
    BY <1>5, <2>1, <2>2, <2>5, <2>6
<1>7. CASE kind = "deploy" /\ (Ran(p, "rollback_release") \/ Ran(p, "cleanup_candidate"))
  <2>1. exec_of(kind) \notin {"Input", "Definition"}
    BY <1>7 DEF exec_of, OpsOf, AgentKinds, DefinitionKinds, InputKinds
  <2>2. Move(p, Ended(p, "failed", FALSE)) /\ "failed" \in Outcomes \ {"expired"}
    BY <1>7, <2>1 DEF Bound, Outcomes
  <2> QED
    BY <1>2, <1>3, <2>2, EndedStep
<1>8. CASE /\ exec_of(kind) \notin {"Input", "Definition"} /\ kind # "operation.cancel"
           /\ ~(kind = "deploy" /\ (Ran(p, "rollback_release") \/ Ran(p, "cleanup_candidate")))
  <2> DEFINE r == To(p, "ready")
  <2>1. r \in TaskRow /\ r.at = "ready" /\ Kept(r, e)
    BY <1>1, ToRow DEF Places
  <2>2. Move(p, r)
    BY <1>8 DEF Bound
  <2> HIDE DEF r
  <2> QED
    BY <1>2, <1>5, <1>8, <2>1, <2>2
<1> QED
  BY <1>4, <1>6, <1>7, <1>8

\* A task that runs the ops of an action.
LEMMA OperatingFacts ==
  ASSUME LedgerInv, ExecInv, NEW p \in Plans,
         ex[p].at \in {"ready", "op", "recover", "victims", "closing"}
  PROVE  /\ ex[p] \in TaskRow /\ ExecType /\ p \in Admitted /\ TaskOk(p, ex[p], CallOp(p))
         /\ Cur(p) = <<p, ex[p].i>> /\ Cur(p) \in Steps /\ CallOp(p) = call[Cur(p)].op
         /\ Looping(ex[p]) /\ exec_of(Kind(Cur(p))) = "Ops" /\ Kind(Cur(p)) \notin DefinitionKinds
<1>1. ex[p].at \in InAction /\ ex[p].at # "idle" /\ Operating(ex[p])
  BY DEF InAction, Operating
<1>2. /\ ex[p] \in TaskRow /\ ExecType /\ p \in Admitted /\ TaskOk(p, ex[p], CallOp(p))
      /\ Cur(p) = <<p, ex[p].i>> /\ Cur(p) \in Steps /\ Looping(ex[p])
  BY <1>1, TaskFacts
<1>3. exec_of(Kind(Cur(p))) = "Ops"
  BY <1>1, <1>2 DEF TaskOk, ActionOf
<1> QED
  BY <1>2, <1>3, OpsKind DEF CallOp

\* The next op runs: none after it in the list was started.
LEMMA AgainStep ==
  ASSUME LedgerInv, ExecInv, NEW p \in Plans, Withdrawn(p), ex[p].at \in {"ready", "op"},
         ex[p].at = "op" => CallOp(p) \notin Recovery,
         NEW f \in TaskRow, f.at = "ready", Kept(f, ex[p]),
         NEW n \in Nat \ {0}, n > ex[p].k, Move(p, [f EXCEPT !.k = n])
  PROVE  ExecInv'
<1> DEFINE e == ex[p]
           kind == Kind(Cur(p))
           r == [f EXCEPT !.k = n]
<1>1. /\ e \in TaskRow /\ TaskOk(p, e, CallOp(p)) /\ Cur(p) = <<p, e.i>> /\ Cur(p) \in Steps
      /\ Looping(e) /\ exec_of(kind) = "Ops"
  BY OperatingFacts
<1>2. /\ r \in TaskRow /\ r.k = n /\ r.at = "ready" /\ r.i = e.i /\ r.snap = e.snap /\ r.todo = e.todo
  BY FieldRow DEF Kept
<1> HIDE DEF r
<1>3. kind # "db.upgrade" => \A j \in 1..Len(OpsOf(kind)) : j >= n => Known(e, Cur(p), OpsOf(kind)[j])
  <2>1. e.k \in Nat /\ \A j \in 1..Len(OpsOf(kind)) : j >= n => j > e.k
    BY <1>1, OpsOfNames DEF TaskRow
  <2>2. (e.at = "ready" \/ (e.at = "op" /\ CallOp(p) \notin Recovery))
    OBVIOUS
  <2> QED
    BY <1>1, <2>1, <2>2 DEF TaskOk, OpsKnown
<1>4. kind = "deploy" => \A op \in Recovery : ~LoggedOp(Cur(p), op)
  BY <1>1 DEF TaskOk, OpsKnown
<1>5. TaskOk(p, r, "")
  BY <1>1, <1>2, <1>3, <1>4, ReadyOk
<1> QED
  BY <1>2, <1>5, QuietStep DEF r

\* Op k is sent, skipped, or the action is through.
LEMMA RunOpStep == ASSUME LedgerInv, ExecInv, NEW p \in Plans, RunOp(p) PROVE ExecInv'
<1> DEFINE kind == Kind(Cur(p))
           e == ex[p]
           k == e.k
           op == OpsOf(kind)[k]
<1>1. /\ e \in TaskRow /\ ExecType /\ p \in Admitted /\ e.at = "ready" /\ TaskOk(p, e, CallOp(p))
      /\ Cur(p) = <<p, e.i>> /\ Cur(p) \in Steps /\ Looping(e) /\ exec_of(kind) = "Ops"
      /\ kind \notin DefinitionKinds
  BY OperatingFacts DEF RunOp
<1>2. k \in Nat \ {0} /\ Len(OpsOf(kind)) \in Nat
  BY <1>1, OpsOfNames DEF TaskRow
<1>3. UNCHANGED <<vars, busy, booting, resume>>
  BY DEF RunOp, boot
<1>4. ASSUME call' = call PROVE Withdrawn(p)
  BY <1>1, <1>3, <1>4 DEF Withdrawn
<1>5. ASSUME call' = call, NEW out \in {"succeeded", "cancelled"}, NEW b \in BOOLEAN,
             Move(p, Ended(p, out, b))
      PROVE  ExecInv'
  <2>1. out \in Outcomes \ {"expired"}
    BY DEF Outcomes
  <2> QED
    BY <1>1, <1>4, <1>5, <2>1, EndedStep
<1>6. CASE k > Len(OpsOf(kind))
  <2>1. call' = call
    BY <1>6 DEF RunOp
  <2>2. CASE kind = "operation.cancel"
    <3> DEFINE r == To(p, "victims")
    <3>1. Move(p, r)
      BY <1>6, <2>2 DEF RunOp
    <3>2. r \in TaskRow /\ r.at = "victims" /\ Kept(r, e)
      BY <1>1, ToRow DEF Places
    <3>3. \A v \in e.todo : v[1] \in Admitted
      BY <1>1 DEF TaskOk, OutcomeOf
    <3> HIDE DEF r
    <3>4. TaskOk(p, r, "")
      BY <1>1, <3>2, <3>3, OperatingOk DEF Kept
    <3> QED
      BY <1>4, <2>1, <3>1, <3>2, <3>4, QuietStep
  <2>3. CASE kind # "operation.cancel"
    <3>1. Move(p, Ended(p, "succeeded", kind = "deploy"))
      BY <1>6, <2>3 DEF RunOp
    <3> QED
      BY <1>5, <2>1, <3>1
  <2> QED
    BY <2>2, <2>3
<1>7. ASSUME ~(k > Len(OpsOf(kind))) PROVE ExecInv'
  <2>1. k \in 1..Len(OpsOf(kind))
    BY <1>2, <1>7
  <2>2. op \in Ops \ ({"close"} \cup Recovery)
    BY <2>1, OpsOfNames
  <2>3. CASE op = "activate_release" /\ p \in cancelled
    <3>1. Move(p, Ended(p, "cancelled", FALSE)) /\ call' = call
      BY <1>7, <2>3 DEF RunOp
    <3> QED
      BY <1>5, <3>1
  <2>4. CASE op = "activate_release" /\ p \notin cancelled /\ Ran(p, op)
    <3>1. Move(p, Ended(p, "succeeded", TRUE)) /\ call' = call
      BY <1>7, <2>4 DEF RunOp
    <3> QED
      BY <1>5, <3>1
  <2>5. CASE op # "activate_release" /\ SkipsOp(p, op)
    <3>1. Move(p, [e EXCEPT !.k = k + 1]) /\ call' = call
      BY <1>7, <2>5 DEF RunOp
    <3>2. k + 1 \in Nat \ {0} /\ k + 1 > k
      BY <1>2
    <3>3. Kept(e, e)
      BY DEF Kept
    <3> QED
      BY <1>1, <1>4, <3>1, <3>2, <3>3, AgainStep
  <2>6. CASE ~SkipsOp(p, op) /\ ~(op = "activate_release" /\ p \in cancelled)
    <3> DEFINE r == To(p, "op")
    <3>1. ~Ran(p, op)
      BY <2>6 DEF SkipsOp
    <3>2. Move(p, r) /\ Send(p, op)
      BY <1>7, <2>6, <3>1 DEF RunOp
    <3>3. r \in TaskRow /\ r.at = "op" /\ Kept(r, e)
      BY <1>1, ToRow DEF Places
    <3> HIDE DEF r
    <3>4. kind # "db.upgrade" => ~LoggedOp(Cur(p), op)
      <4>1. kind # "db.upgrade" => Known(e, Cur(p), op)
        BY <1>1, <2>1 DEF TaskOk, OpsKnown
      <4> QED
        BY <3>1, <4>1 DEF Known, Ran
    <3>5. TaskOk(p, r, op)
      BY <1>1, <2>1, <3>3, SentOk
    <3>6. r.i = e.i
      BY <3>3 DEF Kept
    <3> HIDE DEF op
    <3> QED
      BY <1>1, <1>3, <2>2, <3>2, <3>3, <3>4, <3>5, <3>6, SendMove DEF Move
  <2> QED
    BY <2>3, <2>4, <2>5, <2>6 DEF SkipsOp
<1> QED
  BY <1>6, <1>7

\* The answer to an op of run_ops.
LEMMA OpsAnswerStep == ASSUME LedgerInv, ExecInv, NEW p \in Plans, OpsAnswer(p) PROVE ExecInv'
<1>1. ex[p].at = "op" /\ Kind(Cur(p)) # "deploy"
  BY DEF OpsAnswer, Answered
<1>2. /\ ex[p] \in TaskRow /\ ExecType /\ p \in Admitted /\ TaskOk(p, ex[p], CallOp(p))
      /\ Cur(p) = <<p, ex[p].i>> /\ Cur(p) \in Steps /\ Looping(ex[p])
  BY <1>1, OperatingFacts
<1>3. Withdrawn(p)
  BY <1>2 DEF OpsAnswer, boot, Withdrawn
<1>4. CASE Answer(p) = "ok"
  <2> DEFINE f == To(p, "ready")
             n == ex[p].k + 1
  <2>1. f \in TaskRow /\ f.at = "ready" /\ Kept(f, ex[p])
    BY <1>2, ToRow DEF Places
  <2>2. f.k = ex[p].k /\ n \in Nat \ {0} /\ n > ex[p].k
    BY <1>2, <2>1 DEF Kept, TaskRow
  <2>3. Move(p, [f EXCEPT !.k = f.k + 1])
    BY <1>4 DEF OpsAnswer
  <2>4. CallOp(p) \notin Recovery
    BY <1>1, <1>2, OpsOfNames DEF TaskOk, ActionOf
  <2> HIDE DEF f, n
  <2>5. Move(p, [f EXCEPT !.k = n])
    BY <2>2, <2>3 DEF n
  <2> QED
    BY <1>1, <1>3, <2>1, <2>2, <2>4, <2>5, AgainStep
<1>5. CASE Answer(p) # "ok"
  <2>1. Move(p, Ended(p, "failed", FALSE)) /\ "failed" \in Outcomes \ {"expired"}
    BY <1>5 DEF OpsAnswer, Outcomes
  <2> QED
    BY <1>2, <1>3, <2>1, EndedStep
<1> QED
  BY <1>4, <1>5

\* The answer to an op of run_deploy.
LEMMA DeployAnswerStep == ASSUME LedgerInv, ExecInv, NEW p \in Plans, DeployAnswer(p) PROVE ExecInv'
<1> DEFINE e == ex[p]
           op == call[Cur(p)].op
           a == Answer(p)
           active == e.k > 2
           f == To(p, "ready")
<1>1. e.at = "op" /\ Kind(Cur(p)) = "deploy"
  BY DEF DeployAnswer, Answered
<1>2. /\ e \in TaskRow /\ ExecType /\ p \in Admitted /\ TaskOk(p, e, CallOp(p)) /\ CallOp(p) = op
      /\ Cur(p) = <<p, e.i>> /\ Cur(p) \in Steps /\ Looping(e) /\ Kind(Cur(p)) \notin DefinitionKinds
      /\ exec_of(Kind(Cur(p))) = "Ops"
  BY <1>1, OperatingFacts
<1>3. e.k \in Nat \ {0} /\ e.activated \in BOOLEAN /\ active \in BOOLEAN
  BY <1>2 DEF TaskRow
<1>4. Withdrawn(p)
  BY <1>2 DEF DeployAnswer, boot, Withdrawn
<1>5. \/ op \in Recovery
      \/ e.k = 1 /\ op = "prepare_release"
      \/ e.k = 2 /\ op = "verify_health"
      \/ e.k = 3 /\ op = "activate_release"
      \/ e.k = 4 /\ op = "prune_releases"
  BY <1>1, <1>2 DEF TaskOk, ActionOf, OpsOf
<1>6. ASSUME NEW out \in {"succeeded", "failed", "rolled_back", "cancelled"}, NEW b \in BOOLEAN,
             Move(p, Ended(p, out, b))
      PROVE  ExecInv'
  <2>1. out \in Outcomes \ {"expired"}
    BY DEF Outcomes
  <2> QED
    BY <1>2, <1>4, <1>6, <2>1, EndedStep
<1>7. f \in TaskRow /\ f.at = "ready" /\ Kept(f, e) /\ f.k = e.k
  BY <1>2, ToRow DEF Places, Kept
<1>8. ASSUME op \notin Recovery, NEW n \in Nat \ {0}, n > e.k, Move(p, [f EXCEPT !.k = n])
      PROVE  ExecInv'
  <2> HIDE DEF f
  <2> QED
    BY <1>1, <1>2, <1>4, <1>7, <1>8, AgainStep
<1>9. CASE op \in Recovery
  <2> DEFINE out == IF a = "ok" /\ op = "rollback_release" THEN "rolled_back" ELSE "failed"
  <2>1. Move(p, Ended(p, out, e.activated)) \/ Move(p, Ended(p, "rolled_back", active))
    <3>1. op \in {"rollback_release", "cleanup_candidate"}
      BY <1>9 DEF Recovery
    <3> QED
      BY <3>1 DEF DeployAnswer
  <2>2. out \in {"rolled_back", "failed"}
    OBVIOUS
  <2> HIDE DEF out, active
  <2> QED
    BY <1>3, <1>6, <2>1, <2>2
<1>10. CASE op = "prune_releases"
  <2>1. Move(p, Ended(p, "succeeded", TRUE)) \/ Move(p, Ended(p, "rolled_back", active))
    BY <1>10 DEF DeployAnswer
  <2> HIDE DEF active
  <2> QED
    BY <1>3, <1>6, <2>1
<1>11. CASE op \in {"prepare_release", "verify_health"} /\ a = "ok"
  <2> DEFINE n == IF p \in cancelled THEN 3 ELSE f.k + 1
  <2>1. Move(p, [f EXCEPT !.k = n])
    BY <1>11 DEF DeployAnswer
  <2>2. n \in Nat \ {0} /\ n > e.k
    BY <1>3, <1>5, <1>7, <1>11 DEF Recovery
  <2>3. op \notin Recovery
    BY <1>11 DEF Recovery
  <2> HIDE DEF n
  <2> QED
    BY <1>8, <2>1, <2>2, <2>3
<1>12. CASE op = "activate_release" /\ a = "ok"
  <2>1. Move(p, [f EXCEPT !.k = 4])
    BY <1>12 DEF DeployAnswer
  <2>2. 4 \in Nat \ {0} /\ 4 > e.k /\ op \notin Recovery
    BY <1>5, <1>12 DEF Recovery
  <2> QED
    BY <1>8, <2>1, <2>2
<1>13. ASSUME op \in {"prepare_release", "verify_health", "activate_release"}, a # "ok" PROVE ExecInv'
  <2>1. op \notin Recovery
    BY <1>13 DEF Recovery
  <2>2. CASE a = "rolled_back"
    <3>1. Move(p, Ended(p, "rolled_back", active))
      BY <1>13, <2>2 DEF DeployAnswer
    <3> HIDE DEF active
    <3> QED
      BY <1>3, <1>6, <3>1
  <2>3. CASE op = "prepare_release" /\ a = "refused"
    <3>1. Move(p, Ended(p, IF p \in cancelled THEN "cancelled" ELSE "failed", FALSE))
      BY <1>13, <2>3 DEF DeployAnswer
    <3> QED
      BY <1>6, <3>1
  <2>4. CASE a # "rolled_back" /\ ~(op = "prepare_release" /\ a = "refused")
    <3> DEFINE b == op # "prepare_release" \/ a = "timeout"
               g == To(p, "recover")
               r == [g EXCEPT !.restorable = b, !.activated = active]
    <3>1. Move(p, r)
      BY <1>13, <2>4 DEF DeployAnswer, Recover
    <3>2. g \in TaskRow /\ g.at = "recover" /\ Kept(g, e)
      BY <1>2, ToRow DEF Places
    <3>3. b \in BOOLEAN /\ active \in BOOLEAN
      OBVIOUS
    <3> HIDE DEF g, b, active
    <3>4. r \in TaskRow /\ r.at = "recover" /\ Kept(r, g)
      BY <3>2, <3>3 DEF TaskRow, Kept
    <3> HIDE DEF r
    <3>5. r.i = e.i /\ r.snap = e.snap /\ r.todo = e.todo
      BY <3>2, <3>4 DEF Kept
    <3>6. \A v \in e.todo : v[1] \in Admitted
      BY <1>2 DEF TaskOk, OutcomeOf
    <3>7. \A o \in Recovery : ~LoggedOp(Cur(p), o)
      BY <1>1, <1>2, <2>1 DEF TaskOk, OpsKnown
    <3>8. TaskOk(p, r, "")
      BY <1>1, <1>2, <3>4, <3>5, <3>6, <3>7, OperatingOk
    <3> QED
      BY <1>4, <3>1, <3>4, <3>8, QuietStep
  <2> QED
    BY <2>2, <2>3, <2>4
<1> QED
  BY <1>5, <1>9, <1>10, <1>11, <1>12, <1>13

\* The recovery of a deploy.
LEMMA RunRecoveryStep == ASSUME LedgerInv, ExecInv, NEW p \in Plans, RunRecovery(p) PROVE ExecInv'
<1> DEFINE e == ex[p]
<1>1. /\ e \in TaskRow /\ ExecType /\ p \in Admitted /\ TaskOk(p, e, CallOp(p)) /\ e.at = "recover"
      /\ Cur(p) = <<p, e.i>> /\ Cur(p) \in Steps /\ Looping(e) /\ Kind(Cur(p)) \notin DefinitionKinds
  BY OperatingFacts DEF RunRecovery
<1>2. UNCHANGED <<vars, busy, booting, resume>>
  BY DEF RunRecovery, boot
<1>3. CASE ~e.activated /\ p \in cancelled
  <2>1. Move(p, Ended(p, "cancelled", FALSE)) /\ call' = call /\ "cancelled" \in Outcomes \ {"expired"}
    BY <1>3 DEF RunRecovery, Outcomes
  <2>2. Withdrawn(p)
    BY <1>1, <1>2, <2>1 DEF Withdrawn
  <2> QED
    BY <1>1, <2>1, <2>2, EndedStep
<1>4. CASE ~(~e.activated /\ p \in cancelled)
  <2> DEFINE op == IF e.restorable /\ has_previous_release(p) THEN "rollback_release"
                   ELSE "cleanup_candidate"
             r == To(p, "op")
  <2>1. Move(p, r) /\ Send(p, op)
    BY <1>4 DEF RunRecovery
  <2>2. r \in TaskRow /\ r.at = "op" /\ Kept(r, e)
    BY <1>1, ToRow DEF Places
  <2>3. op \in Recovery /\ op \in Ops
    BY ExecutorAssumption DEF Recovery, OpNames
  <2> HIDE DEF r, op
  <2>4. TaskOk(p, r, op)
    BY <1>1, <2>2, <2>3, SentOk
  <2>5. ~LoggedOp(Cur(p), op)
    BY <1>1, <2>3 DEF TaskOk, OpsKnown, ActionOf
  <2>6. r.i = e.i
    BY <2>2 DEF Kept
  <2> QED
    BY <1>1, <1>2, <2>1, <2>2, <2>3, <2>4, <2>5, <2>6, SendMove DEF Move
<1> QED
  BY <1>3, <1>4

\* The answer to an op of run_cancel.
LEMMA CancelAnswerStep == ASSUME LedgerInv, ExecInv, NEW p \in Plans, CancelAnswer(p) PROVE ExecInv'
<1> DEFINE e == ex[p]
           op == call[Cur(p)].op
           stands == act[Cur(p)].done /\ act[Cur(p)].outcome = "succeeded"
<1>1. e.at = "op" /\ Kind(Cur(p)) = "operation.cancel"
  BY DEF CancelAnswer, Answered
<1>2. /\ e \in TaskRow /\ ExecType /\ p \in Admitted /\ TaskOk(p, e, CallOp(p)) /\ CallOp(p) = op
      /\ Cur(p) = <<p, e.i>> /\ Cur(p) \in Steps /\ Looping(e) /\ exec_of(Kind(Cur(p))) = "Ops"
  BY <1>1, OperatingFacts
<1>3. Withdrawn(p)
  BY <1>2 DEF CancelAnswer, boot, Withdrawn
<1>4. CASE op = "cancel_running" \/ Answer(p) = "ok"
  <2> DEFINE f == To(p, "ready")
             n == e.k + 1
  <2>1. f \in TaskRow /\ f.at = "ready" /\ Kept(f, e)
    BY <1>2, ToRow DEF Places
  <2>2. f.k = e.k /\ n \in Nat \ {0} /\ n > e.k
    BY <1>2, <2>1 DEF Kept, TaskRow
  <2>3. Move(p, [f EXCEPT !.k = f.k + 1])
    BY <1>4 DEF CancelAnswer
  <2>4. CallOp(p) \notin Recovery
    BY <1>1, <1>2, OpsOfNames DEF TaskOk, ActionOf
  <2> HIDE DEF f, n
  <2>5. Move(p, [f EXCEPT !.k = n])
    BY <2>2, <2>3 DEF n
  <2> QED
    BY <1>1, <1>3, <2>1, <2>2, <2>4, <2>5, AgainStep
<1>5. CASE ~(op = "cancel_running" \/ Answer(p) = "ok") /\ stands
  <2> DEFINE r == To(p, "victims")
  <2>1. Move(p, r)
    BY <1>5 DEF CancelAnswer
  <2>2. r \in TaskRow /\ r.at = "victims" /\ Kept(r, e)
    BY <1>2, ToRow DEF Places
  <2>3. \A v \in e.todo : v[1] \in Admitted
    BY <1>2 DEF TaskOk, OutcomeOf
  <2> HIDE DEF r
  <2>4. TaskOk(p, r, "")
    BY <1>2, <2>2, <2>3, OperatingOk DEF Kept
  <2> QED
    BY <1>3, <2>1, <2>2, <2>4, QuietStep
<1>6. CASE ~(op = "cancel_running" \/ Answer(p) = "ok") /\ ~stands
  <2>1. Move(p, Ended(p, "failed", FALSE)) /\ "failed" \in Outcomes \ {"expired"}
    BY <1>6 DEF CancelAnswer, Outcomes
  <2> QED
    BY <1>2, <1>3, <2>1, EndedStep
<1> QED
  BY <1>4, <1>5, <1>6

\* The rows of the cancelled plan.
LEMMA VictimsStep == ASSUME LedgerInv, ExecInv, NEW p \in Plans, Victims(p) PROVE ExecInv'
<1> DEFINE e == ex[p]
           todo == {v \in StepsOf(Target[p]) : ~act[v].done /\ ~LoggedOp(v, "activate_release")}
           f == To(p, "closing")
           r == [f EXCEPT !.todo = todo]
<1>1. /\ e \in TaskRow /\ ExecType /\ p \in Admitted /\ TaskOk(p, e, CallOp(p)) /\ e.at = "victims"
      /\ Cur(p) = <<p, e.i>> /\ Cur(p) \in Steps /\ Looping(e) /\ exec_of(Kind(Cur(p))) = "Ops"
  BY OperatingFacts DEF Victims
<1>2. Withdrawn(p) /\ Move(p, r)
  BY <1>1 DEF Victims, wire, boot, Withdrawn
<1>3. f \in TaskRow /\ f.at = "closing" /\ Kept(f, e)
  BY <1>1, ToRow DEF Places
<1>4. todo \in SUBSET Steps /\ \A v \in todo : v[1] \in Admitted
  <2>1. \A v \in Steps : v[1] \in Plans
    BY StepParts DEF LedgerInv, LedgerType
  <2>2. Target[p] # NoPlan => Target[p] \in Admitted
    BY <1>1 DEF ExecInv, TasksAdmitted
  <2> QED
    BY <2>1, <2>2, LedgerAssumption DEF StepsOf
<1> HIDE DEF f, todo
<1>5. r \in TaskRow /\ r.at = "closing" /\ r.i = e.i /\ r.snap = e.snap /\ r.todo = todo
  BY <1>3, <1>4, FieldRow DEF Kept
<1> HIDE DEF r
<1>6. TaskOk(p, r, "")
  BY <1>1, <1>4, <1>5, OperatingOk
<1> QED
  BY <1>2, <1>5, <1>6, QuietStep

\* One of them is recorded, or all were.
LEMMA CloseVictimStep == ASSUME LedgerInv, ExecInv, NEW p \in Plans, CloseVictim(p) PROVE ExecInv'
<1> DEFINE e == ex[p]
<1>1. /\ e \in TaskRow /\ ExecType /\ p \in Admitted /\ TaskOk(p, e, CallOp(p)) /\ e.at = "closing"
      /\ Cur(p) = <<p, e.i>> /\ Cur(p) \in Steps /\ Looping(e) /\ exec_of(Kind(Cur(p))) = "Ops"
      /\ Kind(Cur(p)) \notin DefinitionKinds
  BY OperatingFacts DEF CloseVictim
<1>2. Withdrawn(p)
  BY <1>1 DEF CloseVictim, wire, boot, Withdrawn
<1>3. CASE e.todo = {}
  <2>1. Move(p, Ended(p, "succeeded", FALSE)) /\ "succeeded" \in Outcomes \ {"expired"}
    BY <1>3 DEF CloseVictim, Outcomes
  <2> QED
    BY <1>1, <1>2, <2>1, EndedStep
<1>4. CASE e.todo # {}
  <2>1. PICK v \in e.todo : Move(p, [Completing(p, v, "cancelled", "closing") EXCEPT !.todo = @ \ {v}])
    BY <1>4 DEF CloseVictim
  <2>2. v \in Steps /\ v[1] \in Admitted /\ e.todo \subseteq Steps
        /\ \A w \in e.todo : w[1] \in Admitted
    BY <1>1 DEF TaskOk, OutcomeOf, TaskRow
  <2> DEFINE f == Completing(p, v, "cancelled", "closing")
             todo == e.todo \ {v}
             r == [f EXCEPT !.todo = todo]
  <2>3. /\ f \in TaskRow /\ f.at = "complete" /\ f.out = "cancelled" /\ f.step = v /\ f.ret = "closing"
        /\ f.i = e.i /\ f.snap = e.snap /\ f.todo = e.todo
    <3>1. "cancelled" \in EndNames /\ "closing" \in Returns
      BY DEF EndNames, Outcomes, Returns
    <3> QED
      BY <1>1, <2>2, <3>1, CompletingRow
  <2>4. todo \in SUBSET Steps /\ \A w \in todo : w[1] \in Admitted
    BY <2>2
  <2>5. Move(p, r)
    BY <2>1, <2>3
  <2> HIDE DEF f, todo
  <2>6. /\ r \in TaskRow /\ r.at = "complete" /\ r.out = "cancelled" /\ r.step = v
        /\ r.ret = "closing" /\ r.i = e.i /\ r.snap = e.snap /\ r.todo = todo
    BY <2>3, <2>4, FieldRow
  <2> HIDE DEF r
  <2>7. TaskOk(p, r, "")
    <3>1. ActionOf(p, r, "")
      BY <1>1, <2>6 DEF ActionOf, Acting, Operating, InAction, Finishing
    <3>2. OutcomeOf(p, r)
      BY <2>2, <2>4, <2>6 DEF OutcomeOf, Finishing, Outcomes
    <3>3. ConsumedKnown(p, r)
      BY <1>1, <2>6 DEF ConsumedKnown, Looping, Caught, InAction, Finishing, TaskOk
    <3>4. OpsKnown(p, r, "")
      BY <1>1, <2>6 DEF OpsKnown, Known, Looping, InAction, Finishing, TaskOk
    <3> QED
      BY <3>1, <3>2, <3>3, <3>4 DEF TaskOk
  <2> QED
    BY <1>2, <2>5, <2>6, <2>7, QuietStep
<1> QED
  BY <1>3, <1>4

\* A task that is through with its loop, the log read to its end.
LEMMA ThroughOk ==
  ASSUME NEW p \in Plans, NEW e \in TaskRow, NEW c, TaskOk(p, e, c), NEW r \in TaskRow,
         r.at \in {"compose", "exit", "idle"}, \A v \in r.todo : v[1] \in Admitted,
         Caught(e) \/ (LedgerInv /\ Reconciled)
  PROVE  TaskOk(p, r, "")
<1>1. ActionOf(p, r, "") /\ OutcomeOf(p, r) /\ OpsKnown(p, r, "")
  BY DEF ActionOf, OutcomeOf, OpsKnown, Acting, Operating, Looping, InAction, Finishing
<1>2. \A k \in 1..Len(log) : log[k].event = "consumed" /\ log[k].step[1] = p => k <= cursor
  BY DEF TaskOk, ConsumedKnown, Reconciled, LedgerInv, LedgerType
<1>3. ConsumedKnown(p, r)
  BY <1>2 DEF ConsumedKnown, Looping, InAction, Finishing
<1> QED
  BY <1>1, <1>3 DEF TaskOk

\* It leaves, or goes through the inputs.
LEMMA ThroughStep ==
  ASSUME LedgerInv, ExecInv, NEW p \in Plans, Withdrawn(p), NEW at \in {"compose", "exit"},
         Move(p, To(p, at)), Caught(ex[p]) \/ Reconciled
  PROVE  ExecInv'
<1> DEFINE r == To(p, at)
<1>1. /\ ex[p] \in TaskRow /\ ExecType /\ TaskOk(p, ex[p], CallOp(p))
      /\ \A v \in ex[p].todo : v[1] \in Admitted
  BY TaskFacts DEF TaskOk, OutcomeOf
<1>2. r \in TaskRow /\ r.at = at /\ Kept(r, ex[p])
  BY <1>1, ToRow DEF Places
<1> HIDE DEF r
<1>3. TaskOk(p, r, "")
  BY <1>1, <1>2, ThroughOk DEF Kept
<1> QED
  BY <1>2, <1>3, QuietStep DEF r

\* The outcome of an action.
LEMMA OutcomeStep == ASSUME LedgerInv, ExecInv, NEW p \in Plans, Outcome(p) PROVE ExecInv'
<1> DEFINE s == Cur(p)
           e == ex[p]
           bad == e.out # "succeeded"
<1>1. /\ e \in TaskRow /\ ExecType /\ p \in Admitted /\ TaskOk(p, e, CallOp(p)) /\ e.at = "outcome"
      /\ s = <<p, e.i>>
  BY TaskFacts DEF Outcome
<1>2. s \in Steps /\ Looping(e) /\ e.failed \in BOOLEAN
  BY <1>1, TaskFacts DEF InAction, TaskRow
<1>3. Withdrawn(p)
  BY <1>1 DEF Outcome, wire, boot, Withdrawn
<1>4. CASE Kind(s) = "db.upgrade" /\ bad
  <2>1. CASE act[s].done
    <3> DEFINE f == e.failed \/ act[s].outcome # "succeeded"
    <3>1. Move(p, NextAction(p, f))
      BY <1>4, <2>1 DEF Outcome
    <3>2. f \in BOOLEAN
      OBVIOUS
    <3> HIDE DEF f
    <3> QED
      BY <1>2, <1>3, <3>1, <3>2, NextStep
  <2>2. CASE ~act[s].done
    <3>1. Move(p, To(p, "exit")) /\ Reconciled
      BY <1>4, <2>2 DEF Outcome
    <3> QED
      BY <1>3, <3>1, ThroughStep
  <2> QED
    BY <2>1, <2>2
<1>5. CASE ~(Kind(s) = "db.upgrade" /\ bad) /\ p \in cancelled /\ ~e.activated
  <2>1. Move(p, To(p, "tail"))
    BY <1>5 DEF Outcome
  <2> QED
    BY <1>3, <2>1, TailStep
<1>6. CASE ~(Kind(s) = "db.upgrade" /\ bad) /\ ~(p \in cancelled /\ ~e.activated)
  <2> DEFINE f == Completing(p, s, e.out, "loop")
             b == f.failed \/ bad
             r == [f EXCEPT !.failed = b]
  <2>1. Move(p, r)
    BY <1>6 DEF Outcome
  <2>2. /\ e.out \in Outcomes \ {"expired"} /\ e.out \in EndNames /\ "loop" \in Returns
        /\ e.out = "succeeded" => Kind(s) \notin DefinitionKinds
    BY <1>1 DEF TaskOk, OutcomeOf, Outcomes, Returns, EndNames
  <2>3. /\ f \in TaskRow /\ f.at = "complete" /\ f.out = e.out /\ f.step = s /\ f.ret = "loop"
        /\ f.i = e.i /\ f.snap = e.snap /\ f.todo = e.todo
    <3> DEFINE o == e.out
    <3>1. o \in EndNames /\ "loop" \in Returns
      BY <2>2
    <3> QED
      BY <1>1, <1>2, <3>1, CompletingRow
  <2>4. b \in BOOLEAN
    OBVIOUS
  <2> HIDE DEF f, b
  <2>5. r \in TaskRow /\ r.at = "complete" /\ Kept(r, f)
    BY <2>3, <2>4, FieldRow
  <2> HIDE DEF r
  <2>6. /\ r.out = e.out /\ r.step = s /\ r.ret = "loop" /\ r.i = e.i /\ r.snap = e.snap
        /\ r.todo = e.todo
    BY <2>3, <2>5 DEF Kept
  <2>7. TaskOk(p, r, "")
    BY <1>1, <1>2, <2>2, <2>5, <2>6, CompletingOk
  <2> QED
    BY <1>3, <2>1, <2>5, <2>7, QuietStep
<1> QED
  BY <1>4, <1>5, <1>6

\* complete goes on.
LEMMA FinishingOk ==
  ASSUME NEW p \in Plans, NEW e \in TaskRow, NEW c, TaskOk(p, e, c), NEW r \in TaskRow, Kept(r, e),
         (e.at = "complete" /\ r.at = "record") \/ (e.at = "record" /\ r.at = "release")
  PROVE  TaskOk(p, r, "")
<1>1. ActionOf(p, r, "")
  BY DEF ActionOf, Acting, Operating, InAction, Finishing, TaskOk, Kept
<1>2. OutcomeOf(p, r)
  BY DEF OutcomeOf, Finishing, TaskOk, Kept
<1>3. ConsumedKnown(p, r)
  BY DEF ConsumedKnown, Looping, Caught, InAction, Finishing, TaskOk, Kept
<1>4. OpsKnown(p, r, "")
  BY DEF OpsKnown, Known, Looping, InAction, Finishing, TaskOk, Kept
<1> QED
  BY <1>1, <1>2, <1>3, <1>4 DEF TaskOk

\* complete: the log is read,
LEMMA CompleteReconcileStep ==
  ASSUME LedgerInv, ExecInv, NEW p \in Plans, CompleteReconcile(p) PROVE ExecInv'
<1> DEFINE r == To(p, "record")
<1>1. /\ ex[p] \in TaskRow /\ ExecType /\ p \in Admitted /\ ex[p].at = "complete"
      /\ TaskOk(p, ex[p], CallOp(p))
  BY TaskFacts DEF CompleteReconcile
<1>2. Withdrawn(p) /\ Move(p, r)
  BY <1>1 DEF CompleteReconcile, wire, boot, Withdrawn
<1>3. r \in TaskRow /\ r.at = "record" /\ Kept(r, ex[p])
  BY <1>1, ToRow DEF Places
<1> HIDE DEF r
<1>4. TaskOk(p, r, "")
  BY <1>1, <1>3, FinishingOk
<1> QED
  BY <1>2, <1>3, <1>4, QuietStep

\* the outcome is recorded,
LEMMA CompleteRecordStep ==
  ASSUME LedgerInv, ExecInv, NEW p \in Plans, CompleteRecord(p)
  PROVE  ExecInv' /\ FinishAction(ex[p].step)
<1> DEFINE e == ex[p]
           s == e.step
           recorded == ~act[s].done
           f == To(p, "release")
           r == [f EXCEPT !.recorded = recorded]
           u == finish_action(tables, s, e.out)
<1>1. /\ e \in TaskRow /\ ExecType /\ p \in Admitted /\ e.at = "record"
      /\ TaskOk(p, e, CallOp(p))
  BY TaskFacts DEF CompleteRecord
<1>2. /\ s \in Steps /\ s[1] \in Admitted /\ e.out \in Outcomes
      /\ e.out = "succeeded" => Kind(s) \notin DefinitionKinds
      /\ e.out = "expired" => s = <<p, e.i>> /\ now > adm[p].at + Window /\ ~Logged("consumed", s)
  BY <1>1 DEF TaskOk, OutcomeOf
<1>3. /\ Commit(u) /\ Move(p, r) /\ UNCHANGED <<load, now, heads, log, cursor, busy, booting, resume, call>>
  BY DEF CompleteRecord, wire, boot
<1>4. e.out \in AgentOutcomes(s)
  <2>1. e.out = "expired" => now > adm[s[1]].at + Window
    BY <1>2
  <2>2. e.out = "expired" => act[s].consumed = 0
    <3> SUFFICES ASSUME e.out = "expired", act[s].consumed # 0 PROVE FALSE
      OBVIOUS
    <3>1. act[s].consumed \in 1..Len(log)
      BY <1>2 DEF LedgerInv, LedgerType, LogWins, ActRow
    <3>2. log[act[s].consumed].event = "consumed" /\ log[act[s].consumed].step = s
      BY <1>2 DEF LedgerInv, LogWins
    <3> QED
      BY <1>2, <3>1, <3>2 DEF Logged
  <2> QED
    BY <1>2, <2>1, <2>2, ExecutorAssumption DEF AgentOutcomes
<1>5. FinishAction(s)
  BY <1>2, <1>3, <1>4 DEF FinishAction
<1>6. LedgerInv'
  BY <1>2, <1>3, FinishStep
<1>7. Steady
  <2>1. tables \in Tables /\ load \in Loads
    BY TablesType DEF LedgerInv, LedgerType
  <2>2. Settles(tables, u, s)
    BY <1>2, <2>1, FinishActionEffect
  <2>3. Admitted' = Admitted
    BY <1>2, <1>3, <2>2, SettleStep
  <2>4. \A q \in Plans : adm'[q].at = adm[q].at
    BY <1>3, <2>2 DEF Settles, Commit, tables
  <2> QED
    BY <1>3, <2>3, <2>4 DEF Steady
<1>8. f \in TaskRow /\ f.at = "release" /\ Kept(f, e)
  BY <1>1, ToRow DEF Places
<1>9. recorded \in BOOLEAN
  OBVIOUS
<1> HIDE DEF f, recorded
<1>10. r \in TaskRow /\ r.at = "release" /\ Kept(r, f)
  BY <1>8, <1>9, FieldRow
<1> HIDE DEF r
<1>11. Kept(r, e)
  BY <1>8, <1>10 DEF Kept
<1>12. TaskOk(p, r, "")
  BY <1>1, <1>10, <1>11, FinishingOk
<1>13. \A x \in Steps : x[1] = p => call'[x] = NoCall
  BY <1>1, <1>3 DEF ExecInv, CallsOwned
<1>14. NoCall.op = "" /\ NoCall.st = "none"
  BY DEF NoCall
<1>15. "" = IF <<p, r.i>> \in Steps THEN call'[<<p, r.i>>].op ELSE ""
  BY <1>13, <1>14
<1>16. \A x \in Steps : x[1] = p =>
        /\ call'[x] # NoCall => r.at \in {"bind", "op"} /\ x = <<p, r.i>>
        /\ call'[x].st = "sent" /\ call'[x].op # "bind_plan" /\ Kind(x) # "db.upgrade" =>
             ~LoggedOp(x, call'[x].op)
  BY <1>13, <1>14
<1>17. call' \in [Steps -> CallRow] /\ \A x \in Steps : x[1] # p => call'[x] = call[x]
  BY <1>1, <1>3 DEF ExecType
<1>18. ex' = [ex EXCEPT ![p] = r] /\ UNCHANGED <<busy, booting, resume>>
  BY <1>3 DEF Move
<1>19. ExecInv'
  BY <1>1, <1>6, <1>7, <1>10, <1>12, <1>15, <1>16, <1>17, <1>18, MoveStep
<1> QED
  BY <1>5, <1>19

\* the hold ends.
LEMMA CompleteReleaseStep ==
  ASSUME LedgerInv, ExecInv, NEW p \in Plans, CompleteRelease(p) PROVE ExecInv'
<1> DEFINE e == ex[p]
<1>1. /\ e \in TaskRow /\ ExecType /\ p \in Admitted /\ e.at = "release"
      /\ TaskOk(p, e, CallOp(p)) /\ e.failed \in BOOLEAN
  BY TaskFacts DEF CompleteRelease, TaskRow
<1>2. Withdrawn(p)
  BY <1>1 DEF CompleteRelease, wire, boot, Withdrawn
<1>3. e.ret \in {"loop", "closing", "compose"} /\ e.at \in Finishing
  BY <1>1 DEF TaskOk, OutcomeOf, TaskRow, Returns, Finishing
<1>4. CASE e.ret = "loop"
  <2>1. Move(p, NextAction(p, e.failed)) /\ Looping(e)
    BY <1>3, <1>4 DEF CompleteRelease, Looping
  <2> QED
    BY <1>1, <1>2, <2>1, NextStep
<1>5. CASE e.ret = "closing"
  <2> DEFINE r == To(p, "closing")
  <2>1. Move(p, r)
    BY <1>5 DEF CompleteRelease
  <2>2. r \in TaskRow /\ r.at = "closing" /\ Kept(r, e)
    BY <1>1, ToRow DEF Places
  <2>3. <<p, e.i>> \in Steps /\ exec_of(Kind(<<p, e.i>>)) = "Ops" /\ Looping(e)
    BY <1>1, <1>3, <1>5 DEF TaskOk, ActionOf, Acting, Operating, Looping
  <2>4. \A v \in e.todo : v[1] \in Admitted
    BY <1>1 DEF TaskOk, OutcomeOf
  <2> HIDE DEF r
  <2>5. TaskOk(p, r, "")
    BY <1>1, <2>2, <2>3, <2>4, OperatingOk DEF Kept
  <2> QED
    BY <1>2, <2>1, <2>2, <2>5, QuietStep
<1>6. CASE e.ret = "compose"
  <2>1. Move(p, To(p, "compose")) /\ Caught(e)
    BY <1>3, <1>6 DEF CompleteRelease, Caught
  <2> QED
    BY <1>2, <2>1, ThroughStep
<1> QED
  BY <1>3, <1>4, <1>5, <1>6

\* After the loop the log is read to its end.
LEMMA AfterLoopStep == ASSUME LedgerInv, ExecInv, NEW p \in Plans, AfterLoop(p) PROVE ExecInv'
<1>1. ex[p].at = "tail" /\ Reconciled /\ p \in Admitted
  BY TaskFacts DEF AfterLoop
<1>2. Withdrawn(p)
  BY <1>1 DEF AfterLoop, wire, boot, Withdrawn
<1>3. PICK at \in {"compose", "exit"} : Move(p, To(p, at))
  BY DEF AfterLoop
<1> QED
  BY <1>1, <1>2, <1>3, ThroughStep

\* The inputs take the outcome of the plan.
LEMMA ComposeStep == ASSUME LedgerInv, ExecInv, NEW p \in Plans, Compose(p) PROVE ExecInv'
<1> DEFINE e == ex[p]
           composed == IF e.failed THEN "failed" ELSE "succeeded"
           open == {s \in StepsOf(p) : Kind(s) \in InputKinds /\ ~act[s].done /\ act[s].consumed # 0}
<1>1. /\ e \in TaskRow /\ ExecType /\ p \in Admitted /\ e.at = "compose" /\ TaskOk(p, e, CallOp(p))
      /\ Caught(e)
  BY TaskFacts DEF Compose, Caught
<1>2. Withdrawn(p)
  BY <1>1 DEF Compose, wire, boot, Withdrawn
<1>3. CASE open = {}
  <2>1. Move(p, To(p, "exit"))
    BY <1>3 DEF Compose
  <2> QED
    BY <1>1, <1>2, <2>1, ThroughStep
<1>4. CASE open # {}
  <2>1. PICK s \in open : Move(p, Completing(p, s, composed, "compose"))
    BY <1>4 DEF Compose
  <2>2. s \in Steps /\ s[1] = p /\ Kind(s) \notin DefinitionKinds
    BY <2>1 DEF StepsOf, InputKinds, DefinitionKinds
  <2>3. composed \in EndNames /\ composed \in Outcomes \ {"expired"} /\ "compose" \in Returns
    BY DEF EndNames, Outcomes, Returns
  <2> HIDE DEF composed, open
  <2> DEFINE r == Completing(p, s, composed, "compose")
  <2>4. /\ r \in TaskRow /\ r.at = "complete" /\ r.out = composed /\ r.step = s /\ r.ret = "compose"
        /\ r.i = e.i /\ r.snap = e.snap /\ r.todo = e.todo
    BY <1>1, <2>2, <2>3, CompletingRow
  <2> HIDE DEF r
  <2>5. ActionOf(p, r, "") /\ OpsKnown(p, r, "")
    BY <2>4 DEF ActionOf, OpsKnown, Acting, Operating, Looping, InAction, Finishing
  <2>6. OutcomeOf(p, r)
    BY <1>1, <2>2, <2>3, <2>4 DEF OutcomeOf, Finishing, TaskOk
  <2>7. ConsumedKnown(p, r)
    BY <1>1, <2>4 DEF ConsumedKnown, Looping, Caught, InAction, Finishing, TaskOk
  <2>8. TaskOk(p, r, "")
    BY <2>5, <2>6, <2>7 DEF TaskOk
  <2> QED
    BY <1>2, <2>1, <2>4, <2>8, QuietStep DEF r
<1> QED
  BY <1>3, <1>4

\* The task ends.
LEMMA ExitStep == ASSUME LedgerInv, ExecInv, NEW p \in Plans, Exit(p) PROVE ExecInv'
<1>1. /\ ex[p] \in TaskRow /\ p \in Admitted /\ ex[p].at = "exit" /\ TaskOk(p, ex[p], CallOp(p))
      /\ Caught(ex[p])
  BY TaskFacts DEF Exit, Caught
<1>2. Withdrawn(p) /\ Move(p, Idle)
  BY <1>1 DEF Exit, wire, boot, Withdrawn
<1> DEFINE r == Idle
<1>3. r \in TaskRow /\ r.at = "idle" /\ r.todo = {}
  BY IdleRow
<1> HIDE DEF r
<1>4. TaskOk(p, r, "")
  BY <1>1, <1>3, ThroughOk
<1> QED
  BY <1>2, <1>3, <1>4, QuietStep DEF r

\* Every step of a task keeps the invariant, and it changes the store only
\* where it records an outcome.
LEMMA TaskStep ==
  ASSUME LedgerInv, ExecInv, NEW p \in Plans, Task(p)
  PROVE  ExecInv' /\ (UNCHANGED vars \/ \E s \in Steps : FinishAction(s))
<1>1. CASE CompleteRecord(p)
  <2>1. ex[p].step \in Steps
    BY <1>1, TaskFacts DEF CompleteRecord, TaskOk, OutcomeOf
  <2> QED
    BY <1>1, <2>1, CompleteRecordStep
<1>2. CASE Start(p)
  BY <1>2, StartStep DEF Start
<1>3. CASE Loop(p)
  BY <1>3, LoopStep DEF Loop
<1>4. CASE bind(p)
  BY <1>4, BindStep DEF bind
<1>5. CASE Bound(p)
  BY <1>5, BoundStep DEF Bound
<1>6. CASE RunOp(p)
  BY <1>6, RunOpStep DEF RunOp
<1>7. CASE OpsAnswer(p)
  BY <1>7, OpsAnswerStep DEF OpsAnswer
<1>8. CASE DeployAnswer(p)
  BY <1>8, DeployAnswerStep DEF DeployAnswer
<1>9. CASE RunRecovery(p)
  BY <1>9, RunRecoveryStep DEF RunRecovery
<1>10. CASE CancelAnswer(p)
  BY <1>10, CancelAnswerStep DEF CancelAnswer
<1>11. CASE Victims(p)
  BY <1>11, VictimsStep DEF Victims
<1>12. CASE CloseVictim(p)
  BY <1>12, CloseVictimStep DEF CloseVictim
<1>13. CASE Outcome(p)
  BY <1>13, OutcomeStep DEF Outcome
<1>14. CASE CompleteReconcile(p)
  BY <1>14, CompleteReconcileStep DEF CompleteReconcile
<1>15. CASE CompleteRelease(p)
  BY <1>15, CompleteReleaseStep DEF CompleteRelease
<1>16. CASE AfterLoop(p)
  BY <1>16, AfterLoopStep DEF AfterLoop
<1>17. CASE Compose(p)
  BY <1>17, ComposeStep DEF Compose
<1>18. CASE Exit(p)
  BY <1>18, ExitStep DEF Exit
<1> QED
  BY <1>1, <1>2, <1>3, <1>4, <1>5, <1>6, <1>7, <1>8, <1>9, <1>10, <1>11, <1>12, <1>13, <1>14,
     <1>15, <1>16, <1>17, <1>18 DEF Task

----------------------------------------------------------------------------
(* Steps around the tasks.                                                 *)

\* The types of the rows depend on the plans only.
LEMMA RowFrame == ASSUME load' = load PROVE TaskRow' = TaskRow /\ CallRow' = CallRow /\ Steps' = Steps
  BY Frame DEF TaskRow, CallRow, Snap

\* Nothing of the task of q changes.
LEMMA TaskStands ==
  ASSUME LedgerInv, LedgerInv', ExecInv, NEW q \in Plans, load' = load, Quiescent(q),
         ex'[q] = ex[q], CallOp(q)' = CallOp(q), booting' = booting \/ (booting /\ ex[q].at # "idle")
  PROVE  TaskOk(q, ex[q], CallOp(q))'
<1>1. PICK cc, ee : cc = CallOp(q) /\ ee = ex[q]
  OBVIOUS
<1>2. TaskOk(q, ee, cc) /\ ee \in TaskRow /\ (ee.at # "idle" => q \in Admitted)
  BY <1>1, TaskFacts
<1>3. TaskOk(q, ee, cc)'
  BY <1>1, <1>2, TaskKept
<1>4. ex'[q] = ee /\ CallOp(q)' = cc
  BY <1>1
<1> QED
  BY <1>3, <1>4 DEF TaskOk

\* With the tasks, the calls and the log unchanged the invariant stands.
LEMMA StillStep ==
  ASSUME LedgerInv, LedgerInv', ExecInv, UNCHANGED <<load, log, ex, call, busy, booting, resume>>,
         Admitted' = Admitted, now <= now', cursor <= cursor',
         \A q \in Plans : adm'[q].at = adm[q].at
  PROVE  ExecInv'
<1>1. /\ Steps' = Steps /\ Target' = Target /\ \A s : Kind(s)' = Kind(s)
      /\ \A s, op : LoggedOp(s, op)' = LoggedOp(s, op)
      /\ \A s, event : Logged(event, s)' = Logged(event, s)
  BY Frame DEF Target, LoggedOp, Logged
<1>2. ExecType' /\ TasksAdmitted' /\ CallsOwned'
  BY <1>1 DEF ExecInv, ExecType, TasksAdmitted, CallsOwned, TaskRow, CallRow, Snap, Cur
<1>3. ASSUME NEW q \in Plans PROVE TaskOk(q, ex[q], CallOp(q))'
  <2>1. Quiescent(q)
    BY DEF Quiescent, Logged, LoggedOp, LedgerInv, LedgerType
  <2>2. CallOp(q)' = CallOp(q)
    BY <1>1 DEF CallOp, Cur
  <2> QED
    BY <2>1, <2>2, TaskStands
<1> QED
  BY <1>2, <1>3 DEF ExecInv, TasksOk

\* reconcile_once reads a line.
LEMMA ReconcileLineStep ==
  ASSUME LedgerInv, ExecInv, ReconcileLine PROVE ExecInv' /\ Reconcile
<1>1. Reconcile /\ UNCHANGED <<ex, call, busy, booting, resume>>
  BY DEF ReconcileLine, wire, boot
<1>2. LedgerInv'
  BY <1>1, NextLedger DEF Next
<1>3. UNCHANGED <<load, now, log, heads>> /\ cursor' = cursor + 1 /\ cursor < Len(log)
  BY <1>1 DEF Reconcile
<1>4. cursor \in Nat /\ now \in Nat /\ load \in Loads /\ log \in Seq(Line) /\ tables \in Tables
  BY TablesType DEF LedgerInv, LedgerType
<1>5. Admitted' = Admitted /\ \A q \in Plans : adm'[q].at = adm[q].at
  <2>1. CASE log[cursor + 1].step[1] \notin Admitted
    BY <1>1, <2>1 DEF Reconcile, Admitted
  <2>2. CASE log[cursor + 1].step[1] \in Admitted
    <3> DEFINE line == log[cursor + 1]
               n == cursor + 1
               u == apply_line(tables, line, n)
    <3>1. line \in Line /\ n \in Nat
      <4>1. n \in 1..Len(log)
        BY <1>3, <1>4
      <4> QED
        BY <1>4, <4>1, SeqElement
    <3>2. Commit(u)
      BY <1>1, <2>2 DEF Reconcile
    <3>3. Settles(tables, u, line.step)
      BY <1>4, <3>1, ApplyLineEffect
    <3>4. line.step \in Steps
      BY <3>1 DEF Line
    <3> HIDE DEF u
    <3>5. Admitted' = Admitted
      BY <1>3, <3>2, <3>3, <3>4, SettleStep
    <3>6. \A q \in Plans : adm'[q].at = adm[q].at
      BY <3>2, <3>3 DEF Settles, Commit, tables
    <3> QED
      BY <3>5, <3>6
  <2> QED
    BY <2>1, <2>2
<1>6. now <= now' /\ cursor <= cursor'
  BY <1>3, <1>4
<1> QED
  BY <1>1, <1>2, <1>3, <1>5, <1>6, StillStep

\* The windows end.
LEMMA ExpirePassStep == ASSUME LedgerInv, ExecInv, ExpirePass PROVE ExecInv' /\ ExpireWindows
<1>1. ExpireWindows /\ UNCHANGED <<load, log, now, cursor, ex, call, busy, booting, resume>>
  BY DEF ExpirePass, ExpireWindows, wire, boot
<1>2. LedgerInv'
  BY <1>1, NextLedger DEF Next
<1>3. adm \in [Plans -> AdmRow] /\ cursor \in Nat /\ now \in Nat
  BY DEF LedgerInv, LedgerType
<1>4. \A q \in Plans : adm'[q].at = adm[q].at /\ adm'[q].seq = adm[q].seq
  BY <1>1, <1>3 DEF ExpireWindows, AdmRow
<1>5. Admitted' = Admitted
  BY <1>4 DEF Admitted
<1>6. now <= now' /\ cursor <= cursor'
  BY <1>1, <1>3
<1> QED
  BY <1>1, <1>2, <1>4, <1>5, <1>6, StillStep

\* The clock.
LEMMA ClockStep == ASSUME LedgerInv, ExecInv, Clock PROVE ExecInv' /\ Tick
<1>1. Tick /\ UNCHANGED <<load, adm, log, cursor, ex, call, busy, booting, resume>> /\ now' = now + 1
  BY DEF Clock, Tick, execVars, wire, boot
<1>2. LedgerInv'
  BY <1>1, NextLedger DEF Next
<1>3. Admitted' = Admitted /\ now <= now' /\ cursor <= cursor' /\ \A q \in Plans : adm'[q].at = adm[q].at
  BY <1>1 DEF Admitted, LedgerInv, LedgerType
<1> QED
  BY <1>1, <1>2, <1>3, StillStep

\* A plan is submitted.
LEMMA SubmitStep == ASSUME LedgerInv, ExecInv, NEW p \in Plans, Submit(p) PROVE ExecInv' /\ Admit(p)
<1> DEFINE r == To(p, "queued")
<1>1. /\ Admit(p) /\ ex' = [ex EXCEPT ![p] = r] /\ UNCHANGED <<load, now, log, cursor>>
      /\ UNCHANGED <<call, busy, booting, resume>> /\ p \notin Admitted
      /\ Target[p] # NoPlan => Target[p] \in Admitted
  BY DEF Submit, Admit, Move, wire, boot
<1>2. LedgerInv'
  BY <1>1, NextLedger DEF Next
<1>3. /\ ExecType /\ ex[p] \in TaskRow /\ ex[p].at = "idle" /\ TaskOk(p, ex[p], CallOp(p))
  BY <1>1, TaskFacts
<1>4. r \in TaskRow /\ r.at = "queued" /\ Kept(r, ex[p])
  BY <1>3, ToRow DEF Places
<1> HIDE DEF r
<1>5. ex' \in [Plans -> TaskRow] /\ ex'[p] = r /\ \A q \in Plans \ {p} : ex'[q] = ex[q]
  BY <1>1, <1>3, <1>4 DEF ExecType
<1>6. /\ Steps' = Steps /\ Target' = Target
      /\ \A s : Kind(s)' = Kind(s)
      /\ \A s, op : LoggedOp(s, op)' = LoggedOp(s, op)
      /\ \A s, event : Logged(event, s)' = Logged(event, s)
  BY <1>1, Frame DEF Target, LoggedOp, Logged
<1>7. /\ Admitted' = Admitted \cup {p}
      /\ \A q \in Admitted : adm'[q].at = adm[q].at
  <2>1. LastSeq \in Nat
    BY FS_CardinalityType DEF LedgerInv, SeqsCount, LastSeq
  <2>2. [NoRow EXCEPT !.seq = LastSeq + 1, !.at = now, !.before = heads[Scope[p]]].seq = LastSeq + 1
    BY DEF NoRow
  <2>3. /\ adm'[p].seq = LastSeq + 1
        /\ \A q \in Plans \ {p} : adm'[q] = adm[q]
    BY <1>1, <2>2 DEF Admit, write_admission, LedgerInv, LedgerType
  <2> QED
    BY <1>1, <2>1, <2>3 DEF Admitted
<1>8. ExecType'
  BY <1>1, <1>3, <1>5, RowFrame DEF ExecType
<1>9. TasksAdmitted'
  BY <1>1, <1>5, <1>6, <1>7 DEF ExecInv, TasksAdmitted
<1>10. CallsOwned'
  <2>1. \A s \in Steps : s[1] = p => call[s] = NoCall
    BY <1>3 DEF ExecInv, CallsOwned
  <2>2. \A s \in Steps : s[1] # p => ex'[s[1]] = ex[s[1]]
    BY <1>5, StepParts DEF LedgerInv, LedgerType
  <2>3. NoCall.st = "none"
    BY DEF NoCall
  <2> SUFFICES ASSUME NEW s \in Steps
               PROVE  /\ call[s] # NoCall => ex'[s[1]].at \in {"bind", "op"} /\ s = <<s[1], ex'[s[1]].i>>
                      /\ call[s].st = "sent" /\ call[s].op # "bind_plan" /\ Kind(s) # "db.upgrade" =>
                           ~LoggedOp(s, call[s].op)
                      /\ busy[s] # "" => Logged("consumed", s)
    BY <1>1, <1>6 DEF CallsOwned, Cur
  <2>4. /\ call[s] # NoCall => ex[s[1]].at \in {"bind", "op"} /\ s = <<s[1], ex[s[1]].i>>
        /\ call[s].st = "sent" /\ call[s].op # "bind_plan" /\ Kind(s) # "db.upgrade" =>
             ~LoggedOp(s, call[s].op)
        /\ busy[s] # "" => Logged("consumed", s)
    BY DEF ExecInv, CallsOwned, Cur
  <2>5. CASE s[1] = p
    BY <2>1, <2>4, <2>5
  <2>6. CASE s[1] # p
    BY <2>2, <2>4, <2>6
  <2> QED
    BY <2>5, <2>6
<1>11. ASSUME NEW q \in Plans PROVE TaskOk(q, ex[q], CallOp(q))'
  <2>1. CASE q # p
    <3>1. Quiescent(q)
      BY <1>1, <1>6, <1>7, <2>1 DEF Quiescent, LedgerInv, LedgerType
    <3>2. ex'[q] = ex[q] /\ CallOp(q)' = CallOp(q)
      BY <1>1, <1>5, <1>6, <2>1 DEF CallOp, Cur
    <3> QED
      BY <1>1, <1>2, <3>1, <3>2, TaskStands
  <2>2. CASE q = p
    <3>1. PICK cc, w : cc = CallOp(q)' /\ w = r
      OBVIOUS
    <3>2. \A v \in w.todo : v[1] \in Admitted'
      BY <1>3, <1>4, <1>7, <3>1 DEF TaskOk, OutcomeOf, Kept
    <3>3. \A k \in 1..Len(log) : log[k].step[1] # p
      BY <1>1 DEF LedgerInv, LogOnce
    <3>4. ActionOf(q, w, cc)' /\ OutcomeOf(q, w)' /\ OpsKnown(q, w, cc)'
      BY <1>4, <3>1, <3>2 DEF ActionOf, OutcomeOf, OpsKnown, Acting, Operating, Looping, InAction, Finishing
    <3>5. ConsumedKnown(q, w)'
      BY <1>1, <1>4, <2>2, <3>1, <3>3 DEF ConsumedKnown, Looping, InAction, Finishing
    <3>6. TaskOk(q, w, cc)'
      BY <3>4, <3>5 DEF TaskOk
    <3>7. ex'[q] = w
      BY <1>5, <2>2, <3>1
    <3> QED
      BY <3>1, <3>6, <3>7 DEF TaskOk
  <2> QED
    BY <2>1, <2>2
<1> QED
  BY <1>1, <1>8, <1>9, <1>10, <1>11 DEF ExecInv, TasksOk

\* A restarted agent resumes a plan.
LEMMA ResumeStep == ASSUME LedgerInv, ExecInv, NEW p \in Plans, Resume(p) PROVE ExecInv'
<1>1. p \in resume /\ resume' = resume \ {p} /\ UNCHANGED <<vars, call, busy, booting>>
  BY DEF Resume, wire
<1>2. p \in Admitted /\ ~booting
  BY <1>1 DEF ExecInv, TasksAdmitted, ExecType
<1>3. LedgerInv' /\ Steady
  BY <1>1, NextLedger DEF Steady, vars, Admitted
<1>4. CASE ex[p].at = "idle"
  <2> DEFINE r == To(p, "queued")
  <2>1. ex' = [ex EXCEPT ![p] = r]
    BY <1>4 DEF Resume, Move
  <2>2. /\ ex[p] \in TaskRow /\ ExecType /\ TaskOk(p, ex[p], CallOp(p)) /\ Caught(ex[p])
    BY <1>2, <1>4, TaskFacts DEF Caught
  <2>3. r \in TaskRow /\ r.at = "queued" /\ Kept(r, ex[p])
    BY <2>2, ToRow DEF Places
  <2> HIDE DEF r
  <2>4. ActionOf(p, r, "") /\ OpsKnown(p, r, "")
    BY <2>3 DEF ActionOf, OpsKnown, Acting, Operating, Looping, InAction, Finishing
  <2>5. OutcomeOf(p, r) /\ ConsumedKnown(p, r)
    BY <2>2, <2>3 DEF OutcomeOf, ConsumedKnown, Looping, Caught, InAction, Finishing, TaskOk, Kept
  <2>6. TaskOk(p, r, "")
    BY <2>4, <2>5 DEF TaskOk
  <2>7. \A x \in Steps : x[1] = p => call'[x] = NoCall
    BY <1>1, <1>4 DEF ExecInv, CallsOwned
  <2>8. NoCall.op = "" /\ NoCall.st = "none"
    BY DEF NoCall
  <2>9. "" = IF <<p, r.i>> \in Steps THEN call'[<<p, r.i>>].op ELSE ""
    BY <2>7, <2>8
  <2>10. \A x \in Steps : x[1] = p =>
          /\ call'[x] # NoCall => r.at \in {"bind", "op"} /\ x = <<p, r.i>>
          /\ call'[x].st = "sent" /\ call'[x].op # "bind_plan" /\ Kind(x) # "db.upgrade" =>
               ~LoggedOp(x, call'[x].op)
    BY <2>7, <2>8
  <2>11. call' \in [Steps -> CallRow] /\ \A x \in Steps : x[1] # p => call'[x] = call[x]
    BY <1>1, <2>2 DEF ExecType
  <2>12. UNCHANGED <<busy, booting>> /\ resume' \subseteq resume
    BY <1>1
  <2> QED
    BY <1>2, <1>3, <2>1, <2>3, <2>6, <2>9, <2>10, <2>11, <2>12, MoveStep
<1>5. CASE ex[p].at # "idle"
  <2>1. UNCHANGED ex
    BY <1>5 DEF Resume
  <2>2. /\ Steps' = Steps /\ Target' = Target /\ Admitted' = Admitted
        /\ \A s : Kind(s)' = Kind(s)
        /\ \A s, op : LoggedOp(s, op)' = LoggedOp(s, op)
        /\ \A s, event : Logged(event, s)' = Logged(event, s)
    BY <1>1, Frame DEF vars, Admitted, Target, LoggedOp, Logged
  <2>3. ExecType'
    BY <1>1, <2>1, RowFrame DEF ExecInv, ExecType, vars
  <2>4. TasksAdmitted'
    BY <1>1, <2>1, <2>2 DEF ExecInv, TasksAdmitted
  <2>5. CallsOwned'
    BY <1>1, <2>1, <2>2 DEF ExecInv, CallsOwned, Cur
  <2>6. ASSUME NEW q \in Plans PROVE TaskOk(q, ex[q], CallOp(q))'
    <3>1. Quiescent(q)
      BY <1>3, SteadyQuiet
    <3>2. CallOp(q)' = CallOp(q) /\ ex'[q] = ex[q] /\ load' = load
      BY <1>1, <2>1, <2>2 DEF CallOp, Cur, vars
    <3> QED
      BY <1>1, <1>3, <3>1, <3>2, TaskStands
  <2> QED
    BY <2>3, <2>4, <2>5, <2>6 DEF ExecInv, TasksOk
<1> QED
  BY <1>4, <1>5

\* A restarted agent lists the open admissions once the log is read.
LEMMA ListOpenStep == ASSUME LedgerInv, ExecInv, ListOpen PROVE ExecInv'
<1>1. /\ booting /\ Reconciled /\ booting' = FALSE /\ resume' = {p \in Admitted : ~adm[p].done}
      /\ UNCHANGED <<vars, ex, call, busy>>
  BY DEF ListOpen, wire
<1>2. LedgerInv' /\ Steady
  BY <1>1, NextLedger DEF Steady, vars, Admitted
<1>3. /\ Steps' = Steps /\ Target' = Target /\ Admitted' = Admitted /\ load' = load /\ log' = log
      /\ \A s : Kind(s)' = Kind(s)
      /\ \A s, op : LoggedOp(s, op)' = LoggedOp(s, op)
      /\ \A s, event : Logged(event, s)' = Logged(event, s)
  BY <1>1, Frame DEF vars, Admitted, Target, LoggedOp, Logged
<1>4. ExecType' /\ TasksAdmitted' /\ CallsOwned'
  <2>1. ExecType'
    BY <1>1, <1>3, RowFrame DEF ExecInv, ExecType, Admitted
  <2>2. TasksAdmitted'
    BY <1>1, <1>3 DEF ExecInv, TasksAdmitted
  <2>3. CallsOwned'
    BY <1>1, <1>3 DEF ExecInv, CallsOwned, Cur
  <2> QED
    BY <2>1, <2>2, <2>3
<1>5. ASSUME NEW q \in Plans PROVE TaskOk(q, ex[q], CallOp(q))'
  <2>1. CallOp(q)' = CallOp(q) /\ ex'[q] = ex[q]
    BY <1>1, <1>3 DEF CallOp, Cur
  <2>2. CASE ex[q].at # "idle"
    BY <1>1, <1>2, <1>3, <2>1, <2>2, SteadyQuiet, TaskStands
  <2>3. CASE ex[q].at = "idle"
    <3>1. PICK cc, r : cc = CallOp(q) /\ r = ex[q]
      OBVIOUS
    <3>2. /\ r \in TaskRow /\ r.at = "idle" /\ \A v \in r.todo : v[1] \in Admitted'
      BY <1>3, <2>3, <3>1, TaskFacts DEF TaskOk, OutcomeOf
    <3>3. ActionOf(q, r, cc)' /\ OutcomeOf(q, r)' /\ OpsKnown(q, r, cc)'
      BY <3>2 DEF ActionOf, OutcomeOf, OpsKnown, Acting, Operating, Looping, InAction, Finishing
    <3>4. cursor' = Len(log')
      BY <1>1, <1>3 DEF vars, Reconciled
    <3>5. ConsumedKnown(q, r)'
      BY <1>2, <3>2, <3>4 DEF ConsumedKnown, Looping, InAction, Finishing, LedgerInv, LedgerType
    <3>6. TaskOk(q, r, cc)'
      BY <3>3, <3>5 DEF TaskOk
    <3>7. ex'[q] = r /\ CallOp(q)' = cc
      BY <2>1, <3>1
    <3> QED
      BY <3>6, <3>7 DEF TaskOk
  <2> QED
    BY <2>2, <2>3
<1> QED
  BY <1>4, <1>5 DEF ExecInv, TasksOk

\* The agent crashes: no task is left, and no call.
LEMMA CrashStep ==
  ASSUME LedgerInv, ExecInv, Crash PROVE ExecInv'
<1>1. /\ ex' = [p \in Plans |-> Idle] /\ call' = [s \in Steps |-> NoCall] /\ resume' = {}
      /\ booting' = TRUE /\ UNCHANGED <<vars, busy>>
  BY DEF Crash
<1>2. /\ Steps' = Steps /\ Target' = Target /\ Admitted' = Admitted
      /\ \A s, event : Logged(event, s)' = Logged(event, s)
  BY <1>1, Frame DEF vars, Admitted, Target, Logged
<1> DEFINE d == Idle
<1>3. d \in TaskRow /\ d.at = "idle" /\ d.todo = {} /\ NoCall \in CallRow /\ NoCall.st = "none"
  BY IdleRow DEF NoCall, CallRow
<1> HIDE DEF d
<1>4. ex' = [p \in Plans |-> d]
  BY <1>1 DEF d
<1>5. ExecType'
  BY <1>1, <1>3, <1>4, RowFrame DEF ExecInv, ExecType, vars
<1>6. TasksAdmitted'
  BY <1>1, <1>2, <1>3, <1>4 DEF ExecInv, TasksAdmitted
<1>7. CallsOwned'
  BY <1>1, <1>2, <1>3 DEF ExecInv, CallsOwned
<1>8. ASSUME NEW q \in Plans PROVE TaskOk(q, ex[q], CallOp(q))'
  <2>1. PICK cc : cc = CallOp(q)'
    OBVIOUS
  <2>2. PICK r : r = d
    OBVIOUS
  <2>3. ActionOf(q, r, cc)' /\ OutcomeOf(q, r)' /\ OpsKnown(q, r, cc)' /\ ConsumedKnown(q, r)'
    BY <1>1, <1>3, <2>2 DEF ActionOf, OutcomeOf, OpsKnown, ConsumedKnown, Acting, Operating, Looping,
       Caught, InAction, Finishing
  <2>4. TaskOk(q, r, cc)' /\ ex'[q] = r
    BY <1>4, <2>2, <2>3 DEF TaskOk
  <2> QED
    BY <2>1, <2>4 DEF TaskOk
<1> QED
  BY <1>5, <1>6, <1>7, <1>8 DEF ExecInv, TasksOk

----------------------------------------------------------------------------
(* Steps of the runner.                                                    *)

\* What is logged after a line was appended.
LEMMA AppendLogged ==
  ASSUME LedgerType, NEW line \in Line, log' = Append(log, line)
  PROVE  /\ \A t, event : Logged(event, t)' <=> Logged(event, t) \/ (line.event = event /\ line.step = t)
         /\ \A t, op : LoggedOp(t, op)' <=>
              LoggedOp(t, op) \/ (line.event = "op" /\ line.step = t /\ line.op = op)
<1>1. /\ Len(log') = Len(log) + 1 /\ Len(log) \in Nat /\ log'[Len(log) + 1] = line
      /\ \A k \in 1..Len(log) : log'[k] = log[k]
  BY DEF LedgerType
<1>2. \A k \in 1..Len(log') : k \in 1..Len(log) \/ k = Len(log) + 1
  BY <1>1
<1>3. Len(log) + 1 \in 1..Len(log') /\ \A k \in 1..Len(log) : k \in 1..Len(log')
  BY <1>1
<1> QED
  BY <1>1, <1>2, <1>3 DEF Logged, LoggedOp

\* A line disturbs the task of another plan as little as a result or a close
\* disturbs its own.
LEMMA AppendQuiet ==
  ASSUME LedgerInv, NEW line \in Line, log' = Append(log, line), UNCHANGED <<load, now, adm, cursor>>,
         NEW q \in Plans,
         line.step[1] # q \/ line.event = "result" \/ (line.event = "op" /\ line.op = "close")
  PROVE  Quiescent(q)
<1>1. /\ \A t \in StepsOf(q) : Logged("consumed", t)' => Logged("consumed", t)
      /\ \A t \in StepsOf(q), op \in Ops \ {"close"} : LoggedOp(t, op)' => LoggedOp(t, op)
  BY AppendLogged DEF LedgerInv, StepsOf
<1>2. \A k \in 1..Len(log)' : log'[k].event = "consumed" /\ log'[k].step[1] = q =>
       k \in 1..Len(log) /\ log[k] = log'[k]
  BY DEF LedgerInv, LedgerType
<1>3. Admitted' = Admitted /\ now <= now' /\ cursor <= cursor' /\ adm'[q].at = adm[q].at
  BY DEF Admitted, LedgerInv, LedgerType
<1> QED
  BY <1>1, <1>2, <1>3 DEF Quiescent

\* The consumed line of the action a task waits to bind.
LEMMA OwnConsumed ==
  ASSUME LedgerInv, NEW q \in Plans, NEW r \in TaskRow, NEW c, TaskOk(q, r, c), r.at = "bind",
         NEW line \in Line, log' = Append(log, line), UNCHANGED <<load, now, adm, cursor>>,
         line.event = "consumed", line.step = <<q, r.i>>
  PROVE  TaskOk(q, r, c)'
<1>1. /\ Steps' = Steps /\ StepsOf(q)' = StepsOf(q) /\ Admitted' = Admitted
      /\ \A s : Kind(s)' = Kind(s)
  BY Frame DEF Admitted
<1>2. /\ \A t : Logged("consumed", t)' => Logged("consumed", t) \/ t = <<q, r.i>>
      /\ \A t, op : LoggedOp(t, op)' => LoggedOp(t, op)
  BY AppendLogged DEF LedgerInv
<1>3. ActionOf(q, r, c)'
  BY <1>1 DEF TaskOk, ActionOf
<1>4. OutcomeOf(q, r)'
  BY <1>1 DEF TaskOk, OutcomeOf, Finishing
<1>5. ConsumedKnown(q, r)'
  <2>1. r.i \in Nat /\ \A t \in StepsOf(q) : t[2] > r.i => t # <<q, r.i>>
    BY DEF TaskRow
  <2>2. Looping(r)
    BY DEF Looping, InAction
  <2> QED
    BY <1>1, <1>2, <2>1, <2>2 DEF TaskOk, ConsumedKnown, Caught, Finishing
<1>6. OpsKnown(q, r, c)'
  <2>1. Looping(r)
    BY DEF Looping, InAction
  <2> QED
    BY <1>1, <1>2, <2>1 DEF TaskOk, OpsKnown, Known
<1> QED
  BY <1>3, <1>4, <1>5, <1>6 DEF TaskOk

\* The line of the op a task waits for.
LEMMA OwnOp ==
  ASSUME LedgerInv, NEW q \in Plans, NEW r \in TaskRow, NEW c, TaskOk(q, r, c), r.at = "op",
         NEW line \in Line, log' = Append(log, line), UNCHANGED <<load, now, adm, cursor>>,
         line.event = "op", line.step = <<q, r.i>>, line.op = c
  PROVE  TaskOk(q, r, c)'
<1> DEFINE s == <<q, r.i>>
<1>1. /\ Steps' = Steps /\ StepsOf(q)' = StepsOf(q) /\ Admitted' = Admitted
      /\ \A x : Kind(x)' = Kind(x)
  BY Frame DEF Admitted
<1>2. /\ \A t : Logged("consumed", t)' => Logged("consumed", t)
      /\ \A t, op : LoggedOp(t, op)' => LoggedOp(t, op) \/ (t = s /\ op = c)
  BY AppendLogged DEF LedgerInv
<1>3. ActionOf(q, r, c)'
  BY <1>1 DEF TaskOk, ActionOf
<1>4. OutcomeOf(q, r)'
  BY <1>1 DEF TaskOk, OutcomeOf, Finishing
<1>5. Looping(r) /\ r.i \in Nat /\ r.k \in Nat
  BY DEF Looping, InAction, TaskRow
<1>6. ConsumedKnown(q, r)'
  BY <1>1, <1>2, <1>5 DEF TaskOk, ConsumedKnown, Caught, Finishing
<1>7. OpsKnown(q, r, c)'
  <2>1. \A t \in StepsOf(q) : t[2] > r.i => t # s
    BY <1>5
  <2>2. c \notin Recovery => r.k \in 1..Len(OpsOf(Kind(s))) /\ c = OpsOf(Kind(s))[r.k]
    BY DEF TaskOk, ActionOf
  <2>3. \A j \in 1..Len(OpsOf(Kind(s))) : j > r.k /\ c \notin Recovery => OpsOf(Kind(s))[j] # c
    BY <1>5, <2>2, OpsOfNames
  <2>4. \A t \in StepsOf(q) : t[2] > r.i /\ Kind(t) # "db.upgrade" =>
          \A op \in Ops \ {"close"} : Known(r, t, op)'
    BY <1>2, <1>5, <2>1 DEF TaskOk, OpsKnown, Known
  <2>5. c \notin Recovery /\ Kind(s) # "db.upgrade" =>
          \A j \in 1..Len(OpsOf(Kind(s))) : j > r.k => Known(r, s, OpsOf(Kind(s))[j])'
    <3> SUFFICES ASSUME c \notin Recovery, Kind(s) # "db.upgrade",
                        NEW j \in 1..Len(OpsOf(Kind(s))), j > r.k
                 PROVE  Known(r, s, OpsOf(Kind(s))[j])'
      OBVIOUS
    <3>1. Known(r, s, OpsOf(Kind(s))[j]) /\ OpsOf(Kind(s))[j] # c
      BY <2>3 DEF TaskOk, OpsKnown
    <3>2. Kind(s)' = Kind(s)
      BY <1>1
    <3>3. LoggedOp(s, OpsOf(Kind(s))[j])' => LoggedOp(s, OpsOf(Kind(s))[j])
      <4> DEFINE o == OpsOf(Kind(s))[j]
      <4>1. PICK oo : oo = o
        OBVIOUS
      <4>2. LoggedOp(s, oo)' => LoggedOp(s, oo)
        BY <1>2, <3>1, <4>1
      <4>3. o' = oo
        BY <3>2, <4>1
      <4> HIDE DEF o
      <4> QED
        BY <4>1, <4>2, <4>3 DEF o, LoggedOp
    <3> QED
      BY <3>1, <3>2, <3>3 DEF Known
  <2>6. c \notin Recovery /\ Kind(s) = "deploy" => \A op \in Recovery : ~LoggedOp(s, op)'
    BY <1>2 DEF TaskOk, OpsKnown
  <2> QED
    BY <1>1, <1>5, <2>4, <2>5, <2>6 DEF OpsKnown
<1> QED
  BY <1>3, <1>4, <1>6, <1>7 DEF TaskOk

\* The runner moves a call on, but sends none.
Answers ==
  /\ call' \in [Steps -> CallRow] /\ busy' \in [Steps -> Ops \cup {""}]
  /\ \A x \in Steps :
       \/ call'[x] = call[x]
       \/ call[x] # NoCall /\ call'[x].op = call[x].op /\ call'[x].st # "sent"

\* The op a waiting task waits for stays the same.
LEMMA SameOps ==
  ASSUME Answers, UNCHANGED <<load, ex>>, NEW q \in Plans PROVE CallOp(q)' = CallOp(q)
  BY Frame DEF Answers, CallOp, Cur

\* What is left to show of a step of the runner.
LEMMA RunnerStep ==
  ASSUME LedgerInv, ExecInv, Answers, UNCHANGED <<load, now, adm, cursor>>, Runner,
         \A x \in Steps : busy'[x] # "" => Logged("consumed", x)',
         \A x \in Steps : call'[x] = call[x] /\ call[x].st = "sent" /\ call[x].op # "bind_plan" =>
           (LoggedOp(x, call[x].op)' => LoggedOp(x, call[x].op)),
         \A q \in Plans : TaskOk(q, ex[q], CallOp(q))'
  PROVE  ExecInv'
<1>1. UNCHANGED <<ex, booting, resume>>
  BY DEF Runner, boot
<1>2. /\ Steps' = Steps /\ Target' = Target /\ Admitted' = Admitted
      /\ \A s : Kind(s)' = Kind(s)
  BY Frame DEF Admitted, Target
<1>3. ExecType'
  BY <1>1, RowFrame DEF ExecInv, ExecType, Answers
<1>4. TasksAdmitted'
  BY <1>1, <1>2 DEF ExecInv, TasksAdmitted
<1>5. CallsOwned'
  <2> SUFFICES ASSUME NEW s \in Steps
               PROVE  /\ call'[s] # NoCall => ex[s[1]].at \in {"bind", "op"} /\ s = Cur(s[1])
                      /\ call'[s].st = "sent" /\ call'[s].op # "bind_plan" /\ Kind(s) # "db.upgrade" =>
                           ~LoggedOp(s, call[s].op)'
                      /\ busy'[s] # "" => Logged("consumed", s)'
    BY <1>1, <1>2 DEF CallsOwned, Cur
  <2>1. /\ call[s] # NoCall => ex[s[1]].at \in {"bind", "op"} /\ s = Cur(s[1])
        /\ call[s].st = "sent" /\ call[s].op # "bind_plan" /\ Kind(s) # "db.upgrade" =>
             ~LoggedOp(s, call[s].op)
    BY DEF ExecInv, CallsOwned
  <2>2. CASE call'[s] = call[s]
    BY <2>1, <2>2
  <2>3. CASE call[s] # NoCall /\ call'[s].op = call[s].op /\ call'[s].st # "sent"
    BY <2>1, <2>3
  <2> QED
    BY <2>2, <2>3 DEF Answers
<1> QED
  BY <1>3, <1>4, <1>5 DEF ExecInv, TasksOk

\* The runner answers without a line.
LEMMA SilentStep ==
  ASSUME LedgerInv, ExecInv, Answers, UNCHANGED vars, Runner,
         \A x \in Steps : busy'[x] # "" => Logged("consumed", x)
  PROVE  ExecInv'
<1>1. /\ UNCHANGED <<load, now, adm, cursor, log, ex, booting>> /\ LedgerInv' /\ Steady
  BY NextLedger DEF Runner, boot, vars, Steady, Admitted
<1>2. /\ \A x, op : LoggedOp(x, op)' = LoggedOp(x, op)
      /\ \A x, event : Logged(event, x)' = Logged(event, x)
  BY <1>1 DEF LoggedOp, Logged
<1>3. ASSUME NEW q \in Plans PROVE TaskOk(q, ex[q], CallOp(q))'
  <2>1. CallOp(q)' = CallOp(q) /\ Quiescent(q)
    BY <1>1, SameOps, SteadyQuiet
  <2> QED
    BY <1>1, <2>1, TaskStands
<1>4. /\ \A x \in Steps : busy'[x] # "" => Logged("consumed", x)'
      /\ \A x \in Steps : call'[x] = call[x] /\ call[x].st = "sent" /\ call[x].op # "bind_plan" =>
           (LoggedOp(x, call[x].op)' => LoggedOp(x, call[x].op))
  BY <1>1, <1>2 DEF LoggedOp
<1> QED
  BY <1>1, <1>3, <1>4, RunnerStep

\* The task a call belongs to, and its op.
LEMMA CallFacts ==
  ASSUME LedgerInv, ExecInv, NEW s \in Steps, call[s] # NoCall
  PROVE  LET p == s[1]
         IN  /\ p \in Plans /\ p \in Admitted /\ s = <<p, ex[p].i>> /\ CallOp(p) = call[s].op
             /\ ex[p] \in TaskRow /\ TaskOk(p, ex[p], CallOp(p)) /\ ex[p].at \in {"bind", "op"}
             /\ ex[p].at = "bind" <=> call[s].op = "bind_plan"
             /\ ex[p].at = "op" => /\ call[s].op \in Ops \ {"close"} /\ exec_of(Kind(s)) = "Ops"
                                   /\ Kind(s) \notin DefinitionKinds
<1> DEFINE p == s[1]
<1>1. p \in Plans
  BY StepParts DEF LedgerInv, LedgerType
<1>2. s = Cur(p) /\ ex[p].at \in {"bind", "op"}
  BY DEF ExecInv, CallsOwned
<1>3. /\ p \in Admitted /\ ex[p] \in TaskRow /\ TaskOk(p, ex[p], CallOp(p)) /\ Cur(p) = <<p, ex[p].i>>
  BY <1>1, <1>2, TaskFacts
<1>4. CallOp(p) = call[s].op
  BY <1>2 DEF CallOp
<1>5. ex[p].at = "bind" => call[s].op = "bind_plan"
  BY <1>3, <1>4 DEF TaskOk, ActionOf
<1>6. ex[p].at = "op" => /\ call[s].op \in Ops \ {"close"} /\ exec_of(Kind(s)) = "Ops"
                         /\ Kind(s) \notin DefinitionKinds
  <2> SUFFICES ASSUME ex[p].at = "op"
               PROVE  /\ call[s].op \in Ops \ {"close"} /\ exec_of(Kind(s)) = "Ops"
                      /\ Kind(s) \notin DefinitionKinds
    OBVIOUS
  <2>1. \/ ex[p].k \in 1..Len(OpsOf(Kind(s))) /\ call[s].op = OpsOf(Kind(s))[ex[p].k]
        \/ call[s].op \in Recovery
    BY <1>2, <1>3, <1>4 DEF TaskOk, ActionOf
  <2>2. call[s].op \in Ops \ {"close"}
    BY <2>1, OpsOfNames, ExecutorAssumption DEF Recovery, OpNames
  <2> QED
    BY <1>1, <1>2, <2>2, OperatingFacts
<1>7. "bind_plan" \notin Ops
  BY ExecutorAssumption DEF OpNames
<1> QED
  BY <1>1, <1>2, <1>3, <1>4, <1>5, <1>6, <1>7

\* A line of the runner.
LEMMA LineType ==
  ASSUME NEW event \in Events, NEW s \in Steps, NEW op \in Ops \cup {""}, NEW outcome \in EndNames
  PROVE  LET line == [event |-> event, step |-> s, op |-> op, outcome |-> outcome]
         IN  /\ line \in Line /\ line.event = event /\ line.step = s /\ line.op = op
             /\ line.outcome = outcome
  BY DEF Line

\* A reply, and the end of an op.
LEMMA ReplyAnswers ==
  ASSUME ExecInv, NEW s \in Steps, call[s] # NoCall, busy' \in [Steps -> Ops \cup {""}],
         NEW st \in {"waiting", "ok", "failed", "refused", "timeout", "rolled_back"}, Reply(s, st)
  PROVE  Answers
<1>1. call \in [Steps -> CallRow]
  BY DEF ExecInv, ExecType
<1>2. [call[s] EXCEPT !.st = st] \in CallRow /\ [call[s] EXCEPT !.st = st].op = call[s].op
      /\ [call[s] EXCEPT !.st = st].st = st
  BY <1>1 DEF CallRow
<1> DEFINE row == [call[s] EXCEPT !.st = st]
<1>3. call' = [call EXCEPT ![s] = row]
  BY DEF Reply
<1> HIDE DEF row
<1>4. call' \in [Steps -> CallRow] /\ call'[s] = row /\ \A x \in Steps \ {s} : call'[x] = call[x]
  BY <1>1, <1>2, <1>3 DEF row
<1> QED
  BY <1>2, <1>4 DEF Answers, row

\* The end of an op.
LEMMA EndsAnswers ==
  ASSUME ExecInv, NEW s \in Steps, NEW st \in {"ok", "failed", "rolled_back"}, Ends(s, st)
  PROVE  Answers /\ \A x \in Steps : busy'[x] # "" => busy[x] # ""
<1>1. busy \in [Steps -> Ops \cup {""}] /\ call \in [Steps -> CallRow]
  BY DEF ExecInv, ExecType
<1>2. busy' \in [Steps -> Ops \cup {""}] /\ \A x \in Steps : busy'[x] # "" => busy[x] # ""
  BY <1>1 DEF Ends
<1>3. CASE call[s] = [op |-> busy[s], st |-> "waiting"]
  <2>1. call[s].st = "waiting"
    BY <1>3
  <2>2. call[s] # NoCall
    BY <2>1, NoCallFields
  <2> QED
    BY <1>2, <1>3, <2>2, ReplyAnswers DEF Ends
<1>4. CASE call[s] # [op |-> busy[s], st |-> "waiting"]
  BY <1>1, <1>2, <1>4 DEF Ends, Answers
<1> QED
  BY <1>2, <1>3, <1>4

\* The runner writes a result or a close.
LEMMA EndingStep ==
  ASSUME LedgerInv, LedgerInv', ExecInv, Answers, Runner, NEW line \in Line, log' = Append(log, line),
         UNCHANGED <<load, now, adm, cursor>>,
         line.event = "result" \/ (line.event = "op" /\ line.op = "close"),
         \A x \in Steps : busy'[x] # "" => busy[x] # ""
  PROVE  ExecInv'
<1>1. UNCHANGED <<ex, booting>>
  BY DEF Runner, boot
<1>2. ASSUME NEW q \in Plans PROVE TaskOk(q, ex[q], CallOp(q))'
  BY <1>1, AppendQuiet, SameOps, TaskStands
<1>3. \A x \in Steps : busy'[x] # "" => Logged("consumed", x)'
  BY AppendLogged DEF LedgerInv, ExecInv, CallsOwned
<1>4. ASSUME NEW x \in Steps, call'[x] = call[x], call[x].st = "sent", call[x].op # "bind_plan",
             LoggedOp(x, call[x].op)'
      PROVE  LoggedOp(x, call[x].op)
  <2>1. call[x] # NoCall
    BY <1>4, NoCallFields
  <2>2. call[x].op \in Ops \ {"close"}
    BY <1>4, <2>1, CallFacts
  <2>3. PICK op : op = call[x].op
    OBVIOUS
  <2>4. LoggedOp(x, op)'
    BY <1>4, <2>3 DEF LoggedOp
  <2>5. LoggedOp(x, op)' <=> LoggedOp(x, op) \/ (line.event = "op" /\ line.step = x /\ line.op = op)
    <3>1. LedgerType
      BY DEF LedgerInv
    <3>2. \A t, o : LoggedOp(t, o)' <=> LoggedOp(t, o) \/ (line.event = "op" /\ line.step = t /\ line.op = o)
      BY <3>1, AppendLogged
    <3> QED
      BY <3>2, Zenon
  <2>6. LoggedOp(x, op)
    BY <2>2, <2>3, <2>4, <2>5
  <2> QED
    BY <2>3, <2>6
<1> QED
  BY <1>2, <1>3, <1>4, RunnerStep

\* The runner ends an action in the log.
LEMMA ResultStep ==
  ASSUME LedgerInv, ExecInv, Answers, Runner, NEW s \in Steps, NEW outcome \in Outcomes \ {"expired"},
         ~Logged("result", s), Logged("consumed", s) \/ (Closed(s) /\ outcome = "cancelled"),
         RunnerWrites("result", s, "", outcome), \A x \in Steps : busy'[x] # "" => busy[x] # ""
  PROVE  ExecInv' /\ RunnerResult(s)
<1> DEFINE line == [event |-> "result", step |-> s, op |-> "", outcome |-> outcome]
<1>1. RunnerResult(s)
  BY ExecutorAssumption DEF RunnerResult, Closed
<1>2. LedgerInv'
  BY <1>1, NextLedger DEF Next
<1>3. line \in Line /\ line.event = "result"
  BY LineType DEF Events, EndNames
<1>4. log' = Append(log, line) /\ UNCHANGED <<load, now, adm, cursor>>
  BY DEF RunnerWrites
<1> HIDE DEF line
<1>5. ExecInv'
  BY <1>2, <1>3, <1>4, EndingStep
<1> QED
  BY <1>1, <1>5

\* The ledger stays, or the runner's line is one of its steps.
RunnerLine == UNCHANGED vars \/ \E s \in Steps : RunnerConsume(s) \/ RunnerOp(s) \/ RunnerResult(s)

\* bind_plan is answered.
LEMMA RunnerBindStep ==
  ASSUME LedgerInv, ExecInv, NEW s \in Steps, RunnerBind(s) PROVE ExecInv' /\ RunnerLine
<1>1. /\ call[s] = [op |-> "bind_plan", st |-> "sent"] /\ busy' = busy /\ Runner
  BY DEF RunnerBind
<1>2. call[s] # NoCall /\ call[s].op = "bind_plan"
  <2>1. call[s].op = "bind_plan" /\ call[s].st = "sent"
    BY <1>1
  <2> QED
    BY <2>1, NoCallFields
<1>3. busy' \in [Steps -> Ops \cup {""}] /\ \A x \in Steps : busy'[x] # "" => Logged("consumed", x)
  BY <1>1 DEF ExecInv, ExecType, CallsOwned
<1>4. PICK st \in {"ok", "failed", "refused"} : Reply(s, st)
  BY DEF RunnerBind
<1>5. Answers
  BY <1>2, <1>3, <1>4, ReplyAnswers
<1>6. CASE UNCHANGED vars
  BY <1>1, <1>3, <1>5, <1>6, SilentStep DEF RunnerLine
<1>7. CASE RunnerConsume(s)
  <2> DEFINE line == [event |-> "consumed", step |-> s, op |-> "", outcome |-> ""]
             p == s[1]
  <2>1. LedgerInv'
    BY <1>7, NextLedger DEF Next
  <2>2. line \in Line /\ line.event = "consumed" /\ line.step = s
    BY LineType DEF Events, EndNames
  <2>3. log' = Append(log, line) /\ UNCHANGED <<load, now, adm, cursor>>
    BY <1>7 DEF RunnerConsume, RunnerWrites
  <2>4. UNCHANGED <<ex, booting>>
    BY <1>1 DEF Runner, boot
  <2> HIDE DEF line
  <2>5. /\ p \in Plans /\ s = <<p, ex[p].i>> /\ ex[p].at = "bind" /\ ex[p] \in TaskRow
        /\ TaskOk(p, ex[p], CallOp(p))
    BY <1>2, CallFacts
  <2>6. ASSUME NEW q \in Plans PROVE TaskOk(q, ex[q], CallOp(q))'
    <3>1. CallOp(q)' = CallOp(q)
      BY <1>5, <2>3, <2>4, SameOps
    <3>2. CASE q # p
      <4>1. Quiescent(q)
        BY <2>2, <2>3, <3>2, AppendQuiet
      <4> QED
        BY <2>1, <2>3, <2>4, <3>1, <4>1, TaskStands
    <3>3. CASE q = p
      <4>1. PICK cc, ee : cc = CallOp(q) /\ ee = ex[q]
        OBVIOUS
      <4>2. TaskOk(q, ee, cc)'
        BY <2>2, <2>3, <2>5, <3>3, <4>1, OwnConsumed
      <4>3. ex'[q] = ee /\ CallOp(q)' = cc
        BY <2>4, <3>1, <4>1
      <4> QED
        BY <4>2, <4>3 DEF TaskOk
    <3> QED
      BY <3>2, <3>3
  <2>7. \A x \in Steps : busy'[x] # "" => Logged("consumed", x)'
    BY <1>3, <2>2, <2>3, AppendLogged DEF LedgerInv
  <2>8. ASSUME NEW x \in Steps, LoggedOp(x, call[x].op)', call'[x] = call[x]
        PROVE  LoggedOp(x, call[x].op)
    <3>1. PICK op : op = call[x].op
      OBVIOUS
    <3>2. LoggedOp(x, op)'
      BY <2>8, <3>1 DEF LoggedOp
    <3> QED
      BY <2>2, <2>3, <3>1, <3>2, AppendLogged DEF LedgerInv
  <2>9. ExecInv'
    BY <1>1, <1>5, <2>3, <2>6, <2>7, <2>8, RunnerStep
  <2> QED
    BY <1>7, <2>9 DEF RunnerLine
<1> QED
  BY <1>6, <1>7 DEF RunnerBind, KeepsLog

\* An op starts.
LEMMA RunnerStartStep ==
  ASSUME LedgerInv, ExecInv, NEW s \in Steps, RunnerStart(s) PROVE ExecInv' /\ RunnerLine
<1> DEFINE p == s[1]
           op == call[s].op
<1>1. /\ call[s].st = "sent" /\ op # "bind_plan" /\ Logged("consumed", s) /\ ~Closed(s) /\ Runner
      /\ ~Logged("result", s) \/ op = "prune_releases"
      /\ busy' = [busy EXCEPT ![s] = op] /\ Reply(s, "waiting")
  BY DEF RunnerStart
<1>2. call[s] # NoCall
  BY <1>1, NoCallFields
<1>3. /\ p \in Plans /\ p \in Admitted /\ s = <<p, ex[p].i>> /\ ex[p].at = "op" /\ ex[p] \in TaskRow
      /\ TaskOk(p, ex[p], CallOp(p)) /\ CallOp(p) = op
      /\ op \in Ops \ {"close"} /\ Kind(s) \notin DefinitionKinds
  BY <1>1, <1>2, CallFacts
<1>4. busy' \in [Steps -> Ops \cup {""}] /\ \A x \in Steps : busy'[x] # "" => Logged("consumed", x)
  BY <1>1, <1>3 DEF ExecInv, ExecType, CallsOwned
<1>5. Answers
  BY <1>1, <1>2, <1>4, ReplyAnswers
<1>6. CASE Kind(s) = "db.upgrade" /\ LoggedOp(s, op)
  <2>1. UNCHANGED vars
    BY <1>6 DEF RunnerStart, KeepsLog
  <2> QED
    BY <1>1, <1>4, <1>5, <2>1, SilentStep DEF RunnerLine
<1>7. CASE ~(Kind(s) = "db.upgrade" /\ LoggedOp(s, op))
  <2> DEFINE line == [event |-> "op", step |-> s, op |-> op, outcome |-> ""]
  <2>1. RunnerWrites("op", s, op, "") /\ ~LoggedOp(s, op)
    BY <1>1, <1>7 DEF RunnerStart, ExecInv, CallsOwned
  <2>2. RunnerOp(s)
    BY <1>1, <1>3, <2>1 DEF RunnerOp
  <2>3. LedgerInv'
    BY <2>2, NextLedger DEF Next
  <2>4. line \in Line /\ line.event = "op" /\ line.step = s /\ line.op = op
    <3> HIDE DEF op
    <3> QED
      BY <1>3, LineType DEF Events, EndNames
  <2>5. log' = Append(log, line) /\ UNCHANGED <<load, now, adm, cursor>>
    BY <2>1 DEF RunnerWrites
  <2>6. UNCHANGED <<ex, booting>>
    BY <1>1 DEF Runner, boot
  <2> HIDE DEF line
  <2>7. ASSUME NEW q \in Plans PROVE TaskOk(q, ex[q], CallOp(q))'
    <3>1. CallOp(q)' = CallOp(q)
      BY <1>5, <2>5, <2>6, SameOps
    <3>2. CASE q # p
      <4>1. Quiescent(q)
        BY <2>4, <2>5, <3>2, AppendQuiet
      <4> QED
        BY <2>3, <2>5, <2>6, <3>1, <4>1, TaskStands
    <3>3. CASE q = p
      <4>1. PICK cc, ee : cc = CallOp(q) /\ ee = ex[q]
        OBVIOUS
      <4>2. TaskOk(q, ee, cc)'
        BY <1>3, <2>4, <2>5, <3>3, <4>1, OwnOp
      <4>3. ex'[q] = ee /\ CallOp(q)' = cc
        BY <2>6, <3>1, <4>1
      <4> QED
        BY <4>2, <4>3 DEF TaskOk
    <3> QED
      BY <3>2, <3>3
  <2>8. \A x \in Steps : busy'[x] # "" => Logged("consumed", x)'
    BY <1>4, <2>4, <2>5, AppendLogged DEF LedgerInv
  <2>9. ASSUME NEW x \in Steps, call'[x] = call[x], call[x].st = "sent", LoggedOp(x, call[x].op)'
        PROVE  LoggedOp(x, call[x].op)
    <3>1. PICK o : o = call[x].op
      OBVIOUS
    <3>2. LoggedOp(x, o)'
      BY <2>9, <3>1 DEF LoggedOp
    <3>3. x # s
      <4>1. call \in [Steps -> CallRow] /\ call' = [call EXCEPT ![s].st = "waiting"]
        BY <1>1 DEF Reply, ExecInv, ExecType
      <4> QED
        BY <2>9, <4>1 DEF CallRow
    <3> QED
      BY <2>4, <2>5, <3>1, <3>2, <3>3, AppendLogged DEF LedgerInv
  <2>10. ExecInv'
    BY <1>1, <1>5, <2>5, <2>7, <2>8, <2>9, RunnerStep
  <2> QED
    BY <2>2, <2>10 DEF RunnerLine
<1> QED
  BY <1>6, <1>7

\* A call is refused, or the agent gives up on it.
LEMMA RefusalStep ==
  ASSUME LedgerInv, ExecInv, NEW s \in Steps, RunnerRefuse(s) \/ Timeout(s)
  PROVE  ExecInv' /\ RunnerLine
<1>1. PICK st \in {"refused", "timeout"} : Reply(s, st)
  BY DEF RunnerRefuse, Timeout
<1>2. call[s].st \in {"sent", "waiting"} /\ UNCHANGED <<vars, busy>> /\ Runner
  BY DEF RunnerRefuse, Timeout
<1>3. call[s] # NoCall
  BY <1>2, NoCallFields
<1>4. busy' \in [Steps -> Ops \cup {""}] /\ \A x \in Steps : busy'[x] # "" => Logged("consumed", x)
  BY <1>2 DEF ExecInv, ExecType, CallsOwned
<1>5. Answers
  BY <1>1, <1>3, <1>4, ReplyAnswers
<1> QED
  BY <1>2, <1>4, <1>5, SilentStep DEF RunnerLine

\* An op ends.
LEMMA RunnerEndsStep ==
  ASSUME LedgerInv, ExecInv, NEW s \in Steps, RunnerEnds(s) PROVE ExecInv' /\ RunnerLine
<1>1. busy[s] # "" /\ Runner
  BY DEF RunnerEnds, RunnerOk, RunnerFails, RunnerHandsBack
<1>2. PICK st \in {"ok", "failed", "rolled_back"} : Ends(s, st)
  BY DEF RunnerEnds, RunnerOk, RunnerFails, RunnerHandsBack
<1>3. Answers /\ \A x \in Steps : busy'[x] # "" => busy[x] # ""
  BY <1>2, EndsAnswers
<1>4. \A x \in Steps : busy[x] # "" => Logged("consumed", x)
  BY DEF ExecInv, CallsOwned
<1>5. CASE UNCHANGED vars
  BY <1>1, <1>3, <1>4, <1>5, SilentStep DEF RunnerLine
<1>6. CASE RunnerOk(s) /\ ~UNCHANGED vars
  <2> DEFINE out == ResultOf(s, busy[s])
  <2>1. out # "" /\ ~Logged("result", s) /\ RunnerWrites("result", s, "", out)
    BY <1>6 DEF RunnerOk, KeepsLog
  <2>2. out \in Outcomes \ {"expired"}
    BY <2>1 DEF ResultOf, Outcomes
  <2> HIDE DEF out
  <2>3. ExecInv' /\ RunnerResult(s)
    BY <1>1, <1>3, <1>4, <2>1, <2>2, ResultStep
  <2> QED
    BY <2>3 DEF RunnerLine
<1>7. CASE RunnerHandsBack(s)
  <2>1. ~Logged("result", s) /\ RunnerWrites("result", s, "", "rolled_back")
        /\ "rolled_back" \in Outcomes \ {"expired"}
    BY <1>7 DEF RunnerHandsBack, Outcomes
  <2>2. ExecInv' /\ RunnerResult(s)
    BY <1>1, <1>3, <1>4, <2>1, ResultStep
  <2> QED
    BY <2>2 DEF RunnerLine
<1> QED
  BY <1>5, <1>6, <1>7 DEF RunnerEnds, RunnerFails, KeepsLog

\* Lines the runner writes outside a call.
LEMMA RunnerWorksStep ==
  ASSUME LedgerInv, ExecInv, NEW s \in Steps, RunnerWorks(s) PROVE ExecInv' /\ RunnerLine
<1>1. /\ busy \in [Steps -> Ops \cup {""}] /\ call \in [Steps -> CallRow]
      /\ \A x \in Steps : busy[x] # "" => Logged("consumed", x)
  BY DEF ExecInv, ExecType, CallsOwned
<1>2. ASSUME NEW out \in Outcomes \ {"expired"}, ~Logged("result", s), UNCHANGED <<wire>>, Runner,
             Logged("consumed", s) \/ (Closed(s) /\ out = "cancelled"),
             RunnerWrites("result", s, "", out)
      PROVE  ExecInv' /\ RunnerLine
  <2>1. Answers /\ \A x \in Steps : busy'[x] # "" => busy[x] # ""
    BY <1>1, <1>2 DEF Answers, wire
  <2>2. ExecInv' /\ RunnerResult(s)
    BY <1>2, <2>1, ResultStep
  <2> QED
    BY <2>2 DEF RunnerLine
<1>3. CASE RunnerRecords(s)
  BY <1>2, <1>3 DEF RunnerRecords, Outcomes
<1>4. CASE RunnerCancels(s)
  BY <1>2, <1>4 DEF RunnerCancels, Outcomes
<1>5. CASE RunnerCloses(s)
  <2> DEFINE line == [event |-> "op", step |-> s, op |-> "close", outcome |-> ""]
  <2>1. /\ ~Logged("result", s) /\ ~Closed(s) /\ RunnerWrites("op", s, "close", "") /\ Runner
        /\ IF busy[s] # "" THEN Ends(s, "failed") ELSE UNCHANGED <<wire>>
    BY <1>5 DEF RunnerCloses, Open
  <2>2. s[1] \in Admitted
    <3>1. PICK c \in Steps : Target[c[1]] = s[1] /\ busy[c] = "cancel_execution"
      BY <1>5 DEF RunnerCloses
    <3>2. s[1] \in Plans /\ c[1] \in Plans
      BY StepParts DEF LedgerInv, LedgerType
    <3>3. Logged("consumed", c)
      BY <1>1, <3>1
    <3>4. c[1] \in Admitted
      BY <3>3 DEF Logged, LedgerInv, LogOnce
    <3> QED
      BY <3>1, <3>2, <3>4, LedgerAssumption DEF ExecInv, TasksAdmitted
  <2>3. "close" \in Ops
    BY ExecutorAssumption DEF OpNames
  <2>4. RunnerOp(s)
    BY <2>1, <2>2, <2>3 DEF RunnerOp, Closed
  <2>5. LedgerInv'
    BY <2>4, NextLedger DEF Next
  <2>6. line \in Line /\ line.event = "op" /\ line.op = "close"
    BY <2>3, LineType DEF Events, EndNames
  <2>7. log' = Append(log, line) /\ UNCHANGED <<load, now, adm, cursor>>
    BY <2>1 DEF RunnerWrites
  <2>8. Answers /\ \A x \in Steps : busy'[x] # "" => busy[x] # ""
    <3>1. CASE busy[s] # ""
      BY <2>1, <3>1, EndsAnswers
    <3>2. CASE busy[s] = ""
      BY <1>1, <2>1, <3>2 DEF Answers, wire
    <3> QED
      BY <3>1, <3>2
  <2> HIDE DEF line
  <2>9. ExecInv'
    BY <2>1, <2>5, <2>6, <2>7, <2>8, EndingStep
  <2> QED
    BY <2>4, <2>9 DEF RunnerLine
<1> QED
  BY <1>3, <1>4, <1>5 DEF RunnerWorks

----------------------------------------------------------------------------
(* The theorems.                                                           *)

\* No task and no call at the start.
LEMMA ExecInvInit == ExecInit => LedgerInv /\ ExecInv
<1> SUFFICES ASSUME ExecInit PROVE LedgerInv /\ ExecInv
  OBVIOUS
<1>1. LedgerInv
  BY InitLedger DEF ExecInit
<1> DEFINE d == Idle
<1>2. d \in TaskRow /\ d.at = "idle" /\ d.todo = {} /\ NoCall \in CallRow
  BY IdleRow DEF NoCall, CallRow
<1> HIDE DEF d
<1>3. /\ ex = [p \in Plans |-> d] /\ call = [s \in Steps |-> NoCall] /\ busy = [s \in Steps |-> ""]
      /\ booting = FALSE /\ resume = {}
  BY DEF ExecInit, d
<1>3a. log = <<>> /\ adm = [p \in Plans |-> NoRow]
  BY DEF ExecInit, Init
<1>4. ExecType
  BY <1>2, <1>3 DEF ExecType
<1>5. TasksAdmitted
  <2>1. Admitted = {}
    <3>1. NoRow.seq = 0
      BY DEF NoRow
    <3> QED
      BY <1>3a, <3>1 DEF Admitted
  <2> QED
    BY <1>2, <1>3, <2>1 DEF TasksAdmitted
<1>6. CallsOwned
  BY <1>3, NoCallFields DEF CallsOwned
<1>7. ASSUME NEW q \in Plans PROVE TaskOk(q, ex[q], CallOp(q))
  <2>1. ex[q] = d
    BY <1>3
  <2>2. ActionOf(q, d, CallOp(q)) /\ OutcomeOf(q, d) /\ OpsKnown(q, d, CallOp(q))
    BY <1>2 DEF ActionOf, OutcomeOf, OpsKnown, Acting, Operating, Looping, InAction, Finishing
  <2>3. ConsumedKnown(q, d)
    <3>1. \A k \in 1..Len(log) : FALSE
      BY <1>3a
    <3> QED
      BY <1>2, <3>1 DEF ConsumedKnown, Looping, InAction, Finishing
  <2> QED
    BY <2>1, <2>2, <2>3 DEF TaskOk
<1> QED
  BY <1>1, <1>4, <1>5, <1>6, <1>7 DEF ExecInv, TasksOk

\* Every step of the executors, of the runner and of the agent around them
\* keeps the invariant, and is a step of the ledger or leaves it alone.
LEMMA ExecStep ==
  LedgerInv /\ ExecInv /\ [ExecNext]_allVars => ExecInv' /\ (UNCHANGED vars \/ Next)
<1> SUFFICES ASSUME LedgerInv, ExecInv, [ExecNext]_allVars PROVE ExecInv' /\ (UNCHANGED vars \/ Next)
  OBVIOUS
<1>1. ASSUME NEW p \in Plans, Submit(p) PROVE ExecInv' /\ (UNCHANGED vars \/ Next)
  BY <1>1, SubmitStep DEF Next
<1>2. ASSUME NEW p \in Plans, Task(p) PROVE ExecInv' /\ (UNCHANGED vars \/ Next)
  BY <1>2, TaskStep DEF Next
<1>3. ASSUME NEW p \in Plans, Resume(p) PROVE ExecInv' /\ (UNCHANGED vars \/ Next)
  BY <1>3, ResumeStep DEF Resume
<1>4. ASSUME RunnerLine PROVE UNCHANGED vars \/ Next
  BY <1>4 DEF RunnerLine, Next
<1>5. ASSUME NEW s \in Steps, RunnerEnds(s) PROVE ExecInv' /\ (UNCHANGED vars \/ Next)
  BY <1>4, <1>5, RunnerEndsStep
<1>6. ASSUME NEW s \in Steps, RunnerAnswers(s) \/ Timeout(s) PROVE ExecInv' /\ (UNCHANGED vars \/ Next)
  BY <1>4, <1>6, RunnerBindStep, RunnerStartStep, RefusalStep DEF RunnerAnswers
<1>7. ASSUME NEW s \in Steps, RunnerWorks(s) PROVE ExecInv' /\ (UNCHANGED vars \/ Next)
  BY <1>4, <1>7, RunnerWorksStep
<1>8. CASE ReconcileLine
  BY <1>8, ReconcileLineStep DEF Next
<1>9. CASE ExpirePass
  BY <1>9, ExpirePassStep DEF Next
<1>10. CASE Crash
  BY <1>10, CrashStep DEF Crash
<1>11. CASE ListOpen
  BY <1>11, ListOpenStep DEF ListOpen
<1>12. CASE Clock
  BY <1>12, ClockStep DEF Next
<1>13. CASE UNCHANGED allVars
  <2>1. UNCHANGED vars /\ UNCHANGED <<load, log, now, adm, cursor, ex, call, busy, booting, resume>>
    BY <1>13 DEF allVars, vars, execVars, wire, boot
  <2>2. LedgerInv'
    BY <2>1, NextLedger
  <2>3. Admitted' = Admitted /\ now <= now' /\ cursor <= cursor'
    BY <2>1 DEF Admitted, LedgerInv, LedgerType
  <2>4. \A q \in Plans : adm'[q].at = adm[q].at
    BY <2>1
  <2>5. ExecInv'
    BY <2>1, <2>2, <2>3, <2>4, StillStep
  <2> QED
    BY <2>1, <2>5
<1> QED
  BY <1>1, <1>2, <1>3, <1>5, <1>6, <1>7, <1>8, <1>9, <1>10, <1>11, <1>12, <1>13 DEF ExecNext

\* The invariants of the store and of the tasks hold in every state the
\* executors reach: whoever crashes, times out or cancels, a task is where its
\* snapshot and its calls allow it to be, and the ledger's rows agree with the
\* runner's log.
THEOREM ExecutorInvariant == ExecSpec => [](LedgerInv /\ ExecInv)
<1>1. LedgerInv /\ ExecInv /\ [ExecNext]_allVars => (LedgerInv /\ ExecInv)'
  BY ExecStep, NextLedger
<1> QED
  BY <1>1, ExecInvInit, PTL DEF ExecSpec

\* The executors implement the ledger (RefinesLedger): what they, the runner
\* and the reconciler do to the store is what AdmissionLedger allows.  No op of
\* an action starts twice, also not after a crash, and no outcome is recorded
\* that complete may not record (execute_inner, logged_ops).
THEOREM ExecutorRefinesLedger == ExecSpec => RefinesLedger
<1>1. ExecInit => Init
  BY DEF ExecInit
<1>2. LedgerInv /\ ExecInv /\ [ExecNext]_allVars => [vars' # vars => Next]_vars
  BY ExecStep
<1> QED
  BY <1>1, <1>2, ExecutorInvariant, PTL DEF ExecSpec, RefinesLedger

\* The rows agree with the log and the heads with the admissions, and a rule
\* under revocation does not trigger, whatever the executors do.
THEOREM ExecutorLedgerHolds == ExecSpec => [](LedgerHolds /\ RevokeFailsClosed)
<1>1. LedgerInv => LedgerHolds /\ RevokeFailsClosed
  BY MarksFailClosed DEF LedgerInv, LedgerHolds
<1> QED
  BY <1>1, ExecutorInvariant, PTL

\* Only the start of the op a task waits for, or a close, adds an op line.
LEMMA NewOpLine ==
  ASSUME LedgerInv, ExecInv, [ExecNext]_allVars, NEW s, NEW op, LoggedOp(s, op)'
  PROVE  LoggedOp(s, op) \/ op = "close" \/ (s \in Steps /\ RunnerStart(s) /\ call[s].op = op)
<1>1. CASE log' = log
  BY <1>1 DEF LoggedOp
<1>2. ASSUME NEW event \in Events \ {"op"}, NEW x \in Steps, NEW out \in EndNames,
             RunnerWrites(event, x, "", out)
      PROVE  LoggedOp(s, op)
  <2> DEFINE line == [event |-> event, step |-> x, op |-> "", outcome |-> out]
  <2>1. line \in Line /\ line.event # "op"
    BY LineType
  <2>2. log' = Append(log, line)
    BY <1>2 DEF RunnerWrites
  <2> HIDE DEF line
  <2> QED
    BY <2>1, <2>2, AppendLogged DEF LedgerInv
<1>3. "consumed" \in Events \ {"op"} /\ "result" \in Events \ {"op"} /\ "" \in EndNames
  BY DEF Events, EndNames
<1>4. ASSUME NEW x \in Steps, RunnerEnds(x) PROVE LoggedOp(s, op)
  <2>1. CASE UNCHANGED vars
    BY <1>1, <2>1 DEF vars, LoggedOp
  <2>2. CASE RunnerOk(x) /\ ~UNCHANGED vars
    <3> DEFINE out == ResultOf(x, busy[x])
    <3>1. RunnerWrites("result", x, "", out)
      BY <2>2 DEF RunnerOk, KeepsLog
    <3>2. out \in EndNames
      BY DEF ResultOf, EndNames, Outcomes
    <3> HIDE DEF out
    <3> QED
      BY <1>2, <1>3, <3>1, <3>2
  <2>3. CASE RunnerHandsBack(x)
    BY <1>2, <1>3, <2>3 DEF RunnerHandsBack, EndNames, Outcomes
  <2> QED
    BY <1>4, <2>1, <2>2, <2>3 DEF RunnerEnds, RunnerFails, KeepsLog
<1>5. ASSUME NEW x \in Steps, RunnerBind(x) \/ RunnerRefuse(x) \/ Timeout(x) PROVE LoggedOp(s, op)
  <2>1. CASE UNCHANGED vars
    BY <1>1, <2>1 DEF vars, LoggedOp
  <2>2. CASE RunnerConsume(x)
    BY <1>2, <1>3, <2>2 DEF RunnerConsume
  <2> QED
    BY <1>5, <2>1, <2>2 DEF RunnerBind, RunnerRefuse, Timeout, KeepsLog
<1>6. ASSUME NEW x \in Steps, RunnerRecords(x) \/ RunnerCancels(x) PROVE LoggedOp(s, op)
  BY <1>2, <1>3, <1>6 DEF RunnerRecords, RunnerCancels, EndNames, Outcomes
<1>7. ASSUME NEW x \in Steps, NEW o \in Ops, RunnerWrites("op", x, o, "")
      PROVE  LoggedOp(s, op) \/ (s = x /\ op = o)
  <2> DEFINE line == [event |-> "op", step |-> x, op |-> o, outcome |-> ""]
  <2>1. line \in Line /\ line.step = x /\ line.op = o
    BY <1>3, LineType DEF Events
  <2>2. log' = Append(log, line)
    BY <1>7 DEF RunnerWrites
  <2> HIDE DEF line
  <2> QED
    BY <2>1, <2>2, AppendLogged DEF LedgerInv
<1>8. ASSUME NEW x \in Steps, RunnerCloses(x) PROVE LoggedOp(s, op) \/ op = "close"
  <2>1. "close" \in Ops /\ RunnerWrites("op", x, "close", "")
    BY <1>8, ExecutorAssumption DEF RunnerCloses, OpNames
  <2> QED
    BY <1>7, <2>1
<1>9. ASSUME NEW x \in Steps, RunnerStart(x) PROVE LoggedOp(s, op) \/ (s = x /\ call[x].op = op)
  <2>1. CASE UNCHANGED vars
    BY <1>1, <2>1 DEF vars, LoggedOp
  <2>2. CASE ~UNCHANGED vars
    <3> DEFINE o == call[x].op
    <3>1. RunnerWrites("op", x, o, "") /\ call[x].st = "sent" /\ o # "bind_plan"
      BY <1>9, <2>2 DEF RunnerStart, KeepsLog
    <3>2. call[x] # NoCall
      BY <3>1, NoCallFields
    <3>3. o \in Ops
      BY <3>1, <3>2, CallFacts
    <3> HIDE DEF o
    <3>4. LoggedOp(s, op) \/ (s = x /\ op = o)
      BY <1>7, <3>1, <3>3
    <3> QED
      BY <3>4 DEF o
  <2> QED
    BY <2>1, <2>2
<1>10. ASSUME NEW p \in Plans, Submit(p) \/ Task(p) \/ Resume(p) PROVE log' = log
  <2>1. CASE Submit(p)
    BY <2>1 DEF Submit, Admit
  <2>2. CASE Task(p)
    BY <2>2, TaskStep DEF vars, FinishAction
  <2>3. CASE Resume(p)
    BY <2>3 DEF Resume, vars
  <2> QED
    BY <1>10, <2>1, <2>2, <2>3
<1>11. ReconcileLine \/ ExpirePass \/ Crash \/ ListOpen \/ Clock \/ UNCHANGED allVars => log' = log
  BY DEF ReconcileLine, Reconcile, ExpirePass, ExpireWindows, Crash, ListOpen, Clock, Tick, vars, allVars
<1> QED
  BY <1>1, <1>4, <1>5, <1>6, <1>8, <1>9, <1>10, <1>11 DEF ExecNext, RunnerAnswers, RunnerWorks

\* Once a recovery op of a deploy started, no op of its way forward starts
\* (NothingAfterRecovery): not after a timeout whose op still runs, not after a
\* cancel, and not in an executor resumed from the log (run_deploy).
THEOREM RecoveryIsFinal == ExecSpec => NothingAfterRecovery
<1> DEFINE Forward == {"prepare_release", "verify_health", "activate_release"}
           Final == \A s \in Steps :
                      LoggedOp(s, "rollback_release") \/ LoggedOp(s, "cleanup_candidate") =>
                        \A op \in {"prepare_release", "verify_health", "activate_release"} :
                          LoggedOp(s, op)' => LoggedOp(s, op)
<1>1. ASSUME LedgerInv, ExecInv, [ExecNext]_allVars, NEW s \in Steps, NEW op \in Forward,
             LoggedOp(s, op)', ~LoggedOp(s, op)
      PROVE  \A o \in Recovery : ~LoggedOp(s, o)
  <2>1. RunnerStart(s) /\ call[s].op = op
    BY <1>1, NewOpLine
  <2>2. call[s].st = "sent" /\ op # "bind_plan"
    BY <2>1 DEF RunnerStart
  <2>3. call[s] # NoCall
    BY <2>2, NoCallFields
  <2> DEFINE p == s[1]
             r == ex[p]
  <2>4. s = <<p, r.i>> /\ r.at = "op" /\ TaskOk(p, r, op)
    BY <1>1, <2>1, <2>2, <2>3, CallFacts
  <2>5. op \notin Recovery
    BY DEF Recovery
  <2>6. \E k \in 1..Len(OpsOf(Kind(s))) : OpsOf(Kind(s))[k] = op
    BY <2>4, <2>5 DEF TaskOk, ActionOf
  <2>7. Kind(s) = "deploy"
    BY <2>6 DEF OpsOf
  <2> QED
    BY <2>4, <2>5, <2>7 DEF TaskOk, OpsKnown
<1>2. LedgerInv /\ ExecInv /\ [ExecNext]_allVars => Final
  BY <1>1 DEF Recovery
<1>3. LedgerInv /\ ExecInv /\ [ExecNext]_allVars => [Final]_allVars
  BY <1>2
<1> QED
  BY <1>3, ExecutorInvariant, PTL DEF ExecSpec, NothingAfterRecovery

----------------------------------------------------------------------------
(* Every end is announced.                                                 *)

\* What a task ends is an action of its plan or of the plan it cancels.
EndsWithin(p, r) ==
  /\ r.at \in Finishing => r.step[1] \in Plans \cap {p, Target[p]}
  /\ \A v \in r.todo : v[1] = Target[p]

EventType ==
  /\ finals \in [Steps -> Nat] /\ fins \in [Plans -> Nat] /\ crashes \in Nat
  /\ held \subseteq Plans /\ skipped \subseteq Steps

\* A hold is the hold of a plan whose executor has started and not left, and
\* the final steps put off are those of held plans.
HoldsWorked ==
  /\ \A q \in held : ex[q].at \notin {"idle", "queued"}
  /\ \A s \in skipped : s[1] \in held

\* The end of the last action is the end of the admission.
PlansEnd ==
  /\ \A s \in Steps : act[s].done => s[1] \in Admitted
  /\ \A q \in Admitted : (\A s \in StepsOf(q) : act[s].done) => adm[q].done

\* The task p has recorded an end of q and comes to its `finished` next.
Tells(p, q) == ex[p].at = "release" /\ ex[p].step[1] = q /\ ex[p].recorded

\* An end is announced, put off by a hold, or about to be announced.
Announced ==
  /\ \A s \in Steps : act[s].done => finals[s] > 0 \/ s \in skipped
  /\ \A q \in Plans : adm[q].done => fins[q] > 0 \/ q \in held \/ \E p \in Plans : Tells(p, q)

EventInv ==
  /\ EventType /\ HoldsWorked /\ PlansEnd
  /\ \A p \in Plans : EndsWithin(p, ex[p])
  /\ crashes = 0 => Announced

\* Where a task goes that ends nothing itself.
Placed(p, r) == r.at \notin {"idle", "queued", "release"} /\ EndsWithin(p, r)

\* The rows of such a task: another place,
LEMMA PlacedTo ==
  ASSUME ExecType, NEW p \in Plans, EndsWithin(p, ex[p]),
         NEW at \in Places \ (Finishing \cup {"idle", "queued"})
  PROVE  /\ Placed(p, To(p, at))
         /\ \A k : Placed(p, [To(p, at) EXCEPT !.k = k])
         /\ \A b : Placed(p, [To(p, at) EXCEPT !.newly = b])
         /\ \A b, c : Placed(p, [To(p, at) EXCEPT !.restorable = b, !.activated = c])
<1> DEFINE r == To(p, at)
<1>1. r \in TaskRow /\ r.at = at /\ r.todo = ex[p].todo
  BY ToRow DEF Kept
<1>2. \A v \in r.todo : v[1] = Target[p]
  BY <1>1 DEF EndsWithin
<1> HIDE DEF r
<1>3. /\ Placed(p, r)
      /\ \A k : Placed(p, [r EXCEPT !.k = k])
      /\ \A b : Placed(p, [r EXCEPT !.newly = b])
      /\ \A b, c : Placed(p, [r EXCEPT !.restorable = b, !.activated = c])
  BY <1>1, <1>2 DEF TaskRow, Placed, EndsWithin, Finishing
<1> QED
  BY <1>3 DEF r

\* the next turn of the loop,
LEMMA PlacedNext == ASSUME NEW p, NEW failed PROVE Placed(p, NextAction(p, failed))
<1> DEFINE r == NextAction(p, failed)
<1>1. \A i, f, sn : LET w == [Idle EXCEPT !.at = "loop", !.i = i, !.failed = f, !.snap = sn]
                    IN  w.at = "loop" /\ w.todo = {}
  BY DEF Idle
<1>2. r.at = "loop" /\ r.todo = {}
  BY <1>1 DEF NextAction
<1> HIDE DEF r
<1>3. Placed(p, r)
  BY <1>2 DEF Placed, EndsWithin, Finishing
<1> QED
  BY <1>3 DEF r

\* the end of an action,
LEMMA PlacedEnded ==
  ASSUME ExecType, NEW p \in Plans, EndsWithin(p, ex[p]), NEW out, NEW activated
  PROVE  Placed(p, Ended(p, out, activated))
<1> DEFINE e == ex[p]
           r == Ended(p, out, activated)
<1>1. e \in TaskRow /\ \A v \in e.todo : v[1] = Target[p]
  BY DEF ExecType, EndsWithin
<1> HIDE DEF e
<1>2. LET w == [e EXCEPT !.at = "outcome", !.out = out, !.activated = activated]
      IN  w.at = "outcome" /\ w.todo = e.todo
  BY <1>1 DEF TaskRow
<1>3. r.at = "outcome" /\ r.todo = e.todo
  BY <1>2 DEF e, Ended
<1> HIDE DEF r
<1>4. Placed(p, r)
  BY <1>1, <1>3 DEF Placed, EndsWithin, Finishing
<1> QED
  BY <1>4 DEF r

\* an outcome to record.
LEMMA PlacedCompleting ==
  ASSUME ExecType, NEW p \in Plans, EndsWithin(p, ex[p]), NEW s, s[1] \in Plans \cap {p, Target[p]},
         NEW out, NEW ret
  PROVE  Placed(p, Completing(p, s, out, ret))
<1> DEFINE e == ex[p]
           r == Completing(p, s, out, ret)
<1>1. e \in TaskRow /\ \A v \in e.todo : v[1] = Target[p]
  BY DEF ExecType, EndsWithin
<1> HIDE DEF e
<1>2. LET w == [e EXCEPT !.at = "complete", !.step = s, !.out = out, !.ret = ret]
      IN  w.at = "complete" /\ w.todo = e.todo /\ w.step = s
  BY <1>1 DEF TaskRow
<1>3. r.at = "complete" /\ r.todo = e.todo /\ r.step = s
  BY <1>2 DEF e, Completing
<1> HIDE DEF r
<1>4. Placed(p, r)
  BY <1>1, <1>3 DEF Placed, EndsWithin
<1> QED
  BY <1>4 DEF r

\* A step of the task p that records and announces nothing.
Moves(p) ==
  /\ UNCHANGED <<vars, skipped, finals, fins, crashes>> /\ held' \in {held, held \cup {p}}
  /\ ex[p].at \notin {"idle", "release"}
  /\ \E r : Move(p, r) /\ Placed(p, r)

\* All steps of a task but three are such steps.
LEMMA TaskMoves ==
  ASSUME LedgerInv, ExecInv, NEW p \in Plans, EndsWithin(p, ex[p]), Task(p),
         ~CompleteRecord(p), ~CompleteRelease(p), ~Exit(p)
  PROVE  Moves(p)
<1>1. ExecType /\ Cur(p)[1] = p
  BY TaskFacts
<1> DEFINE Elsewhere == Places \ (Finishing \cup {"idle", "queued"})
           Some == \E r : Move(p, r) /\ Placed(p, r)
<1>21. \A r : Move(p, r) /\ Placed(p, r) => Some
  OBVIOUS
<1> HIDE DEF Some
<1>22. ASSUME NEW at \in Elsewhere
      PROVE  /\ Move(p, To(p, at)) => Some
             /\ \A k : Move(p, [To(p, at) EXCEPT !.k = k]) => Some
             /\ \A b : Move(p, [To(p, at) EXCEPT !.newly = b]) => Some
             /\ \A b, c : Move(p, [To(p, at) EXCEPT !.restorable = b, !.activated = c]) => Some
  <2> DEFINE w == To(p, at)
  <2>1. /\ Placed(p, w)
        /\ \A k : Placed(p, [w EXCEPT !.k = k])
        /\ \A b : Placed(p, [w EXCEPT !.newly = b])
        /\ \A b, c : Placed(p, [w EXCEPT !.restorable = b, !.activated = c])
    BY <1>1, PlacedTo
  <2> HIDE DEF w
  <2>2. /\ Move(p, w) => Some
        /\ \A k : Move(p, [w EXCEPT !.k = k]) => Some
        /\ \A b : Move(p, [w EXCEPT !.newly = b]) => Some
        /\ \A b, c : Move(p, [w EXCEPT !.restorable = b, !.activated = c]) => Some
    BY <1>21, <2>1
  <2> QED
    BY <2>2 DEF w
<1>23. ASSUME NEW f PROVE Move(p, NextAction(p, f)) => Some
  BY <1>21, PlacedNext
<1>24. ASSUME NEW out, NEW b PROVE Move(p, Ended(p, out, b)) => Some
  BY <1>1, <1>21, PlacedEnded
<1>25. ASSUME NEW s, NEW out, NEW ret, s[1] \in Plans \cap {p, Target[p]}
      PROVE  Move(p, Completing(p, s, out, ret)) => Some
  BY <1>1, <1>21, <1>25, PlacedCompleting
<1>3. {"exit", "loop", "tail", "bound", "bind", "ready", "op", "recover", "victims", "closing", "compose"}
        \subseteq Elsewhere
  BY DEF Places, Finishing
<1> HIDE DEF Elsewhere
<1>4. CASE Start(p)
  <2>1. ASSUME adm[p].done PROVE Some
    BY <1>22, <1>3, <1>4, <2>1 DEF Start
  <2>2. ASSUME ~adm[p].done PROVE Some
    <3> DEFINE sn == Snapshot(p)
               r == [Idle EXCEPT !.at = "loop", !.snap = sn]
    <3>1. Move(p, r)
      BY <1>4, <2>2 DEF Start
    <3> HIDE DEF sn
    <3>2. r.at = "loop" /\ r.todo = {}
      BY DEF Idle
    <3> HIDE DEF r
    <3>3. Placed(p, r)
      BY <3>2 DEF Placed, EndsWithin, Finishing
    <3> QED
      BY <1>21, <3>1, <3>3
  <2>3. Some
    BY <2>1, <2>2
  <2> QED
    BY <1>4, <2>3 DEF Some, Moves, Start, flags, events, boot
<1>5. CASE Loop(p)
  <2>1. \/ \E at \in {"tail", "bound", "bind"} : Move(p, To(p, at))
        \/ \E f : Move(p, NextAction(p, f))
        \/ \E out : Move(p, Ended(p, out, FALSE))
        \/ \E out : Move(p, Completing(p, Cur(p), out, "loop"))
    <3> DEFINE s == Cur(p)
               e == ex[p]
               late == now > adm[p].at + Window
               refused == IF late THEN "expired" ELSE "failed"
               closed == Kind(s) # "operation.cancel" /\ Ran(p, "cancel_execution")
    <3>1. CASE e.i > Len(Actions[p]) \/ p \in cancelled
      BY <1>5, <3>1 DEF Loop
    <3>2. CASE ~(e.i > Len(Actions[p]) \/ p \in cancelled) /\ s \in e.snap.ended
      BY <1>5, <3>2 DEF Loop
    <3>3. CASE ~(e.i > Len(Actions[p]) \/ p \in cancelled) /\ s \notin e.snap.ended /\ (late \/ e.failed)
      <4>1. Move(p, IF s \in e.snap.consumed THEN NextAction(p, e.failed) ELSE Completing(p, s, refused, "loop"))
        BY <1>5, <3>3 DEF Loop
      <4>2. CASE s \in e.snap.consumed
        BY <4>1, <4>2
      <4>3. CASE s \notin e.snap.consumed
        BY <4>1, <4>3
      <4> QED
        BY <4>2, <4>3
    <3>4. ASSUME ~(e.i > Len(Actions[p]) \/ p \in cancelled), s \notin e.snap.ended, ~(late \/ e.failed)
          PROVE  \/ \E at \in {"tail", "bound", "bind"} : Move(p, To(p, at))
                 \/ \E f : Move(p, NextAction(p, f))
                 \/ \E out : Move(p, Ended(p, out, FALSE))
      <4>1. CASE closed
        BY <1>5, <3>4, <4>1 DEF Loop
      <4>2. CASE ~closed /\ exec_of(Kind(s)) = "Agent"
        BY <1>5, <3>4, <4>2 DEF Loop
      <4>3. CASE ~closed /\ exec_of(Kind(s)) = "NotImplemented"
        BY <1>5, <3>4, <4>3 DEF Loop
      <4>4. CASE ~closed /\ exec_of(Kind(s)) = "Shell"
        BY <1>5, <3>4, <4>4 DEF Loop
      <4>5. CASE ~closed /\ exec_of(Kind(s)) \notin {"Agent", "NotImplemented", "Shell"}
        BY <1>5, <3>4, <4>5 DEF Loop
      <4> QED
        BY <4>1, <4>2, <4>3, <4>4, <4>5
    <3> QED
      BY <3>1, <3>2, <3>3, <3>4
  <2>2. ASSUME NEW at \in {"tail", "bound", "bind"}, Move(p, To(p, at)) PROVE Some
    BY <1>22, <1>3, <2>2
  <2>3. ASSUME NEW out, Move(p, Completing(p, Cur(p), out, "loop")) PROVE Some
    BY <1>1, <1>25, <2>3
  <2>4. Some
    BY <1>23, <1>24, <2>1, <2>2, <2>3
  <2> QED
    BY <1>5, <2>4 DEF Some, Moves, Loop, flags, events, boot
<1>6. CASE bind(p)
  <2>1. Some
    BY <1>22, <1>23, <1>24, <1>25, <1>3, <1>6 DEF bind
  <2> QED
    BY <1>6, <2>1 DEF Some, Moves, bind, flags, events, boot
<1>7. CASE Bound(p)
  <2>1. Some
    BY <1>22, <1>23, <1>24, <1>25, <1>3, <1>7 DEF Bound
  <2> QED
    BY <1>7, <2>1 DEF Some, Moves, Bound, Hold, flags, events, boot
<1>8. CASE RunOp(p)
  <2>1. \/ \E at \in {"op", "victims"} : Move(p, To(p, at))
        \/ \E out, b : Move(p, Ended(p, out, b))
        \/ Move(p, [ex[p] EXCEPT !.k = ex[p].k + 1])
    BY <1>8 DEF RunOp
  <2>2. ASSUME Move(p, [ex[p] EXCEPT !.k = ex[p].k + 1]) PROVE Some
    <3> DEFINE e == ex[p]
               r == [e EXCEPT !.k = e.k + 1]
    <3>1. e \in TaskRow /\ e.at = "ready" /\ \A v \in e.todo : v[1] = Target[p]
      BY <1>1, <1>8 DEF ExecType, EndsWithin, RunOp
    <3> HIDE DEF e
    <3>2. r.at = "ready" /\ r.todo = e.todo
      BY <3>1 DEF TaskRow
    <3>3. Move(p, r)
      BY <2>2 DEF e
    <3> HIDE DEF r
    <3>4. Placed(p, r)
      BY <3>1, <3>2 DEF Placed, EndsWithin, Finishing
    <3> QED
      BY <1>21, <3>3, <3>4
  <2>3. Some
    BY <1>22, <1>24, <1>3, <2>1, <2>2
  <2> QED
    BY <1>8, <2>3 DEF Some, Moves, RunOp, Hold, flags, events, boot
<1>9. CASE OpsAnswer(p)
  <2>1. Some
    BY <1>22, <1>23, <1>24, <1>25, <1>3, <1>9 DEF OpsAnswer
  <2> QED
    BY <1>9, <2>1 DEF Some, Moves, OpsAnswer, Answered, flags, events, boot
<1>10. CASE DeployAnswer(p)
  <2>1. Some
    BY <1>22, <1>23, <1>24, <1>25, <1>3, <1>10 DEF DeployAnswer, Recover
  <2> QED
    BY <1>10, <2>1 DEF Some, Moves, DeployAnswer, Answered, flags, events, boot
<1>11. CASE RunRecovery(p)
  <2>1. Some
    BY <1>22, <1>23, <1>24, <1>25, <1>3, <1>11 DEF RunRecovery
  <2> QED
    BY <1>11, <2>1 DEF Some, Moves, RunRecovery, flags, events, boot
<1>12. CASE CancelAnswer(p)
  <2>1. Some
    BY <1>22, <1>23, <1>24, <1>25, <1>3, <1>12 DEF CancelAnswer
  <2> QED
    BY <1>12, <2>1 DEF Some, Moves, CancelAnswer, Answered, flags, events, boot
<1>13. CASE AfterLoop(p)
  <2>1. Some
    BY <1>22, <1>23, <1>24, <1>25, <1>3, <1>13 DEF AfterLoop
  <2> QED
    BY <1>13, <2>1 DEF Some, Moves, AfterLoop, flags, events, boot
<1>14. CASE Compose(p)
  <2>1. \/ Move(p, To(p, "exit"))
        \/ \E s \in StepsOf(p) : \E out : Move(p, Completing(p, s, out, "compose"))
    BY <1>14 DEF Compose
  <2>2. \A s \in StepsOf(p) : s[1] = p
    BY DEF StepsOf
  <2>3. ASSUME NEW s \in StepsOf(p), NEW out, Move(p, Completing(p, s, out, "compose")) PROVE Some
    BY <1>25, <2>2, <2>3
  <2>4. Some
    BY <1>22, <1>3, <2>1, <2>3
  <2> QED
    BY <1>14, <2>4 DEF Some, Moves, Compose, flags, events, boot

<1>15. CASE Victims(p)
  <2> DEFINE todo == {v \in StepsOf(Target[p]) : ~act[v].done /\ ~LoggedOp(v, "activate_release")}
             f == To(p, "closing")
             r == [f EXCEPT !.todo = todo]
  <2>1. f \in TaskRow /\ f.at = "closing"
    BY <1>1, ToRow DEF Places
  <2>2. todo \subseteq Steps /\ \A v \in todo : v[1] = Target[p]
    BY DEF StepsOf
  <2> HIDE DEF f, todo
  <2>3. r.at = "closing" /\ r.todo = todo
    BY <2>1, <2>2, FieldRow
  <2>4. Move(p, r)
    BY <1>15 DEF Victims, f, todo
  <2> HIDE DEF r
  <2>5. Placed(p, r)
    BY <2>2, <2>3 DEF Placed, EndsWithin, Finishing
  <2> QED
    BY <1>15, <2>4, <2>5 DEF Moves, Victims, flags, events, boot
<1>16. CASE CloseVictim(p)
  <2>1. CASE ex[p].todo = {}
    <3>1. Some
      BY <1>22, <1>23, <1>24, <1>25, <1>16, <2>1 DEF CloseVictim
    <3> QED
      BY <1>16, <3>1 DEF Some, Moves, CloseVictim, flags, events, boot
  <2>2. CASE ex[p].todo # {}
    <3>1. PICK v \in ex[p].todo : Move(p, [Completing(p, v, "cancelled", "closing") EXCEPT !.todo = @ \ {v}])
      BY <1>16, <2>2 DEF CloseVictim
    <3> DEFINE f == Completing(p, v, "cancelled", "closing")
               r == [f EXCEPT !.todo = @ \ {v}]
    <3>2. ex[p] \in TaskRow /\ v \in Steps /\ v[1] = Target[p] /\ v[1] \in Plans
      <4>1. ex[p] \in TaskRow /\ v \in Steps /\ v[1] = Target[p]
        BY <1>1 DEF ExecType, TaskRow, EndsWithin
      <4> QED
        BY <4>1, StepParts DEF LedgerInv, LedgerType
    <3>3. f \in TaskRow /\ f.at = "complete" /\ f.step = v /\ f.todo = ex[p].todo
      <4>1. "cancelled" \in EndNames /\ "closing" \in Returns
        BY DEF EndNames, Outcomes, Returns
      <4> QED
        BY <1>1, <3>2, <4>1, CompletingRow
    <3> HIDE DEF f
    <3>4. f.todo \ {v} \in SUBSET Steps
      BY <3>2, <3>3 DEF TaskRow
    <3>5. r.at = "complete" /\ r.step = v /\ r.todo = f.todo \ {v}
      BY <3>3, <3>4, FieldRow
    <3>6. Move(p, r)
      BY <3>1 DEF f
    <3> HIDE DEF r
    <3>7. Placed(p, r)
      BY <3>2, <3>3, <3>5 DEF Placed, EndsWithin
    <3> QED
      BY <1>16, <3>6, <3>7 DEF Moves, CloseVictim, flags, events, boot
  <2> QED
    BY <2>1, <2>2
<1>17. CASE Outcome(p)
  <2>1. Some
    <3> DEFINE s == Cur(p)
               bad == ex[p].out # "succeeded"
               f == Completing(p, s, ex[p].out, "loop")
    <3>1. \/ \E b : Move(p, NextAction(p, b))
          \/ \E at \in {"exit", "tail"} : Move(p, To(p, at))
          \/ Move(p, [f EXCEPT !.failed = @ \/ bad])
      BY <1>17 DEF Outcome
    <3>2. CASE Move(p, [f EXCEPT !.failed = @ \/ bad])
      <4>1. ex[p] \in TaskRow /\ s \in Steps /\ ex[p].out \in EndNames
        <5>1. ex[p].at \in InAction
          BY <1>17 DEF Outcome, InAction
        <5> QED
          BY <1>1, <5>1, TaskFacts DEF TaskRow
      <4>2. f \in TaskRow /\ f.at = "complete" /\ f.step = s /\ f.todo = ex[p].todo
        <5>1. "loop" \in Returns
          BY DEF Returns
        <5> QED
          BY <1>1, <4>1, <5>1, CompletingRow
      <4> DEFINE b == f.failed \/ bad
                 r == [f EXCEPT !.failed = b]
      <4>3. b \in BOOLEAN
        OBVIOUS
      <4>4. r = [f EXCEPT !.failed = @ \/ bad]
        OBVIOUS
      <4> HIDE DEF f, b
      <4>5. r.at = "complete" /\ r.step = s /\ r.todo = ex[p].todo
        BY <4>2, <4>3, FieldRow DEF Kept
      <4> HIDE DEF r
      <4>6. Placed(p, r)
        BY <1>1, <4>5 DEF Placed, EndsWithin
      <4> QED
        BY <3>2, <4>4, <4>6 DEF Some, f
    <3> QED
      BY <1>22, <1>23, <1>24, <1>25, <1>3, <3>1, <3>2
  <2> QED
    BY <1>17, <2>1 DEF Some, Moves, Outcome, flags, events, boot
<1>18. CASE CompleteReconcile(p)
  <2> DEFINE r == To(p, "record")
  <2>1. r.at = "record" /\ Kept(r, ex[p]) /\ ex[p].at = "complete"
    BY <1>1, <1>18, ToRow DEF Places, CompleteReconcile
  <2>2. Move(p, r)
    BY <1>18 DEF CompleteReconcile
  <2> HIDE DEF r
  <2>3. Placed(p, r)
    BY <2>1 DEF Kept, Placed, EndsWithin, Finishing
  <2> QED
    BY <1>18, <2>1, <2>2, <2>3 DEF Moves, CompleteReconcile, flags, events, boot
<1> QED
  BY <1>4, <1>5, <1>6, <1>7, <1>8, <1>9, <1>10, <1>11, <1>12, <1>13, <1>14, <1>15, <1>16, <1>17,
     <1>18 DEF Task

\* What a counter of events is after one more for each of S.
LEMMA Bumped ==
  ASSUME NEW X, NEW f \in [X -> Nat], NEW S
  PROVE  /\ Bump(f, S) \in [X -> Nat]
         /\ \A x \in X : (f[x] > 0 \/ x \in S) => Bump(f, S)[x] > 0
  BY DEF Bump

\* Where the store, the events and the tasks of others stand, a task that
\* moves keeps the invariant.
LEMMA MovesKeep ==
  ASSUME LedgerInv, ExecInv, EventInv, NEW p \in Plans, Moves(p) PROVE EventInv'
<1>1. PICK r : Move(p, r) /\ Placed(p, r)
  BY DEF Moves
<1>2. /\ UNCHANGED <<load, adm, act, skipped, finals, fins, crashes>>
      /\ held' \in {held, held \cup {p}} /\ ex[p].at \notin {"idle", "release"}
  BY DEF Moves, vars
<1>3. ex'[p] = r /\ \A q \in Plans \ {p} : ex'[q] = ex[q]
  BY <1>1 DEF Move, ExecInv, ExecType
<1>4. /\ Steps' = Steps /\ (\A q : StepsOf(q)' = StepsOf(q)) /\ Target' = Target
      /\ Admitted' = Admitted
  BY <1>2, Frame DEF Target, Admitted
<1>5. EventType' /\ PlansEnd'
  BY <1>2, <1>4 DEF EventInv, EventType, PlansEnd
<1>6. HoldsWorked'
  BY <1>1, <1>2, <1>3 DEF EventInv, EventType, HoldsWorked, Placed
<1>7. \A q \in Plans : EndsWithin(q, ex[q])'
  BY <1>1, <1>3, <1>4 DEF EventInv, EndsWithin, Placed
<1>8. \A q \in Plans, t \in Plans : Tells(t, q) => Tells(t, q)'
  BY <1>2, <1>3 DEF Tells
<1>9. crashes' = 0 => Announced'
  BY <1>2, <1>4, <1>8 DEF EventInv, Announced
<1> QED
  BY <1>5, <1>6, <1>7, <1>9 DEF EventInv

\* The end of an admission: when its last action ended.
LEMMA FinishAdmissionDone ==
  ASSUME NEW t \in Tables, NEW p \in Plans
  PROVE  LET u == finish_admission_if_done(t, p)
         IN  \A q \in Plans :
               u.adm[q].done = (t.adm[q].done \/ (q = p /\ \A s \in StepsOf(p) : t.act[s].done))
<1> DEFINE o == Summary(t.act, p)
           row == [t.adm[p] EXCEPT !.done = TRUE, !.outcome = o]
           full == [t EXCEPT !.adm = [@ EXCEPT ![p] = row]]
           u == finish_admission_if_done(t, p)
           open == t.adm[p].done \/ \E s \in StepsOf(p) : ~t.act[s].done
<1>1. t.adm \in [Plans -> AdmRow] /\ \A q \in Plans : t.adm[q].done \in BOOLEAN
  BY DEF Tables, AdmRow
<1>2. CASE open
  <2>1. u = t
    BY <1>2 DEF finish_admission_if_done
  <2> HIDE DEF u
  <2> QED
    BY <1>1, <1>2, <2>1 DEF u
<1>3. CASE ~open
  <2>1. u = full
    BY <1>3 DEF finish_admission_if_done, Tables
  <2>2. row.done = TRUE
    <3> HIDE DEF o
    <3>1. t.adm[p] \in AdmRow
      BY <1>1
    <3> QED
      BY <3>1 DEF AdmRow
  <2> HIDE DEF row
  <2>3. full.adm = [t.adm EXCEPT ![p] = row]
    BY DEF Tables
  <2> HIDE DEF full, u
  <2>4. u.adm[p].done /\ \A q \in Plans \ {p} : u.adm[q] = t.adm[q]
    BY <1>1, <2>1, <2>2, <2>3
  <2> QED
    BY <1>1, <1>3, <2>4 DEF u
<1> QED
  BY <1>2, <1>3

\* The end of s, and of its admission with the last of its actions.
DoneAfter(s) ==
  /\ \A x \in Steps : act'[x].done = (act[x].done \/ x = s)
  /\ \A q \in Plans : adm'[q].done = (adm[q].done \/ (q = s[1] /\ \A x \in StepsOf(q) : act'[x].done))

\* A transaction that ends s.
LEMMA EndDone ==
  ASSUME LedgerInv, NEW s \in Steps, NEW outcome \in EndNames, NEW row \in ActRow, row.done,
         NEW set \in Tables, set = [tables EXCEPT !.act = [act EXCEPT ![s] = row]],
         Commit(finish_admission_if_done(settle_rule_revoke(set, s, outcome), s[1]))
  PROVE  DoneAfter(s)
<1> DEFINE v == settle_rule_revoke(set, s, outcome)
           u == finish_admission_if_done(v, s[1])
<1>1. load \in Loads /\ act \in [Steps -> ActRow] /\ adm \in [Plans -> AdmRow] /\ s[1] \in Plans
  BY StepParts DEF LedgerInv, LedgerType
<1>2. set.act = [act EXCEPT ![s] = row] /\ set.adm = adm
  BY DEF tables
<1>3. v \in Tables /\ v.act = set.act /\ v.adm = set.adm
  BY SettleRevoke
<1> HIDE DEF v
<1>4. u.act = v.act
  BY <1>1, <1>3, FinishAdmission
<1>5. \A q \in Plans : u.adm[q].done = (v.adm[q].done \/ (q = s[1] /\ \A x \in StepsOf(s[1]) : v.act[x].done))
  BY <1>1, <1>3, FinishAdmissionDone
<1>6. act' = u.act /\ adm' = u.adm
  BY DEF Commit, v
<1> HIDE DEF u
<1>7. act' = [act EXCEPT ![s] = row]
  BY <1>2, <1>3, <1>4, <1>6
<1>8. \A x \in Steps : act[x].done \in BOOLEAN
  BY <1>1 DEF ActRow
<1>9. row.done \in BOOLEAN
  BY DEF ActRow
<1>10. \A x \in Steps : act'[x].done = (act[x].done \/ x = s)
  BY <1>1, <1>7, <1>8, <1>9
<1>11. \A q \in Plans : adm'[q].done = (adm[q].done \/ (q = s[1] /\ \A x \in StepsOf(q) : act'[x].done))
  BY <1>2, <1>3, <1>4, <1>5, <1>6
<1> QED
  BY <1>10, <1>11 DEF DoneAfter

\* finish_action ends its action.
LEMMA FinishDone ==
  ASSUME LedgerInv, NEW s \in Steps, NEW outcome \in Outcomes, Commit(finish_action(tables, s, outcome))
  PROVE  DoneAfter(s)
<1> DEFINE row == [act[s] EXCEPT !.done = TRUE, !.outcome = outcome]
           set == [tables EXCEPT !.act = [act EXCEPT ![s] = row]]
<1>1. /\ load \in Loads /\ tables \in Tables /\ tables.act = act /\ tables.adm = adm
      /\ act \in [Steps -> ActRow] /\ adm \in [Plans -> AdmRow] /\ s[1] \in Plans
  BY StepParts, TablesType DEF LedgerInv, LedgerType, tables
<1>2. CASE act[s].done
  <2> DEFINE u == finish_admission_if_done(tables, s[1])
  <2>1. Commit(u)
    BY <1>1, <1>2 DEF finish_action
  <2>2. u.act = act
    BY <1>1, FinishAdmission
  <2>3. \A q \in Plans : u.adm[q].done = (adm[q].done \/ (q = s[1] /\ \A x \in StepsOf(s[1]) : act[x].done))
    BY <1>1, FinishAdmissionDone
  <2> HIDE DEF u
  <2>4. act' = act /\ adm' = u.adm
    BY <2>1, <2>2 DEF Commit
  <2>5. \A x \in Steps : act[x].done \in BOOLEAN
    BY <1>1 DEF ActRow
  <2> QED
    BY <1>2, <2>3, <2>4, <2>5 DEF DoneAfter
<1>3. CASE ~act[s].done
  <2>1. row \in ActRow /\ row.done
    <3> DEFINE a == act[s]
    <3>1. a \in ActRow
      BY <1>1
    <3> HIDE DEF a
    <3>2. LET w == [a EXCEPT !.done = TRUE, !.outcome = outcome] IN w \in ActRow /\ w.done
      BY <3>1 DEF ActRow, EndNames
    <3> QED
      BY <3>2 DEF a
  <2>2. Commit(finish_admission_if_done(settle_rule_revoke(set, s, outcome), s[1]))
    BY <1>1, <1>3 DEF finish_action, tables
  <2> HIDE DEF row
  <2>3. set \in Tables /\ outcome \in EndNames
    BY <1>1, <2>1 DEF Tables, EndNames
  <2>4. set = [tables EXCEPT !.act = [act EXCEPT ![s] = row]]
    OBVIOUS
  <2> HIDE DEF set
  <2> QED
    BY <2>1, <2>2, <2>3, <2>4, EndDone
<1> QED
  BY <1>2, <1>3

\* A pass ends the action of a result line, and no other.
LEMMA ReconcileDone ==
  ASSUME LedgerInv, Reconcile
  PROVE  LET line == log[cursor + 1]
         IN  /\ line.step \in Steps /\ line.step[1] \in Admitted /\ load' = load /\ Admitted' = Admitted
             /\ line.event = "result" => DoneAfter(line.step)
             /\ line.event # "result" => adm' = adm /\ \A x \in Steps : act'[x].done = act[x].done
<1> DEFINE n == cursor + 1
           line == log[n]
           s == line.step
           u == apply_line(tables, line, n)
           Same == adm' = adm /\ \A x \in Steps : act'[x].done = act[x].done
<1>1. /\ load \in Loads /\ tables \in Tables /\ tables.act = act /\ tables.adm = adm
      /\ act \in [Steps -> ActRow] /\ adm \in [Plans -> AdmRow] /\ log \in Seq(Line) /\ cursor \in Nat
  BY TablesType DEF LedgerInv, LedgerType, tables
<1>2. n \in 1..Len(log) /\ n \in Nat /\ load' = load
  BY <1>1 DEF Reconcile
<1>3. line \in Line
  BY <1>1, <1>2, SeqElement
<1>4. s \in Steps /\ line.event \in Events /\ line.outcome \in EndNames
  BY <1>3 DEF Line
<1>5. s[1] \in Admitted /\ s[1] \in Plans
  BY <1>2 DEF LedgerInv, LogOnce, Admitted
<1>6. Commit(u) /\ UNCHANGED <<load, now, heads, log>>
  BY <1>5 DEF Reconcile
<1>7. Settles(tables, u, s)
  BY <1>1, <1>2, <1>3, ApplyLineEffect
<1> HIDE DEF n
<1>8. Admitted' = Admitted
  <2> HIDE DEF u
  <2> QED
    BY <1>4, <1>6, <1>7, SettleStep
<1>9. ASSUME line.event = "op" PROVE Same
  BY <1>1, <1>6, <1>9 DEF apply_line, Commit
<1>10. ASSUME line.event = "consumed" PROVE Same
  <2>1. CASE act[s].consumed # 0
    BY <1>1, <1>6, <1>10, <2>1 DEF apply_line, Commit
  <2>2. CASE act[s].consumed = 0
    <3> DEFINE row == [act[s] EXCEPT !.consumed = n]
    <3>1. act[s] \in ActRow
      BY <1>1, <1>4
    <3>2. row.done = act[s].done
      BY <3>1 DEF ActRow
    <3>3. u = [tables EXCEPT !.act[s].consumed = n]
      BY <1>1, <1>10, <2>2 DEF apply_line
    <3>4. act' = [act EXCEPT ![s] = row] /\ adm' = adm
      BY <1>6, <3>3 DEF Commit, tables
    <3> HIDE DEF row
    <3> QED
      BY <1>1, <1>4, <3>2, <3>4
  <2> QED
    BY <2>1, <2>2
<1>11. ASSUME line.event = "result" PROVE DoneAfter(s)
  <2> DEFINE row == [act[s] EXCEPT !.done = TRUE, !.outcome = line.outcome, !.result = n]
             set == [tables EXCEPT !.act = [act EXCEPT ![s] = row]]
  <2>1. row \in ActRow /\ row.done
    <3> DEFINE a == act[s]
               o == line.outcome
    <3>1. a \in ActRow /\ o \in EndNames
      BY <1>1, <1>4
    <3> HIDE DEF a, o
    <3>2. LET w == [a EXCEPT !.done = TRUE, !.outcome = o, !.result = n] IN w \in ActRow /\ w.done
      BY <1>2, <3>1 DEF ActRow
    <3> QED
      BY <3>2 DEF a, o
  <2>2. Commit(finish_admission_if_done(settle_rule_revoke(set, s, line.outcome), s[1]))
    BY <1>1, <1>6, <1>11 DEF apply_line, tables
  <2> HIDE DEF row
  <2>3. set \in Tables
    BY <1>1, <2>1 DEF Tables
  <2>4. set = [tables EXCEPT !.act = [act EXCEPT ![s] = row]]
    OBVIOUS
  <2> HIDE DEF set
  <2> QED
    BY <1>4, <2>1, <2>2, <2>3, <2>4, EndDone
<1>12. (line.event = "result" => DoneAfter(s)) /\ (line.event # "result" => Same)
  <2> HIDE DEF Same
  <2> QED BY <1>4, <1>9, <1>10, <1>11 DEF Events
<1> QED
  BY <1>2, <1>4, <1>5, <1>8, <1>12 DEF n

\* An outcome recorded: the final step comes with it, and the task that
\* recorded the last one comes to the end of the operation.
LEMMA RecordKeeps ==
  ASSUME LedgerInv, ExecInv, EventInv, NEW p \in Plans, CompleteRecord(p) PROVE EventInv'
<1> DEFINE e == ex[p]
           s == e.step
           recorded == ~act[s].done
           f == To(p, "release")
           r == [f EXCEPT !.recorded = recorded]
<1>1. /\ e \in TaskRow /\ ExecType /\ e.at = "record" /\ s \in Steps /\ s[1] \in Admitted
      /\ e.out \in Outcomes
  BY TaskFacts DEF CompleteRecord, TaskOk, OutcomeOf
<1>2. /\ Commit(finish_action(tables, s, e.out)) /\ Move(p, r)
      /\ finals' = IF recorded THEN Bump(finals, {s}) ELSE finals
      /\ UNCHANGED <<load, held, skipped, fins, crashes>>
  BY DEF CompleteRecord, flags, boot
<1>3. DoneAfter(s)
  BY <1>1, <1>2, FinishDone
<1>4. f \in TaskRow /\ f.at = "release" /\ Kept(f, e)
  BY <1>1, ToRow DEF Places
<1>5. recorded \in BOOLEAN
  OBVIOUS
<1>6. EventType /\ HoldsWorked /\ PlansEnd /\ (\A q \in Plans : EndsWithin(q, ex[q])) /\ (crashes = 0 => Announced)
  BY DEF EventInv
<1>7. Admitted' = Admitted /\ Steps' = Steps /\ (\A q : StepsOf(q)' = StepsOf(q)) /\ Target' = Target
  <2>1. FinishAction(s)
    BY CompleteRecordStep
  <2>2. tables \in Tables /\ load \in Loads
    BY TablesType DEF LedgerInv, LedgerType
  <2>3. Settles(tables, finish_action(tables, s, e.out), s)
    BY <1>1, <2>2, FinishActionEffect
  <2>4. Admitted' = Admitted
    BY <1>1, <1>2, <2>1, <2>3, SettleStep DEF FinishAction
  <2> QED
    BY <1>2, <2>4, Frame DEF Target
<1> HIDE DEF f, recorded
<1>8. r.at = "release" /\ r.step = s /\ r.todo = e.todo /\ r.recorded = recorded
  <2>1. r \in TaskRow /\ r.at = f.at /\ Kept(r, f)
    BY <1>4, <1>5, FieldRow
  <2>2. r.recorded = recorded
    BY <1>4 DEF TaskRow
  <2> QED
    BY <1>4, <2>1, <2>2 DEF Kept
<1> HIDE DEF r
<1>9. ex'[p] = r /\ \A q \in Plans \ {p} : ex'[q] = ex[q]
  BY <1>1, <1>2 DEF Move, ExecType
<1>10. EventType'
  <2>1. Bump(finals, {s}) \in [Steps -> Nat]
    BY <1>6, Bumped DEF EventType
  <2> QED
    BY <1>2, <1>6, <1>7, <2>1 DEF EventType
<1>11. HoldsWorked'
  BY <1>1, <1>2, <1>6, <1>8, <1>9 DEF HoldsWorked, EventType
<1>12. PlansEnd'
  BY <1>1, <1>3, <1>6, <1>7 DEF PlansEnd, DoneAfter, StepsOf, Admitted
<1>13. \A q \in Plans : EndsWithin(q, ex[q])'
  <2>1. s[1] \in Plans \cap {p, Target[p]} /\ \A v \in e.todo : v[1] = Target[p]
    BY <1>1, <1>6 DEF EndsWithin, Finishing
  <2> QED
    BY <1>6, <1>7, <1>8, <1>9, <2>1 DEF EndsWithin
<1>14. ASSUME crashes' = 0 PROVE Announced'
  <2>1. Announced
    BY <1>2, <1>6, <1>14
  <2>2. \A x \in Steps : act'[x].done => finals'[x] > 0 \/ x \in skipped
    <3>1. \A x \in Steps : (finals[x] > 0 \/ x \in {s}) => Bump(finals, {s})[x] > 0
      BY <1>6, Bumped DEF EventType
    <3> QED
      BY <1>1, <1>2, <1>3, <2>1, <3>1 DEF Announced, DoneAfter, recorded
  <2>3. ASSUME NEW q \in Plans, adm'[q].done
        PROVE  fins[q] > 0 \/ q \in held \/ \E t \in Plans : Tells(t, q)'
    <3>1. CASE adm[q].done
      <4>1. \A t \in Plans : Tells(t, q) => Tells(t, q)'
        BY <1>1, <1>9 DEF Tells
      <4> QED
        BY <2>1, <3>1, <4>1 DEF Announced
    <3>2. CASE ~adm[q].done
      <4>1. q = s[1] /\ \A x \in StepsOf(q) : act'[x].done
        BY <1>3, <2>3, <3>2 DEF DoneAfter
      <4>2. recorded
        BY <1>1, <1>3, <1>6, <3>2, <4>1 DEF DoneAfter, PlansEnd, recorded, StepsOf
      <4>3. Tells(p, q)'
        BY <1>8, <1>9, <4>1, <4>2 DEF Tells
      <4> QED
        BY <4>3
    <3> QED
      BY <3>1, <3>2
  <2> QED
    BY <1>2, <1>7, <2>2, <2>3 DEF Announced
<1> QED
  BY <1>10, <1>11, <1>12, <1>13, <1>14 DEF EventInv

\* The end of a hold: what was put off is announced.
LEMMA ReleaseKeeps ==
  ASSUME LedgerInv, ExecInv, EventInv, NEW p \in Plans, NEW q \in Plans, NEW fin, ReleaseHeld(q, fin),
         UNCHANGED <<load, adm, act, crashes>>, NEW r, Move(p, r),
         r.at \notin {"queued", "release"}, EndsWithin(p, r), r.at = "idle" => p = q,
         q \in held => fin,
         ex[p].at = "release" => ex[p].step[1] = q /\ (ex[p].recorded => fin)
  PROVE  EventInv'
<1>1. EventType /\ HoldsWorked /\ PlansEnd /\ (\A t \in Plans : EndsWithin(t, ex[t])) /\ (crashes = 0 => Announced)
  BY DEF EventInv
<1>2. Admitted' = Admitted /\ Steps' = Steps /\ (\A t : StepsOf(t)' = StepsOf(t)) /\ Target' = Target
  BY Frame DEF Target, Admitted
<1>3. ex'[p] = r /\ \A t \in Plans \ {p} : ex'[t] = ex[t]
  BY DEF Move, ExecInv, ExecType
<1> DEFINE S == skipped \cap StepsOf(q)
<1>4. /\ held' = held \ {q} /\ skipped' = skipped \ StepsOf(q)
      /\ finals' = IF q \in held THEN Bump(finals, S) ELSE finals
      /\ fins' = IF fin /\ adm[q].done THEN Bump(fins, {q}) ELSE fins
  BY DEF ReleaseHeld
<1>5. /\ Bump(finals, S) \in [Steps -> Nat]
      /\ \A x \in Steps : (finals[x] > 0 \/ x \in S) => Bump(finals, S)[x] > 0
      /\ Bump(fins, {q}) \in [Plans -> Nat]
      /\ \A t \in Plans : (fins[t] > 0 \/ t \in {q}) => Bump(fins, {q})[t] > 0
  <2>1. finals \in [Steps -> Nat] /\ fins \in [Plans -> Nat]
    BY <1>1 DEF EventType
  <2> HIDE DEF S
  <2> QED
    BY <2>1, Bumped
<1>6. EventType'
  BY <1>1, <1>2, <1>4, <1>5 DEF EventType
<1>7. HoldsWorked'
  <2>1. \A t \in held' : ex'[t].at \notin {"idle", "queued"}
    BY <1>1, <1>3, <1>4 DEF HoldsWorked, EventType
  <2>2. \A x \in skipped' : x[1] \in held'
    BY <1>1, <1>4 DEF HoldsWorked, StepsOf, EventType
  <2> QED
    BY <2>1, <2>2 DEF HoldsWorked
<1>8. PlansEnd'
  BY <1>1, <1>2 DEF PlansEnd
<1>9. \A t \in Plans : EndsWithin(t, ex[t])'
  BY <1>1, <1>2, <1>3 DEF EndsWithin
<1>10. ASSUME crashes' = 0 PROVE Announced'
  <2>1. Announced
    BY <1>1, <1>10
  <2>2. \A x \in Steps : act[x].done => finals'[x] > 0 \/ x \in skipped'
    BY <1>1, <1>4, <1>5, <2>1 DEF Announced, HoldsWorked, StepsOf
  <2>3. ASSUME NEW t \in Plans, adm[t].done
        PROVE  fins'[t] > 0 \/ t \in held' \/ \E w \in Plans : Tells(w, t)'
    <3>1. fins[t] > 0 \/ t \in held \/ \E w \in Plans : Tells(w, t)
      BY <2>1, <2>3 DEF Announced
    <3>2. fins[t] > 0 => fins'[t] > 0
      BY <1>4, <1>5
    <3>3. t \in held => fins'[t] > 0 \/ t \in held'
      BY <1>4, <1>5, <2>3
    <3>4. ASSUME NEW w \in Plans, Tells(w, t) PROVE Tells(w, t)' \/ fins'[t] > 0
      <4>1. CASE w # p
        BY <1>3, <3>4, <4>1 DEF Tells
      <4>2. CASE w = p
        BY <1>4, <1>5, <2>3, <3>4, <4>2 DEF Tells
      <4> QED
        BY <4>1, <4>2
    <3> QED
      BY <3>1, <3>2, <3>3, <3>4
  <2> QED
    BY <1>2, <2>2, <2>3 DEF Announced
<1> QED
  BY <1>6, <1>7, <1>8, <1>9, <1>10 DEF EventInv

\* The end of a hold in complete, and at the end of the task.
LEMMA EndsKeep ==
  ASSUME LedgerInv, ExecInv, EventInv, NEW p \in Plans, CompleteRelease(p) \/ Exit(p) PROVE EventInv'
<1>1. /\ ex[p] \in TaskRow /\ ExecType /\ EndsWithin(p, ex[p])
      /\ TaskOk(p, ex[p], CallOp(p))
  BY TaskFacts DEF EventInv
<1>2. CASE Exit(p)
  <2> DEFINE r == Idle
  <2>1. r.at = "idle" /\ r.todo = {}
    BY IdleRow
  <2> HIDE DEF r
  <2>2. EndsWithin(p, r)
    BY <2>1 DEF EndsWithin, Finishing
  <2>3. ReleaseHeld(p, p \in held) /\ Move(p, r) /\ UNCHANGED <<load, adm, act, crashes>> /\ ex[p].at = "exit"
    BY <1>2 DEF Exit, r, vars, boot
  <2> QED
    BY <2>1, <2>2, <2>3, ReleaseKeeps
<1>3. CASE CompleteRelease(p)
  <2> DEFINE q == ex[p].step[1]
             fin == ex[p].recorded \/ q \in held
  <2>1. /\ ReleaseHeld(q, fin) /\ UNCHANGED <<load, adm, act, crashes>> /\ ex[p].at = "release"
        /\ \/ Move(p, NextAction(p, ex[p].failed))
           \/ ex[p].ret \in {"closing", "compose"} /\ Move(p, To(p, ex[p].ret))
    BY <1>1, <1>3 DEF CompleteRelease, vars, boot, TaskOk, OutcomeOf, TaskRow, Returns, Finishing
  <2>2. q \in Plans
    BY <1>1, <2>1 DEF EndsWithin, Finishing
  <2>3. PICK r : Move(p, r) /\ Placed(p, r)
    <3>1. \A at \in {"closing", "compose"} : at \in Places \ (Finishing \cup {"idle", "queued"})
      BY DEF Places, Finishing
    <3>2. CASE Move(p, NextAction(p, ex[p].failed))
      BY <3>2, PlacedNext
    <3>3. CASE ex[p].ret \in {"closing", "compose"} /\ Move(p, To(p, ex[p].ret))
      BY <1>1, <3>1, <3>3, PlacedTo
    <3> QED
      BY <2>1, <3>2, <3>3
  <2> HIDE DEF q, fin
  <2>4. (q \in held => fin) /\ (ex[p].step[1] = q /\ (ex[p].recorded => fin))
    BY DEF q, fin
  <2> QED
    BY <2>1, <2>2, <2>3, <2>4, ReleaseKeeps DEF Placed
<1> QED
  BY <1>2, <1>3

\* A line of the runner's log read: the final step comes with its result, or
\* later where the plan is held.
LEMMA LineKeeps == ASSUME LedgerInv, ExecInv, EventInv, ReconcileLine PROVE EventInv'
<1> DEFINE line == log[cursor + 1]
           s == line.step
           p == s[1]
<1>1. /\ s \in Steps /\ p \in Admitted /\ p \in Plans /\ load' = load /\ Admitted' = Admitted
      /\ line.event = "result" => DoneAfter(s)
      /\ line.event # "result" => adm' = adm /\ \A x \in Steps : act'[x].done = act[x].done
  BY ReconcileDone DEF ReconcileLine, Admitted
<1>2. /\ line.event # "result" => UNCHANGED <<skipped, finals, fins>>
      /\ line.event = "result" /\ p \in held => skipped' = skipped \cup {s} /\ UNCHANGED <<finals, fins>>
      /\ line.event = "result" /\ p \notin held =>
           /\ finals' = Bump(finals, {s}) /\ UNCHANGED skipped
           /\ fins' = IF adm'[p].done # adm[p].done THEN Bump(fins, {p}) ELSE fins
      /\ UNCHANGED <<ex, held, crashes>>
  BY DEF ReconcileLine, events, boot
<1> HIDE DEF line, s, p
<1>3. EventType /\ HoldsWorked /\ PlansEnd /\ (\A q \in Plans : EndsWithin(q, ex[q])) /\ (crashes = 0 => Announced)
  BY DEF EventInv
<1>4. Steps' = Steps /\ (\A q : StepsOf(q)' = StepsOf(q)) /\ Target' = Target
  BY <1>1, Frame DEF Target
<1>5. /\ Bump(finals, {s}) \in [Steps -> Nat] /\ Bump(fins, {p}) \in [Plans -> Nat]
      /\ \A x \in Steps : (finals[x] > 0 \/ x \in {s}) => Bump(finals, {s})[x] > 0
      /\ \A q \in Plans : (fins[q] > 0 \/ q \in {p}) => Bump(fins, {p})[q] > 0
  BY <1>3, Bumped DEF EventType
<1>6. EventType' /\ HoldsWorked'
  BY <1>1, <1>2, <1>3, <1>4, <1>5 DEF EventType, HoldsWorked, p
<1>7. PlansEnd'
  BY <1>1, <1>3, <1>4 DEF PlansEnd, DoneAfter, StepsOf, Admitted, p
<1>8. \A q \in Plans : EndsWithin(q, ex[q])'
  BY <1>2, <1>3, <1>4 DEF EndsWithin
<1>9. ASSUME crashes' = 0 PROVE Announced'
  <2>1. Announced /\ \A t, q \in Plans : Tells(t, q)' = Tells(t, q)
    BY <1>2, <1>3, <1>9 DEF Tells
  <2>2. \A x \in Steps : act'[x].done => finals'[x] > 0 \/ x \in skipped'
    BY <1>1, <1>2, <1>5, <2>1 DEF Announced, DoneAfter
  <2>3. ASSUME NEW q \in Plans, adm'[q].done
        PROVE  fins'[q] > 0 \/ q \in held' \/ \E t \in Plans : Tells(t, q)
    <3>1. fins[q] > 0 => fins'[q] > 0
      BY <1>2, <1>5
    <3>2. CASE adm[q].done
      BY <1>2, <2>1, <3>1, <3>2 DEF Announced
    <3>3. CASE ~adm[q].done
      <4>1. line.event = "result" /\ q = p
        BY <1>1, <2>3, <3>3 DEF DoneAfter, p
      <4> QED
        BY <1>2, <1>5, <2>3, <3>3, <4>1
    <3> QED
      BY <3>2, <3>3
  <2> QED
    BY <1>4, <2>1, <2>2, <2>3 DEF Announced
<1> QED
  BY <1>6, <1>7, <1>8, <1>9 DEF EventInv

\* The windows end: a final step and `finished` for each.
LEMMA ExpireKeeps == ASSUME LedgerInv, ExecInv, EventInv, ExpirePass PROVE EventInv'
<1> DEFINE over == {p \in Plans : Expirable(p)}
           S == {s \in Steps : s[1] \in over /\ act'[s].outcome = "expired"}
<1>1. /\ finals' = Bump(finals, S) /\ fins' = Bump(fins, over)
      /\ UNCHANGED <<load, ex, held, skipped, crashes>>
  BY DEF ExpirePass, ExpireWindows, flags, boot
<1>2. /\ adm \in [Plans -> AdmRow] /\ act \in [Steps -> ActRow] /\ load \in Loads
      /\ \A s \in Steps : s[1] \in Plans
  BY StepParts DEF LedgerInv, LedgerType
<1>3. \A s \in Steps : act'[s] = IF Expirable(s[1]) /\ act[s].consumed = 0 /\ ~act[s].done
                                 THEN [act[s] EXCEPT !.done = TRUE, !.outcome = "expired"] ELSE act[s]
  BY DEF ExpirePass, ExpireWindows
<1>4. \A p \in Plans : adm'[p] = IF Expirable(p) THEN [adm[p] EXCEPT !.done = TRUE, !.outcome = "expired"]
                                 ELSE adm[p]
  BY DEF ExpirePass, ExpireWindows
<1>5. \A s \in Steps : /\ act[s].done => act'[s].done
                       /\ act'[s].done => act[s].done \/ s \in S
                       /\ s[1] \notin over => act'[s].done = act[s].done
  BY <1>2, <1>3 DEF ActRow
<1>6. \A p \in Plans : /\ adm'[p].seq = adm[p].seq /\ (adm[p].done => adm'[p].done)
                       /\ adm'[p].done => adm[p].done \/ p \in over
                       /\ p \in over => adm'[p].done /\ p \in Admitted
  <2>1. \A p \in Plans : Expirable(p) => p \in Admitted
    BY DEF Expirable
  <2> QED
    BY <1>2, <1>4, <2>1 DEF AdmRow
<1>7. EventType /\ HoldsWorked /\ PlansEnd /\ (\A q \in Plans : EndsWithin(q, ex[q])) /\ (crashes = 0 => Announced)
  BY DEF EventInv
<1>8. /\ Steps' = Steps /\ (\A q : StepsOf(q)' = StepsOf(q)) /\ Target' = Target /\ Admitted' = Admitted
  BY <1>1, <1>6, Frame DEF Target, Admitted
<1> HIDE DEF over, S
<1>9. /\ finals' \in [Steps -> Nat] /\ fins' \in [Plans -> Nat]
      /\ \A x \in Steps : (finals[x] > 0 \/ x \in S) => finals'[x] > 0
      /\ \A q \in Plans : (fins[q] > 0 \/ q \in over) => fins'[q] > 0
  BY <1>1, <1>7, Bumped DEF EventType
<1>10. EventType' /\ HoldsWorked'
  BY <1>1, <1>7, <1>8, <1>9 DEF EventType, HoldsWorked
<1>11. PlansEnd'
  <2>1. \A s \in Steps : act'[s].done => s[1] \in Admitted
    BY <1>5, <1>6, <1>7 DEF PlansEnd, S, over
  <2>2. ASSUME NEW q \in Admitted, \A s \in StepsOf(q) : act'[s].done PROVE adm'[q].done
    <3>1. q \in Plans
      BY DEF Admitted
    <3>2. CASE q \in over
      BY <1>6, <3>1, <3>2
    <3>3. CASE q \notin over
      <4>1. \A s \in StepsOf(q) : act[s].done
        BY <1>5, <2>2, <3>3 DEF StepsOf
      <4> QED
        BY <1>6, <1>7, <3>1, <4>1 DEF PlansEnd
    <3> QED
      BY <3>2, <3>3
  <2> QED
    BY <1>8, <2>1, <2>2 DEF PlansEnd
<1>12. \A q \in Plans : EndsWithin(q, ex[q])'
  BY <1>1, <1>7, <1>8 DEF EndsWithin
<1>13. ASSUME crashes' = 0 PROVE Announced'
  <2>1. Announced /\ \A t, q \in Plans : Tells(t, q)' = Tells(t, q)
    BY <1>1, <1>7, <1>13 DEF Tells
  <2>2. \A x \in Steps : act'[x].done => finals'[x] > 0 \/ x \in skipped'
    BY <1>1, <1>5, <1>9, <2>1 DEF Announced
  <2>3. \A q \in Plans : adm'[q].done => fins'[q] > 0 \/ q \in held' \/ \E t \in Plans : Tells(t, q)
    BY <1>1, <1>6, <1>9, <2>1 DEF Announced
  <2> QED
    BY <1>8, <2>1, <2>2, <2>3 DEF Announced
<1> QED
  BY <1>10, <1>11, <1>12, <1>13 DEF EventInv

\* A plan enters the queue: it is submitted or resumed.
LEMMA QueuedKeeps ==
  ASSUME LedgerInv, ExecInv, EventInv, NEW p \in Plans, ex[p].at = "idle", Move(p, To(p, "queued")),
         UNCHANGED <<load, act, held, skipped, finals, fins, crashes>>,
         \A q \in Plans : adm'[q].done => adm[q].done, PlansEnd'
  PROVE  EventInv'
<1> DEFINE r == To(p, "queued")
<1>1. r.at = "queued" /\ r.todo = ex[p].todo
  BY ToRow DEF ExecInv, Places, Kept
<1> HIDE DEF r
<1>2. ex'[p] = r /\ \A t \in Plans \ {p} : ex'[t] = ex[t]
  BY DEF Move, ExecInv, ExecType, r
<1>3. EventType /\ HoldsWorked /\ (\A q \in Plans : EndsWithin(q, ex[q])) /\ (crashes = 0 => Announced)
  BY DEF EventInv
<1>4. /\ Steps' = Steps /\ (\A q : StepsOf(q)' = StepsOf(q)) /\ Target' = Target
  BY Frame DEF Target
<1>5. EventType' /\ HoldsWorked'
  BY <1>2, <1>3, <1>4 DEF EventType, HoldsWorked
<1>6. \A q \in Plans : EndsWithin(q, ex[q])'
  BY <1>1, <1>2, <1>3, <1>4 DEF EndsWithin, Finishing
<1>7. \A t, q \in Plans : Tells(t, q) => Tells(t, q)'
  BY <1>2 DEF Tells
<1>8. crashes' = 0 => Announced'
  BY <1>3, <1>4, <1>7 DEF Announced
<1> QED
  BY <1>5, <1>6, <1>8 DEF EventInv

\* A plan is submitted.
LEMMA SubmitKeeps == ASSUME LedgerInv, ExecInv, EventInv, NEW p \in Plans, Submit(p) PROVE EventInv'
<1>1. /\ Admit(p) /\ Move(p, To(p, "queued")) /\ p \notin Admitted /\ Actions[p] # <<>>
      /\ UNCHANGED <<load, act, held, skipped, finals, fins, crashes>>
  BY DEF Submit, Admit, flags, events, boot
<1>2. ex[p].at = "idle" /\ load \in Loads /\ adm \in [Plans -> AdmRow] /\ PlansEnd
  BY <1>1, TaskFacts DEF LedgerInv, LedgerType, EventInv
<1> DEFINE row == [NoRow EXCEPT !.seq = LastSeq + 1, !.at = now, !.before = heads[Scope[p]]]
<1>3. row.done = FALSE
  BY DEF NoRow
<1>4. adm' = [adm EXCEPT ![p] = row]
  BY <1>1 DEF Admit, write_admission
<1> HIDE DEF row
<1>5. adm'[p].done = FALSE /\ \A q \in Plans \ {p} : adm'[q] = adm[q]
  BY <1>2, <1>3, <1>4
<1>6. Admitted' \subseteq Admitted \cup {p} /\ Admitted \subseteq Admitted'
  BY <1>1, <1>5 DEF Admitted
<1>7. Steps' = Steps /\ \A q : StepsOf(q)' = StepsOf(q)
  BY <1>1, Frame
<1>8. \E s \in StepsOf(p) : ~act[s].done
  <2>1. Actions[p] \in Seq([kind : STRING, rule : Rules \cup {NoRule}])
    BY <1>2, LedgerAssumption DEF Actions
  <2>2. 1 \in 1..Len(Actions[p])
    BY <1>1, <2>1
  <2>3. <<p, 1>> \in Steps /\ <<p, 1>>[1] = p
    BY <2>2 DEF Steps
  <2>4. ~act[<<p, 1>>].done
    BY <1>1, <1>2, <2>3 DEF PlansEnd
  <2> QED
    BY <2>3, <2>4 DEF StepsOf
<1>9. PlansEnd'
  <2>1. \A s \in Steps : act'[s].done => s[1] \in Admitted'
    BY <1>1, <1>2, <1>6 DEF PlansEnd
  <2>2. ASSUME NEW q \in Admitted', \A s \in StepsOf(q) : act[s].done PROVE adm'[q].done
    <3>1. q # p /\ q \in Admitted /\ q \in Plans
      BY <1>6, <1>8, <2>2 DEF Admitted
    <3> QED
      BY <1>2, <1>5, <2>2, <3>1 DEF PlansEnd
  <2> QED
    BY <1>1, <1>7, <2>1, <2>2 DEF PlansEnd
<1>10. \A q \in Plans : adm'[q].done => adm[q].done
  BY <1>5
<1> QED
  BY <1>1, <1>2, <1>9, <1>10, QueuedKeeps

\* What the runner, the clock and the start of a restarted agent leave alone.
LEMMA StillKeeps ==
  ASSUME LedgerInv, ExecInv, EventInv,
         UNCHANGED <<load, adm, act, ex, held, skipped, finals, fins, crashes>>
  PROVE  EventInv'
<1>1. /\ Steps' = Steps /\ (\A q : StepsOf(q)' = StepsOf(q)) /\ Target' = Target /\ Admitted' = Admitted
      /\ \A t, q : Tells(t, q)' = Tells(t, q)
  BY Frame DEF Target, Admitted, Tells
<1>2. EventType' /\ HoldsWorked' /\ PlansEnd'
  BY <1>1 DEF EventInv, EventType, HoldsWorked, PlansEnd
<1>3. \A q \in Plans : EndsWithin(q, ex[q])'
  BY <1>1 DEF EventInv, EndsWithin
<1>4. crashes' = 0 => Announced'
  BY <1>1 DEF EventInv, Announced
<1> QED
  BY <1>2, <1>3, <1>4 DEF EventInv

\* A crash loses the tasks and what they held back.
LEMMA CrashKeeps == ASSUME LedgerInv, ExecInv, EventInv, Crash PROVE EventInv'
<1> DEFINE d == Idle
<1>1. d.at = "idle" /\ d.todo = {}
  BY IdleRow
<1>2. /\ ex' = [p \in Plans |-> d] /\ held' = {} /\ skipped' = {} /\ crashes' = crashes + 1
      /\ UNCHANGED <<load, adm, act, finals, fins>>
  BY DEF Crash, vars, events
<1> HIDE DEF d
<1>3. Steps' = Steps /\ (\A q : StepsOf(q)' = StepsOf(q)) /\ Target' = Target /\ Admitted' = Admitted
  BY <1>2, Frame DEF Target, Admitted
<1>4. EventType' /\ PlansEnd' /\ HoldsWorked' /\ crashes' # 0
  BY <1>2, <1>3 DEF EventInv, EventType, PlansEnd, HoldsWorked
<1>5. \A q \in Plans : EndsWithin(q, ex[q])'
  BY <1>1, <1>2 DEF EndsWithin, Finishing
<1> QED
  BY <1>4, <1>5 DEF EventInv

\* Every step keeps the invariant.
LEMMA EventStep == LedgerInv /\ ExecInv /\ EventInv /\ [ExecNext]_allVars => EventInv'
<1> SUFFICES ASSUME LedgerInv, ExecInv, EventInv, [ExecNext]_allVars PROVE EventInv'
  OBVIOUS
<1>1. ASSUME NEW p \in Plans, Submit(p) PROVE EventInv'
  BY <1>1, SubmitKeeps
<1>2. ASSUME NEW p \in Plans, Task(p) PROVE EventInv'
  <2>1. CASE CompleteRecord(p)
    BY <2>1, RecordKeeps
  <2>2. CASE CompleteRelease(p) \/ Exit(p)
    BY <2>2, EndsKeep
  <2>3. CASE ~CompleteRecord(p) /\ ~CompleteRelease(p) /\ ~Exit(p)
    <3>1. EndsWithin(p, ex[p])
      BY DEF EventInv
    <3>2. Moves(p)
      BY <1>2, <2>3, <3>1, TaskMoves
    <3> QED
      BY <3>2, MovesKeep
  <2> QED
    BY <2>1, <2>2, <2>3
<1>3. ASSUME NEW p \in Plans, Resume(p) PROVE EventInv'
  <2>1. UNCHANGED <<load, adm, act, held, skipped, finals, fins, crashes>>
    BY <1>3 DEF Resume, vars, flags, events
  <2>2. CASE ex[p].at = "idle"
    <3>1. Move(p, To(p, "queued"))
      BY <1>3, <2>2 DEF Resume
    <3>2. PlansEnd'
      <4>1. Steps' = Steps /\ (\A q : StepsOf(q)' = StepsOf(q)) /\ Admitted' = Admitted
        BY <2>1, Frame DEF Admitted
      <4> QED
        BY <2>1, <4>1 DEF EventInv, PlansEnd
    <3> QED
      BY <2>1, <2>2, <3>1, <3>2, QueuedKeeps
  <2>3. CASE ex[p].at # "idle"
    BY <1>3, <2>1, <2>3, StillKeeps DEF Resume
  <2> QED
    BY <2>2, <2>3
<1>4. ASSUME NEW s \in Steps, RunnerEnds(s) \/ RunnerAnswers(s) \/ RunnerWorks(s) \/ Timeout(s)
      PROVE  EventInv'
  <2>1. UNCHANGED <<ex, held, skipped, finals, fins, crashes>>
    BY <1>4 DEF RunnerEnds, RunnerAnswers, RunnerWorks, RunnerOk, RunnerFails, RunnerHandsBack, RunnerBind,
       RunnerStart, RunnerRefuse, RunnerRecords, RunnerCloses, RunnerCancels, Timeout, Runner, flags, events, boot
  <2>2. UNCHANGED <<load, adm, act>>
    BY <1>4 DEF RunnerEnds, RunnerAnswers, RunnerWorks, RunnerOk, RunnerFails, RunnerHandsBack, RunnerBind,
       RunnerStart, RunnerRefuse, RunnerRecords, RunnerCloses, RunnerCancels, Timeout, KeepsLog, vars,
       RunnerWrites, RunnerConsume
  <2> QED
    BY <2>1, <2>2, StillKeeps
<1>5. CASE ReconcileLine
  BY <1>5, LineKeeps
<1>6. CASE ExpirePass
  BY <1>6, ExpireKeeps
<1>7. CASE Crash
  BY <1>7, CrashKeeps
<1>8. CASE ListOpen \/ Clock \/ UNCHANGED allVars
  <2>1. UNCHANGED <<load, adm, act, ex, held, skipped, finals, fins, crashes>>
    BY <1>8 DEF ListOpen, Clock, Tick, allVars, execVars, vars, flags, events, boot
  <2> QED
    BY <2>1, StillKeeps
<1> QED
  BY <1>1, <1>2, <1>3, <1>4, <1>5, <1>6, <1>7, <1>8 DEF ExecNext

\* No event and nothing to announce at the start.
LEMMA EventInit == ExecInit => EventInv
<1> SUFFICES ASSUME ExecInit PROVE EventInv
  OBVIOUS
<1> DEFINE d == Idle
<1>1. d.at = "idle" /\ d.todo = {}
  BY IdleRow
<1>2. /\ ex = [p \in Plans |-> d] /\ held = {} /\ skipped = {} /\ crashes = 0
      /\ finals = [s \in Steps |-> 0] /\ fins = [p \in Plans |-> 0]
      /\ adm = [p \in Plans |-> NoRow] /\ act = [s \in Steps |-> FreshAction]
  BY DEF ExecInit, Init
<1>3. NoRow.done = FALSE /\ NoRow.seq = 0 /\ FreshAction.done = FALSE
  BY DEF NoRow, FreshAction
<1> HIDE DEF d
<1>4. EventType /\ HoldsWorked /\ PlansEnd /\ Announced
  BY <1>2, <1>3 DEF EventType, HoldsWorked, PlansEnd, Announced, Admitted
<1>5. \A q \in Plans : EndsWithin(q, ex[q])
  BY <1>1, <1>2 DEF EndsWithin, Finishing
<1> QED
  BY <1>4, <1>5 DEF EventInv

\* When nobody works on a plan any more, every ended action had its final step
\* and a finished operation its `finished` (complete, release_held,
\* apply_effect): no hold, no cancel beside it and no result line read in
\* between loses an event, for any plans and any cancels of cancels.
THEOREM EndsAnnounced == ExecSpec => []EndsAreAnnounced
<1>1. ASSUME LedgerInv, ExecInv, EventInv PROVE EndsAreAnnounced
  <2> SUFFICES ASSUME NEW p \in Plans, Quiet(p), crashes = 0
               PROVE  /\ adm[p].done => fins[p] > 0
                      /\ \A s \in StepsOf(p) : act[s].done => finals[s] > 0
    BY DEF EndsAreAnnounced
  <2>1. ex[p].at = "idle" /\ \A q \in Plans : Target[q] = p => ex[q].at = "idle"
    BY DEF Quiet
  <2>2. p \notin held /\ \A s \in StepsOf(p) : s \in Steps /\ s \notin skipped
    BY <1>1, <2>1 DEF EventInv, HoldsWorked, StepsOf
  <2>3. ASSUME NEW q \in Plans, Tells(q, p) PROVE FALSE
    <3>1. ex[q].at = "release" /\ ex[q].step[1] = p
      BY <2>3 DEF Tells
    <3>2. p \in {q, Target[q]}
      BY <1>1, <3>1 DEF EventInv, EndsWithin, Finishing
    <3> QED
      BY <2>1, <3>1, <3>2
  <2> QED
    BY <1>1, <2>2, <2>3 DEF EventInv, Announced
<1>2. LedgerInv /\ ExecInv /\ EventInv /\ [ExecNext]_allVars => (LedgerInv /\ ExecInv /\ EventInv)'
  BY ExecStep, NextLedger, EventStep
<1>3. ExecInit => LedgerInv /\ ExecInv /\ EventInv
  BY ExecInvInit, EventInit
<1> QED
  BY <1>1, <1>2, <1>3, PTL DEF ExecSpec

=============================================================================
