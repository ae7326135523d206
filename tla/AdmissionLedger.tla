-------------------------- MODULE AdmissionLedger --------------------------
(***************************************************************************)
(* The life of an admission in the admission store (src/admissions): the   *)
(* admitting transaction, the reconciliation of the runner's consumed log, *)
(* the outcomes the agent records itself, the end of the execution window, *)
(* and the standing rules that rule.create and rule.revoke actions change. *)
(*                                                                         *)
(* The runner is a separate root process.  It appends a "consumed" line    *)
(* before it runs an action and a "result" line when the action ended; the *)
(* agent learns of both only by reading the log, so its own outcomes, the  *)
(* expiry of windows and the lines race each other.  A line's seq is its   *)
(* position.  A timestamp column is kept only as NULL or not NULL, except  *)
(* admitted_at.  A head digest is the sequence of plan digests it hashes.  *)
(***************************************************************************)
EXTENDS Integers, Sequences, FiniteSets

CONSTANTS
  Plans,          \* plan ids; one signed envelope each
  Scopes, Scope,  \* [Plans -> Scopes]: project and environment
  Loads,          \* what the clients may have signed: see load
  Base,           \* [Plans -> Seq(Plans)]: head the client signed against
  Forced,         \* plans with base.force
  Invokes,        \* [Plans -> Rules or NoRule]: the rule of a rule-authored plan
  Rules, NoRule, NoPlan,
  Window,         \* EXECUTION_WINDOW_SECONDS, 3600
  Ops,            \* names of runner ops
  Reported,       \* outcomes the agent and the runner report, for TLC a subset
  MaxLog          \* bound on the log, for TLC

Outcomes == {"succeeded", "failed", "rolled_back", "cancelled", "expired"}
ASSUME LedgerAssumption ==
  /\ Scope \in [Plans -> Scopes]
  /\ \A l \in Loads : /\ l.actions \in [Plans -> Seq([kind : STRING, rule : Rules \cup {NoRule}])]
                      /\ l.time \in Nat
                      /\ \A p \in Plans : \A i \in 1..Len(l.actions[p]) :
                           l.actions[p][i].kind \in {"rule.create", "rule.revoke"} =>
                             l.actions[p][i].rule \in Rules
  /\ Invokes \in [Plans -> Rules \cup {NoRule}]
  /\ NoRule \notin Rules /\ NoPlan \notin Plans
  /\ Reported \subseteq Outcomes /\ Window \in Nat /\ MaxLog \in Nat

VARIABLES
  load,    \* what the plans hold, and how long they are watched; never changes
  now,     \* the clock
  adm,     \* admissions, by plan
  act,     \* admission_actions, by <<plan, index>>
  heads,   \* heads, by scope
  rules,   \* rules, by rule id
  log,     \* the runner's consumed log
  cursor   \* consumed_reconciliation.last_seq

vars == <<load, now, adm, act, heads, rules, log, cursor>>

Actions == load.actions
MaxTime == load.time  \* bound on the clock, for TLC

Steps == UNION {{p} \X (1..Len(Actions[p])) : p \in Plans}
StepsOf(p) == {s \in Steps : s[1] = p}
Kind(s) == Actions[s[1]][s[2]].kind
RuleOf(s) == Actions[s[1]][s[2]].rule

\* Kinds the agent applies itself, never bound to the runner; and kinds the
\* runner only records: bound, no ops, ended by its result line.
AgentKinds == {"rule.create", "server.add", "service.elevate", "telemetry.retention.set"}
DefinitionKinds == {"rule.revoke", "cron.create", "backup.policy.set"}

\* seq = 0: the plan has no row; consumed, result: the seq of the lines, 0 is NULL.
NoRow == [seq |-> 0, at |-> 0, done |-> FALSE, outcome |-> "", before |-> <<>>]
FreshAction == [consumed |-> 0, done |-> FALSE, outcome |-> "", result |-> 0]

Admitted == {p \in Plans : adm[p].seq > 0}
LastSeq == Cardinality(Admitted)

----------------------------------------------------------------------------
(* admit: the precondition of each action, then one transaction.           *)

\* A rule with a recorded or a pending revocation does not trigger.
Triggers(r) == rules[r].created /\ ~rules[r].revoked /\ rules[r].pending = NoPlan

\* Step 9: the plan was signed against the current head, or forced.
BaseMatches(p) == p \in Forced \/ Base[p] = heads[Scope[p]]

\* A rule.create names a new rule and a rule.revoke one that can trigger, each
\* rule once in a plan (the second INSERT or UPDATE of write_admission fails).
execution_preconditions(p) ==
  \A s \in StepsOf(p) :
    /\ Kind(s) = "rule.create" => ~rules[RuleOf(s)].created
    /\ Kind(s) = "rule.revoke" => Triggers(RuleOf(s))
    /\ Kind(s) \in {"rule.create", "rule.revoke"} =>
         \A t \in StepsOf(p) : Kind(t) = Kind(s) /\ RuleOf(t) = RuleOf(s) => t = s

Creates(p, r) == \E s \in StepsOf(p) : Kind(s) = "rule.create" /\ RuleOf(s) = r
Revokes(p, r) == \E s \in StepsOf(p) : Kind(s) = "rule.revoke" /\ RuleOf(s) = r

\* Mutants: the recorded base is the head after the plan; no pending mark.
write_admission_unmarked(p) ==
  /\ adm' = [adm EXCEPT ![p] = [NoRow EXCEPT !.seq = LastSeq + 1, !.at = now,
                                             !.before = heads[Scope[p]]]]
  /\ heads' = [heads EXCEPT ![Scope[p]] = Append(@, p)]
  /\ rules' = [r \in Rules |-> [rules[r] EXCEPT !.created = @ \/ Creates(p, r)]]

\* admission_seq is the largest one plus one; the action rows are inserted
\* with NULL columns, which is how act starts; the head moves to this plan.
write_admission(p) ==
  /\ adm' = [adm EXCEPT ![p] = [NoRow EXCEPT !.seq = LastSeq + 1, !.at = now,
                                             !.before = heads[Scope[p]]]]
  /\ heads' = [heads EXCEPT ![Scope[p]] = Append(@, p)]
  /\ rules' = [r \in Rules |->
                 [rules[r] EXCEPT !.created = @ \/ Creates(p, r),
                                  !.pending = IF Revokes(p, r) THEN p ELSE @]]

Admit(p) ==
  /\ p \notin Admitted /\ Actions[p] # <<>>
  /\ Invokes[p] # NoRule => Triggers(Invokes[p])
  /\ BaseMatches(p)
  /\ execution_preconditions(p)
  /\ write_admission(p)
  /\ UNCHANGED <<load, now, act, log, cursor>>

----------------------------------------------------------------------------
(* Ending actions and admissions.  The operators below act on the tables   *)
(* of a transaction in progress: t = [act, adm, rules].                    *)

\* The end of a rule.revoke action records the revocation or drops the mark,
\* on every rule the plan marked.
settle_rule_revoke(t, s, outcome) ==
  IF Kind(s) # "rule.revoke" THEN t
  ELSE [t EXCEPT !.rules =
         [r \in Rules |->
            IF t.rules[r].pending # s[1] \/ t.rules[r].revoked THEN t.rules[r]
            ELSE IF outcome = "succeeded" THEN [t.rules[r] EXCEPT !.revoked = TRUE]
            ELSE [t.rules[r] EXCEPT !.pending = NoPlan]]]

\* failed, else expired, rolled_back, cancelled, succeeded.
Summary(acts, p) ==
  LET has(o) == \E s \in StepsOf(p) : acts[s].outcome = o
  IN  IF has("failed") THEN "failed"
      ELSE IF has("expired") THEN "expired"
      ELSE IF has("rolled_back") THEN "rolled_back"
      ELSE IF has("cancelled") THEN "cancelled"
      ELSE "succeeded"

finish_admission_if_done(t, p) ==
  IF t.adm[p].done \/ \E s \in StepsOf(p) : ~t.act[s].done THEN t
  ELSE [t EXCEPT !.adm[p].done = TRUE, !.adm[p].outcome = Summary(t.act, p)]

tables == [act |-> act, adm |-> adm, rules |-> rules]

Commit(t) == act' = t.act /\ adm' = t.adm /\ rules' = t.rules

\* Mutant: a result is overwritten.
finish_action_overwrites(t, s, outcome) ==
  LET set == [t EXCEPT !.act[s].done = TRUE, !.act[s].outcome = outcome]
  IN  finish_admission_if_done(settle_rule_revoke(set, s, outcome), s[1])

\* The agent records an outcome of its own; a result is never overwritten.
finish_action(t, s, outcome) ==
  LET set == [t EXCEPT !.act[s].done = TRUE, !.act[s].outcome = outcome]
      changed == IF t.act[s].done THEN t ELSE settle_rule_revoke(set, s, outcome)
  IN  finish_admission_if_done(changed, s[1])

\* The outcomes the executor passes.  A definition such as rule.revoke is
\* ended by the runner; the agent ends it only when it cannot run.
AgentOutcomes(s) ==
  {o \in Reported :
     /\ o = "succeeded" => Kind(s) \notin DefinitionKinds
     /\ o = "expired" => now > adm[s[1]].at + Window /\ act[s].consumed = 0}

FinishAction(s) ==
  /\ s[1] \in Admitted
  /\ \E outcome \in AgentOutcomes(s) : Commit(finish_action(tables, s, outcome))
  /\ UNCHANGED <<load, now, heads, log, cursor>>

\* Applies one line; the log wins over what the agent recorded.
apply_line(t, line, seq) ==
  LET s == line.step
  IN  CASE line.event = "consumed" ->
             IF t.act[s].consumed # 0 THEN t ELSE [t EXCEPT !.act[s].consumed = seq]
        [] line.event = "result" ->
             LET set == [t EXCEPT !.act[s] = [@ EXCEPT !.done = TRUE, !.outcome = line.outcome,
                                                       !.result = seq]]
             IN  finish_admission_if_done(settle_rule_revoke(set, s, line.outcome), s[1])
        [] OTHER -> t

\* One new line and the cursor in one transaction.  A read of the log sees
\* any prefix of what the runner will have written; a pass that finds several
\* new lines leaves the store as several passes of one line each do.
Reconcile ==
  /\ cursor < Len(log)
  /\ LET line == log[cursor + 1]
     IN  IF line.step[1] \in Admitted
           THEN Commit(apply_line(tables, line, cursor + 1))
           ELSE UNCHANGED <<act, adm, rules>>     \* unexplained: reported
  /\ cursor' = cursor + 1
  /\ UNCHANGED <<load, now, heads, log>>

\* Unfinished admissions past the window with an action that is neither
\* consumed nor finished.
Expirable(p) ==
  /\ p \in Admitted /\ ~adm[p].done /\ adm[p].at < now - Window
  /\ \E s \in StepsOf(p) : act[s].consumed = 0 /\ ~act[s].done

ExpireWindows ==
  /\ \E p \in Plans : Expirable(p)
  /\ act' = [s \in Steps |->
               IF Expirable(s[1]) /\ act[s].consumed = 0 /\ ~act[s].done
                 THEN [act[s] EXCEPT !.done = TRUE, !.outcome = "expired"]
                 ELSE act[s]]
  /\ adm' = [p \in Plans |->
               IF Expirable(p) THEN [adm[p] EXCEPT !.done = TRUE, !.outcome = "expired"]
                               ELSE adm[p]]
  /\ UNCHANGED <<load, now, heads, rules, log, cursor>>

----------------------------------------------------------------------------
(* The runner (external): what the agent's use of it shows.                *)

Logged(event, s) == \E k \in 1..Len(log) : log[k].event = event /\ log[k].step = s

LoggedOp(s, op) == \E k \in 1..Len(log) : log[k].event = "op" /\ log[k].step = s /\ log[k].op = op

RunnerWrites(event, s, op, outcome) ==
  /\ Len(log) < MaxLog
  /\ log' = Append(log, [event |-> event, step |-> s, op |-> op, outcome |-> outcome])
  /\ UNCHANGED <<load, now, adm, act, heads, rules, cursor>>

\* bind_plan consumes an admitted action once, inside the window; the agent
\* that asked may have given up on the answer.
RunnerConsume(s) ==
  /\ s[1] \in Admitted /\ ~Logged("consumed", s) /\ Kind(s) \notin AgentKinds
  /\ now <= adm[s[1]].at + Window
  /\ RunnerWrites("consumed", s, "", "")

\* close is the cancel_execution line under an action that another plan's
\* cancel closes, bound or not, of an admitted plan (check_cancel);
\* prune_releases follows the end of its action.
RunnerOp(s) ==
  \E op \in Ops :
    /\ s[1] \in Admitted /\ ~LoggedOp(s, op)
    /\ op # "close" => Logged("consumed", s) /\ Kind(s) \notin DefinitionKinds
    /\ op # "prune_releases" => ~Logged("result", s)
    /\ RunnerWrites("op", s, op, "")

RunnerResult(s) ==
  /\ ~Logged("result", s)
  /\ \E outcome \in Reported \ {"expired"} :
       /\ Logged("consumed", s) \/ (LoggedOp(s, "close") /\ outcome = "cancelled")
       /\ RunnerWrites("result", s, "", outcome)

Tick ==
  /\ now < MaxTime
  /\ now' = now + 1
  /\ UNCHANGED <<load, adm, act, heads, rules, log, cursor>>

----------------------------------------------------------------------------

Init ==
  /\ load \in Loads
  /\ now = 0
  /\ adm = [p \in Plans |-> NoRow]
  /\ act = [s \in Steps |-> FreshAction]
  /\ heads = [c \in Scopes |-> <<>>]
  /\ rules = [r \in Rules |-> [created |-> FALSE, revoked |-> FALSE, pending |-> NoPlan]]
  /\ log = <<>> /\ cursor = 0

Next ==
  \/ Reconcile
  \/ \E p \in Plans : Admit(p)
  \/ \E s \in Steps : RunnerConsume(s) \/ RunnerOp(s) \/ RunnerResult(s) \/ FinishAction(s)
  \/ ExpireWindows \/ Tick

Spec == Init /\ [][Next]_vars
----------------------------------------------------------------------------
(* Properties.                                                             *)

\* What the log said up to the cursor is what the action rows say: neither a
\* late agent outcome nor the end of the window overrides a line, and a row
\* claims a line only if the line was read (apply_line, finish_action,
\* expire_windows).
LogWins ==
  \A s \in Steps :
    /\ \A k \in 1..cursor : log[k].step = s =>
         /\ log[k].event = "consumed" => act[s].consumed = k
         /\ log[k].event = "result" =>
              act[s].done /\ act[s].result = k /\ act[s].outcome = log[k].outcome
    /\ act[s].consumed # 0 =>
         /\ act[s].consumed <= cursor
         /\ log[act[s].consumed].event = "consumed" /\ log[act[s].consumed].step = s
    /\ act[s].result # 0 =>
         /\ act[s].result <= cursor
         /\ log[act[s].result].event = "result" /\ log[act[s].result].step = s

\* The head of a scope is the hash chain of its admissions in admission
\* order, and each admission records the head it extended (write_admission).
HeadsAreHistory ==
  \A c \in Scopes :
    /\ {heads[c][i] : i \in 1..Len(heads[c])} = {p \in Admitted : Scope[p] = c}
    /\ \A i \in 1..Len(heads[c]) :
         /\ adm[heads[c][i]].before = SubSeq(heads[c], 1, i - 1)
         /\ \A j \in 1..i - 1 : adm[heads[c][j]].seq < adm[heads[c][i]].seq

\* The rows agree with the runner's log, and the heads with the admissions
\* (apply_line, finish_action, write_admission).
LedgerHolds == LogWins /\ HeadsAreHistory

\* From the admission of a rule.revoke until a revocation of its plan ends, its
\* rule does not trigger (write_admission marks it pending; Triggers).  Not
\* until its own action ends: settle_rule_revoke settles every rule the plan
\* marked, so the first revocation of a plan to fail drops all the marks.
RevokeFailsClosed ==
  \A s \in Steps :
    /\ s[1] \in Admitted /\ Kind(s) = "rule.revoke"
    /\ \A t \in StepsOf(s[1]) : Kind(t) = "rule.revoke" => ~act[t].done
    => ~Triggers(RuleOf(s))
=============================================================================
