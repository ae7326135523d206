----------------------------- MODULE MCExecutor -----------------------------
(* Instances of the executors: a plan and a cancel of it, and plans of every  *)
(* kind.                                                                     *)
EXTENDS Executor, TLC

CONSTANTS p1, p2, c1, r1, r2

Plan(kinds) == [i \in 1..Len(kinds) |-> [kind |-> kinds[i], rule |-> NoRule]]
On(kind, r) == <<[kind |-> kind, rule |-> r]>>

NoCancel == [p \in Plans |-> NoPlan]
Load(first, second, target, time, restarts, unreliable) ==
  [actions |-> (p1 :> first) @@ (p2 :> second), target |-> target,
   time |-> time, crashes |-> restarts, unreliable |-> unreliable]
\* p2 cancels p1.
Cancelled(first, unreliable) ==
  Load(first, Plan(<<"operation.cancel">>), (p1 :> NoPlan) @@ (p2 :> p1), 0, 0, unreliable)

CancelledDeploy == {Cancelled(Plan(<<"deploy">>), FALSE)}
CancelledRestart == {Cancelled(Plan(<<"restart">>), TRUE)}
\* The definition stays open while the secret is bound.
CancelledDefinition == {Cancelled(Plan(<<"cron.create", "secret.set">>), FALSE)}

\* A deploy and a restart, with a restart of the agent.
ResumedDeploy == {Load(Plan(<<"deploy", "restart">>), <<>>, NoCancel, 0, 1, TRUE)}

\* Two restarts whose window may end while the agent is down: the resumed
\* executor passes over the first.
ResumedLate == {Load(Plan(<<"restart", "restart">>), <<>>, NoCancel, 2, 1, TRUE)}

\* Those; an input, an action of the agent, a definition, an op and a kind this
\* server does not execute; two plans of one scope; rules and their revocations.
Work ==
  ResumedDeploy \cup ResumedLate \cup CancelledDeploy \cup CancelledRestart \cup CancelledDefinition \cup
  { Load(Plan(<<"secret.set", "server.add", "cron.create", "component.update", "scale">>), <<>>,
         NoCancel, 2, 0, TRUE),
    Load(Plan(<<"secret.set", "restart">>), Plan(<<"db.upgrade", "shell.open">>), NoCancel, 2, 0, TRUE),
    Load(On("rule.create", r1), On("rule.revoke", r1), NoCancel, 2, 1, TRUE),
    Load(On("rule.create", r1) \o On("rule.create", r2), On("rule.revoke", r1) \o On("rule.revoke", r2),
         NoCancel, 2, 0, TRUE) }

OneScope == [p \in Plans |-> c1]
NoInvocation == [p \in Plans |-> NoRule]
AnyBase == [p \in Plans |-> <<>>]
=============================================================================
