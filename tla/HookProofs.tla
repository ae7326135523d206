----------------------------- MODULE HookProofs -----------------------------
(***************************************************************************)
(* Proofs about the webhook pipeline, for any number of deliveries, rules, *)
(* services, pipeline tasks and restarts: what rule plans deploy and how   *)
(* often, one task at a time per claimed delivery, no delivery that a rule *)
(* covers is overlooked, and what the records say is what happened.        *)
(***************************************************************************)
EXTENDS MCTriggers, DataInduction, TLAPS

----------------------------------------------------------------------------
(* The inductive invariant.                                                *)

Statuses == {"none", "pending", "building", "stale", "ignored", "deployed", "failed", "expired"}
Targets == {"building", "stale", "ignored", "deployed", "failed"}
Held == {"end", "rule", "build", "wait", "image", "submit", "finish"}
OfRule == {"build", "wait", "image", "submit", "finish"}
Unclaimed == {"none", "pending"}

RowType == [status : Statuses, at : Nat, recorded : BOOLEAN]
PlanType == [d : Deliveries, r : Rules, at : Nat, outcome : BuildEnds \cup {"open"}]
TaskType == [at : Held \cup {"match", "claim"}, d : Deliveries, list : Seq(Deliveries),
             only : SUBSET Rules, rules : Seq(Rules), ends : SUBSET Targets,
             to : Targets \cup {"none"}, i : Nat, started : Nat]

\* A task that claims or ends knows the status to set, and one that works on a
\* rule has one.
TaskFits(x) ==
  \/ x = Idle
  \/ /\ x \in TaskType
     /\ x.at \in {"claim", "end"} => x.to \in Targets
     /\ x.at \in OfRule => x.rules # <<>>

HookType ==
  /\ load \in Load /\ now \in Nat /\ crashes \in Nat
  /\ row \in [Deliveries -> RowType] /\ rec \in [Deliveries -> Statuses]
  /\ rules \in [Rules -> {"none", "active", "revoked"}]
  /\ plans \in Seq(PlanType) /\ deployed \in [Services -> SUBSET Commits]
  /\ tasks = [t \in 1..Pool |-> tasks[t]] /\ \A t \in 1..Pool : TaskFits(tasks[t])

\* A record has its row, and there are finitely many rows and rules so far.
Arrived == {d \in Deliveries : row[d].status # "none"}
Signed == {r \in Rules : rules[r] # "none"}
RowsKnown ==
  /\ \A d \in Deliveries : rec[d] # "none" => d \in Arrived
  /\ IsFiniteSet(Arrived) /\ IsFiniteSet(Signed)

\* A claimed delivery left pending, and has one task.
ClaimsHeld ==
  /\ \A t \in 1..Pool : Holds(t) => row[tasks[t].d].status \notin Unclaimed
  /\ ProcessedOnce

\* deployed_commits is the last rule plan of the service, and plans were
\* admitted in the past.
DeployedIsLast ==
  \A s \in Services :
    \/ deployed[s] = {} /\ \A n \in DOMAIN plans : ~Deploys(n, s)
    \/ \E n \in DOMAIN plans :
         /\ Deploys(n, s) /\ deployed[s] = {Pushed(n)}
         /\ \A k \in (n + 1)..Len(plans) : ~Deploys(k, s)
PlansPast == \A n \in DOMAIN plans : plans[n].at <= now
PlanInv == PlansPast /\ DeployedIsLast /\ HourlyLimit /\ NeverOlder

Invoked(r) == Cardinality({n \in DOMAIN plans : plans[n].r = r})

\* A delivery a rule would deploy, and a task that will look at it for the rule.
Waits(d, r) ==
  /\ rec[d] = "pending" /\ row[d].status = "pending" /\ ~Expired(d) /\ <<d, r>> \in load.scope
  /\ rules[r] = "active" /\ Invoked(r) < load.limit
Through(x, d, r) ==
  \/ x.at = "claim" /\ x.d = d
  \/ x.at = "match" /\ x.d = d /\ r \in x.only
  \/ x.at # "idle" /\ r \in x.only /\ d \in Range(x.list)
LookedAt ==
  crashes = 0 => \A d \in Deliveries, r \in Rules :
    Waits(d, r) => r \in events \/ \E t \in 1..Pool : Through(tasks[t], d, r)

HookInv == HookType /\ RowsKnown /\ ClaimsHeld /\ PlanInv /\ LookedAt

----------------------------------------------------------------------------
(* Sequences put in order, and what a task is after a move.                *)

\* InOrder gives a sequence of the whole set.
LEMMA InOrderIs ==
  ASSUME NEW X, IsFiniteSet(X), NEW key, \A x \in X : key[x] \in Nat
  PROVE  InOrder(X, key) \in Seq(X) /\ Range(InOrder(X, key)) = X
<1> DEFINE Q(q) == /\ Range(q) = X
                   /\ \A i, j \in 1..Cardinality(X) : i < j => key[q[i]] <= key[q[j]]
<1>1. \E q \in [1..Cardinality(X) -> X] : Q(q)
  <2>1. PICK q \in [1..Cardinality(X) -> X] :
          /\ {q[i] : i \in 1..Cardinality(X)} = X
          /\ \A i, j \in 1..Cardinality(X) : i < j => key[q[i]] <= key[q[j]]
    BY OrderExists
  <2>2. Range(q) = X
    BY <2>1 DEF Range
  <2> QED BY <2>1, <2>2
<1>2. InOrder(X, key) = CHOOSE q \in [1..Cardinality(X) -> X] : Q(q)
  BY DEF InOrder
<1>3. InOrder(X, key) \in [1..Cardinality(X) -> X] /\ Q(InOrder(X, key))
  <2> HIDE DEF Q
  <2> QED BY <1>1, <1>2
<1>4. Cardinality(X) \in Nat
  BY FS_CardinalityType
<1> QED BY <1>3, <1>4, FunctionIsSeq

\* A task that was started on deliveries.
LEMMA StartedFits ==
  ASSUME NEW list \in Seq(Deliveries), list # <<>>, NEW only \in SUBSET Rules
  PROVE  /\ TaskFits(Started(list, only)) /\ Started(list, only).at = "match"
         /\ \A d \in Range(list), r \in only : Through(Started(list, only), d, r)
<1> DEFINE y == Started(list, only)
<1>1. Head(list) \in Deliveries /\ Tail(list) \in Seq(Deliveries)
  OBVIOUS
<1>2. <<>> \in Seq(Rules) /\ {} \in SUBSET Targets /\ 0 \in Nat
  OBVIOUS
<1>3. y = [at |-> "match", d |-> Head(list), list |-> Tail(list), only |-> only, rules |-> <<>>,
           ends |-> {}, to |-> "none", i |-> 0, started |-> 0]
  <2> DEFINE some == CHOOSE d \in Deliveries : TRUE
  <2>1. Idle = [at |-> "idle", d |-> some, list |-> <<>>, only |-> Rules, rules |-> <<>>,
                ends |-> {}, to |-> "none", i |-> 0, started |-> 0]
    BY DEF Idle
  <2> HIDE DEF some
  <2>2. y = [Idle EXCEPT !.at = "match", !.d = Head(list), !.list = Tail(list), !.only = only]
    BY DEF Started
  <2> HIDE DEF y
  <2> QED BY <2>1, <2>2
<1>4. y \in TaskType
  BY <1>1, <1>2, <1>3 DEF TaskType
<1>5. TaskFits(y) /\ y.at = "match"
  BY <1>3, <1>4 DEF TaskFits, OfRule
<1>6. ASSUME NEW d \in Range(list), NEW r \in only PROVE Through(y, d, r)
  <2>1. d = Head(list) \/ d \in Range(Tail(list))
    <3>1. PICK j \in 1..Len(list) : d = list[j]
      BY DEF Range
    <3>2. CASE j = 1
      BY <3>1, <3>2
    <3>3. CASE j # 1
      <4>1. j - 1 \in 1..Len(Tail(list)) /\ Tail(list)[j - 1] = list[j] /\ DOMAIN Tail(list) = 1..Len(Tail(list))
        BY <3>3
      <4> QED BY <3>1, <4>1 DEF Range
    <3> QED BY <3>2, <3>3
  <2> QED BY <1>3, <2>1 DEF Through
<1> QED BY <1>5, <1>6

\* A task that leaves its delivery goes on to the next ones of its list.
LEMMA DoneFits ==
  ASSUME NEW t, tasks[t] \in TaskType
  PROVE  /\ TaskFits(Done(t)) /\ Done(t).at \in {"idle", "match"}
         /\ \A d \in Range(tasks[t].list), r \in tasks[t].only : Through(Done(t), d, r)
<1>1. tasks[t].list \in Seq(Deliveries) /\ tasks[t].only \in SUBSET Rules
  BY DEF TaskType
<1>2. CASE tasks[t].list = <<>>
  <2>1. Done(t) = Idle
    BY <1>2 DEF Done
  <2>2. Range(tasks[t].list) = {}
    BY <1>2 DEF Range
  <2>3. Idle.at = "idle"
    BY DEF Idle
  <2> QED BY <2>1, <2>2, <2>3 DEF TaskFits
<1>3. CASE tasks[t].list # <<>>
  BY <1>1, <1>3, StartedFits DEF Done
<1> QED BY <1>2, <1>3

----------------------------------------------------------------------------
(* Rows, plans and tasks that move.                                        *)

\* What every step but an intake does to the rows: none is inserted or changes
\* its time, and none becomes pending.
RowsMove ==
  /\ row' \in [Deliveries -> RowType] /\ rec' \in [Deliveries -> Statuses]
  /\ \A d \in Deliveries :
       /\ row'[d].at = row[d].at /\ (row'[d].status = "none" <=> row[d].status = "none")
       /\ row'[d].status \in Unclaimed => row'[d].status = row[d].status
       /\ rec'[d] = "pending" => rec[d] = "pending"
       /\ rec'[d] # "none" => rec[d] # "none"

\* No rule gets an invocation back.
InvocationsStay == \A r \in Rules : Invoked(r)' < load.limit => Invoked(r) < load.limit

\* Rows that stay as they are.
LEMMA RowsStay == HookType /\ UNCHANGED <<row, rec>> => RowsMove
BY DEF HookType, RowsMove

\* Rows and records known before are known after.
LEMMA KnownStays == HookType /\ RowsKnown /\ RowsMove /\ UNCHANGED rules => RowsKnown'
<1> SUFFICES ASSUME HookType, RowsKnown, RowsMove, UNCHANGED rules PROVE RowsKnown'
  OBVIOUS
<1>1. Arrived' = Arrived /\ Signed' = Signed
  BY DEF Arrived, Signed, RowsMove
<1> QED BY <1>1 DEF RowsKnown, RowsMove, Arrived

\* A delivery that waits for a rule waited before.
LEMMA WaitedBefore ==
  ASSUME HookType, RowsMove, now' \in Nat, now <= now', UNCHANGED load, InvocationsStay,
         NEW d \in Deliveries, NEW r \in Rules, rules'[r] = "active" => rules[r] = "active",
         Waits(d, r)'
  PROVE  Waits(d, r)
<1>1. Unclaimed = {"none", "pending"}
  BY DEF Unclaimed
<1>2. row'[d].status = "pending" /\ rec'[d] = "pending"
  BY DEF Waits
<1>3. row[d].status = "pending" /\ rec[d] = "pending" /\ row'[d].at = row[d].at
  BY <1>1, <1>2 DEF RowsMove
<1>4. TTL \in Nat /\ row[d].at \in Nat /\ now \in Nat
  BY HookAssumption DEF HookType, RowType
<1>5. ~Expired(d)
  BY <1>3, <1>4 DEF Waits, Expired, received
<1> QED BY <1>3, <1>5 DEF Waits, InvocationsStay

\* Plans that keep their order, rules, deliveries and times keep the rest.
LEMMA PlansStay ==
  ASSUME plans \in Seq(PlanType), plans' \in Seq(PlanType), Len(plans') = Len(plans),
         \A n \in 1..Len(plans) : /\ plans'[n].d = plans[n].d /\ plans'[n].r = plans[n].r
                                  /\ plans'[n].at = plans[n].at,
         PlanInv, UNCHANGED <<deployed, load>>, now \in Nat, now' \in Nat, now <= now'
  PROVE  PlanInv' /\ InvocationsStay
<1>1. DOMAIN plans = 1..Len(plans) /\ DOMAIN plans' = 1..Len(plans) /\ Len(plans) \in Nat
  OBVIOUS
<1>2. \A n \in 1..Len(plans) : /\ (Pushed(n))' = Pushed(n)
                               /\ \A s \in Services : (Deploys(n, s))' <=> Deploys(n, s)
  BY DEF Pushed, Deploys
<1>3. PlansPast'
  <2> SUFFICES ASSUME NEW n \in 1..Len(plans) PROVE plans'[n].at <= now'
    BY <1>1 DEF PlansPast
  <2>1. plans[n] \in PlanType
    OBVIOUS
  <2>2. plans'[n].at = plans[n].at /\ plans[n].at <= now /\ plans[n].at \in Nat
    BY <1>1, <2>1 DEF PlanInv, PlansPast, PlanType
  <2> QED BY <2>2
<1>4. DeployedIsLast'
  <2> SUFFICES ASSUME NEW s \in Services
               PROVE \/ deployed[s] = {} /\ \A n \in 1..Len(plans) : ~Deploys(n, s)'
                     \/ \E n \in 1..Len(plans) :
                          /\ Deploys(n, s)' /\ deployed[s] = {(Pushed(n))'}
                          /\ \A k \in (n + 1)..Len(plans) : ~Deploys(k, s)'
    BY <1>1 DEF DeployedIsLast
  <2>1. CASE deployed[s] = {} /\ \A n \in DOMAIN plans : ~Deploys(n, s)
    BY <1>1, <1>2, <2>1
  <2>2. CASE \E n \in DOMAIN plans :
               /\ Deploys(n, s) /\ deployed[s] = {Pushed(n)}
               /\ \A k \in (n + 1)..Len(plans) : ~Deploys(k, s)
    <3>1. PICK n \in 1..Len(plans) : /\ Deploys(n, s) /\ deployed[s] = {Pushed(n)}
                                    /\ \A k \in (n + 1)..Len(plans) : ~Deploys(k, s)
      BY <1>1, <2>2
    <3>2. \A k \in (n + 1)..Len(plans) : ~Deploys(k, s)'
      BY <1>1, <1>2, <3>1
    <3> QED BY <1>2, <3>1, <3>2
  <2> QED BY <2>1, <2>2 DEF PlanInv, DeployedIsLast
<1>5. HourlyLimit'
  <2> SUFFICES ASSUME NEW n \in 1..Len(plans)
               PROVE Cardinality({k \in 1..n : plans'[k].r = plans'[n].r /\ plans'[k].at > plans'[n].at - HOUR})
                       <= load.limit
    BY <1>1 DEF HourlyLimit
  <2>1. {k \in 1..n : plans'[k].r = plans'[n].r /\ plans'[k].at > plans'[n].at - HOUR}
          = {k \in 1..n : plans[k].r = plans[n].r /\ plans[k].at > plans[n].at - HOUR}
    <3>1. \A k \in 1..n : k \in 1..Len(plans)
      BY <1>1
    <3> QED BY <3>1
  <2> QED BY <1>1, <2>1 DEF PlanInv, HourlyLimit
<1>6. NeverOlder'
  <2> SUFFICES ASSUME NEW s \in Services, NEW n \in 1..Len(plans), NEW j \in 1..(n - 1),
                      Deploys(j, s)', Deploys(n, s)'
               PROVE /\ CommitTime[(Pushed(j))'] <= CommitTime[(Pushed(n))']
                     /\ (Pushed(j))' = (Pushed(n))' =>
                          \E k \in (j + 1)..(n - 1) : /\ Deploys(k, s)' /\ (Pushed(k))' # (Pushed(n))'
                                                      /\ CommitTime[(Pushed(k))'] = CommitTime[(Pushed(n))']
    BY <1>1 DEF NeverOlder
  <2>1. j \in 1..Len(plans) /\ Deploys(j, s) /\ Deploys(n, s)
    BY <1>1, <1>2
  <2>2. /\ CommitTime[Pushed(j)] <= CommitTime[Pushed(n)]
        /\ Pushed(j) = Pushed(n) =>
             \E k \in (j + 1)..(n - 1) : /\ Deploys(k, s) /\ Pushed(k) # Pushed(n)
                                         /\ CommitTime[Pushed(k)] = CommitTime[Pushed(n)]
    BY <1>1, <2>1 DEF PlanInv, NeverOlder
  <2>3. \A k \in (j + 1)..(n - 1) : k \in 1..Len(plans)
    BY <1>1
  <2> QED BY <1>2, <2>1, <2>2, <2>3
<1>7. InvocationsStay
  <2> SUFFICES ASSUME NEW r \in Rules PROVE Invoked(r)' = Invoked(r)
    BY DEF InvocationsStay
  <2>1. {n \in 1..Len(plans) : plans'[n].r = r} = {n \in 1..Len(plans) : plans[n].r = r}
    OBVIOUS
  <2> QED BY <1>1, <2>1 DEF Invoked
<1> QED BY <1>3, <1>4, <1>5, <1>6, <1>7 DEF PlanInv

\* One task moves.
LEMMA TaskMoves ==
  ASSUME HookInv, NEW t \in 1..Pool, NEW y, TaskFits(y), tasks' = [tasks EXCEPT ![t] = y],
         RowsMove, InvocationsStay, PlanInv', plans' \in Seq(PlanType),
         deployed' \in [Services -> SUBSET Commits],
         UNCHANGED <<now, rules, load, crashes, events>>,
         y.at \in Held => \/ tasks[t].at \in Held /\ y.d = tasks[t].d
                          \/ row[y.d].status = "pending" /\ row'[y.d].status \notin Unclaimed,
         \A d \in Deliveries, r \in Rules : Waits(d, r)' /\ Through(tasks[t], d, r) => Through(y, d, r)
  PROVE  HookInv'
<1> USE DEF HookInv
<1>1. Pool' = Pool /\ tasks'[t] = y /\ \A u \in 1..Pool : u # t => tasks'[u] = tasks[u]
  BY DEF Pool, HookType
<1>2. HookType'
  <2>1. \A u \in 1..Pool : TaskFits(tasks'[u])
    BY <1>1 DEF HookType
  <2>2. tasks' = [u \in 1..Pool |-> tasks'[u]]
    BY DEF HookType
  <2> QED BY <1>1, <2>1, <2>2 DEF HookType, RowsMove
<1>3. RowsKnown'
  BY KnownStays
<1>4. \A u \in 1..Pool : u # t => (Holds(u)' <=> Holds(u))
  BY <1>1 DEF Holds
<1>5. Holds(t) <=> tasks[t].at \in Held
  BY DEF Holds, Held
<1>6. Holds(t)' <=> y.at \in Held
  BY <1>1 DEF Holds, Held
<1>7. \A u \in 1..Pool : Holds(u) => tasks[u].d \in Deliveries
  <2> SUFFICES ASSUME NEW u \in 1..Pool, Holds(u) PROVE tasks[u].d \in Deliveries
    OBVIOUS
  <2>1. tasks[u] # Idle
    BY DEF Holds, Idle
  <2> QED BY <2>1 DEF HookType, TaskFits, TaskType
<1>8. ASSUME NEW u \in 1..Pool, Holds(u)' PROVE row'[tasks'[u].d].status \notin Unclaimed
  <2>1. CASE u = t /\ ~(tasks[t].at \in Held /\ y.d = tasks[t].d)
    BY <1>1, <1>6, <1>8, <2>1
  <2>2. CASE u # t \/ (tasks[t].at \in Held /\ y.d = tasks[t].d)
    <3>1. Holds(u) /\ tasks'[u].d = tasks[u].d
      BY <1>1, <1>4, <1>5, <1>8, <2>2
    <3>2. row[tasks[u].d].status \notin Unclaimed /\ tasks[u].d \in Deliveries
      BY <1>7, <3>1 DEF ClaimsHeld
    <3> QED BY <3>1, <3>2 DEF RowsMove
  <2> QED BY <2>1, <2>2
<1>9. ASSUME NEW u \in 1..Pool, u # t, Holds(u)', Holds(t)' PROVE tasks'[u].d # y.d
  <2>1. Holds(u) /\ tasks'[u].d = tasks[u].d
    BY <1>1, <1>4, <1>9
  <2>2. row[tasks[u].d].status \notin Unclaimed
    BY <2>1 DEF ClaimsHeld
  <2>3. CASE tasks[t].at \in Held /\ y.d = tasks[t].d
    BY <1>5, <1>9, <2>1, <2>3 DEF ClaimsHeld, ProcessedOnce
  <2>4. CASE row[y.d].status = "pending"
    BY <2>1, <2>2, <2>4 DEF Unclaimed
  <2> QED BY <1>6, <1>9, <2>3, <2>4
<1>10. ClaimsHeld'
  <2>1. ProcessedOnce'
    <3> SUFFICES ASSUME NEW u \in 1..Pool, NEW w \in 1..Pool, u # w, Holds(u)', Holds(w)'
                 PROVE tasks'[u].d # tasks'[w].d
      BY <1>1 DEF ProcessedOnce
    <3>1. CASE w = t
      BY <1>1, <1>9, <3>1
    <3>2. CASE u = t
      BY <1>1, <1>9, <3>2
    <3>3. CASE u # t /\ w # t
      BY <1>1, <1>4, <3>3 DEF ClaimsHeld, ProcessedOnce
    <3> QED BY <3>1, <3>2, <3>3
  <2> QED BY <1>1, <1>8, <2>1 DEF ClaimsHeld
<1>11. LookedAt'
  <2> SUFFICES ASSUME crashes = 0, NEW d \in Deliveries, NEW r \in Rules, Waits(d, r)'
               PROVE r \in events \/ \E u \in 1..Pool : Through(tasks'[u], d, r)
    BY <1>1 DEF LookedAt
  <2>1. now \in Nat /\ now' \in Nat /\ now <= now'
    BY DEF HookType
  <2>2. Waits(d, r)
    BY <2>1, WaitedBefore
  <2>3. CASE r \in events
    BY <2>3
  <2>4. ASSUME NEW u \in 1..Pool, Through(tasks[u], d, r) PROVE Through(tasks'[u], d, r)
    BY <1>1, <2>4
  <2> QED BY <2>2, <2>3, <2>4 DEF LookedAt
<1> QED BY <1>2, <1>3, <1>10, <1>11

----------------------------------------------------------------------------
(* The pipeline's steps.                                                   *)

\* Nothing about plans moves.
LEMMA PlansUntouched ==
  ASSUME HookInv, UNCHANGED <<plans, deployed, load, now>>
  PROVE  /\ PlanInv' /\ InvocationsStay /\ plans' \in Seq(PlanType)
         /\ deployed' \in [Services -> SUBSET Commits]
<1>1. /\ plans \in Seq(PlanType) /\ now \in Nat /\ now <= now /\ PlanInv
      /\ deployed \in [Services -> SUBSET Commits]
  BY DEF HookInv, HookType
<1> QED BY <1>1, PlansStay

\* A status is set where there is a record.
LEMMA StatusSet ==
  ASSUME HookInv, NEW d \in Deliveries, NEW to \in Targets, set_status(d, to)
  PROVE  RowsMove
<1>1. /\ row \in [Deliveries -> RowType] /\ rec \in [Deliveries -> Statuses]
      /\ rec[d] # "none" => row[d].status # "none"
  BY DEF HookInv, HookType, RowsKnown, Arrived
<1>2. to \in Statuses /\ to \notin Unclaimed /\ Unclaimed = {"none", "pending"}
  BY DEF Targets, Statuses, Unclaimed
<1>3. CASE rec[d] = "none"
  BY <1>1, <1>3, RowsStay DEF set_status, HookInv
<1>4. CASE rec[d] # "none"
  <2>1. row' = [row EXCEPT ![d].status = to] /\ rec' = [rec EXCEPT ![d] = to]
    BY <1>4 DEF set_status
  <2>2. row' = [row EXCEPT ![d] = [row[d] EXCEPT !.status = to]] /\ row[d] \in RowType
    BY <1>1, <2>1
  <2>3. [row[d] EXCEPT !.status = to] \in RowType
    BY <1>2, <2>2 DEF RowType
  <2>4. row' \in [Deliveries -> RowType] /\ rec' \in [Deliveries -> Statuses]
    BY <1>1, <1>2, <2>1, <2>2, <2>3
  <2>5. row'[d].status = to /\ row'[d].at = row[d].at /\ rec'[d] = to
    BY <1>1, <2>1, <2>2 DEF RowType
  <2>6. \A x \in Deliveries : x # d => row'[x] = row[x] /\ rec'[x] = rec[x]
    BY <1>1, <2>1
  <2> QED BY <1>1, <1>2, <1>4, <2>4, <2>5, <2>6 DEF RowsMove
<1> QED BY <1>3, <1>4

\* A task that holds its delivery goes on with it.
LEMMA TaskGoesOn ==
  ASSUME HookInv, NEW t \in 1..Pool, NEW y \in TaskType, TaskFits(y), tasks[t].at \in Held,
         y.at \in Held, y.d = tasks[t].d, y.list = tasks[t].list, y.only = tasks[t].only,
         tasks' = [tasks EXCEPT ![t] = y], RowsMove, InvocationsStay, PlanInv',
         plans' \in Seq(PlanType), deployed' \in [Services -> SUBSET Commits],
         UNCHANGED <<now, rules, load, crashes, events>>
  PROVE  HookInv'
<1>1. \A d \in Deliveries, r \in Rules : Through(tasks[t], d, r) => Through(y, d, r)
  BY DEF Through, Held
<1> QED BY <1>1, TaskMoves

\* A task that holds its delivery, and its moves.
LEMMA HeldTask ==
  ASSUME HookInv, NEW t \in 1..Pool, tasks[t].at # "idle"
  PROVE  /\ tasks[t] \in TaskType /\ tasks[t].d \in Deliveries
         /\ tasks[t].at \in {"claim", "end"} => tasks[t].to \in Targets
         /\ tasks[t].at \in OfRule => tasks[t].rules # <<>>
<1>1. tasks[t] # Idle
  BY DEF Idle
<1> QED BY <1>1 DEF HookInv, HookType, TaskFits, TaskType

\* Go.
LEMMA GoKeeps ==
  ASSUME HookInv, NEW t \in 1..Pool, tasks[t].at \in OfRule, NEW at \in OfRule, Go(t, at),
         RowsMove, InvocationsStay, PlanInv',
         plans' \in Seq(PlanType), deployed' \in [Services -> SUBSET Commits],
         UNCHANGED <<now, rules, load, crashes, events>>
  PROVE  HookInv'
<1> DEFINE y == [tasks[t] EXCEPT !.at = at]
<1>1. OfRule \subseteq Held /\ "idle" \notin OfRule /\ OfRule \cap {"claim", "end"} = {}
  BY DEF OfRule, Held
<1>2. tasks[t] \in TaskType /\ tasks[t].rules # <<>>
  BY <1>1, HeldTask
<1>3. /\ y \in TaskType /\ y.at = at /\ y.d = tasks[t].d /\ y.list = tasks[t].list
      /\ y.only = tasks[t].only /\ y.rules = tasks[t].rules
  BY <1>1, <1>2 DEF TaskType
<1>4. TaskFits(y)
  BY <1>1, <1>2, <1>3 DEF TaskFits
<1>5. tasks' = [tasks EXCEPT ![t] = y]
  BY DEF Go
<1> HIDE DEF y
<1> QED BY <1>1, <1>3, <1>4, <1>5, TaskGoesOn

\* RuleEnd.
LEMMA RuleEndKeeps ==
  ASSUME HookInv, NEW t \in 1..Pool, tasks[t].at \in Held, tasks[t].rules # <<>>,
         NEW end \in Targets, tasks' = RuleEnd(t, end),
         UNCHANGED <<now, rules, load, crashes, events, row, rec, plans, deployed>>
  PROVE  HookInv'
<1> DEFINE a == tasks[t]
           y == [a EXCEPT !.at = "rule", !.rules = Tail(a.rules), !.ends = a.ends \cup {end}, !.i = 0]
<1>1. tasks[t].at # "idle" /\ "rule" \in Held /\ "rule" \notin OfRule /\ "rule" \notin {"claim", "end"}
  BY DEF Held, OfRule
<1>2. a \in TaskType
  BY <1>1, HeldTask
<1>3. a.rules # <<>> /\ a.at \in Held
  OBVIOUS
<1>3a. tasks' = [tasks EXCEPT ![t] = y]
  BY DEF RuleEnd
<1>4. a = tasks[t]
  OBVIOUS
<1> HIDE DEF a
<1>5. Tail(a.rules) \in Seq(Rules) /\ a.ends \cup {end} \in SUBSET Targets
  BY <1>2, <1>3 DEF TaskType
<1>6. y \in TaskType
  BY <1>1, <1>2, <1>5 DEF TaskType
<1>7. y.at = "rule" /\ y.d = a.d /\ y.list = a.list /\ y.only = a.only
  BY <1>2 DEF TaskType
<1> HIDE DEF y
<1>8. TaskFits(y)
  BY <1>1, <1>6, <1>7 DEF TaskFits
<1>9. RowsMove
  BY RowsStay DEF HookInv
<1> QED BY <1>1, <1>3, <1>4, <1>6, <1>7, <1>3a, <1>8, <1>9, TaskGoesOn, PlansUntouched

\* Leave.
LEMMA LeaveKeeps ==
  ASSUME HookInv, NEW t \in 1..Pool, tasks[t].at # "idle", Leave(t), RowsMove,
         UNCHANGED <<now, rules, load, crashes, events, plans, deployed>>,
         \A d \in Deliveries, r \in Rules :
           /\ tasks[t].at \in {"match", "claim"} /\ tasks[t].d = d
           /\ tasks[t].at = "match" => r \in tasks[t].only
           => ~Waits(d, r)'
  PROVE  HookInv'
<1>1. tasks[t] \in TaskType
  BY HeldTask
<1>2. /\ TaskFits(Done(t)) /\ Done(t).at \notin Held
      /\ \A d \in Range(tasks[t].list), r \in tasks[t].only : Through(Done(t), d, r)
  BY <1>1, DoneFits DEF Held
<1>3. tasks' = [tasks EXCEPT ![t] = Done(t)]
  BY DEF Leave
<1>4. ASSUME NEW d \in Deliveries, NEW r \in Rules, Waits(d, r)', Through(tasks[t], d, r)
      PROVE  Through(Done(t), d, r)
  <2>1. CASE r \in tasks[t].only /\ d \in Range(tasks[t].list)
    BY <1>2, <2>1
  <2>2. CASE ~(r \in tasks[t].only /\ d \in Range(tasks[t].list))
    BY <1>4, <2>2 DEF Through
  <2> QED BY <2>1, <2>2
<1> DEFINE y == Done(t)
<1> HIDE DEF y
<1>5. y = Done(t)
  BY DEF y
<1> QED BY <1>2, <1>3, <1>4, <1>5, TaskMoves, PlansUntouched

\* A match whose rule is within its limit.
LEMMA LimitCovers ==
  ASSUME HookInv, NEW r \in Rules, Invoked(r) < load.limit
  PROVE  Cardinality(Invocations(r)) < load.limit
<1> DEFINE all == {n \in DOMAIN plans : plans[n].r = r}
<1>1. plans \in Seq(PlanType) /\ load.limit \in Nat
  BY DEF HookInv, HookType, Load
<1>2. IsFiniteSet(DOMAIN plans)
  BY <1>1, FS_Interval
<1>3. IsFiniteSet(all)
  BY <1>2, FS_Subset
<1>4. Invocations(r) \subseteq all
  BY DEF Invocations
<1>5. Cardinality(Invocations(r)) <= Cardinality(all) /\ IsFiniteSet(Invocations(r))
  BY <1>3, <1>4, FS_Subset
<1>6. Cardinality(Invocations(r)) \in Nat /\ Cardinality(all) \in Nat
  BY <1>3, <1>5, FS_CardinalityType
<1>7. Cardinality(all) = Invoked(r)
  BY DEF Invoked
<1> QED BY <1>1, <1>5, <1>6, <1>7

\* Match: the claim, or the task goes on because no rule it asks for covers the
\* delivery.
LEMMA MatchKeeps == ASSUME HookInv, NEW t \in 1..Pool, Match(t) PROVE HookInv'
<1> DEFINE d == tasks[t].d
           found == matching_rules(d) \cap tasks[t].only
           To(status, rs) == tasks' = [tasks EXCEPT ![t] = [@ EXCEPT !.at = "claim", !.to = status, !.rules = rs]]
<1>1. /\ tasks[t].at = "match" /\ UNCHANGED <<now, store, slot, queue, events, crashes, load>>
      /\ \/ (row[d].status # "pending" \/ Expired(d) \/ rec[d] = "none") /\ Leave(t)
         \/ To("stale", <<>>)
         \/ found # {} /\ To("building", InOrder(found, [r \in Rules |-> r]))
         \/ HeldBack(d) /\ To("ignored", <<>>)
         \/ found = {} /\ ~HeldBack(d) /\ Leave(t)
  BY DEF Match, At
<1>2. UNCHANGED <<now, row, rec, rules, protected, plans, deployed, events, crashes, load>>
  BY <1>1 DEF store
<1>3. tasks[t] \in TaskType /\ d \in Deliveries
  BY <1>1, HeldTask
<1>4. RowsMove
  BY <1>2, RowsStay DEF HookInv
<1>5. \A x \in Deliveries, r \in Rules : Waits(x, r)' => Waits(x, r)
  BY <1>2 DEF Waits, Invoked, Expired, received
<1>6. CASE (row[d].status # "pending" \/ Expired(d) \/ rec[d] = "none") /\ Leave(t)
  <2>1. \A r \in Rules : ~Waits(d, r)
    BY <1>6 DEF Waits
  <2> HIDE DEF d
  <2>2. \A x \in Deliveries, r \in Rules : tasks[t].d = x => ~Waits(x, r)'
    BY <1>5, <2>1 DEF d
  <2> QED BY <1>1, <1>2, <1>4, <1>6, <2>2, LeaveKeeps
<1>7. CASE found = {} /\ ~HeldBack(d) /\ Leave(t)
  <2>1. ASSUME NEW r \in Rules, r \in tasks[t].only, Waits(d, r) PROVE FALSE
    <3>1. InScope(d, r)
      BY <2>1, LimitCovers DEF InScope, Waits
    <3>2. ~protected
      BY <1>7, <3>1 DEF HeldBack
    <3>3. r \in found
      BY <2>1, <3>1, <3>2 DEF matching_rules
    <3> QED BY <1>7, <3>3
  <2> HIDE DEF d, found
  <2>2. \A x \in Deliveries, r \in Rules :
          tasks[t].d = x /\ r \in tasks[t].only => ~Waits(x, r)'
    BY <1>5, <2>1 DEF d
  <2> QED BY <1>1, <1>2, <1>4, <1>7, <2>2, LeaveKeeps
<1>8. ASSUME NEW status \in Targets, NEW rs \in Seq(Rules), To(status, rs) PROVE HookInv'
  <2> DEFINE a == tasks[t]
             y == [a EXCEPT !.at = "claim", !.to = status, !.rules = rs]
  <2>1. tasks' = [tasks EXCEPT ![t] = y]
    BY <1>8
  <2>2. a \in TaskType /\ a.at = "match" /\ a = tasks[t]
    BY <1>1, <1>3
  <2> HIDE DEF a
  <2>3. y \in TaskType
    BY <2>2 DEF TaskType
  <2>4. y.at = "claim" /\ y.to = status /\ y.d = a.d /\ y.list = a.list /\ y.only = a.only
    BY <2>2 DEF TaskType
  <2> HIDE DEF y
  <2>5. "claim" \notin Held /\ "claim" \notin OfRule
    BY DEF Held, OfRule
  <2>6. TaskFits(y)
    BY <2>3, <2>4, <2>5 DEF TaskFits
  <2>7. \A x \in Deliveries, r \in Rules : Through(a, x, r) => Through(y, x, r)
    BY <2>2, <2>4 DEF Through
  <2> HIDE DEF To
  <2> QED BY <1>2, <1>4, <2>1, <2>2, <2>4, <2>5, <2>6, <2>7, TaskMoves, PlansUntouched
<1>9. {"stale", "building", "ignored"} \subseteq Targets /\ <<>> \in Seq(Rules)
  BY DEF Targets
<1>10. InOrder(found, [r \in Rules |-> r]) \in Seq(Rules)
  <2>1. found \subseteq Signed /\ found \subseteq Rules
    BY DEF matching_rules, InScope, Signed
  <2>2. IsFiniteSet(found)
    BY <2>1, FS_Subset DEF HookInv, RowsKnown
  <2>3. \A x \in found : [r \in Rules |-> r][x] \in Nat
    BY <2>1, HookAssumption
  <2> HIDE DEF found
  <2>4. InOrder(found, [r \in Rules |-> r]) \in Seq(found)
    BY <2>2, <2>3, InOrderIs
  <2> QED BY <2>1, <2>4
<1> HIDE DEF To, found, d
<1> QED BY <1>1, <1>6, <1>7, <1>8, <1>9, <1>10

\* Claim: the row leaves pending, and the task that moved it holds it.
LEMMA ClaimKeeps == ASSUME HookInv, NEW t \in 1..Pool, Claim(t) PROVE HookInv'
<1> DEFINE d == tasks[t].d
           to == tasks[t].to
           at == IF to = "building" THEN "rule" ELSE "end"
<1>1. /\ tasks[t].at = "claim"
      /\ UNCHANGED <<now, rec, rules, plans, deployed, events, crashes, load>>
  BY DEF Claim, At
<1>2. tasks[t] \in TaskType /\ d \in Deliveries /\ to \in Targets
  BY <1>1, HeldTask
<1>3. /\ row \in [Deliveries -> RowType] /\ rec \in [Deliveries -> Statuses]
  BY DEF HookInv, HookType
<1>4. CASE row[d].status # "pending"
  <2>1. Leave(t) /\ UNCHANGED row
    BY <1>4 DEF Claim, claim_delivery
  <2>2. RowsMove
    BY <1>1, <2>1, RowsStay DEF HookInv
  <2>3. \A x \in Deliveries, r \in Rules : tasks[t].d = x => ~Waits(x, r)'
    BY <1>4, <2>1 DEF Waits
  <2> QED BY <1>1, <2>1, <2>2, <2>3, LeaveKeeps
<1>5. CASE row[d].status = "pending"
  <2> DEFINE a == tasks[t]
             y == [a EXCEPT !.at = at]
  <2>1. row' = [row EXCEPT ![d].status = to] /\ tasks' = [tasks EXCEPT ![t] = y]
    BY <1>5 DEF Claim, claim_delivery, Go
  <2>2. row' = [row EXCEPT ![d] = [row[d] EXCEPT !.status = to]] /\ row[d] \in RowType
    BY <1>2, <1>3, <2>1
  <2>3. /\ to \in Statuses /\ to \notin Unclaimed /\ Unclaimed = {"none", "pending"}
        /\ at \in Held /\ at \notin OfRule /\ at # "claim"
    BY <1>2 DEF Targets, Statuses, Unclaimed, Held, OfRule
  <2>4. [row[d] EXCEPT !.status = to] \in RowType
    BY <2>2, <2>3 DEF RowType
  <2>5. row' \in [Deliveries -> RowType]
    BY <1>3, <2>2, <2>4
  <2>6. row'[d].status = to /\ row'[d].at = row[d].at
    BY <1>2, <1>3, <2>2 DEF RowType
  <2>7. \A x \in Deliveries : x # d => row'[x] = row[x]
    BY <1>3, <2>1
  <2>8. RowsMove
    <3> HIDE DEF d, to
    <3> QED BY <1>1, <1>3, <1>5, <2>3, <2>5, <2>6, <2>7 DEF RowsMove
  <2>9. a \in TaskType /\ a = tasks[t] /\ a.at = "claim" /\ a.to = to /\ a.d = d
    BY <1>1, <1>2
  <2> HIDE DEF a, at, to, d
  <2>10. y \in TaskType
    BY <2>3, <2>9 DEF TaskType
  <2>11. y.at = at /\ y.to = to /\ y.d = a.d /\ y.list = a.list /\ y.only = a.only
    BY <2>9 DEF TaskType
  <2> HIDE DEF y
  <2>12. TaskFits(y)
    BY <1>2, <2>3, <2>10, <2>11 DEF TaskFits
  <2>13. y.at # "idle"
    BY <2>3, <2>11 DEF Held
  <2>14. ASSUME NEW x \in Deliveries, NEW r \in Rules, Waits(x, r)', Through(a, x, r)
         PROVE  Through(y, x, r)
    <3>1. x # d
      BY <2>3, <2>6, <2>14 DEF Waits
    <3> QED BY <2>9, <2>11, <2>13, <2>14, <3>1 DEF Through
  <2>15. row[y.d].status = "pending" /\ row'[y.d].status \notin Unclaimed
    BY <1>5, <2>3, <2>6, <2>9, <2>11
  <2> QED BY <1>1, <2>1, <2>8, <2>9, <2>12, <2>14, <2>15, TaskMoves, PlansUntouched
<1> QED BY <1>4, <1>5

\* End: the status is set and the task leaves the delivery.
LEMMA EndKeeps == ASSUME HookInv, NEW t \in 1..Pool, End(t) PROVE HookInv'
<1>1. /\ tasks[t].at = "end" /\ set_status(tasks[t].d, tasks[t].to) /\ Leave(t)
      /\ UNCHANGED <<now, rules, plans, deployed, events, crashes, load>>
  BY DEF End, At
<1>2. tasks[t].d \in Deliveries /\ tasks[t].to \in Targets
  BY <1>1, HeldTask
<1>3. RowsMove
  BY <1>1, <1>2, StatusSet
<1> QED BY <1>1, <1>3, LeaveKeeps

\* RunRule: the rules are done, or the next one ends or builds.
LEMMA RunRuleKeeps == ASSUME HookInv, NEW t \in 1..Pool, RunRule(t) PROVE HookInv'
<1>1. tasks[t].at = "rule" /\ UNCHANGED <<now, rules, plans, deployed, events, crashes, load>>
  BY DEF RunRule, At
<1>2. "rule" \in Held /\ "end" \in Held /\ "build" \in Held /\ "build" \in OfRule /\ "end" \notin OfRule
  BY DEF Held, OfRule
<1>3. tasks[t] \in TaskType /\ tasks[t].d \in Deliveries
  BY <1>1, HeldTask
<1> DEFINE a == tasks[t]
<1>4. a = tasks[t] /\ a \in TaskType /\ a.at \in Held
  BY <1>1, <1>2, <1>3
<1>5. CASE /\ tasks[t].rules = <<>> /\ UNCHANGED <<row, rec>>
           /\ tasks' = [tasks EXCEPT ![t] = [@ EXCEPT !.at = "end", !.to = EndOf(tasks[t].ends)]]
  <2> DEFINE e == EndOf(tasks[t].ends)
             y == [a EXCEPT !.at = "end", !.to = e]
  <2>1. tasks' = [tasks EXCEPT ![t] = y]
    BY <1>5
  <2>2. e \in Targets
    BY DEF EndOf, Targets
  <2> HIDE DEF a, e
  <2>3. y \in TaskType
    BY <1>2, <1>4, <2>2 DEF TaskType
  <2>4. y.at = "end" /\ y.to = e /\ y.d = a.d /\ y.list = a.list /\ y.only = a.only
    BY <1>4 DEF TaskType
  <2> HIDE DEF y
  <2>5. TaskFits(y)
    BY <1>2, <2>2, <2>3, <2>4 DEF TaskFits
  <2>6. RowsMove
    BY <1>5, RowsStay DEF HookInv
  <2> QED BY <1>1, <1>2, <1>4, <2>1, <2>3, <2>4, <2>5, <2>6, TaskGoesOn, PlansUntouched
<1>6. CASE tasks[t].rules # <<>> /\ tasks' = RuleEnd(t, "ignored") /\ UNCHANGED <<row, rec>>
  <2>1. "ignored" \in Targets
    BY DEF Targets
  <2> HIDE DEF a
  <2> QED BY <1>1, <1>2, <1>6, <2>1, RuleEndKeeps
<1>7. CASE /\ tasks[t].rules # <<>> /\ set_status(tasks[t].d, "building")
           /\ tasks' = [tasks EXCEPT ![t] = [@ EXCEPT !.at = "build", !.i = 1]]
  <2> DEFINE y == [a EXCEPT !.at = "build", !.i = 1]
  <2>1. tasks' = [tasks EXCEPT ![t] = y] /\ a.rules # <<>>
    BY <1>7
  <2>2. "building" \in Targets
    BY DEF Targets
  <2> HIDE DEF a
  <2>3. y \in TaskType
    BY <1>2, <1>4 DEF TaskType
  <2>4. y.at = "build" /\ y.rules = a.rules /\ y.d = a.d /\ y.list = a.list /\ y.only = a.only
    BY <1>4 DEF TaskType
  <2> HIDE DEF y
  <2>5. TaskFits(y)
    BY <1>2, <2>1, <2>3, <2>4 DEF TaskFits
  <2>6. RowsMove
    BY <1>3, <1>7, <2>2, StatusSet
  <2> QED BY <1>1, <1>2, <1>4, <2>1, <2>3, <2>4, <2>5, <2>6, TaskGoesOn, PlansUntouched
<1> HIDE DEF a
<1> QED BY <1>5, <1>6, <1>7 DEF RunRule

\* Enqueue, Deploy and Finish: the task goes on with the rule or ends it.
LEMMA RuleStepKeeps ==
  ASSUME HookInv, NEW t \in 1..Pool, Enqueue(t) \/ Deploy(t) \/ Finish(t) PROVE HookInv'
<1>1. /\ tasks[t].at \in OfRule /\ UNCHANGED <<now, row, rec, rules, plans, deployed, events, crashes, load>>
      /\ \/ Go(t, "wait") \/ Go(t, "submit") \/ tasks' = RuleEnd(t, "failed")
         \/ tasks' = RuleEnd(t, "stale") \/ tasks' = RuleEnd(t, "deployed")
  <2>1. {"build", "finish"} \subseteq OfRule
    BY DEF OfRule
  <2>2. CASE Enqueue(t)
    BY <2>1, <2>2 DEF Enqueue, At
  <2>3. CASE Deploy(t)
    BY <2>1, <2>3 DEF Deploy, At
  <2>4. CASE Finish(t)
    BY <2>1, <2>4 DEF Finish, At
  <2> QED BY <2>2, <2>3, <2>4
<1>2. /\ {"failed", "stale", "deployed"} \subseteq Targets /\ {"wait", "submit"} \subseteq OfRule
      /\ OfRule \subseteq Held /\ "idle" \notin OfRule
  BY DEF Targets, OfRule, Held
<1>3. tasks[t].rules # <<>>
  BY <1>1, <1>2, HeldTask
<1>4. RowsMove
  BY <1>1, RowsStay DEF HookInv
<1>5. CASE Go(t, "wait") \/ Go(t, "submit")
  BY <1>1, <1>2, <1>4, <1>5, GoKeeps, PlansUntouched
<1>6. ASSUME NEW end \in Targets, tasks' = RuleEnd(t, end) PROVE HookInv'
  BY <1>1, <1>2, <1>3, <1>6, RuleEndKeeps
<1> QED BY <1>1, <1>2, <1>5, <1>6

\* Acquire and Image: the build starts and answers.
LEMMA BuildKeeps ==
  ASSUME HookInv, NEW t \in 1..Pool, Acquire(t) \/ Image(t) PROVE HookInv'
<1> DEFINE a == tasks[t]
<1>1. /\ tasks[t].at \in OfRule /\ UNCHANGED <<now, row, rec, rules, plans, deployed, events, crashes, load>>
      /\ \/ tasks' = [tasks EXCEPT ![t] = [a EXCEPT !.at = "image", !.started = now]]
         \/ tasks' = [tasks EXCEPT ![t] = [a EXCEPT !.at = "build", !.i = a.i + 1]]
         \/ tasks' = RuleEnd(t, "failed")
  <2>1. {"wait", "image"} \subseteq OfRule
    BY DEF OfRule
  <2>2. CASE Acquire(t)
    BY <2>1, <2>2 DEF Acquire, At
  <2>3. CASE Image(t)
    BY <2>1, <2>3 DEF Image, At
  <2> QED BY <2>2, <2>3
<1>2. /\ "failed" \in Targets /\ {"image", "build"} \subseteq OfRule
      /\ OfRule \subseteq Held /\ "idle" \notin OfRule
  BY DEF Targets, OfRule, Held
<1>3. a = tasks[t] /\ a \in TaskType /\ a.rules # <<>> /\ now \in Nat
  BY <1>1, <1>2, HeldTask DEF HookInv, HookType
<1>4. RowsMove
  BY <1>1, RowsStay DEF HookInv
<1>5. CASE tasks' = RuleEnd(t, "failed")
  BY <1>1, <1>2, <1>3, <1>5, RuleEndKeeps
<1> HIDE DEF a
<1>6. ASSUME NEW y \in TaskType, y.at \in OfRule, y.rules = a.rules, y.d = a.d, y.list = a.list,
             y.only = a.only, tasks' = [tasks EXCEPT ![t] = y]
      PROVE  HookInv'
  <2>1. "claim" \notin OfRule /\ "end" \notin OfRule
    BY DEF OfRule
  <2>2. TaskFits(y)
    BY <1>3, <1>6, <2>1 DEF TaskFits
  <2> QED BY <1>1, <1>2, <1>3, <1>4, <1>6, <2>2, TaskGoesOn, PlansUntouched
<1>7. CASE tasks' = [tasks EXCEPT ![t] = [a EXCEPT !.at = "image", !.started = now]]
  <2> DEFINE y == [a EXCEPT !.at = "image", !.started = now]
  <2>1. y \in TaskType
    BY <1>2, <1>3 DEF TaskType, Held
  <2>2. y.at = "image" /\ y.rules = a.rules /\ y.d = a.d /\ y.list = a.list /\ y.only = a.only
    BY <1>3 DEF TaskType
  <2>3. tasks' = [tasks EXCEPT ![t] = y]
    BY <1>7
  <2> HIDE DEF y
  <2> QED BY <1>2, <1>6, <2>1, <2>2, <2>3
<1>8. CASE tasks' = [tasks EXCEPT ![t] = [a EXCEPT !.at = "build", !.i = a.i + 1]]
  <2> DEFINE b == a.i + 1
             y == [a EXCEPT !.at = "build", !.i = b]
  <2>1. b \in Nat
    BY <1>3 DEF TaskType
  <2>2. tasks' = [tasks EXCEPT ![t] = y]
    BY <1>8
  <2> HIDE DEF b
  <2>3. y \in TaskType
    BY <1>2, <1>3, <2>1 DEF TaskType, Held
  <2>4. y.at = "build" /\ y.rules = a.rules /\ y.d = a.d /\ y.list = a.list /\ y.only = a.only
    BY <1>3 DEF TaskType
  <2> HIDE DEF y
  <2> QED BY <1>2, <1>6, <2>2, <2>3, <2>4
<1> QED BY <1>1, <1>5, <1>7, <1>8

\* What check_rule asks for when a rule plan is admitted keeps the plans in
\* order and within the limit.
LEMMA AdmittedKeeps ==
  ASSUME HookInv, NEW d \in Deliveries, NEW r \in Rules,
         plans' = Append(plans, [d |-> d, r |-> r, at |-> now, outcome |-> "open"]),
         deployed' = [s \in Services |-> IF s \in Range(ServicesOf[r]) THEN {CommitOf[d]} ELSE deployed[s]],
         Cardinality(Invocations(r)) < load.limit,
         \A s \in Range(ServicesOf[r]) : newer(s, CommitOf[d]),
         UNCHANGED <<load, now>>
  PROVE  /\ PlanInv' /\ InvocationsStay /\ plans' \in Seq(PlanType)
         /\ deployed' \in [Services -> SUBSET Commits]
<1> DEFINE c == CommitOf[d]
           p == [d |-> d, r |-> r, at |-> now, outcome |-> "open"]
<1>0. PICK N \in Nat : N = Len(plans)
  BY DEF HookInv, HookType
<1>1. /\ plans \in Seq(PlanType) /\ N \in Nat /\ DOMAIN plans = 1..N /\ now \in Nat /\ PlanInv
      /\ deployed \in [Services -> SUBSET Commits] /\ c \in Commits /\ load.limit \in Nat
  BY <1>0, HookAssumption DEF HookInv, HookType, Load
<1>2. p \in PlanType
  BY <1>1 DEF PlanType
<1>3. /\ plans' \in Seq(PlanType) /\ Len(plans') = N + 1 /\ DOMAIN plans' = 1..(N + 1)
      /\ plans'[N + 1] = p /\ \A n \in 1..N : plans'[n] = plans[n]
  <2>1. plans' = Append(plans, p)
    OBVIOUS
  <2> HIDE DEF p
  <2> QED BY <1>0, <1>1, <1>2, <2>1
<1>4. p.d = d /\ p.r = r /\ p.at = now
  OBVIOUS
<1>5. /\ (Pushed(N + 1))' = c /\ \A s \in Services : (Deploys(N + 1, s))' <=> s \in Range(ServicesOf[r])
      /\ \A n \in 1..N : /\ (Pushed(n))' = Pushed(n)
                          /\ \A s \in Services : (Deploys(n, s))' <=> Deploys(n, s)
  BY <1>3, <1>4 DEF Pushed, Deploys
<1>6. \A s \in Services : deployed'[s] = IF s \in Range(ServicesOf[r]) THEN {c} ELSE deployed[s]
  OBVIOUS
<1>7. deployed' \in [Services -> SUBSET Commits]
  BY <1>1
<1> HIDE DEF p, c
<1>8. PlansPast'
  <2> SUFFICES ASSUME NEW n \in 1..(N + 1) PROVE plans'[n].at <= now
    BY <1>3 DEF PlansPast
  <2>1. CASE n = N + 1
    BY <1>1, <1>3, <1>4, <2>1
  <2>2. CASE n # N + 1
    <3>1. n \in 1..N
      BY <1>1, <2>2
    <3> QED BY <1>1, <1>3, <3>1 DEF PlanInv, PlansPast
  <2> QED BY <2>1, <2>2
<1>9. DeployedIsLast'
  <2> SUFFICES ASSUME NEW s \in Services
               PROVE \/ deployed'[s] = {} /\ \A n \in 1..(N + 1) : ~Deploys(n, s)'
                     \/ \E n \in 1..(N + 1) :
                          /\ Deploys(n, s)' /\ deployed'[s] = {(Pushed(n))'}
                          /\ \A k \in (n + 1)..(N + 1) : ~Deploys(k, s)'
    BY <1>3 DEF DeployedIsLast
  <2>1. CASE s \in Range(ServicesOf[r])
    <3>1. N + 1 \in 1..(N + 1) /\ (N + 1 + 1)..(N + 1) = {}
      BY <1>1
    <3> QED BY <1>5, <1>6, <2>1, <3>1
  <2>2. CASE s \notin Range(ServicesOf[r])
    <3>1. deployed'[s] = deployed[s] /\ ~Deploys(N + 1, s)'
      BY <1>5, <1>6, <2>2
    <3>2. CASE deployed[s] = {} /\ \A n \in 1..N : ~Deploys(n, s)
      <4>1. ASSUME NEW n \in 1..(N + 1) PROVE ~Deploys(n, s)'
        <5>1. n = N + 1 \/ n \in 1..N
          BY <1>1
        <5> QED BY <1>5, <3>1, <3>2, <5>1
      <4> QED BY <3>1, <3>2, <4>1
    <3>3. ASSUME NEW n \in 1..N, Deploys(n, s), deployed[s] = {Pushed(n)},
                 \A k \in (n + 1)..N : ~Deploys(k, s)
          PROVE  \E k \in 1..(N + 1) :
                   /\ Deploys(k, s)' /\ deployed'[s] = {(Pushed(k))'}
                   /\ \A j \in (k + 1)..(N + 1) : ~Deploys(j, s)'
      <4>1. ASSUME NEW k \in (n + 1)..(N + 1) PROVE ~Deploys(k, s)'
        <5>1. k = N + 1 \/ (k \in 1..N /\ k \in (n + 1)..N)
          BY <1>1
        <5> QED BY <1>5, <3>1, <3>3, <5>1
      <4>2. n \in 1..(N + 1) /\ Deploys(n, s)' /\ deployed'[s] = {(Pushed(n))'}
        BY <1>1, <1>5, <3>1, <3>3
      <4> QED BY <4>1, <4>2
    <3> QED BY <1>0, <1>1, <3>2, <3>3 DEF PlanInv, DeployedIsLast
  <2> QED BY <2>1, <2>2
<1>10. HourlyLimit'
  <2> DEFINE in(q, n) == {k \in 1..n : q[k].r = q[n].r /\ q[k].at > q[n].at - HOUR}
  <2> SUFFICES ASSUME NEW n \in 1..(N + 1) PROVE Cardinality(in(plans', n)) <= load.limit
    BY <1>3 DEF HourlyLimit
  <2>1. CASE n \in 1..N
    <3>1. \A k \in 1..n : k \in 1..N
      BY <1>1, <2>1
    <3>2. in(plans', n) = in(plans, n)
      BY <1>3, <2>1, <3>1
    <3>3. Cardinality(in(plans, n)) <= load.limit
      BY <1>1, <2>1 DEF PlanInv, HourlyLimit
    <3> HIDE DEF in
    <3> QED BY <3>2, <3>3
  <2>2. CASE n = N + 1
    <3>1. in(plans', n) = Invocations(r) \cup {N + 1}
      <4>1. ASSUME NEW k \in 1..N
            PROVE  k \in in(plans', n) <=> k \in Invocations(r)
        <5>1. k \in 1..n
          BY <1>1, <2>2
        <5> QED BY <1>1, <1>3, <1>4, <2>2, <5>1 DEF Invocations
      <4>2. N + 1 \in in(plans', n)
        <5>1. HOUR \in Nat \ {0}
          BY HookAssumption
        <5> QED BY <1>1, <1>3, <1>4, <2>2, <5>1
      <4>3. in(plans', n) \subseteq 1..(N + 1) /\ Invocations(r) \subseteq 1..N
        BY <1>1, <2>2 DEF Invocations
      <4> HIDE DEF in
      <4> QED BY <1>1, <4>1, <4>2, <4>3
    <3>2. IsFiniteSet(Invocations(r)) /\ N + 1 \notin Invocations(r)
      <4>1. Invocations(r) \subseteq 1..N /\ IsFiniteSet(1..N)
        BY <1>1, FS_Interval DEF Invocations
      <4> QED BY <1>1, <4>1, FS_Subset
    <3>3. Cardinality(in(plans', n)) = Cardinality(Invocations(r)) + 1
      BY <3>1, <3>2, FS_AddElement
    <3>4. Cardinality(Invocations(r)) \in Nat
      BY <3>2, FS_CardinalityType
    <3> HIDE DEF in
    <3> QED BY <1>1, <3>3, <3>4
  <2>3. n \in 1..N \/ n = N + 1
    BY <1>1
  <2> HIDE DEF in
  <2> QED BY <2>1, <2>2, <2>3
<1>11. NeverOlder'
  <2> SUFFICES ASSUME NEW s \in Services, NEW n \in 1..(N + 1), NEW j \in 1..(n - 1),
                      Deploys(j, s)', Deploys(n, s)'
               PROVE /\ CommitTime[(Pushed(j))'] <= CommitTime[(Pushed(n))']
                     /\ (Pushed(j))' = (Pushed(n))' =>
                          \E k \in (j + 1)..(n - 1) : /\ Deploys(k, s)' /\ (Pushed(k))' # (Pushed(n))'
                                                      /\ CommitTime[(Pushed(k))'] = CommitTime[(Pushed(n))']
    BY <1>3 DEF NeverOlder
  <2>1. j \in 1..N /\ Deploys(j, s) /\ (Pushed(j))' = Pushed(j)
    BY <1>1, <1>5
  <2>2. ASSUME NEW n1 \in 1..N, NEW j1 \in 1..(n1 - 1), Deploys(j1, s), Deploys(n1, s)
        PROVE /\ CommitTime[Pushed(j1)] <= CommitTime[Pushed(n1)]
              /\ Pushed(j1) = Pushed(n1) =>
                   \E k \in (j1 + 1)..(n1 - 1) : /\ Deploys(k, s) /\ Pushed(k) # Pushed(n1)
                                                 /\ CommitTime[Pushed(k)] = CommitTime[Pushed(n1)]
    BY <1>1, <2>2 DEF PlanInv, NeverOlder
  <2>3. CASE n \in 1..N
    <3>1. \A k \in (j + 1)..(n - 1) : k \in 1..N
      BY <1>1, <2>3
    <3> QED BY <1>5, <2>1, <2>2, <2>3, <3>1
  <2>4. CASE n = N + 1
    <3>1. s \in Range(ServicesOf[r]) /\ (Pushed(n))' = c
      BY <1>5, <2>4
    <3>2. \E k \in 1..N : /\ Deploys(k, s) /\ deployed[s] = {Pushed(k)}
                          /\ \A x \in (k + 1)..N : ~Deploys(x, s)
      BY <1>0, <1>1, <2>1 DEF PlanInv, DeployedIsLast
    <3>3. PICK k \in 1..N : /\ Deploys(k, s) /\ deployed[s] = {Pushed(k)}
                           /\ \A x \in (k + 1)..N : ~Deploys(x, s)
      BY <3>2
    <3>4. j <= k
      BY <1>1, <2>1, <3>3
    <3>5. c # Pushed(k) /\ CommitTime[Pushed(k)] <= CommitTime[c]
      <4>1. newer(s, c)
        BY <3>1 DEF c
      <4>2. c \notin deployed[s] /\ \A x \in deployed[s] : CommitTime[c] >= CommitTime[x]
        BY <3>3, <4>1 DEF newer
      <4> QED BY <3>3, <4>2
    <3>6. CommitTime[Pushed(j)] \in Nat /\ CommitTime[Pushed(k)] \in Nat /\ CommitTime[c] \in Nat
      <4>1. plans[j] \in PlanType /\ plans[k] \in PlanType
        BY <1>1, <2>1, <3>3
      <4>2. Pushed(j) \in Commits /\ Pushed(k) \in Commits
        BY <4>1, HookAssumption DEF PlanType, Pushed
      <4> QED BY <1>1, <4>2, HookAssumption
    <3>7. CASE j = k
      BY <2>1, <3>1, <3>5, <3>7
    <3>8. CASE j # k
      <4>1. j \in 1..(k - 1)
        BY <1>1, <2>1, <3>3, <3>4, <3>8
      <4>2. CommitTime[Pushed(j)] <= CommitTime[Pushed(k)]
        BY <2>1, <2>2, <3>3, <4>1
      <4>3. CommitTime[Pushed(j)] <= CommitTime[c]
        BY <3>5, <3>6, <4>2
      <4>4. ASSUME Pushed(j) = c PROVE CommitTime[Pushed(k)] = CommitTime[c]
        BY <3>5, <3>6, <4>2, <4>4
      <4>5. k \in (j + 1)..(n - 1) /\ Deploys(k, s)' /\ (Pushed(k))' = Pushed(k)
        BY <1>1, <1>5, <2>1, <2>4, <3>3, <4>1
      <4> QED BY <2>1, <3>1, <3>5, <4>3, <4>4, <4>5
    <3> QED BY <3>7, <3>8
  <2> QED BY <1>1, <2>3, <2>4
<1>12. InvocationsStay
  <2> SUFFICES ASSUME NEW q \in Rules, Invoked(q)' < load.limit PROVE Invoked(q) < load.limit
    BY DEF InvocationsStay
  <2> DEFINE old == {n \in DOMAIN plans : plans[n].r = q}
             new == {n \in DOMAIN plans' : plans'[n].r = q}
  <2>1. old \subseteq new
    BY <1>1, <1>3
  <2>2. IsFiniteSet(new)
    <3>1. new \subseteq 1..(N + 1) /\ IsFiniteSet(1..(N + 1))
      BY <1>1, <1>3, FS_Interval
    <3> QED BY <3>1, FS_Subset
  <2>3. Cardinality(old) <= Cardinality(new) /\ IsFiniteSet(old)
    BY <2>1, <2>2, FS_Subset
  <2>4. Cardinality(old) \in Nat /\ Cardinality(new) \in Nat
    BY <2>2, <2>3, FS_CardinalityType
  <2>5. Invoked(q) = Cardinality(old) /\ Invoked(q)' = Cardinality(new)
    BY DEF Invoked
  <2> HIDE DEF old, new
  <2> QED BY <1>1, <2>3, <2>4, <2>5
<1> QED BY <1>3, <1>7, <1>8, <1>9, <1>10, <1>11, <1>12 DEF PlanInv

\* Submit: the plan is admitted, or the rule ends.
LEMMA SubmitKeeps == ASSUME HookInv, NEW t \in 1..Pool, Submit(t) PROVE HookInv'
<1>1. tasks[t].at = "submit" /\ UNCHANGED <<now, rules, events, crashes, load>>
  BY DEF Submit, At
<1>2. /\ {"failed", "stale", "building"} \subseteq Targets /\ {"submit", "finish"} \subseteq OfRule
      /\ OfRule \subseteq Held
  BY DEF Targets, OfRule, Held
<1>3. tasks[t] \in TaskType /\ tasks[t].d \in Deliveries /\ tasks[t].rules # <<>>
  BY <1>1, <1>2, HeldTask
<1>4. Rule(t) \in Rules
  <2>1. tasks[t].rules \in Seq(Rules)
    BY <1>3 DEF TaskType
  <2> QED BY <1>3, <2>1 DEF Rule
<1>5. CASE /\ check_rule(t)
           /\ plans' = Append(plans, [d |-> tasks[t].d, r |-> Rule(t), at |-> now, outcome |-> "open"])
           /\ deployed' = [s \in Services |-> IF s \in Range(Svcs(t)) THEN {Commit(t)} ELSE deployed[s]]
           /\ set_status(tasks[t].d, "building") /\ Go(t, "finish")
  <2>1. RowsMove
    BY <1>2, <1>3, <1>5, StatusSet
  <2>2. /\ Cardinality(Invocations(Rule(t))) < load.limit
        /\ \A s \in Range(ServicesOf[Rule(t)]) : newer(s, CommitOf[tasks[t].d])
    BY <1>5 DEF check_rule, commit_is_newer, Svcs, Commit
  <2>3. deployed' = [s \in Services |-> IF s \in Range(ServicesOf[Rule(t)]) THEN {CommitOf[tasks[t].d]}
                                        ELSE deployed[s]]
    BY <1>5 DEF Svcs, Commit
  <2>4. /\ PlanInv' /\ InvocationsStay /\ plans' \in Seq(PlanType)
        /\ deployed' \in [Services -> SUBSET Commits]
    <3> DEFINE dd == tasks[t].d
               rr == Rule(t)
    <3>1. dd \in Deliveries /\ rr \in Rules
      BY <1>3, <1>4
    <3>2. /\ plans' = Append(plans, [d |-> dd, r |-> rr, at |-> now, outcome |-> "open"])
          /\ deployed' = [s \in Services |-> IF s \in Range(ServicesOf[rr]) THEN {CommitOf[dd]} ELSE deployed[s]]
          /\ Cardinality(Invocations(rr)) < load.limit
          /\ \A s \in Range(ServicesOf[rr]) : newer(s, CommitOf[dd])
      BY <1>5, <2>2, <2>3
    <3> HIDE DEF dd, rr
    <3> QED BY <1>1, <3>1, <3>2, AdmittedKeeps
  <2> QED BY <1>1, <1>2, <1>5, <2>1, <2>4, GoKeeps
<1>6. CASE /\ \E end \in {"stale", "failed"} : tasks' = RuleEnd(t, end)
           /\ UNCHANGED <<plans, deployed, row, rec>>
  BY <1>1, <1>2, <1>3, <1>6, RuleEndKeeps
<1>7. \/ /\ check_rule(t)
         /\ plans' = Append(plans, [d |-> tasks[t].d, r |-> Rule(t), at |-> now, outcome |-> "open"])
         /\ deployed' = [s \in Services |-> IF s \in Range(Svcs(t)) THEN {Commit(t)} ELSE deployed[s]]
         /\ set_status(tasks[t].d, "building") /\ Go(t, "finish")
      \/ /\ \E end \in {"stale", "failed"} : tasks' = RuleEnd(t, end)
         /\ UNCHANGED <<plans, deployed, row, rec>>
  BY DEF Submit
<1> QED BY <1>5, <1>6, <1>7

\* The pipeline.
LEMMA PipelineKeeps == ASSUME HookInv, NEW t \in 1..Pool, Pipeline(t) PROVE HookInv'
BY MatchKeeps, ClaimKeeps, EndKeeps, RunRuleKeeps, RuleStepKeeps, BuildKeeps, SubmitKeeps
   DEF Pipeline

----------------------------------------------------------------------------
(* Intake, rules, the sweeper and the environment.                         *)

\* No task takes hold of a delivery, and no row goes back.
LEMMA ClaimsStay ==
  ASSUME HookInv, UNCHANGED load,
         \A u \in 1..Pool : Holds(u)' => Holds(u) /\ tasks'[u].d = tasks[u].d,
         \A d \in Deliveries : row[d].status \notin Unclaimed => row'[d].status \notin Unclaimed
  PROVE  ClaimsHeld'
<1>1. Pool' = Pool
  BY DEF Pool
<1>2. \A u \in 1..Pool : Holds(u) => tasks[u].d \in Deliveries
  BY HeldTask DEF Holds
<1>3. ASSUME NEW u \in 1..Pool, Holds(u)' PROVE row'[tasks'[u].d].status \notin Unclaimed
  BY <1>2, <1>3 DEF HookInv, ClaimsHeld
<1>4. ProcessedOnce'
  BY <1>1 DEF HookInv, ClaimsHeld, ProcessedOnce
<1> QED BY <1>1, <1>3, <1>4 DEF ClaimsHeld

\* The tasks stay as they are.
LEMMA RestKeeps ==
  ASSUME HookInv, RowsMove, UNCHANGED <<tasks, load, crashes>>, now' \in Nat, now <= now',
         PlanInv', InvocationsStay, plans' \in Seq(PlanType),
         deployed' \in [Services -> SUBSET Commits],
         rules' \in [Rules -> {"none", "active", "revoked"}], RowsKnown', events \subseteq events',
         \A r \in Rules : rules'[r] = "active" => rules[r] = "active" \/ r \in events'
  PROVE  HookInv'
<1>1. Pool' = Pool
  BY DEF Pool
<1>2. HookType'
  BY <1>1 DEF HookInv, HookType, RowsMove
<1>3. ClaimsHeld'
  <2>1. \A u \in 1..Pool : Holds(u)' => Holds(u) /\ tasks'[u].d = tasks[u].d
    BY DEF Holds
  <2>2. \A d \in Deliveries : row[d].status \notin Unclaimed => row'[d].status \notin Unclaimed
    BY DEF RowsMove
  <2> QED BY <2>1, <2>2, ClaimsStay
<1>4. LookedAt'
  <2> SUFFICES ASSUME crashes = 0, NEW d \in Deliveries, NEW r \in Rules, Waits(d, r)', r \notin events'
               PROVE \E u \in 1..Pool : Through(tasks[u], d, r)
    BY <1>1 DEF LookedAt
  <2>1. Waits(d, r)
    BY WaitedBefore DEF HookInv
  <2> QED BY <2>1 DEF HookInv, LookedAt
<1> QED BY <1>2, <1>3, <1>4 DEF HookInv

\* Insert: the new row has no record yet.
LEMMA InsertKeeps == ASSUME HookInv, NEW d \in Deliveries, Insert(d) PROVE HookInv'
<1> DEFINE new == [status |-> "pending", at |-> now, recorded |-> FALSE]
<1>1. /\ row[d].status = "none" /\ row' = [row EXCEPT ![d] = new]
      /\ UNCHANGED <<now, rec, rules, plans, deployed, tasks, events, crashes, load>>
  BY DEF Insert, memory
<1>2. new \in RowType /\ new.status = "pending"
  BY DEF HookInv, HookType, RowType, Statuses
<1> HIDE DEF new
<1>3. Pool' = Pool
  BY <1>1 DEF Pool
<1>4. /\ row' \in [Deliveries -> RowType] /\ row'[d].status = "pending"
      /\ \A x \in Deliveries : x # d => row'[x] = row[x]
  BY <1>1, <1>2 DEF HookInv, HookType
<1>5. HookType'
  BY <1>1, <1>3, <1>4 DEF HookInv, HookType
<1>6. RowsKnown'
  <2>1. Arrived' = Arrived \cup {d} /\ Signed' = Signed
    BY <1>1, <1>4 DEF Arrived, Signed
  <2>2. IsFiniteSet(Arrived \cup {d})
    BY FS_AddElement DEF HookInv, RowsKnown
  <2> QED BY <1>1, <2>1, <2>2 DEF HookInv, RowsKnown
<1>7. ClaimsHeld'
  <2>1. \A u \in 1..Pool : Holds(u)' => Holds(u) /\ tasks'[u].d = tasks[u].d
    BY <1>1 DEF Holds
  <2>2. \A x \in Deliveries : row[x].status \notin Unclaimed => row'[x].status \notin Unclaimed
    BY <1>1, <1>4 DEF Unclaimed
  <2> QED BY <1>1, <2>1, <2>2, ClaimsStay
<1>8. LookedAt'
  <2> SUFFICES ASSUME crashes = 0, NEW x \in Deliveries, NEW r \in Rules, Waits(x, r)'
               PROVE r \in events \/ \E u \in 1..Pool : Through(tasks[u], x, r)
    BY <1>1, <1>3 DEF LookedAt
  <2>1. rec[d] = "none"
    BY <1>1 DEF HookInv, RowsKnown, Arrived
  <2>2. x # d
    BY <1>1, <2>1 DEF Waits
  <2>3. Waits(x, r)
    BY <1>1, <1>4, <2>2 DEF Waits, Expired, received, Invoked
  <2> QED BY <2>3 DEF HookInv, LookedAt
<1> QED BY <1>1, <1>5, <1>6, <1>7, <1>8, PlansUntouched DEF HookInv

\* A free task is started: it was idle, and the others stay.
LEMMA StartIs ==
  ASSUME HookInv, Free # {}, NEW list \in Seq(Deliveries), list # <<>>, NEW only \in SUBSET Rules,
         tasks' = [tasks EXCEPT ![NextFree] = Started(list, only)], UNCHANGED load
  PROVE  /\ tasks' = [u \in 1..Pool |-> tasks'[u]] /\ \A u \in 1..Pool : TaskFits(tasks'[u])
         /\ \A u \in 1..Pool : Holds(u)' => Holds(u) /\ tasks'[u].d = tasks[u].d
         /\ \A d \in Range(list), r \in only : \E u \in 1..Pool : Through(tasks'[u], d, r)
         /\ \A u \in 1..Pool, d \in Deliveries, r \in Rules :
              Through(tasks[u], d, r) => Through(tasks'[u], d, r)
<1>1. Pool \in Nat
  BY DEF HookInv, HookType, Load, Pool
<1>2. Free \subseteq Nat
  BY <1>1 DEF Free
<1>3. NextFree \in Free
  BY <1>2, LeastOf DEF NextFree
<1> DEFINE t == NextFree
           y == Started(list, only)
<1>4. t \in 1..Pool /\ tasks[t].at = "idle"
  BY <1>3 DEF Free
<1>5. /\ TaskFits(y) /\ y.at = "match" /\ \A d \in Range(list), r \in only : Through(y, d, r)
  BY StartedFits
<1>6. tasks' = [tasks EXCEPT ![t] = y]
  OBVIOUS
<1> HIDE DEF t, y
<1>7. /\ tasks' = [u \in 1..Pool |-> tasks'[u]] /\ tasks'[t] = y
      /\ \A u \in 1..Pool : u # t => tasks'[u] = tasks[u]
  BY <1>4, <1>6 DEF HookInv, HookType
<1>8. \A u \in 1..Pool : TaskFits(tasks'[u])
  BY <1>5, <1>7 DEF HookInv, HookType
<1>9. ASSUME NEW u \in 1..Pool, Holds(u)' PROVE Holds(u) /\ tasks'[u].d = tasks[u].d
  <2>1. u # t
    BY <1>5, <1>7, <1>9 DEF Holds
  <2> QED BY <1>7, <1>9, <2>1 DEF Holds
<1>10. ASSUME NEW u \in 1..Pool, NEW d \in Deliveries, NEW r \in Rules, Through(tasks[u], d, r)
       PROVE  Through(tasks'[u], d, r)
  <2>1. u # t
    BY <1>4, <1>10 DEF Through
  <2> QED BY <1>7, <1>10, <2>1
<1> QED BY <1>4, <1>5, <1>7, <1>8, <1>9, <1>10

\* Accept: the delivery gets its record and a task for every rule.
LEMMA AcceptKeeps == ASSUME HookInv, NEW d \in Deliveries, Accept(d) PROVE HookInv'
<1>1. /\ row[d].status # "none" /\ Free # {}
      /\ row' = [row EXCEPT ![d].recorded = TRUE] /\ rec' = [rec EXCEPT ![d] = "pending"]
      /\ tasks' = [tasks EXCEPT ![NextFree] = Started(<<d>>, Rules)]
      /\ UNCHANGED <<now, rules, plans, deployed, events, crashes, load>>
  BY DEF Accept
<1>2. /\ row \in [Deliveries -> RowType] /\ rec \in [Deliveries -> Statuses]
  BY DEF HookInv, HookType
<1>3. row' = [row EXCEPT ![d] = [row[d] EXCEPT !.recorded = TRUE]] /\ row[d] \in RowType
  BY <1>1, <1>2
<1>4. [row[d] EXCEPT !.recorded = TRUE] \in RowType
  BY <1>3 DEF RowType
<1>5. /\ row' \in [Deliveries -> RowType] /\ rec' \in [Deliveries -> Statuses] /\ rec'[d] = "pending"
      /\ \A x \in Deliveries : row'[x].status = row[x].status /\ row'[x].at = row[x].at
      /\ \A x \in Deliveries : x # d => rec'[x] = rec[x]
  <2>1. "pending" \in Statuses
    BY DEF Statuses
  <2>2. row' \in [Deliveries -> RowType]
    BY <1>2, <1>3, <1>4
  <2>3. rec' \in [Deliveries -> Statuses] /\ rec'[d] = "pending" /\ \A x \in Deliveries : x # d => rec'[x] = rec[x]
    BY <1>1, <1>2, <2>1
  <2>4. \A x \in Deliveries : row'[x].status = row[x].status /\ row'[x].at = row[x].at
    BY <1>2, <1>3 DEF RowType
  <2> QED BY <2>2, <2>3, <2>4
<1> DEFINE list == <<d>>
<1>6. list \in Seq(Deliveries) /\ list # <<>> /\ Range(list) = {d}
  BY DEF Range
<1>7. tasks' = [tasks EXCEPT ![NextFree] = Started(list, Rules)]
  BY <1>1
<1> HIDE DEF list
<1>8. /\ tasks' = [u \in 1..Pool |-> tasks'[u]] /\ \A u \in 1..Pool : TaskFits(tasks'[u])
      /\ \A u \in 1..Pool : Holds(u)' => Holds(u) /\ tasks'[u].d = tasks[u].d
      /\ \A x \in Range(list), r \in Rules : \E u \in 1..Pool : Through(tasks'[u], x, r)
      /\ \A u \in 1..Pool, x \in Deliveries, r \in Rules :
            Through(tasks[u], x, r) => Through(tasks'[u], x, r)
  BY <1>1, <1>6, <1>7, StartIs
<1>9. Pool' = Pool
  BY <1>1 DEF Pool
<1>10. HookType'
  BY <1>1, <1>5, <1>8, <1>9 DEF HookInv, HookType
<1>11. RowsKnown'
  <2>1. Arrived' = Arrived /\ Signed' = Signed
    BY <1>1, <1>5 DEF Arrived, Signed
  <2>2. d \in Arrived
    BY <1>1 DEF Arrived
  <2> QED BY <1>5, <2>1, <2>2 DEF HookInv, RowsKnown
<1>12. ClaimsHeld'
  BY <1>1, <1>5, <1>8, ClaimsStay
<1>13. LookedAt'
  <2> SUFFICES ASSUME crashes = 0, NEW x \in Deliveries, NEW r \in Rules, Waits(x, r)'
               PROVE r \in events \/ \E u \in 1..Pool : Through(tasks'[u], x, r)
    BY <1>1, <1>9 DEF LookedAt
  <2>1. CASE x = d
    BY <1>6, <1>8, <2>1
  <2>2. CASE x # d
    <3>1. Waits(x, r)
      BY <1>1, <1>5, <2>2 DEF Waits, Expired, received, Invoked
    <3> QED BY <1>8, <3>1 DEF HookInv, LookedAt
  <2> QED BY <2>1, <2>2
<1> QED BY <1>1, <1>10, <1>11, <1>12, <1>13, PlansUntouched DEF HookInv

\* RuleCreate: the new rule has its event.
LEMMA RuleCreateKeeps == ASSUME HookInv, NEW r \in Rules, RuleCreate(r) PROVE HookInv'
<1>1. /\ rules' = [rules EXCEPT ![r] = "active"] /\ events' = events \cup {r}
      /\ UNCHANGED <<now, row, rec, plans, deployed, tasks, crashes, load>>
  BY DEF RuleCreate
<1>2. RowsMove
  BY <1>1, RowsStay DEF HookInv
<1>3. rules \in [Rules -> {"none", "active", "revoked"}] /\ now \in Nat
  BY DEF HookInv, HookType
<1>4. rules' \in [Rules -> {"none", "active", "revoked"}]
  BY <1>1, <1>3
<1>5. Arrived' = Arrived /\ Signed' = Signed \cup {r}
  BY <1>1, <1>3 DEF Arrived, Signed
<1>6. IsFiniteSet(Signed \cup {r})
  BY FS_AddElement DEF HookInv, RowsKnown
<1>7. RowsKnown'
  BY <1>1, <1>5, <1>6 DEF HookInv, RowsKnown
<1>8. \A q \in Rules : rules'[q] = "active" => rules[q] = "active" \/ q \in events'
  BY <1>1, <1>3
<1>9. now' \in Nat /\ now <= now' /\ events \subseteq events'
  BY <1>1, <1>3
<1> QED BY <1>1, <1>2, <1>4, <1>7, <1>8, <1>9, RestKeeps, PlansUntouched

\* RuleRevoke.
LEMMA RuleRevokeKeeps == ASSUME HookInv, NEW r \in Rules, RuleRevoke(r) PROVE HookInv'
<1>1. /\ rules[r] = "active" /\ rules' = [rules EXCEPT ![r] = "revoked"]
      /\ UNCHANGED <<now, row, rec, plans, deployed, tasks, events, crashes, load>>
  BY DEF RuleRevoke, memory
<1>2. RowsMove
  BY <1>1, RowsStay DEF HookInv
<1>3. rules \in [Rules -> {"none", "active", "revoked"}] /\ now \in Nat
  BY DEF HookInv, HookType
<1>4. rules' \in [Rules -> {"none", "active", "revoked"}]
  BY <1>1, <1>3
<1>5. Arrived' = Arrived /\ Signed' = Signed
  BY <1>1, <1>3 DEF Arrived, Signed
<1>6. RowsKnown'
  BY <1>1, <1>5 DEF HookInv, RowsKnown
<1>7. \A q \in Rules : rules'[q] = "active" => rules[q] = "active" \/ q \in events'
  BY <1>1, <1>3
<1>8. now' \in Nat /\ now <= now' /\ events \subseteq events'
  BY <1>1, <1>3
<1> QED BY <1>1, <1>2, <1>4, <1>6, <1>7, <1>8, RestKeeps, PlansUntouched

\* Watch: every pending delivery is on the new task's list, so the event is no
\* longer needed.
LEMMA WatchKeeps == ASSUME HookInv, NEW r \in Rules, Watch(r) PROVE HookInv'
<1> DEFINE list == rule_admitted(r)
<1>1. /\ r \in events /\ Free # {} /\ events' = events \ {r}
      /\ tasks' = IF list = <<>> THEN tasks ELSE [tasks EXCEPT ![NextFree] = Started(list, {r})]
      /\ UNCHANGED <<now, row, rec, rules, plans, deployed, crashes, load>>
  BY DEF Watch, store
<1>2. Pending \subseteq Arrived
  BY DEF HookInv, RowsKnown, Pending
<1>3. IsFiniteSet(Pending) /\ Pending \subseteq Deliveries
  BY <1>2, FS_Subset DEF HookInv, RowsKnown, Pending
<1>4. Oldest(Pending) \in Seq(Pending) /\ Range(Oldest(Pending)) = Pending
  <2> DEFINE key == [d \in Deliveries |-> received(d)]
  <2>1. \A x \in Pending : key[x] \in Nat
    BY <1>3 DEF HookInv, HookType, RowType, received
  <2>2. Oldest(Pending) = InOrder(Pending, key)
    BY DEF Oldest
  <2> HIDE DEF key
  <2> QED BY <1>3, <2>1, <2>2, InOrderIs
<1>5. /\ list \in Seq(Deliveries)
      /\ rules[r] = "active" => Range(list) = Pending
  <2>1. CASE rules[r] = "active"
    BY <1>3, <1>4, <2>1 DEF rule_admitted
  <2>2. CASE rules[r] # "active"
    BY <2>2 DEF rule_admitted
  <2> QED BY <2>1, <2>2
<1> HIDE DEF list
<1>6. /\ tasks' = [u \in 1..Pool |-> tasks'[u]] /\ \A u \in 1..Pool : TaskFits(tasks'[u])
      /\ \A u \in 1..Pool : Holds(u)' => Holds(u) /\ tasks'[u].d = tasks[u].d
      /\ \A x \in Range(list) : \E u \in 1..Pool : Through(tasks'[u], x, r)
      /\ \A u \in 1..Pool, x \in Deliveries, q \in Rules :
            Through(tasks[u], x, q) => Through(tasks'[u], x, q)
  <2>1. CASE list = <<>>
    <3>1. tasks' = tasks /\ Range(list) = {}
      BY <1>1, <2>1 DEF Range
    <3> QED BY <3>1 DEF HookInv, HookType, Holds
  <2>2. CASE list # <<>>
    <3> DEFINE only == {r}
    <3>1. tasks' = [tasks EXCEPT ![NextFree] = Started(list, only)] /\ only \in SUBSET Rules /\ r \in only
      BY <1>1, <2>2
    <3> HIDE DEF only
    <3>2. /\ tasks' = [u \in 1..Pool |-> tasks'[u]] /\ \A u \in 1..Pool : TaskFits(tasks'[u])
          /\ \A u \in 1..Pool : Holds(u)' => Holds(u) /\ tasks'[u].d = tasks[u].d
          /\ \A x \in Range(list), q \in only : \E u \in 1..Pool : Through(tasks'[u], x, q)
          /\ \A u \in 1..Pool, x \in Deliveries, q \in Rules :
                Through(tasks[u], x, q) => Through(tasks'[u], x, q)
      BY <1>1, <1>5, <2>2, <3>1, StartIs
    <3> QED BY <3>1, <3>2
  <2> QED BY <2>1, <2>2
<1>7. Pool' = Pool
  BY <1>1 DEF Pool
<1>8. HookType'
  BY <1>1, <1>6, <1>7 DEF HookInv, HookType
<1>9. RowsMove
  BY <1>1, RowsStay DEF HookInv
<1>10. RowsKnown'
  BY <1>1, <1>9, KnownStays DEF HookInv
<1>11. ClaimsHeld'
  BY <1>1, <1>6, ClaimsStay
<1>12. LookedAt'
  <2> SUFFICES ASSUME crashes = 0, NEW x \in Deliveries, NEW q \in Rules, Waits(x, q)'
               PROVE q \in events' \/ \E u \in 1..Pool : Through(tasks'[u], x, q)
    BY <1>1, <1>7 DEF LookedAt
  <2>1. Waits(x, q)
    BY <1>1 DEF Waits, Expired, received, Invoked
  <2>2. CASE q = r
    <3>1. x \in Pending /\ rules[r] = "active"
      BY <2>1, <2>2 DEF Waits, Pending
    <3>2. x \in Range(list)
      BY <1>5, <3>1
    <3> QED BY <1>6, <2>2, <3>2
  <2>3. CASE q # r
    BY <1>1, <1>6, <2>1, <2>3 DEF HookInv, LookedAt
  <2> QED BY <2>2, <2>3
<1> QED BY <1>1, <1>8, <1>10, <1>11, <1>12, PlansUntouched DEF HookInv

\* PlanEnds: an outcome changes nothing else of a plan.
LEMMA PlanEndsKeeps == ASSUME HookInv, NEW n \in DOMAIN plans, PlanEnds(n) PROVE HookInv'
<1>1. /\ \E o \in load.ends : plans' = [plans EXCEPT ![n].outcome = o]
      /\ UNCHANGED <<now, row, rec, rules, deployed, tasks, events, crashes, load>>
  BY DEF PlanEnds, memory
<1>2. PICK o \in load.ends : plans' = [plans EXCEPT ![n].outcome = o]
  BY <1>1
<1>3. /\ plans \in Seq(PlanType) /\ now \in Nat /\ PlanInv /\ deployed \in [Services -> SUBSET Commits]
      /\ rules \in [Rules -> {"none", "active", "revoked"}] /\ o \in BuildEnds \cup {"open"}
  BY DEF HookInv, HookType, Load
<1>4. plans[n] \in PlanType /\ plans' = [plans EXCEPT ![n] = [plans[n] EXCEPT !.outcome = o]]
  BY <1>2, <1>3
<1> DEFINE p == [plans[n] EXCEPT !.outcome = o]
<1>5. p \in PlanType
  BY <1>3, <1>4 DEF PlanType
<1>6. p.d = plans[n].d /\ p.r = plans[n].r /\ p.at = plans[n].at
  BY <1>4 DEF PlanType
<1>7. plans' = [plans EXCEPT ![n] = p]
  BY <1>4
<1> HIDE DEF p
<1>8. /\ plans' \in Seq(PlanType) /\ Len(plans') = Len(plans)
      /\ \A k \in 1..Len(plans) : plans'[k] = IF k = n THEN p ELSE plans[k]
  BY <1>3, <1>5, <1>7
<1>9. \A k \in 1..Len(plans) : /\ plans'[k].d = plans[k].d /\ plans'[k].r = plans[k].r
                               /\ plans'[k].at = plans[k].at
  BY <1>6, <1>8
<1>10. PlanInv' /\ InvocationsStay
  <2>1. now' \in Nat /\ now <= now'
    BY <1>1, <1>3
  <2> QED BY <1>1, <1>3, <1>8, <1>9, <2>1, PlansStay
<1>11. RowsMove
  BY <1>1, RowsStay DEF HookInv
<1>12. RowsKnown'
  BY <1>1, <1>11, KnownStays DEF HookInv
<1>13. now' \in Nat /\ now <= now' /\ events \subseteq events'
  BY <1>1, <1>3
<1> QED BY <1>1, <1>3, <1>8, <1>10, <1>11, <1>12, <1>13, RestKeeps

\* Protect, Sweep and Tick.
LEMMA AmbientKeeps == ASSUME HookInv, Protect \/ Sweep \/ Tick PROVE HookInv'
<1>1. UNCHANGED <<rules, plans, deployed, tasks, events, crashes, load>>
  BY DEF Protect, Sweep, Tick, store, memory
<1>2. /\ plans \in Seq(PlanType) /\ now \in Nat /\ PlanInv /\ deployed \in [Services -> SUBSET Commits]
      /\ rules \in [Rules -> {"none", "active", "revoked"}]
      /\ row \in [Deliveries -> RowType] /\ rec \in [Deliveries -> Statuses]
  BY DEF HookInv, HookType
<1>3. now' \in Nat /\ now <= now'
  BY <1>2 DEF Protect, Sweep, Tick
<1>4. RowsMove
  <2>1. CASE Protect \/ Tick
    BY <2>1, RowsStay DEF Protect, Tick, store, HookInv
  <2>2. CASE Sweep
    <3> DEFINE gone == {d \in Deliveries : Expirable(d)}
    <3>1. /\ row' = [d \in Deliveries |-> IF d \in gone THEN [row[d] EXCEPT !.status = "expired"] ELSE row[d]]
          /\ rec' = [d \in Deliveries |-> IF d \in gone /\ rec[d] # "none" THEN "expired" ELSE rec[d]]
      BY <2>2 DEF Sweep
    <3>2. "expired" \in Statuses /\ Unclaimed = {"none", "pending"}
      BY DEF Statuses, Unclaimed
    <3>3. \A d \in gone : row[d].status = "pending"
      BY DEF Expirable
    <3> HIDE DEF gone
    <3>4. ASSUME NEW d \in Deliveries
          PROVE  /\ row'[d] \in RowType /\ rec'[d] \in Statuses /\ row'[d].at = row[d].at
                 /\ (row'[d].status = "none" <=> row[d].status = "none")
                 /\ row'[d].status \in Unclaimed => row'[d].status = row[d].status
                 /\ rec'[d] = "pending" => rec[d] = "pending"
                 /\ rec'[d] # "none" => rec[d] # "none"
      <4>1. rec'[d] = (IF d \in gone /\ rec[d] # "none" THEN "expired" ELSE rec[d])
        BY <3>1
      <4>2. rec'[d] \in Statuses /\ (rec'[d] = "pending" => rec[d] = "pending") /\ (rec'[d] # "none" => rec[d] # "none")
        BY <1>2, <3>2, <4>1
      <4>3. row[d] \in RowType
        BY <1>2
      <4>4. CASE d \in gone
        <5>1. row'[d] = [row[d] EXCEPT !.status = "expired"]
          BY <3>1, <4>4
        <5>2. [row[d] EXCEPT !.status = "expired"] \in RowType
          BY <3>2, <4>3 DEF RowType
        <5>3. row'[d].status = "expired" /\ row'[d].at = row[d].at
          BY <4>3, <5>1 DEF RowType
        <5> QED BY <3>2, <3>3, <4>2, <4>4, <5>1, <5>2, <5>3
      <4>5. CASE d \notin gone
        BY <3>1, <4>2, <4>3, <4>5
      <4> QED BY <4>4, <4>5
    <3>5. row' \in [Deliveries -> RowType] /\ rec' \in [Deliveries -> Statuses]
      <4>1. row' = [d \in Deliveries |-> row'[d]] /\ rec' = [d \in Deliveries |-> rec'[d]]
        BY <3>1
      <4> QED BY <3>4, <4>1
    <3> QED BY <3>4, <3>5 DEF RowsMove
  <2> QED BY <2>1, <2>2
<1>5. PlanInv' /\ InvocationsStay /\ plans' \in Seq(PlanType)
  <2>1. /\ plans' \in Seq(PlanType) /\ Len(plans') = Len(plans)
        /\ \A k \in 1..Len(plans) : /\ plans'[k].d = plans[k].d /\ plans'[k].r = plans[k].r
                                     /\ plans'[k].at = plans[k].at
    BY <1>1, <1>2
  <2> QED BY <1>1, <1>2, <1>3, <2>1, PlansStay
<1>6. RowsKnown'
  BY <1>1, <1>4, KnownStays DEF HookInv
<1>7. events \subseteq events'
  BY <1>1
<1> QED BY <1>1, <1>2, <1>3, <1>4, <1>5, <1>6, <1>7, RestKeeps

\* Crash: no task is left to hold a delivery.
LEMMA CrashKeeps == ASSUME HookInv, Crash PROVE HookInv'
<1>1. /\ crashes' = crashes + 1 /\ tasks' = [t \in 1..Pool |-> Idle]
      /\ row' = [d \in Deliveries |-> [row[d] EXCEPT !.recorded = row[d].status # "none"]]
      /\ UNCHANGED <<now, rec, rules, plans, deployed, load>>
  BY DEF Crash
<1>2. crashes \in Nat /\ row \in [Deliveries -> RowType] /\ rec \in [Deliveries -> Statuses]
  BY DEF HookInv, HookType
<1>3. Pool' = Pool
  BY <1>1 DEF Pool
<1>4. ASSUME NEW d \in Deliveries
      PROVE  row'[d] \in RowType /\ row'[d].at = row[d].at /\ row'[d].status = row[d].status
  <2> DEFINE b == row[d].status # "none"
  <2>1. row[d] \in RowType /\ b \in BOOLEAN /\ row'[d] = [row[d] EXCEPT !.recorded = b]
    BY <1>1, <1>2
  <2> HIDE DEF b
  <2>2. [row[d] EXCEPT !.recorded = b] \in RowType
    BY <2>1 DEF RowType
  <2> QED BY <2>1, <2>2 DEF RowType
<1>5. RowsMove
  <2>1. row' \in [Deliveries -> RowType]
    <3>1. row' = [d \in Deliveries |-> row'[d]]
      BY <1>1
    <3> QED BY <1>4, <3>1
  <2> QED BY <1>1, <1>2, <1>4, <2>1 DEF RowsMove
<1>6. HookType'
  <2>1. tasks' = [t \in 1..Pool |-> tasks'[t]] /\ \A t \in 1..Pool : TaskFits(tasks'[t])
    BY <1>1 DEF TaskFits
  <2> QED BY <1>1, <1>2, <1>3, <1>5, <2>1 DEF HookInv, HookType, RowsMove
<1>7. RowsKnown'
  BY <1>1, <1>5, KnownStays DEF HookInv
<1>8. ClaimsHeld'
  <2>1. Idle.at = "idle"
    BY DEF Idle
  <2>2. \A u \in 1..Pool : ~Holds(u)'
    BY <1>1, <2>1 DEF Holds
  <2> QED BY <1>3, <2>2 DEF ClaimsHeld, ProcessedOnce
<1>9. LookedAt'
  BY <1>1, <1>2 DEF LookedAt
<1> QED BY <1>1, <1>6, <1>7, <1>8, <1>9, PlansUntouched DEF HookInv

----------------------------------------------------------------------------
(* The theorems.                                                           *)

\* The invariant holds at the start.
LEMMA InitHolds == Init => HookInv
<1> SUFFICES ASSUME Init PROVE HookInv
  OBVIOUS
<1>1. load \in Load /\ now = 0 /\ crashes = 0 /\ plans = <<>>
  BY HookAssumption DEF Init
<1>2. /\ row \in [Deliveries -> RowType] /\ rec \in [Deliveries -> Statuses]
      /\ \A d \in Deliveries : row[d].status = "none" /\ rec[d] = "none"
  <2>1. "none" \in Statuses
    BY DEF Statuses
  <2>2. [status |-> "none", at |-> 0, recorded |-> FALSE] \in RowType
    BY <2>1 DEF RowType
  <2> QED BY <2>1, <2>2 DEF Init
<1>3. PICK n \in load.rules \cup {0} : rules = [r \in Rules |-> IF r <= n THEN "active" ELSE "none"]
  BY DEF Init
<1>4. n \in Nat
  BY <1>1, HookAssumption DEF Load
<1>5. rules \in [Rules -> {"none", "active", "revoked"}]
  BY <1>3
<1>6. IsFiniteSet(Signed)
  <2>1. Signed \subseteq 0..n
    <3> SUFFICES ASSUME NEW r \in Rules, rules[r] # "none" PROVE r \in 0..n
      BY DEF Signed
    <3>1. r \in Nat
      BY HookAssumption
    <3> QED BY <1>3, <1>4, <3>1
  <2>2. IsFiniteSet(0..n)
    BY <1>4, FS_Interval
  <2> QED BY <2>1, <2>2, FS_Subset
<1>7. IsFiniteSet(Arrived)
  <2>1. Arrived = {}
    BY <1>2 DEF Arrived
  <2> QED BY <2>1, FS_EmptySet
<1>8. /\ tasks = [t \in 1..Pool |-> tasks[t]] /\ \A t \in 1..Pool : tasks[t] = Idle
  BY DEF Init
<1>9. plans \in Seq(PlanType) /\ deployed \in [Services -> SUBSET Commits] /\ DOMAIN plans = {}
      /\ \A s \in Services : deployed[s] = {}
  BY <1>1 DEF Init
<1>10. HookType
  BY <1>1, <1>2, <1>5, <1>8, <1>9 DEF HookType, TaskFits
<1>11. RowsKnown
  BY <1>2, <1>6, <1>7 DEF RowsKnown
<1>12. ClaimsHeld
  <2>1. Idle.at = "idle"
    BY DEF Idle
  <2>2. \A u \in 1..Pool : ~Holds(u)
    BY <1>8, <2>1 DEF Holds
  <2> QED BY <2>2 DEF ClaimsHeld, ProcessedOnce
<1>13. PlanInv
  BY <1>9 DEF PlanInv, PlansPast, DeployedIsLast, HourlyLimit, NeverOlder
<1>14. LookedAt
  BY <1>2 DEF LookedAt, Waits
<1> QED BY <1>10, <1>11, <1>12, <1>13, <1>14 DEF HookInv

\* Every step keeps the invariant.
LEMMA NextKeeps == ASSUME HookInv, Next PROVE HookInv'
<1>1. CASE \E d \in Deliveries : Insert(d) \/ Accept(d)
  BY <1>1, InsertKeeps, AcceptKeeps
<1>2. CASE \E t \in 1..Pool : Pipeline(t)
  BY <1>2, PipelineKeeps
<1>3. CASE \E r \in Rules : RuleCreate(r) \/ RuleRevoke(r) \/ Watch(r)
  BY <1>3, RuleCreateKeeps, RuleRevokeKeeps, WatchKeeps
<1>4. CASE \E n \in DOMAIN plans : PlanEnds(n)
  BY <1>4, PlanEndsKeeps
<1>5. CASE Protect \/ Sweep \/ Tick
  BY <1>5, AmbientKeeps
<1>6. CASE Crash
  BY <1>6, CrashKeeps
<1> QED BY <1>1, <1>2, <1>3, <1>4, <1>5, <1>6 DEF Next

\* What the invariant says of every state of a behaviour of the pipeline.
PipelineInv == part = "hooks" => HookInv

\* The inductive invariant of the pipeline (hooks/pipeline.rs) holds in every
\* state.
THEOREM PipelineInvariant == MCSpec => []PipelineInv
<1>1. MCInit => PipelineInv
  BY InitHolds DEF MCInit, PipelineInv
<1>2. PipelineInv /\ [MCNext]_<<part, vars, cronVars>> => PipelineInv'
  <2> SUFFICES ASSUME PipelineInv, [MCNext]_<<part, vars, cronVars>>, part' = "hooks" PROVE HookInv'
    BY DEF PipelineInv
  <2>1. part = "hooks"
    BY DEF MCNext
  <2>2. HookInv
    BY <2>1 DEF PipelineInv
  <2>3. CASE Next
    BY <2>2, <2>3, NextKeeps
  <2>4. CASE UNCHANGED vars
    <3>1. UNCHANGED <<now, row, rec, rules, plans, deployed, tasks, events, crashes, load>>
      BY <2>4 DEF vars, store, memory
    <3>2. RowsMove /\ RowsKnown'
      BY <2>2, <3>1, RowsStay, KnownStays DEF HookInv
    <3>3. /\ now' \in Nat /\ now <= now' /\ events \subseteq events'
          /\ rules' \in [Rules -> {"none", "active", "revoked"}]
          /\ \A r \in Rules : rules'[r] = "active" => rules[r] = "active" \/ r \in events'
      BY <2>2, <3>1 DEF HookInv, HookType
    <3> QED BY <2>2, <3>1, <3>2, <3>3, RestKeeps, PlansUntouched
  <2> QED BY <2>1, <2>3, <2>4 DEF MCNext
<1> QED BY <1>1, <1>2, PTL DEF MCSpec

\* Rule deploys never go back to an older commit and stay within the hourly
\* limit, however pushes, builds, rules and restarts interleave (check_rule).
THEOREM DeploysNeverGoBack == MCSpec => []HookDeploysHold
<1>1. PipelineInv => HookDeploysHold
  BY DEF PipelineInv, HookInv, PlanInv, HookDeploysHold
<1> QED BY <1>1, PipelineInvariant, PTL

\* One task at a time works on a claimed delivery, and a delivery that an active
\* rule covers is on its way to a match until a restart (claim_delivery,
\* rule_admitted).
THEOREM DeliveriesProcessed == MCSpec => []HookDeliveriesHold
<1>1. ASSUME HookInv PROVE NothingOverlooked
  <2> SUFFICES ASSUME crashes = 0, NEW d \in Deliveries, NEW r \in Rules, Waits(d, r), r \notin events
               PROVE AtWork(d)
    BY DEF NothingOverlooked, Waits, Invoked
  <2>1. PICK t \in 1..Pool : Through(tasks[t], d, r)
    BY <1>1 DEF HookInv, LookedAt
  <2> QED BY <2>1 DEF Through, AtWork
<1>2. PipelineInv => HookDeliveriesHold
  BY <1>1 DEF PipelineInv, HookInv, ClaimsHeld, HookDeliveriesHold
<1> QED BY <1>2, PipelineInvariant, PTL

----------------------------------------------------------------------------
(* What the records say: the inductive invariant.                          *)

\* Plans P have deployed d, or have one of d by rule r.
SucceededIn(P, d) == \E n \in DOMAIN P : P[n].d = d /\ P[n].outcome = "succeeded"
PlannedIn(P, d, r) == \E n \in DOMAIN P : P[n].d = d /\ P[n].r = r

\* The build records of a rule for a delivery, one for each of its services.
BuildRecords ==
  /\ sb = [d \in Deliveries |-> sb[d]] /\ \A d \in Deliveries : sb[d] = [r \in Rules |-> sb[d][r]]
  /\ \A d \in Deliveries, r \in Rules : sb[d][r] = [i \in 1..Len(ServicesOf[r]) |-> sb[d][r][i]]
Concluded(s) ==
  \A i \in DOMAIN s :
    \/ s[i] \in BuildEnds \cup {"none"}
    \/ s[i] = "deploying" /\ \E j \in DOMAIN s : j > i /\ s[j] \in BuildEnds

\* What a task at x knows, with records R, plans P and builds S: the delivery it
\* claims has a record, a rule that ended in a deployment has its plan, and
\* every build before the one at hand has its image.
Before == {"building", "stale", "ignored"}
InQueue == {"wait", "image"}
ImagesSoFar(x, S) ==
  x.at \in OfRule =>
    /\ x.i \in 1..(Len(ServicesOf[Head(x.rules)]) + 1)
    /\ x.at \in InQueue => x.i <= Len(ServicesOf[Head(x.rules)])
    /\ \A j \in 1..(x.i - 1) : S[x.d][Head(x.rules)][j] = "deploying"
Knows(x, R, P, S) ==
  /\ x.at \in Held \cup {"claim"} => R[x.d] # "none"
  /\ x.at = "claim" => x.to \in Before
  /\ "deployed" \in x.ends \/ (x.at = "end" /\ x.to = "deployed") => SucceededIn(P, x.d)
  /\ x.at = "finish" => PlannedIn(P, x.d, Head(x.rules))
  /\ ImagesSoFar(x, S)
TasksKnow == \A t \in 1..Pool : Knows(tasks[t], rec, plans, sb)

\* A row that its request has not recorded yet is a fresh pending one.
Unrecorded ==
  \A d \in Deliveries : row[d].status # "none" /\ ~row[d].recorded =>
    row[d].status = "pending" /\ row[d].at = now /\ rec[d] = "none"

\* Row and record differ, and builds are open, only while a task holds them.
Works(x, d, r) == x.at \in OfRule /\ x.d = d /\ Head(x.rules) = r
RowsAgree ==
  crashes = 0 => \A d \in Deliveries :
    \/ rec[d] = "none" \/ row[d].status = rec[d]
    \/ \E t \in 1..Pool : tasks[t].at \in Held /\ tasks[t].d = d
DeployedOnes == \A d \in Deliveries : rec[d] = "deployed" => SucceededIn(plans, d)
BuildsOpen ==
  crashes = 0 => \A d \in Deliveries, r \in Rules :
    Concluded(sb[d][r]) \/ \E t \in 1..Pool : Works(tasks[t], d, r)

RecordInv == BuildRecords /\ TasksKnow /\ Unrecorded /\ RowsAgree /\ DeployedOnes /\ BuildsOpen

----------------------------------------------------------------------------
(* What a task knows stays true.                                           *)

\* Records stay, and so do plans and their success.
Grows(R, RR, P, PP) ==
  /\ \A d \in Deliveries : R[d] # "none" => RR[d] # "none"
  /\ \A d \in Deliveries : SucceededIn(P, d) => SucceededIn(PP, d)
  /\ \A d \in Deliveries, r \in Rules : PlannedIn(P, d, r) => PlannedIn(PP, d, r)
RecordsGrow == Grows(rec, rec', plans, plans')

\* A task that is not idle, and its rule.
LEMMA RuleOf ==
  ASSUME NEW x \in TaskType
  PROVE  x.d \in Deliveries /\ (x.rules # <<>> => Head(x.rules) \in Rules)
BY DEF TaskType

\* An idle task knows nothing, nor does one that is started.
LEMMA FreshKnows ==
  ASSUME NEW x, x.at \in {"idle", "match"}, x.ends = {}, NEW R, NEW P, NEW S
  PROVE  Knows(x, R, P, S)
BY DEF Knows, ImagesSoFar, Held, OfRule

\* What a task knows, it knows when more is there and its builds are the same.
LEMMA KnowsStays ==
  ASSUME NEW x, TaskFits(x), NEW R, NEW RR, NEW P, NEW PP, NEW S, NEW SS, Grows(R, RR, P, PP),
         Knows(x, R, P, S), x.at \in OfRule => SS[x.d] = S[x.d]
  PROVE  Knows(x, RR, PP, SS)
<1>1. CASE x = Idle
  <2>1. x.at \in {"idle", "match"} /\ x.ends = {}
    BY <1>1 DEF Idle
  <2> QED BY <2>1, FreshKnows
<1>2. CASE x # Idle
  <2>1. x \in TaskType /\ (x.at \in OfRule => x.rules # <<>>)
    BY <1>2 DEF TaskFits
  <2>2. x.d \in Deliveries /\ (x.rules # <<>> => Head(x.rules) \in Rules)
    BY <2>1, RuleOf
  <2>3. "finish" \in OfRule
    BY DEF OfRule
  <2>4. ImagesSoFar(x, SS)
    BY DEF ImagesSoFar, Knows
  <2> QED BY <2>1, <2>2, <2>3, <2>4 DEF Knows, Grows
<1> QED BY <1>1, <1>2

\* Whatever does not change a record, a plan or an outcome that was there.
LEMMA GrowsWhen ==
  ASSUME UNCHANGED plans, \A d \in Deliveries : rec[d] # "none" => rec'[d] # "none"
  PROVE  RecordsGrow
BY DEF RecordsGrow, Grows

\* What a step of task t to y may do to rows and records, and to builds.
RowStep(t, y) ==
  \A d \in Deliveries :
    /\ (row'[d] = row[d] /\ rec'[d] = rec[d]) \/ row'[d].recorded
    /\ rec'[d] = "deployed" => rec[d] = "deployed" \/ SucceededIn(plans', d)
    /\ \/ rec'[d] = "none" \/ row'[d].status = rec'[d] \/ (y.at \in Held /\ y.d = d)
       \/ row'[d] = row[d] /\ rec'[d] = rec[d] /\ ~(tasks[t].at \in Held /\ tasks[t].d = d)
BuildStep(t, y) ==
  \A d \in Deliveries :
    /\ sb'[d] = sb[d] \/ (tasks[t].at \in Held /\ tasks[t].d = d)
    /\ \A r \in Rules : \/ Concluded(sb'[d][r]) \/ Works(y, d, r)
                        \/ sb'[d][r] = sb[d][r] /\ ~Works(tasks[t], d, r)

\* One task moves, the records with it.
LEMMA RecordMoves ==
  ASSUME HookInv, HookInv', RecordInv, NEW t \in 1..Pool, NEW y, tasks' = [tasks EXCEPT ![t] = y],
         UNCHANGED <<now, load, crashes>>, RecordsGrow, BuildRecords', Knows(y, rec', plans', sb'),
         RowStep(t, y), BuildStep(t, y)
  PROVE  RecordInv'
<1>1. Pool' = Pool /\ tasks'[t] = y /\ \A u \in 1..Pool : u # t => tasks'[u] = tasks[u]
  BY DEF Pool, HookInv, HookType
<1>2. TasksKnow'
  <2> SUFFICES ASSUME NEW u \in 1..Pool, u # t PROVE Knows(tasks[u], rec', plans', sb')
    BY <1>1 DEF TasksKnow
  <2>1. TaskFits(tasks[u]) /\ Knows(tasks[u], rec, plans, sb)
    BY DEF HookInv, HookType, RecordInv, TasksKnow
  <2>2. ASSUME tasks[u].at \in OfRule PROVE sb'[tasks[u].d] = sb[tasks[u].d]
    <3>1. tasks[u].at # "idle" /\ Holds(u)
      BY <2>2 DEF OfRule, Holds
    <3>2. tasks[u].d \in Deliveries
      BY <3>1, HeldTask
    <3>3. tasks[t].at \in Held => tasks[t].d # tasks[u].d
      BY <3>1 DEF HookInv, ClaimsHeld, ProcessedOnce, Holds, Held
    <3> QED BY <3>2, <3>3 DEF BuildStep
  <2> DEFINE x == tasks[u]
  <2>3. TaskFits(x) /\ Knows(x, rec, plans, sb) /\ (x.at \in OfRule => sb'[x.d] = sb[x.d])
    BY <2>1, <2>2
  <2> HIDE DEF x
  <2>4. Knows(x, rec', plans', sb')
    BY <2>3, KnowsStays DEF RecordsGrow
  <2> QED BY <2>4 DEF x
<1>3. Unrecorded'
  BY DEF Unrecorded, RecordInv, RowStep
<1>4. RowsAgree'
  <2> SUFFICES ASSUME crashes = 0, NEW d \in Deliveries, rec'[d] # "none", row'[d].status # rec'[d]
               PROVE \E u \in 1..Pool : tasks'[u].at \in Held /\ tasks'[u].d = d
    BY <1>1 DEF RowsAgree
  <2>1. CASE y.at \in Held /\ y.d = d
    BY <1>1, <2>1
  <2>2. CASE row'[d] = row[d] /\ rec'[d] = rec[d] /\ ~(tasks[t].at \in Held /\ tasks[t].d = d)
    <3>1. PICK u \in 1..Pool : tasks[u].at \in Held /\ tasks[u].d = d
      BY <2>2 DEF RecordInv, RowsAgree
    <3> QED BY <1>1, <2>2, <3>1
  <2> QED BY <2>1, <2>2 DEF RowStep
<1>5. DeployedOnes'
  BY DEF DeployedOnes, RecordInv, RecordsGrow, Grows, RowStep
<1>6. BuildsOpen'
  <2> SUFFICES ASSUME crashes = 0, NEW d \in Deliveries, NEW r \in Rules, ~Concluded(sb'[d][r])
               PROVE \E u \in 1..Pool : Works(tasks'[u], d, r)
    <3>1. (crashes = 0 => \A d \in Deliveries, r \in Rules :
             Concluded(sb'[d][r]) \/ \E u \in 1..Pool : Works(tasks'[u], d, r)) => BuildsOpen'
      BY <1>1 DEF BuildsOpen, Works, Concluded
    <3> QED BY <3>1
  <2>1. CASE Works(y, d, r)
    BY <1>1, <2>1
  <2>2. CASE sb'[d][r] = sb[d][r] /\ ~Works(tasks[t], d, r)
    <3>1. PICK u \in 1..Pool : Works(tasks[u], d, r)
      BY <2>2 DEF RecordInv, BuildsOpen
    <3> QED BY <1>1, <2>2, <3>1
  <2> QED BY <2>1, <2>2 DEF BuildStep
<1> QED BY <1>2, <1>3, <1>4, <1>5, <1>6 DEF RecordInv

----------------------------------------------------------------------------
(* The pipeline's steps, and what they write.                              *)

\* A status is set for a delivery that has a record.
LEMMA StatusBoth ==
  ASSUME HookInv, RecordInv, NEW d \in Deliveries, NEW to, set_status(d, to), rec[d] # "none"
  PROVE  /\ rec'[d] = to /\ row'[d].status = to /\ row'[d].recorded
         /\ \A e \in Deliveries : e # d => row'[e] = row[e] /\ rec'[e] = rec[e]
<1>1. /\ row \in [Deliveries -> RowType] /\ rec \in [Deliveries -> Statuses]
      /\ row[d].status # "none"
  BY DEF HookInv, HookType, RowsKnown, Arrived
<1>2. row[d].recorded
  BY <1>1 DEF RecordInv, Unrecorded
<1>3. row' = [row EXCEPT ![d].status = to] /\ rec' = [rec EXCEPT ![d] = to]
  BY DEF set_status
<1>4. row'[d] = [row[d] EXCEPT !.status = to] /\ row[d] \in RowType
  BY <1>1, <1>3
<1>5. row'[d].status = to /\ row'[d].recorded = row[d].recorded
  BY <1>4 DEF RowType
<1> QED BY <1>1, <1>2, <1>3, <1>5

\* Only the build records of the task's delivery and rule are written.
OwnBuilds(t) ==
  /\ \A e \in Deliveries : e # tasks[t].d => sb'[e] = sb[e]
  /\ \A q \in Rules : q # Rule(t) => sb'[tasks[t].d][q] = sb[tasks[t].d][q]

\* What Built writes.
LEMMA BuiltIs ==
  ASSUME BuildRecords, NEW t, tasks[t].d \in Deliveries, Rule(t) \in Rules, NEW which, NEW status,
         sb' = Built(t, which, status)
  PROVE  /\ BuildRecords' /\ OwnBuilds(t)
         /\ sb'[tasks[t].d][Rule(t)] = [i \in 1..Len(ServicesOf[Rule(t)]) |->
               IF i \in which THEN status ELSE sb[tasks[t].d][Rule(t)][i]]
<1> DEFINE d == tasks[t].d
           r == Rule(t)
           f == [i \in DOMAIN sb[d][r] |-> IF i \in which THEN status ELSE sb[d][r][i]]
<1>1. sb' = [sb EXCEPT ![d] = [sb[d] EXCEPT ![r] = f]]
  BY DEF Built, BuildRecords
<1>2. d \in Deliveries /\ r \in Rules
  OBVIOUS
<1> HIDE DEF d, r
<1>3. f = [i \in 1..Len(ServicesOf[r]) |-> IF i \in which THEN status ELSE sb[d][r][i]]
  <2>1. sb[d][r] = [i \in 1..Len(ServicesOf[r]) |-> sb[d][r][i]]
    BY <1>2 DEF BuildRecords
  <2> DEFINE g == sb[d][r]
  <2>2. g = [i \in 1..Len(ServicesOf[r]) |-> g[i]]
    BY <2>1
  <2> HIDE DEF g
  <2>3. DOMAIN g = 1..Len(ServicesOf[r])
    BY <2>2
  <2> QED BY <2>3 DEF g
<1>4. f = [i \in 1..Len(ServicesOf[r]) |-> f[i]]
  BY <1>3
<1> HIDE DEF f
<1>5. /\ sb' = [e \in Deliveries |-> sb'[e]] /\ \A e \in Deliveries : e # d => sb'[e] = sb[e]
      /\ sb'[d] = [sb[d] EXCEPT ![r] = f]
  BY <1>1, <1>2 DEF BuildRecords
<1>6. /\ sb'[d] = [q \in Rules |-> sb'[d][q]] /\ sb'[d][r] = f
      /\ \A q \in Rules : q # r => sb'[d][q] = sb[d][q]
  BY <1>2, <1>5 DEF BuildRecords
<1>7. BuildRecords'
  <2>1. ASSUME NEW e \in Deliveries PROVE sb'[e] = [q \in Rules |-> sb'[e][q]]
    BY <1>5, <1>6 DEF BuildRecords
  <2>2. ASSUME NEW e \in Deliveries, NEW q \in Rules
        PROVE  sb'[e][q] = [i \in 1..Len(ServicesOf[q]) |-> sb'[e][q][i]]
    <3>1. CASE e = d /\ q = r
      BY <1>4, <1>6, <3>1
    <3>2. CASE ~(e = d /\ q = r)
      <4>1. sb'[e][q] = sb[e][q]
        BY <1>5, <1>6, <3>2
      <4>2. sb[e][q] = [i \in 1..Len(ServicesOf[q]) |-> sb[e][q][i]]
        BY DEF BuildRecords
      <4> QED BY <4>1, <4>2
    <3> QED BY <3>1, <3>2
  <2> QED BY <1>5, <2>1, <2>2 DEF BuildRecords
<1>8. OwnBuilds(t)
  BY <1>5, <1>6 DEF OwnBuilds, d, r
<1> QED BY <1>3, <1>6, <1>7, <1>8 DEF d, r

\* Leave, of a delivery whose records agree.
LEMMA LeaveRecords ==
  ASSUME HookInv, HookInv', RecordInv, NEW t \in 1..Pool, tasks[t].at \in {"match", "claim", "end"}, Leave(t),
         UNCHANGED <<now, load, crashes, plans, sb>>,
         \A d \in Deliveries :
           \/ row'[d] = row[d] /\ rec'[d] = rec[d] /\ ~(tasks[t].at \in Held /\ tasks[t].d = d)
           \/ /\ row'[d].recorded /\ rec'[d] # "none" /\ row'[d].status = rec'[d]
              /\ rec'[d] = "deployed" => SucceededIn(plans', d)
  PROVE  RecordInv'
<1>1. /\ tasks[t] \in TaskType /\ \A d, r : ~Works(tasks[t], d, r)
  BY HeldTask DEF Works, OfRule
<1>2. Done(t).at \in {"idle", "match"} /\ Done(t).ends = {}
  <2>1. Idle.at = "idle" /\ Idle.ends = {}
    BY DEF Idle
  <2>2. CASE tasks[t].list = <<>>
    BY <2>1, <2>2 DEF Done
  <2>3. CASE tasks[t].list # <<>>
    <3>1. Done(t) = [Idle EXCEPT !.at = "match", !.d = Head(tasks[t].list), !.list = Tail(tasks[t].list),
                                 !.only = tasks[t].only]
      BY <2>3 DEF Done, Started
    <3> QED BY <3>1 DEF Idle
  <2> QED BY <2>2, <2>3
<1> DEFINE y == Done(t)
<1>3. tasks' = [tasks EXCEPT ![t] = y]
  BY DEF Leave
<1>4. Knows(y, rec', plans', sb')
  BY <1>2, FreshKnows
<1> HIDE DEF y
<1>5. RecordsGrow
  BY GrowsWhen
<1>6. BuildRecords'
  BY DEF RecordInv, BuildRecords
<1>7. RowStep(t, y) /\ BuildStep(t, y)
  BY <1>1 DEF RowStep, BuildStep
<1> QED BY <1>3, <1>4, <1>5, <1>6, <1>7, RecordMoves

\* Match.
LEMMA MatchRecords == ASSUME HookInv, HookInv', RecordInv, NEW t \in 1..Pool, Match(t) PROVE RecordInv'
<1> DEFINE d == tasks[t].d
           found == matching_rules(d) \cap tasks[t].only
           To(status, rs) == tasks' = [tasks EXCEPT ![t] = [@ EXCEPT !.at = "claim", !.to = status, !.rules = rs]]
<1>1. tasks[t].at = "match" /\ UNCHANGED <<now, row, rec, plans, sb, crashes, load>>
  BY DEF Match, At, store
<1>2. "match" \notin Held /\ "match" \notin OfRule /\ "claim" \notin Held /\ "claim" \notin OfRule
  BY DEF Held, OfRule
<1>3. CASE Leave(t)
  BY <1>1, <1>2, <1>3, LeaveRecords
<1>4. ASSUME NEW to \in Before, NEW rs, rec[tasks[t].d] # "none", To(to, rs) PROVE RecordInv'
  <2> DEFINE a == tasks[t]
             y == [a EXCEPT !.at = "claim", !.to = to, !.rules = rs]
  <2>1. a \in TaskType /\ a = tasks[t]
    BY <1>1, HeldTask
  <2>2. tasks' = [tasks EXCEPT ![t] = y]
    BY <1>4
  <2>3. rec[a.d] # "none" /\ Knows(a, rec, plans, sb)
    BY <1>4 DEF RecordInv, TasksKnow
  <2> HIDE DEF a
  <2>4. y.at = "claim" /\ y.to = to /\ y.d = a.d /\ y.ends = a.ends
    BY <2>1 DEF TaskType
  <2> HIDE DEF y, To
  <2>5. Knows(y, rec', plans', sb')
    BY <1>1, <1>2, <2>3, <2>4 DEF Knows, ImagesSoFar
  <2>6. RecordsGrow /\ BuildRecords'
    BY <1>1, GrowsWhen DEF RecordInv, BuildRecords
  <2>7. ~(tasks[t].at \in Held) /\ \A e, r : ~Works(tasks[t], e, r)
    BY <1>1, <1>2 DEF Works
  <2>8. RowStep(t, y) /\ BuildStep(t, y)
    BY <1>1, <2>7 DEF RowStep, BuildStep
  <2> QED BY <1>1, <2>2, <2>5, <2>6, <2>8, RecordMoves
<1>5. "stale" \in Before /\ "building" \in Before /\ "ignored" \in Before
  BY DEF Before
<1>6. \/ Leave(t)
      \/ /\ rec[tasks[t].d] # "none"
         /\ \/ To("stale", <<>>) \/ To("building", InOrder(found, [r \in Rules |-> r]))
            \/ To("ignored", <<>>)
  BY DEF Match
<1> HIDE DEF To, found, d
<1> QED BY <1>3, <1>4, <1>5, <1>6

\* Claim.
LEMMA ClaimRecords == ASSUME HookInv, HookInv', RecordInv, NEW t \in 1..Pool, Claim(t) PROVE RecordInv'
<1> DEFINE d == tasks[t].d
           to == tasks[t].to
           at == IF to = "building" THEN "rule" ELSE "end"
           a == tasks[t]
<1>1. tasks[t].at = "claim" /\ UNCHANGED <<now, rec, plans, sb, crashes, load>>
  BY DEF Claim, At
<1>2. "claim" \notin Held /\ "claim" \notin OfRule /\ at \in Held /\ at \notin OfRule /\ at # "claim" /\ at # "finish"
  BY DEF Held, OfRule
<1>3. a \in TaskType /\ d \in Deliveries /\ Knows(a, rec, plans, sb) /\ a = tasks[t]
  BY <1>1, HeldTask DEF RecordInv, TasksKnow
<1>4. CASE row[d].status # "pending"
  <2>1. Leave(t) /\ UNCHANGED row
    BY <1>4 DEF Claim, claim_delivery
  <2> QED BY <1>1, <1>2, <2>1, LeaveRecords
<1>5. CASE row[d].status = "pending"
  <2> DEFINE y == [a EXCEPT !.at = at]
  <2>1. row' = [row EXCEPT ![d].status = to] /\ tasks' = [tasks EXCEPT ![t] = y]
    BY <1>5 DEF Claim, claim_delivery, Go
  <2>2. row \in [Deliveries -> RowType] /\ row[d] \in RowType
    BY <1>3 DEF HookInv, HookType
  <2>3. rec[d] # "none" /\ to \in Before
    BY <1>1, <1>3 DEF Knows
  <2>4. row[d].recorded
    BY <1>3, <1>5, <2>3 DEF RecordInv, Unrecorded
  <2>5. row'[d].recorded /\ \A e \in Deliveries : e # d => row'[e] = row[e]
    <3>1. row'[d] = [row[d] EXCEPT !.status = to]
      BY <1>3, <2>1, <2>2
    <3>2. row'[d].recorded = row[d].recorded
      BY <2>2, <3>1 DEF RowType
    <3> QED BY <1>3, <2>1, <2>2, <2>4, <3>2
  <2>6. ~(a.at \in Held) /\ (\A e, r : ~Works(a, e, r)) /\ a.to = to /\ a.d = d
    BY <1>1, <1>2 DEF Works
  <2> HIDE DEF a, at, d, to
  <2>7. y.at = at /\ y.to = to /\ y.d = d /\ y.ends = a.ends
    BY <1>3, <2>6 DEF TaskType
  <2> HIDE DEF y
  <2>8. Knows(y, rec', plans', sb')
    <3>1. to # "deployed"
      BY <2>3 DEF Before
    <3>2. "deployed" \in a.ends => SucceededIn(plans, d)
      BY <1>3, <2>6 DEF Knows
    <3> QED BY <1>1, <1>2, <2>3, <2>7, <3>1, <3>2 DEF Knows, ImagesSoFar
  <2>9. RecordsGrow /\ BuildRecords'
    BY <1>1, GrowsWhen DEF RecordInv, BuildRecords
  <2>10. y.at \in Held /\ \A e \in Deliveries : row'[e] = row[e] \/ (e = d /\ row'[e].recorded)
    BY <1>2, <2>5, <2>7
  <2>11. RowStep(t, y) /\ BuildStep(t, y)
    BY <1>1, <1>3, <2>6, <2>7, <2>10 DEF RowStep, BuildStep
  <2> QED BY <1>1, <2>1, <2>8, <2>9, <2>11, RecordMoves
<1> QED BY <1>4, <1>5

\* End.
LEMMA EndRecords == ASSUME HookInv, HookInv', RecordInv, NEW t \in 1..Pool, End(t) PROVE RecordInv'
<1> DEFINE d == tasks[t].d
<1>1. /\ tasks[t].at = "end" /\ set_status(tasks[t].d, tasks[t].to) /\ Leave(t)
      /\ UNCHANGED <<now, plans, sb, crashes, load>>
  BY DEF End, At
<1>2. d \in Deliveries /\ Knows(tasks[t], rec, plans, sb) /\ "end" \in Held /\ tasks[t].to \in Targets
  BY <1>1, HeldTask DEF RecordInv, TasksKnow, Held
<1>3. rec[d] # "none" /\ (tasks[t].to = "deployed" => SucceededIn(plans, d)) /\ tasks[t].to # "none"
  BY <1>1, <1>2 DEF Knows, Targets
<1>4. /\ rec'[d] = tasks[t].to /\ row'[d].status = tasks[t].to /\ row'[d].recorded
      /\ \A e \in Deliveries : e # d => row'[e] = row[e] /\ rec'[e] = rec[e]
  BY <1>1, <1>2, <1>3, StatusBoth
<1> QED BY <1>1, <1>2, <1>3, <1>4, LeaveRecords

\* A task that holds its delivery: what it knows, and its rule.
LEMMA HolderKnows ==
  ASSUME HookInv, RecordInv, NEW t \in 1..Pool, tasks[t].at \in Held
  PROVE  /\ tasks[t] \in TaskType /\ tasks[t].d \in Deliveries /\ rec[tasks[t].d] # "none"
         /\ Knows(tasks[t], rec, plans, sb) /\ BuildRecords
         /\ tasks[t].rules # <<>> => Rule(t) \in Rules /\ Rule(t) = Head(tasks[t].rules)
         /\ tasks[t].at \in OfRule => tasks[t].rules # <<>>
<1>1. tasks[t].at # "idle"
  BY DEF Held
<1>2. tasks[t] \in TaskType /\ (tasks[t].at \in OfRule => tasks[t].rules # <<>>)
  BY <1>1, HeldTask
<1>3. tasks[t].d \in Deliveries /\ (tasks[t].rules # <<>> => Rule(t) \in Rules)
  BY <1>2, RuleOf DEF Rule
<1> QED BY <1>2, <1>3 DEF RecordInv, TasksKnow, Knows, Rule

\* RuleEnd, when the builds of the rule are concluded.
LEMMA RuleEndRecords ==
  ASSUME HookInv, HookInv', RecordInv, NEW t \in 1..Pool, tasks[t].at \in Held, tasks[t].rules # <<>>,
         NEW end, tasks' = RuleEnd(t, end), UNCHANGED <<now, load, crashes, row, rec, plans>>,
         end = "deployed" => SucceededIn(plans, tasks[t].d), BuildRecords',
         OwnBuilds(t),
         \/ Concluded(sb'[tasks[t].d][Rule(t)])
         \/ sb'[tasks[t].d][Rule(t)] = sb[tasks[t].d][Rule(t)] /\ tasks[t].at \notin OfRule
  PROVE  RecordInv'
<1> DEFINE a == tasks[t]
           y == [a EXCEPT !.at = "rule", !.rules = Tail(a.rules), !.ends = a.ends \cup {end}, !.i = 0]
<1>1. "rule" \in Held /\ "rule" \notin OfRule
  BY DEF Held, OfRule
<1>2. /\ a = tasks[t] /\ a \in TaskType /\ a.d \in Deliveries /\ rec[a.d] # "none" /\ a.at \in Held
      /\ Knows(a, rec, plans, sb) /\ Rule(t) \in Rules /\ Rule(t) = Head(a.rules)
      /\ end = "deployed" => SucceededIn(plans, a.d)
  BY HolderKnows
<1>3. tasks' = [tasks EXCEPT ![t] = y]
  BY DEF RuleEnd
<1> HIDE DEF a
<1>4. y.at = "rule" /\ y.d = a.d /\ y.ends = a.ends \cup {end}
  BY <1>2 DEF TaskType
<1> HIDE DEF y
<1>5. Knows(y, rec', plans', sb')
  BY <1>1, <1>2, <1>4 DEF Knows, ImagesSoFar
<1>6. RecordsGrow
  BY GrowsWhen
<1>7. ASSUME NEW d \in Deliveries, NEW r \in Rules
      PROVE  Concluded(sb'[d][r]) \/ (sb'[d][r] = sb[d][r] /\ ~Works(tasks[t], d, r))
  <2>1. CASE d = a.d /\ r = Rule(t)
    BY <1>2, <2>1 DEF Works
  <2>2. CASE ~(d = a.d /\ r = Rule(t))
    BY <1>2, <2>2 DEF Works, OwnBuilds
  <2> QED BY <2>1, <2>2
<1>8. BuildStep(t, y)
  BY <1>2, <1>7 DEF BuildStep, OwnBuilds
<1>9. RowStep(t, y)
  BY <1>1, <1>2, <1>4 DEF RowStep
<1> QED BY <1>3, <1>5, <1>6, <1>8, <1>9, RecordMoves

\* A task that holds its delivery goes on with its rule.
LEMMA GoOnRecords ==
  ASSUME HookInv, HookInv', RecordInv, NEW t \in 1..Pool, tasks[t].at \in Held, tasks[t].rules # <<>>,
         NEW y, tasks' = [tasks EXCEPT ![t] = y], y.at \in OfRule, y.d = tasks[t].d,
         y.rules = tasks[t].rules, y.ends = tasks[t].ends, UNCHANGED <<now, load, crashes>>,
         RecordsGrow, BuildRecords', ImagesSoFar(y, sb'),
         y.at = "finish" => PlannedIn(plans', tasks[t].d, Rule(t)),
         \/ UNCHANGED <<row, rec>>
         \/ set_status(tasks[t].d, "building"),
         OwnBuilds(t)
  PROVE  RecordInv'
<1>1. OfRule \subseteq Held /\ "claim" \notin OfRule /\ "end" \notin OfRule
  BY DEF OfRule, Held
<1>2. /\ tasks[t].d \in Deliveries /\ rec[tasks[t].d] # "none" /\ Knows(tasks[t], rec, plans, sb)
      /\ Rule(t) \in Rules /\ Rule(t) = Head(tasks[t].rules)
  BY HolderKnows
<1>3. ASSUME NEW d \in Deliveries
      PROVE  /\ (row'[d] = row[d] /\ rec'[d] = rec[d]) \/ row'[d].recorded
             /\ rec'[d] = "deployed" => rec[d] = "deployed"
             /\ d # tasks[t].d => row'[d] = row[d] /\ rec'[d] = rec[d]
  <2>1. CASE UNCHANGED <<row, rec>>
    BY <2>1
  <2>2. CASE set_status(tasks[t].d, "building")
    BY <1>2, <2>2, StatusBoth
  <2> QED BY <2>1, <2>2
<1>4. Knows(y, rec', plans', sb')
  <2>1. SucceededIn(plans, tasks[t].d) => SucceededIn(plans', tasks[t].d)
    BY <1>2 DEF RecordsGrow, Grows
  <2>2. rec'[tasks[t].d] # "none"
    BY <1>2 DEF RecordsGrow, Grows
  <2> QED BY <1>1, <1>2, <2>1, <2>2 DEF Knows
<1>5. ASSUME NEW d \in Deliveries, NEW r \in Rules
      PROVE  Works(y, d, r) \/ (sb'[d][r] = sb[d][r] /\ ~Works(tasks[t], d, r))
  <2>1. CASE d = tasks[t].d /\ r = Rule(t)
    BY <1>2, <2>1 DEF Works
  <2>2. CASE ~(d = tasks[t].d /\ r = Rule(t))
    BY <1>2, <2>2 DEF Works, OwnBuilds
  <2> QED BY <2>1, <2>2
<1>6. y.at \in Held
  BY <1>1
<1>7. BuildStep(t, y)
  BY <1>5 DEF BuildStep, OwnBuilds
<1>8. RowStep(t, y)
  BY <1>3, <1>6 DEF RowStep
<1> QED BY <1>4, <1>7, <1>8, RecordMoves

\* All the builds of a rule end at once.
LEMMA AllConcluded ==
  ASSUME NEW r \in Rules, NEW status \in BuildEnds, NEW old, NEW s,
         s = [i \in 1..Len(ServicesOf[r]) |-> IF i \in DOMAIN ServicesOf[r] THEN status ELSE old[i]]
  PROVE  Concluded(s)
<1>1. ServicesOf[r] \in Seq(Services)
  BY HookAssumption
<1>2. DOMAIN ServicesOf[r] = 1..Len(ServicesOf[r])
  BY <1>1
<1> QED BY <1>2 DEF Concluded

\* The build at hand and those after it end; those before it have their images.
LEMMA RestConcluded ==
  ASSUME NEW r \in Rules, NEW status \in BuildEnds, NEW old, NEW s, NEW b \in 1..Len(ServicesOf[r]),
         s = [i \in 1..Len(ServicesOf[r]) |-> IF i \in b..Len(ServicesOf[r]) THEN status ELSE old[i]],
         \A j \in 1..(b - 1) : old[j] = "deploying"
  PROVE  Concluded(s)
<1>1. ServicesOf[r] \in Seq(Services)
  BY HookAssumption
<1> DEFINE n == Len(ServicesOf[r])
<1>2. n \in Nat /\ b \in 1..n
  BY <1>1
<1> HIDE DEF n
<1>3. s = [i \in 1..n |-> IF i \in b..n THEN status ELSE old[i]]
  BY DEF n
<1>4. n \in 1..n /\ s[n] = status /\ DOMAIN s = 1..n
  BY <1>2, <1>3
<1>5. \A i \in 1..n : s[i] = status \/ (s[i] = "deploying" /\ n > i)
  BY <1>2, <1>3
<1> QED BY <1>4, <1>5 DEF Concluded

\* RunRule.
LEMMA RunRuleRecords == ASSUME HookInv, HookInv', RecordInv, NEW t \in 1..Pool, RunRule(t) PROVE RecordInv'
<1> DEFINE a == tasks[t]
<1>1. tasks[t].at = "rule" /\ UNCHANGED <<now, plans, crashes, load>>
  BY DEF RunRule, At
<1>2. /\ "rule" \in Held /\ "rule" \notin OfRule /\ "end" \in Held /\ "end" \notin OfRule
      /\ "build" \in OfRule /\ "build" \notin InQueue
  BY DEF Held, OfRule, InQueue
<1>3. /\ a = tasks[t] /\ a \in TaskType /\ a.d \in Deliveries /\ rec[a.d] # "none" /\ a.at = "rule"
      /\ Knows(a, rec, plans, sb) /\ BuildRecords
      /\ a.rules # <<>> => Rule(t) \in Rules /\ Rule(t) = Head(a.rules)
  BY <1>1, <1>2, HolderKnows
<1>4. CASE /\ tasks[t].rules = <<>> /\ UNCHANGED <<row, rec, sb>>
           /\ tasks' = [tasks EXCEPT ![t] = [@ EXCEPT !.at = "end", !.to = EndOf(tasks[t].ends)]]
  <2> DEFINE e == EndOf(a.ends)
             y == [a EXCEPT !.at = "end", !.to = e]
  <2>1. tasks' = [tasks EXCEPT ![t] = y]
    BY <1>4
  <2> HIDE DEF a
  <2>2. e = "deployed" => "deployed" \in a.ends
    BY DEF EndOf
  <2> HIDE DEF e
  <2>3. y.at = "end" /\ y.to = e /\ y.d = a.d /\ y.ends = a.ends
    BY <1>3 DEF TaskType
  <2> HIDE DEF y
  <2>4. Knows(y, rec', plans', sb')
    BY <1>1, <1>2, <1>3, <1>4, <2>2, <2>3 DEF Knows, ImagesSoFar
  <2>5. RecordsGrow /\ BuildRecords'
    BY <1>1, <1>3, <1>4, GrowsWhen DEF BuildRecords
  <2>6. RowStep(t, y) /\ BuildStep(t, y)
    BY <1>1, <1>2, <1>3, <1>4, <2>3 DEF RowStep, BuildStep, Works
  <2> QED BY <1>1, <2>1, <2>4, <2>5, <2>6, RecordMoves
<1>5. CASE tasks[t].rules # <<>> /\ tasks' = RuleEnd(t, "ignored") /\ UNCHANGED <<row, rec, sb>>
  <2>1. BuildRecords' /\ OwnBuilds(t)
    BY <1>3, <1>5 DEF BuildRecords, OwnBuilds
  <2> HIDE DEF a
  <2> QED BY <1>1, <1>2, <1>5, <2>1, RuleEndRecords
<1>6. CASE /\ tasks[t].rules # <<>> /\ set_status(tasks[t].d, "building")
           /\ sb' = Built(t, DOMAIN Svcs(t), "queued")
           /\ tasks' = [tasks EXCEPT ![t] = [@ EXCEPT !.at = "build", !.i = 1]]
  <2> DEFINE y == [a EXCEPT !.at = "build", !.i = 1]
  <2>1. tasks' = [tasks EXCEPT ![t] = y] /\ a.rules # <<>>
    BY <1>6
  <2>2. BuildRecords' /\ OwnBuilds(t)
    <3> DEFINE which == DOMAIN Svcs(t)
    <3>1. sb' = Built(t, which, "queued") /\ tasks[t].d \in Deliveries /\ Rule(t) \in Rules
      BY <1>3, <1>6
    <3> HIDE DEF which, a
    <3> QED BY <1>3, <3>1, BuiltIs
  <2>3. RecordsGrow
    <3>1. /\ rec'[a.d] = "building" /\ \A e \in Deliveries : e # a.d => rec'[e] = rec[e]
      BY <1>3, <1>6, StatusBoth
    <3> QED BY <1>1, <3>1, GrowsWhen
  <2>4. ServicesOf[Rule(t)] \in Seq(Services)
    BY <1>3, <2>1, HookAssumption
  <2> HIDE DEF a
  <2>5. y.at = "build" /\ y.i = 1 /\ y.d = a.d /\ y.rules = a.rules /\ y.ends = a.ends
    BY <1>3 DEF TaskType
  <2> HIDE DEF y
  <2>6. ImagesSoFar(y, sb')
    <3>1. Len(ServicesOf[Head(y.rules)]) \in Nat
      BY <1>3, <2>1, <2>4, <2>5
    <3> QED BY <1>2, <2>5, <3>1 DEF ImagesSoFar
  <2> QED BY <1>1, <1>2, <1>3, <1>6, <2>1, <2>2, <2>3, <2>5, <2>6, GoOnRecords
<1> HIDE DEF a
<1> QED BY <1>4, <1>5, <1>6 DEF RunRule

\* The builds of the rule are written, and the rule ends.
LEMMA BuiltEnds ==
  ASSUME HookInv, HookInv', RecordInv, NEW t \in 1..Pool, tasks[t].at \in OfRule, NEW end, NEW status \in BuildEnds,
         tasks' = RuleEnd(t, end), UNCHANGED <<now, load, crashes, row, rec, plans>>,
         end = "deployed" => SucceededIn(plans, tasks[t].d),
         \/ sb' = Built(t, DOMAIN Svcs(t), status)
         \/ sb' = fail_builds(t, status) /\ tasks[t].i <= Len(Svcs(t))
  PROVE  RecordInv'
<1> DEFINE d == tasks[t].d
           r == Rule(t)
<1>1. OfRule \subseteq Held
  BY DEF OfRule, Held
<1>2. /\ d \in Deliveries /\ r \in Rules /\ tasks[t].rules # <<>> /\ BuildRecords /\ r = Head(tasks[t].rules)
      /\ Knows(tasks[t], rec, plans, sb) /\ Svcs(t) = ServicesOf[r] /\ tasks[t].at \in Held
  BY <1>1, HolderKnows DEF Svcs
<1>3. ASSUME NEW which, sb' = Built(t, which, status)
      PROVE  /\ BuildRecords' /\ OwnBuilds(t)
             /\ sb'[d][r] = [i \in 1..Len(ServicesOf[r]) |-> IF i \in which THEN status ELSE sb[d][r][i]]
  BY <1>2, <1>3, BuiltIs
<1>4. CASE sb' = Built(t, DOMAIN Svcs(t), status)
  <2>1. sb' = Built(t, DOMAIN ServicesOf[r], status)
    BY <1>2, <1>4
  <2>2. sb'[d][r] = [i \in 1..Len(ServicesOf[r]) |-> IF i \in DOMAIN ServicesOf[r] THEN status ELSE sb[d][r][i]]
    BY <1>3, <2>1
  <2>3. Concluded(sb'[d][r])
    <3> DEFINE rr == r
               old == sb[d][r]
               s == sb'[d][r]
    <3>1. rr \in Rules /\ s = [i \in 1..Len(ServicesOf[rr]) |-> IF i \in DOMAIN ServicesOf[rr] THEN status ELSE old[i]]
      BY <1>2, <2>2
    <3> HIDE DEF rr, old, s
    <3>2. Concluded(s)
      BY <3>1, AllConcluded
    <3> QED BY <3>2 DEF s
  <2>4. BuildRecords' /\ OwnBuilds(t)
    BY <1>3, <2>1
  <2> QED BY <1>2, <2>3, <2>4, RuleEndRecords
<1>5. CASE sb' = fail_builds(t, status) /\ tasks[t].i <= Len(Svcs(t))
  <2> DEFINE b == tasks[t].i
  <2>1. sb' = Built(t, b..Len(ServicesOf[r]), status)
    BY <1>2, <1>5 DEF fail_builds
  <2>2. sb'[d][r] = [i \in 1..Len(ServicesOf[r]) |-> IF i \in b..Len(ServicesOf[r]) THEN status ELSE sb[d][r][i]]
    BY <1>3, <2>1
  <2>3. Concluded(sb'[d][r])
    <3>1. ServicesOf[r] \in Seq(Services) /\ ImagesSoFar(tasks[t], sb)
      BY <1>2, HookAssumption DEF Knows
    <3>2. b \in 1..(Len(ServicesOf[r]) + 1) /\ \A j \in 1..(b - 1) : sb[d][r][j] = "deploying"
      BY <1>2, <3>1 DEF ImagesSoFar
    <3>3. b \in 1..Len(ServicesOf[r])
      BY <1>2, <1>5, <3>1, <3>2
    <3> DEFINE bb == b
               rr == r
               old == sb[d][r]
               s == sb'[d][r]
    <3>4a. rr \in Rules /\ bb \in 1..Len(ServicesOf[rr]) /\ \A j \in 1..(bb - 1) : old[j] = "deploying"
      BY <1>2, <3>2, <3>3
    <3>4b. s = [i \in 1..Len(ServicesOf[rr]) |-> IF i \in bb..Len(ServicesOf[rr]) THEN status ELSE old[i]]
      BY <2>2
    <3> HIDE DEF bb, rr, old, s
    <3>5. Concluded(s)
      BY <3>4a, <3>4b, RestConcluded
    <3> QED BY <3>5 DEF s
  <2>4. BuildRecords' /\ OwnBuilds(t)
    BY <1>3, <2>1
  <2> QED BY <1>2, <2>3, <2>4, RuleEndRecords
<1> QED BY <1>4, <1>5

\* The task goes on with its rule: to another place, or to another build.
LEMMA PlaceRecords ==
  ASSUME HookInv, HookInv', RecordInv, NEW t \in 1..Pool, tasks[t].at \in OfRule,
         NEW y, tasks' = [tasks EXCEPT ![t] = y], y.at \in OfRule \ {"finish"}, y.d = tasks[t].d,
         y.rules = tasks[t].rules, y.ends = tasks[t].ends, UNCHANGED <<now, load, crashes, row, rec, plans>>,
         ImagesSoFar(y, sb'),
         \/ UNCHANGED sb
         \/ \E which, status : sb' = Built(t, which, status)
  PROVE  RecordInv'
<1>1. OfRule \subseteq Held
  BY DEF OfRule, Held
<1>2. tasks[t].d \in Deliveries /\ Rule(t) \in Rules /\ tasks[t].rules # <<>> /\ BuildRecords /\ tasks[t].at \in Held
  BY <1>1, HolderKnows
<1>3. BuildRecords' /\ OwnBuilds(t)
  <2>1. CASE UNCHANGED sb
    BY <1>2, <2>1 DEF BuildRecords, OwnBuilds
  <2>2. CASE \E which, status : sb' = Built(t, which, status)
    <3>1. PICK which, status : sb' = Built(t, which, status)
      BY <2>2
    <3> QED BY <1>2, <3>1, BuiltIs
  <2> QED BY <2>1, <2>2
<1>4. RecordsGrow
  BY GrowsWhen
<1> QED BY <1>2, <1>3, <1>4, GoOnRecords

\* Enqueue and Deploy.
LEMMA QueueRecords ==
  ASSUME HookInv, HookInv', RecordInv, NEW t \in 1..Pool, Enqueue(t) \/ Deploy(t) PROVE RecordInv'
<1> DEFINE a == tasks[t]
<1>1. /\ tasks[t].at = "build" /\ UNCHANGED <<now, load, crashes, row, rec, plans>>
      /\ \/ Go(t, "wait") /\ UNCHANGED sb /\ tasks[t].i <= Len(Svcs(t))
         \/ Go(t, "submit") /\ UNCHANGED sb
         \/ tasks' = RuleEnd(t, "failed") /\ sb' = fail_builds(t, "failed") /\ tasks[t].i <= Len(Svcs(t))
         \/ tasks' = RuleEnd(t, "failed") /\ sb' = Built(t, DOMAIN Svcs(t), "failed")
         \/ tasks' = RuleEnd(t, "stale") /\ sb' = Built(t, DOMAIN Svcs(t), "failed")
  <2>1. CASE Enqueue(t)
    BY <2>1 DEF Enqueue, At
  <2>2. CASE Deploy(t)
    BY <2>2 DEF Deploy, At
  <2> QED BY <2>1, <2>2
<1>2. /\ {"build", "wait", "submit"} \subseteq OfRule /\ OfRule \subseteq Held /\ "failed" \in BuildEnds
      /\ "submit" \notin InQueue
  BY DEF OfRule, Held, BuildEnds, InQueue
<1>3. a \in TaskType /\ Knows(a, rec, plans, sb) /\ a = tasks[t] /\ Svcs(t) = ServicesOf[Head(a.rules)]
  BY <1>1, <1>2, HolderKnows DEF Svcs
<1>4. ASSUME NEW at \in {"wait", "submit"}, Go(t, at), UNCHANGED sb, at = "wait" => tasks[t].i <= Len(Svcs(t))
      PROVE  RecordInv'
  <2> DEFINE y == [a EXCEPT !.at = at]
  <2>1. tasks' = [tasks EXCEPT ![t] = y] /\ (at = "wait" => a.i <= Len(ServicesOf[Head(a.rules)]))
    BY <1>3, <1>4 DEF Go
  <2>2. a.at \in OfRule /\ at \in OfRule \ {"finish"} /\ (at \in InQueue => at = "wait")
    BY <1>1, <1>2, <1>4
  <2> HIDE DEF a
  <2>3. y.at = at /\ y.i = a.i /\ y.d = a.d /\ y.rules = a.rules /\ y.ends = a.ends
    BY <1>3 DEF TaskType
  <2> HIDE DEF y
  <2>4. ImagesSoFar(y, sb)
    BY <1>3, <2>1, <2>2, <2>3 DEF ImagesSoFar, Knows
  <2>5. ImagesSoFar(y, sb')
    BY <1>4, <2>4
  <2> QED BY <1>1, <1>2, <1>3, <1>4, <2>1, <2>2, <2>3, <2>5, PlaceRecords
<1> HIDE DEF a
<1>5. CASE \/ tasks' = RuleEnd(t, "failed") /\ sb' = fail_builds(t, "failed") /\ tasks[t].i <= Len(Svcs(t))
           \/ tasks' = RuleEnd(t, "failed") /\ sb' = Built(t, DOMAIN Svcs(t), "failed")
           \/ tasks' = RuleEnd(t, "stale") /\ sb' = Built(t, DOMAIN Svcs(t), "failed")
  <2>1. \E end \in {"failed", "stale"} : tasks' = RuleEnd(t, end)
    BY <1>5
  <2>2. PICK end \in {"failed", "stale"} : tasks' = RuleEnd(t, end)
    BY <2>1
  <2>3. tasks[t].at \in OfRule /\ end # "deployed"
    BY <1>1, <1>2
  <2> QED BY <1>1, <1>2, <1>5, <2>2, <2>3, BuiltEnds
<1> QED BY <1>1, <1>4, <1>5

\* Acquire and Image.
LEMMA ImageRecords ==
  ASSUME HookInv, HookInv', RecordInv, NEW t \in 1..Pool, Acquire(t) \/ Image(t) PROVE RecordInv'
<1> DEFINE a == tasks[t]
           b == a.i + 1
<1>1. /\ tasks[t].at \in InQueue /\ UNCHANGED <<now, load, crashes, row, rec, plans>>
      /\ \/ /\ tasks' = [tasks EXCEPT ![t] = [a EXCEPT !.at = "image", !.started = now]]
            /\ sb' = Built(t, {tasks[t].i}, "building")
         \/ /\ tasks' = [tasks EXCEPT ![t] = [a EXCEPT !.at = "build", !.i = b]]
            /\ sb' = Built(t, {tasks[t].i}, "deploying")
         \/ /\ tasks' = RuleEnd(t, "failed") /\ \E end \in load.fails : sb' = fail_builds(t, end)
  <2>1. CASE Acquire(t)
    BY <2>1 DEF Acquire, At, InQueue
  <2>2. CASE Image(t)
    BY <2>2 DEF Image, At, InQueue
  <2> QED BY <2>1, <2>2
<1>2. /\ InQueue \subseteq OfRule /\ OfRule \subseteq Held /\ "image" \in OfRule \ {"finish"}
      /\ "build" \in OfRule \ {"finish"} /\ "build" \notin InQueue
  BY DEF OfRule, Held, InQueue
<1>3. a \in TaskType /\ a = tasks[t] /\ a.d \in Deliveries /\ Rule(t) \in Rules /\ Rule(t) = Head(a.rules)
      /\ Svcs(t) = ServicesOf[Head(a.rules)] /\ Knows(a, rec, plans, sb) /\ BuildRecords
  BY <1>1, <1>2, HolderKnows DEF Svcs
<1> DEFINE n == Len(ServicesOf[Head(a.rules)])
<1>4. n \in Nat
  <2>1. ServicesOf[Head(a.rules)] \in Seq(Services)
    BY <1>3, HookAssumption
  <2> QED BY <2>1
<1>5. a.i \in 1..n /\ \A j \in 1..(a.i - 1) : sb[a.d][Head(a.rules)][j] = "deploying"
  <2>1. ImagesSoFar(a, sb) /\ a.at \in OfRule /\ a.at \in InQueue
    BY <1>1, <1>2, <1>3 DEF Knows
  <2> HIDE DEF a
  <2> QED BY <1>4, <2>1 DEF ImagesSoFar
<1>6. ASSUME NEW status, sb' = Built(t, {tasks[t].i}, status)
      PROVE  \A j \in 1..n : sb'[a.d][Head(a.rules)][j] = IF j = a.i THEN status ELSE sb[a.d][Head(a.rules)][j]
  <2> DEFINE which == {tasks[t].i}
  <2>1. sb' = Built(t, which, status) /\ tasks[t].d \in Deliveries
    BY <1>3, <1>6
  <2>2. which = {a.i}
    OBVIOUS
  <2> HIDE DEF which
  <2>3. sb'[tasks[t].d][Rule(t)] = [i \in 1..Len(ServicesOf[Rule(t)]) |->
                                       IF i \in which THEN status ELSE sb[tasks[t].d][Rule(t)][i]]
    BY <1>3, <2>1, BuiltIs
  <2>4. sb'[a.d][Head(a.rules)] = [i \in 1..n |-> IF i \in {a.i} THEN status ELSE sb[a.d][Head(a.rules)][i]]
    BY <1>3, <2>2, <2>3
  <2> QED BY <2>4
<1>7. CASE /\ tasks' = [tasks EXCEPT ![t] = [a EXCEPT !.at = "image", !.started = now]]
           /\ sb' = Built(t, {tasks[t].i}, "building")
  <2> DEFINE y == [a EXCEPT !.at = "image", !.started = now]
  <2>1. tasks' = [tasks EXCEPT ![t] = y]
    BY <1>7
  <2>2. \A j \in 1..(a.i - 1) : sb'[a.d][Head(a.rules)][j] = "deploying"
    <3>1. \A j \in 1..n : sb'[a.d][Head(a.rules)][j] = IF j = a.i THEN "building" ELSE sb[a.d][Head(a.rules)][j]
      BY <1>6, <1>7
    <3> HIDE DEF a, n
    <3> QED BY <1>4, <1>5, <3>1
  <2>3. \E which, status : sb' = Built(t, which, status)
    BY <1>7
  <2> HIDE DEF a
  <2>4. y.at = "image" /\ y.i = a.i /\ y.d = a.d /\ y.rules = a.rules /\ y.ends = a.ends
    BY <1>3 DEF TaskType
  <2> HIDE DEF y
  <2>5. ImagesSoFar(y, sb')
    BY <1>4, <1>5, <2>2, <2>4 DEF ImagesSoFar
  <2>6. tasks[t].at \in OfRule
    BY <1>1, <1>2
  <2> QED BY <1>1, <1>2, <1>3, <2>1, <2>3, <2>4, <2>5, <2>6, PlaceRecords
<1>8. CASE /\ tasks' = [tasks EXCEPT ![t] = [a EXCEPT !.at = "build", !.i = b]]
           /\ sb' = Built(t, {tasks[t].i}, "deploying")
  <2> DEFINE y == [a EXCEPT !.at = "build", !.i = b]
  <2>1. tasks' = [tasks EXCEPT ![t] = y]
    BY <1>8
  <2>2. b \in 1..(n + 1) /\ \A j \in 1..(b - 1) : sb'[a.d][Head(a.rules)][j] = "deploying"
    <3>1. \A j \in 1..n : sb'[a.d][Head(a.rules)][j] = IF j = a.i THEN "deploying" ELSE sb[a.d][Head(a.rules)][j]
      BY <1>6, <1>8
    <3> HIDE DEF a, n
    <3> QED BY <1>4, <1>5, <3>1
  <2>3. \E which, status : sb' = Built(t, which, status)
    BY <1>8
  <2> HIDE DEF a, b
  <2>4. y.at = "build" /\ y.i = b /\ y.d = a.d /\ y.rules = a.rules /\ y.ends = a.ends
    BY <1>3 DEF TaskType
  <2> HIDE DEF y
  <2>5. ImagesSoFar(y, sb')
    BY <1>2, <2>2, <2>4 DEF ImagesSoFar
  <2>6. tasks[t].at \in OfRule
    BY <1>1, <1>2
  <2> QED BY <1>1, <1>2, <1>3, <2>1, <2>3, <2>4, <2>5, <2>6, PlaceRecords
<1>9. CASE tasks' = RuleEnd(t, "failed") /\ \E end \in load.fails : sb' = fail_builds(t, end)
  <2>1. PICK end \in load.fails : sb' = fail_builds(t, end)
    BY <1>9
  <2>2. end \in BuildEnds
    BY DEF HookInv, HookType, Load, BuildEnds
  <2>3. tasks[t].at \in OfRule /\ tasks[t].i <= Len(Svcs(t))
    BY <1>1, <1>2, <1>3, <1>4, <1>5
  <2> HIDE DEF a, b, n
  <2> QED BY <1>1, <1>9, <2>1, <2>2, <2>3, BuiltEnds
<1> HIDE DEF a, b
<1> QED BY <1>1, <1>7, <1>8, <1>9

\* Submit.
LEMMA SubmitRecords == ASSUME HookInv, HookInv', RecordInv, NEW t \in 1..Pool, Submit(t) PROVE RecordInv'
<1> DEFINE a == tasks[t]
           p == [d |-> tasks[t].d, r |-> Rule(t), at |-> now, outcome |-> "open"]
<1>1. /\ tasks[t].at = "submit" /\ UNCHANGED <<now, load, crashes>>
      /\ \/ plans' = Append(plans, p) /\ set_status(tasks[t].d, "building") /\ Go(t, "finish") /\ UNCHANGED sb
         \/ /\ sb' = Built(t, DOMAIN Svcs(t), "failed") /\ UNCHANGED <<plans, row, rec>>
            /\ \E end \in {"stale", "failed"} : tasks' = RuleEnd(t, end)
  BY DEF Submit, At
<1>2. {"submit", "finish"} \subseteq OfRule /\ OfRule \subseteq Held /\ "failed" \in BuildEnds
      /\ "submit" \notin InQueue /\ "finish" \notin InQueue
  BY DEF OfRule, Held, BuildEnds, InQueue
<1>3. /\ a \in TaskType /\ a = tasks[t] /\ a.d \in Deliveries /\ rec[a.d] # "none" /\ a.rules # <<>>
      /\ Knows(a, rec, plans, sb) /\ BuildRecords /\ a.at = "submit"
  BY <1>1, <1>2, HolderKnows
<1>4. CASE plans' = Append(plans, p) /\ set_status(tasks[t].d, "building") /\ Go(t, "finish") /\ UNCHANGED sb
  <2> DEFINE y == [a EXCEPT !.at = "finish"]
  <2>1. tasks' = [tasks EXCEPT ![t] = y]
    BY <1>4 DEF Go
  <2>2. plans \in Seq(PlanType) /\ p.d = tasks[t].d /\ p.r = Rule(t)
    BY DEF HookInv, HookType
  <2>3. PlannedIn(plans', tasks[t].d, Rule(t)) /\ RecordsGrow
    <3> HIDE DEF p
    <3>1. /\ DOMAIN plans' = 1..(Len(plans) + 1) /\ plans'[Len(plans) + 1] = p /\ Len(plans) \in Nat
          /\ \A k \in DOMAIN plans : k \in DOMAIN plans' /\ plans'[k] = plans[k]
      BY <1>4, <2>2
    <3>2. Len(plans) + 1 \in DOMAIN plans'
      BY <3>1
    <3>3. PlannedIn(plans', tasks[t].d, Rule(t))
      BY <2>2, <3>1, <3>2 DEF PlannedIn
    <3>4. /\ \A d \in Deliveries : SucceededIn(plans, d) => SucceededIn(plans', d)
          /\ \A d \in Deliveries, r \in Rules : PlannedIn(plans, d, r) => PlannedIn(plans', d, r)
      BY <3>1 DEF SucceededIn, PlannedIn
    <3>5. rec'[a.d] = "building" /\ \A e \in Deliveries : e # a.d => rec'[e] = rec[e]
      BY <1>3, <1>4, StatusBoth
    <3>6. \A d \in Deliveries : rec[d] # "none" => rec'[d] # "none"
      BY <3>5
    <3> QED BY <3>3, <3>4, <3>6 DEF RecordsGrow, Grows
  <2>4. BuildRecords' /\ OwnBuilds(t)
    BY <1>3, <1>4 DEF BuildRecords, OwnBuilds
  <2> HIDE DEF a, p
  <2>5. y.at = "finish" /\ y.i = a.i /\ y.d = a.d /\ y.rules = a.rules /\ y.ends = a.ends
    BY <1>3 DEF TaskType
  <2> HIDE DEF y
  <2>6. ImagesSoFar(y, sb)
    BY <1>2, <1>3, <2>5 DEF ImagesSoFar, Knows
  <2>7. ImagesSoFar(y, sb')
    BY <1>4, <2>6
  <2>8. tasks[t].at \in Held /\ y.at \in OfRule
    BY <1>1, <1>2, <2>5
  <2> QED BY <1>1, <1>3, <1>4, <2>1, <2>3, <2>4, <2>5, <2>7, <2>8, GoOnRecords
<1>5. CASE /\ sb' = Built(t, DOMAIN Svcs(t), "failed") /\ UNCHANGED <<plans, row, rec>>
           /\ \E end \in {"stale", "failed"} : tasks' = RuleEnd(t, end)
  <2>1. PICK end \in {"stale", "failed"} : tasks' = RuleEnd(t, end)
    BY <1>5
  <2>2. tasks[t].at \in OfRule /\ end # "deployed"
    BY <1>1, <1>2
  <2> HIDE DEF a, p
  <2> QED BY <1>1, <1>2, <1>5, <2>1, <2>2, BuiltEnds
<1> HIDE DEF a, p
<1> QED BY <1>1, <1>4, <1>5

\* Finish.
LEMMA FinishRecords == ASSUME HookInv, HookInv', RecordInv, NEW t \in 1..Pool, Finish(t) PROVE RecordInv'
<1> DEFINE outcome == plans[PlanOf(t)].outcome
<1>1. /\ tasks[t].at = "finish" /\ UNCHANGED <<now, load, crashes, row, rec, plans>>
      /\ \/ /\ outcome # "open" /\ sb' = Built(t, DOMAIN Svcs(t), outcome)
            /\ tasks' = RuleEnd(t, IF outcome = "succeeded" THEN "deployed" ELSE "failed")
         \/ sb' = Built(t, DOMAIN Svcs(t), "failed") /\ tasks' = RuleEnd(t, "failed")
  BY DEF Finish, At
<1>2. "finish" \in OfRule /\ "finish" \in Held /\ "failed" \in BuildEnds
  BY DEF OfRule, Held, BuildEnds
<1>3. PlannedIn(plans, tasks[t].d, Rule(t))
  BY <1>1, <1>2, HolderKnows DEF Knows
<1>4. PlanOf(t) \in DOMAIN plans /\ plans[PlanOf(t)].d = tasks[t].d
  BY <1>3 DEF PlannedIn, PlanOf
<1>5. outcome \in BuildEnds \cup {"open"}
  <2>1. plans \in Seq(PlanType)
    BY DEF HookInv, HookType
  <2> DEFINE n == PlanOf(t)
  <2>2. n \in DOMAIN plans
    BY <1>4
  <2> HIDE DEF n
  <2>3. plans[n] \in PlanType
    BY <2>1, <2>2
  <2>4. plans[n].outcome \in BuildEnds \cup {"open"}
    BY <2>3 DEF PlanType
  <2> QED BY <2>4 DEF n
<1>6. outcome = "succeeded" => SucceededIn(plans, tasks[t].d)
  BY <1>4 DEF SucceededIn
<1>7. CASE /\ outcome # "open" /\ sb' = Built(t, DOMAIN Svcs(t), outcome)
           /\ tasks' = RuleEnd(t, IF outcome = "succeeded" THEN "deployed" ELSE "failed")
  <2> DEFINE end == IF outcome = "succeeded" THEN "deployed" ELSE "failed"
  <2>1. tasks' = RuleEnd(t, end) /\ (end = "deployed" => SucceededIn(plans, tasks[t].d)) /\ outcome \in BuildEnds
    BY <1>5, <1>6, <1>7
  <2> HIDE DEF end, outcome
  <2> QED BY <1>1, <1>2, <1>7, <2>1, BuiltEnds
<1>8. CASE sb' = Built(t, DOMAIN Svcs(t), "failed") /\ tasks' = RuleEnd(t, "failed")
  <2> HIDE DEF outcome
  <2> QED BY <1>1, <1>2, <1>8, BuiltEnds
<1> HIDE DEF outcome
<1> QED BY <1>1, <1>7, <1>8

\* The pipeline.
LEMMA PipelineRecords == ASSUME HookInv, HookInv', RecordInv, NEW t \in 1..Pool, Pipeline(t) PROVE RecordInv'
BY MatchRecords, ClaimRecords, EndRecords, RunRuleRecords, QueueRecords, ImageRecords, SubmitRecords,
   FinishRecords DEF Pipeline

----------------------------------------------------------------------------
(* Intake, rules, the sweeper and the environment, and what they write.    *)

\* The tasks and the builds stay as they are.
LEMMA RestRecords ==
  ASSUME HookInv, RecordInv, UNCHANGED <<tasks, load, crashes, sb>>, RecordsGrow, Unrecorded',
         \A d \in Deliveries :
           \/ row'[d].status = row[d].status /\ rec'[d] = rec[d]
           \/ rec'[d] = "none"
           \/ row'[d].status = rec'[d] /\ rec'[d] # "deployed"
  PROVE  RecordInv'
<1>1. Pool' = Pool
  BY DEF Pool
<1>2. TasksKnow'
  <2> SUFFICES ASSUME NEW u \in 1..Pool PROVE Knows(tasks[u], rec', plans', sb')
    BY <1>1 DEF TasksKnow
  <2> DEFINE x == tasks[u]
  <2>1. TaskFits(x) /\ Knows(x, rec, plans, sb) /\ (x.at \in OfRule => sb'[x.d] = sb[x.d])
    BY DEF HookInv, HookType, RecordInv, TasksKnow
  <2> HIDE DEF x
  <2>2. Knows(x, rec', plans', sb')
    BY <2>1, KnowsStays DEF RecordsGrow
  <2> QED BY <2>2 DEF x
<1>3. RowsAgree'
  BY <1>1 DEF RecordInv, RowsAgree
<1>4. DeployedOnes'
  BY DEF RecordInv, DeployedOnes, RecordsGrow, Grows
<1>5. BuildsOpen'
  BY <1>1 DEF RecordInv, BuildsOpen, Works, Concluded
<1>6. BuildRecords'
  BY DEF RecordInv, BuildRecords
<1> QED BY <1>2, <1>3, <1>4, <1>5, <1>6 DEF RecordInv

\* Rows and records stay as they are.
LEMMA StillRecords ==
  ASSUME HookInv, RecordInv, UNCHANGED <<tasks, load, crashes, sb, row, rec, plans, now>>
  PROVE  RecordInv'
<1>1. Unrecorded' /\ RecordsGrow
  BY GrowsWhen DEF RecordInv, Unrecorded
<1> QED BY <1>1, RestRecords

\* Insert.
LEMMA InsertRecords == ASSUME HookInv, RecordInv, NEW d \in Deliveries, Insert(d) PROVE RecordInv'
<1> DEFINE new == [status |-> "pending", at |-> now, recorded |-> FALSE]
<1>1. /\ row[d].status = "none" /\ row' = [row EXCEPT ![d] = new]
      /\ UNCHANGED <<now, rec, plans, sb, tasks, crashes, load>>
  BY DEF Insert, memory
<1>2. rec[d] = "none"
  BY <1>1 DEF HookInv, RowsKnown, Arrived
<1>3. row'[d] = new /\ \A e \in Deliveries : e # d => row'[e] = row[e]
  BY <1>1 DEF HookInv, HookType
<1>4. Unrecorded'
  BY <1>1, <1>2, <1>3 DEF RecordInv, Unrecorded
<1>5. RecordsGrow
  BY <1>1, GrowsWhen
<1>6. \A e \in Deliveries : (row'[e].status = row[e].status /\ rec'[e] = rec[e]) \/ rec'[e] = "none"
  BY <1>1, <1>2, <1>3
<1> HIDE DEF new
<1> QED BY <1>1, <1>4, <1>5, <1>6, RestRecords

\* A free task is started.
LEMMA StartRecords ==
  ASSUME HookInv, HookInv', RecordInv, Free # {}, NEW list, NEW only,
         tasks' = [tasks EXCEPT ![NextFree] = Started(list, only)],
         UNCHANGED <<now, load, crashes, plans, sb>>,
         \A d \in Deliveries :
           \/ row'[d] = row[d] /\ rec'[d] = rec[d]
           \/ row'[d].recorded /\ rec'[d] = row'[d].status /\ rec'[d] # "deployed" /\ rec'[d] # "none"
  PROVE  RecordInv'
<1>1. Free \subseteq Nat
  BY DEF HookInv, HookType, Load, Pool, Free
<1>2. NextFree \in Free
  BY <1>1, LeastOf DEF NextFree
<1> DEFINE t == NextFree
           y == Started(list, only)
<1>3. t \in 1..Pool /\ tasks[t].at = "idle"
  BY <1>2 DEF Free
<1>4. y.at = "match" /\ y.ends = {}
  <2>1. y = [Idle EXCEPT !.at = "match", !.d = Head(list), !.list = Tail(list), !.only = only]
    BY DEF Started
  <2> QED BY <2>1 DEF Idle
<1>5. tasks' = [tasks EXCEPT ![t] = y]
  OBVIOUS
<1> HIDE DEF t, y
<1>6. Knows(y, rec', plans', sb')
  BY <1>4, FreshKnows
<1>7. RecordsGrow /\ BuildRecords'
  BY GrowsWhen DEF RecordInv, BuildRecords
<1>8. "idle" \notin Held /\ "idle" \notin OfRule
  BY DEF Held, OfRule
<1>9. RowStep(t, y) /\ BuildStep(t, y)
  BY <1>3, <1>8 DEF RowStep, BuildStep, Works
<1> QED BY <1>3, <1>5, <1>6, <1>7, <1>9, RecordMoves

\* Accept.
LEMMA AcceptRecords ==
  ASSUME HookInv, HookInv', RecordInv, NEW d \in Deliveries, Accept(d) PROVE RecordInv'
<1>1. /\ row[d].status # "none" /\ ~row[d].recorded /\ Free # {}
      /\ row' = [row EXCEPT ![d].recorded = TRUE] /\ rec' = [rec EXCEPT ![d] = "pending"]
      /\ tasks' = [tasks EXCEPT ![NextFree] = Started(<<d>>, Rules)]
      /\ UNCHANGED <<now, plans, sb, crashes, load>>
  BY DEF Accept
<1>2. row[d].status = "pending"
  BY <1>1 DEF RecordInv, Unrecorded
<1>3. row \in [Deliveries -> RowType] /\ rec \in [Deliveries -> Statuses] /\ row[d] \in RowType
  BY DEF HookInv, HookType
<1>4. row'[d] = [row[d] EXCEPT !.recorded = TRUE]
  BY <1>1, <1>3
<1>5. row'[d].recorded /\ row'[d].status = "pending" /\ rec'[d] = "pending"
  BY <1>1, <1>2, <1>3, <1>4 DEF RowType
<1>6. \A e \in Deliveries : e # d => row'[e] = row[e] /\ rec'[e] = rec[e]
  BY <1>1, <1>3
<1> QED BY <1>1, <1>5, <1>6, StartRecords

\* Watch.
LEMMA WatchRecords == ASSUME HookInv, HookInv', RecordInv, NEW r \in Rules, Watch(r) PROVE RecordInv'
<1> DEFINE list == rule_admitted(r)
           only == {r}
<1>1. /\ Free # {} /\ tasks' = IF list = <<>> THEN tasks ELSE [tasks EXCEPT ![NextFree] = Started(list, only)]
      /\ UNCHANGED <<now, row, rec, plans, sb, crashes, load>>
  BY DEF Watch, store
<1> HIDE DEF list, only
<1>2. CASE list = <<>>
  BY <1>1, <1>2, StillRecords
<1>3. CASE list # <<>>
  BY <1>1, <1>3, StartRecords
<1> QED BY <1>2, <1>3

\* PlanEnds: an outcome that is there stays.
LEMMA PlanEndsRecords ==
  ASSUME HookInv, RecordInv, NEW n \in DOMAIN plans, PlanEnds(n) PROVE RecordInv'
<1>1. /\ plans[n].outcome = "open" /\ \E o \in load.ends : plans' = [plans EXCEPT ![n].outcome = o]
      /\ UNCHANGED <<now, row, rec, sb, tasks, crashes, load>>
  BY DEF PlanEnds, memory
<1>2. PICK o \in load.ends : plans' = [plans EXCEPT ![n].outcome = o]
  BY <1>1
<1>3. plans \in Seq(PlanType)
  BY DEF HookInv, HookType
<1>4. plans[n] \in PlanType /\ DOMAIN plans' = DOMAIN plans /\ plans'[n] = [plans[n] EXCEPT !.outcome = o]
      /\ \A k \in DOMAIN plans : k # n => plans'[k] = plans[k]
  BY <1>2, <1>3
<1>5. plans'[n].d = plans[n].d /\ plans'[n].r = plans[n].r
  BY <1>4 DEF PlanType
<1>6. /\ \A d \in Deliveries : SucceededIn(plans, d) => SucceededIn(plans', d)
      /\ \A d \in Deliveries, r \in Rules : PlannedIn(plans, d, r) => PlannedIn(plans', d, r)
  BY <1>1, <1>4, <1>5 DEF SucceededIn, PlannedIn
<1>7. RecordsGrow
  BY <1>1, <1>6 DEF RecordsGrow, Grows
<1>8. Unrecorded'
  BY <1>1 DEF RecordInv, Unrecorded
<1> QED BY <1>1, <1>7, <1>8, RestRecords

\* Sweep: a row that is not recorded is too young to expire.
LEMMA SweepRecords == ASSUME HookInv, RecordInv, Sweep PROVE RecordInv'
<1> DEFINE gone == {d \in Deliveries : Expirable(d)}
<1>1. /\ row' = [d \in Deliveries |-> IF d \in gone THEN [row[d] EXCEPT !.status = "expired"] ELSE row[d]]
      /\ rec' = [d \in Deliveries |-> IF d \in gone /\ rec[d] # "none" THEN "expired" ELSE rec[d]]
      /\ UNCHANGED <<now, plans, sb, tasks, crashes, load>>
  BY DEF Sweep, memory
<1>2. ASSUME NEW d \in gone PROVE d \in Deliveries /\ row[d].recorded /\ row[d] \in RowType
  <2>1. /\ d \in Deliveries /\ row[d].status = "pending" /\ row[d].at + TTL <= now /\ row[d] \in RowType
        /\ now \in Nat /\ TTL \in Nat \ {0}
    BY HookAssumption DEF HookInv, HookType, Expirable, Expired, received
  <2>2. row[d].at \in Nat
    BY <2>1 DEF RowType
  <2>3. row[d].at # now
    BY <2>1, <2>2
  <2> QED BY <2>1, <2>3 DEF RecordInv, Unrecorded
<1> HIDE DEF gone
<1>3. ASSUME NEW d \in Deliveries
      PROVE  /\ d \notin gone => row'[d] = row[d] /\ rec'[d] = rec[d]
             /\ d \in gone => /\ row'[d].status = "expired" /\ row'[d].recorded
                              /\ rec'[d] = IF rec[d] # "none" THEN "expired" ELSE "none"
  <2>1. CASE d \notin gone
    BY <1>1, <2>1
  <2>2. CASE d \in gone
    <3>1. row'[d] = [row[d] EXCEPT !.status = "expired"]
      BY <1>1, <2>2
    <3>2. row'[d].status = "expired" /\ row'[d].recorded = row[d].recorded
      BY <1>2, <2>2, <3>1 DEF RowType
    <3>3. rec'[d] = IF rec[d] # "none" THEN "expired" ELSE "none"
      BY <1>1, <2>2
    <3> QED BY <1>2, <2>2, <3>2, <3>3
  <2> QED BY <2>1, <2>2
<1>4. Unrecorded'
  BY <1>1, <1>3 DEF RecordInv, Unrecorded
<1>5. \A d \in Deliveries : rec[d] # "none" => rec'[d] # "none"
  BY <1>3
<1>6. RecordsGrow
  BY <1>1, <1>5, GrowsWhen
<1>7. ASSUME NEW d \in Deliveries
      PROVE  \/ row'[d].status = row[d].status /\ rec'[d] = rec[d]
             \/ rec'[d] = "none"
             \/ row'[d].status = rec'[d] /\ rec'[d] # "deployed"
  BY <1>3
<1> QED BY <1>1, <1>4, <1>6, <1>7, RestRecords

\* Tick: every row that is there is recorded.
LEMMA TickRecords == ASSUME HookInv, RecordInv, Tick PROVE RecordInv'
<1>1. /\ \A d \in Deliveries : row[d].status = "none" \/ row[d].recorded
      /\ UNCHANGED <<row, rec, plans, sb, tasks, crashes, load>>
  BY DEF Tick, store, memory
<1>2. Unrecorded'
  BY <1>1 DEF Unrecorded
<1>3. RecordsGrow
  BY <1>1, GrowsWhen
<1> QED BY <1>1, <1>2, <1>3, RestRecords

\* Crash: no task is left, and every row counts as recorded.
LEMMA CrashRecords == ASSUME HookInv, RecordInv, Crash PROVE RecordInv'
<1>1. /\ crashes' = crashes + 1 /\ tasks' = [t \in 1..Pool |-> Idle]
      /\ row' = [d \in Deliveries |-> [row[d] EXCEPT !.recorded = row[d].status # "none"]]
      /\ UNCHANGED <<now, rec, plans, sb, load>>
  BY DEF Crash
<1>2. Pool' = Pool /\ crashes' # 0
  BY <1>1 DEF Pool, HookInv, HookType
<1>3. TasksKnow'
  <2>1. Idle.at = "idle" /\ Idle.ends = {}
    BY DEF Idle
  <2> DEFINE x == Idle
  <2> HIDE DEF x
  <2>2. x.at \in {"idle", "match"} /\ x.ends = {}
    BY <2>1 DEF x
  <2>3. Knows(x, rec', plans', sb')
    BY <2>2, FreshKnows
  <2>4. Knows(Idle, rec', plans', sb')
    BY <2>3 DEF x
  <2> QED BY <1>1, <1>2, <2>4 DEF TasksKnow
<1>4. Unrecorded'
  <2> SUFFICES ASSUME NEW d \in Deliveries PROVE row'[d].status = "none" \/ row'[d].recorded
    BY DEF Unrecorded
  <2> DEFINE b == row[d].status # "none"
  <2>1. row[d] \in RowType /\ b \in BOOLEAN /\ row'[d] = [row[d] EXCEPT !.recorded = b]
    BY <1>1 DEF HookInv, HookType
  <2>2. b \/ row[d].status = "none"
    OBVIOUS
  <2> HIDE DEF b
  <2>3. row'[d].status = row[d].status /\ row'[d].recorded = b
    BY <2>1 DEF RowType
  <2> QED BY <2>2, <2>3
<1>5. RowsAgree' /\ BuildsOpen'
  BY <1>2 DEF RowsAgree, BuildsOpen
<1>6. DeployedOnes' /\ BuildRecords'
  BY <1>1 DEF RecordInv, DeployedOnes, BuildRecords
<1> QED BY <1>3, <1>4, <1>5, <1>6 DEF RecordInv

\* No delivery, no build and no task at first.
LEMMA RecordsStart == ASSUME Init PROVE RecordInv
<1>1. /\ \A d \in Deliveries : row[d].status = "none" /\ rec[d] = "none"
      /\ \A t \in 1..Pool : tasks[t] = Idle
      /\ sb = [d \in Deliveries |-> [r \in Rules |-> [i \in DOMAIN ServicesOf[r] |-> "none"]]]
  BY DEF Init
<1>2. \A r \in Rules : DOMAIN ServicesOf[r] = 1..Len(ServicesOf[r])
  BY HookAssumption
<1>3. \A d \in Deliveries, r \in Rules : sb[d][r] = [i \in 1..Len(ServicesOf[r]) |-> "none"]
  BY <1>1, <1>2
<1>4. BuildRecords
  <2>1. sb = [d \in Deliveries |-> sb[d]] /\ \A d \in Deliveries : sb[d] = [r \in Rules |-> sb[d][r]]
    BY <1>1
  <2>2. \A d \in Deliveries, r \in Rules : sb[d][r] = [i \in 1..Len(ServicesOf[r]) |-> sb[d][r][i]]
    BY <1>3
  <2> QED BY <2>1, <2>2 DEF BuildRecords
<1>5. TasksKnow
  <2>1. Idle.at = "idle" /\ Idle.ends = {}
    BY DEF Idle
  <2> SUFFICES ASSUME NEW t \in 1..Pool PROVE Knows(tasks[t], rec, plans, sb)
    BY DEF TasksKnow
  <2> DEFINE x == tasks[t]
  <2>2. x.at \in {"idle", "match"} /\ x.ends = {}
    BY <1>1, <2>1
  <2> HIDE DEF x
  <2>3. Knows(x, rec, plans, sb)
    BY <2>2, FreshKnows
  <2> QED BY <2>3 DEF x
<1>6. Unrecorded /\ RowsAgree /\ DeployedOnes
  BY <1>1 DEF Unrecorded, RowsAgree, DeployedOnes
<1>7. BuildsOpen
  <2>1. ASSUME NEW d \in Deliveries, NEW r \in Rules PROVE Concluded(sb[d][r])
    <3> DEFINE s == [i \in 1..Len(ServicesOf[r]) |-> "none"]
    <3>1. Concluded(s)
      BY DEF Concluded
    <3> QED BY <1>3, <3>1
  <2> QED BY <2>1 DEF BuildsOpen
<1> QED BY <1>4, <1>5, <1>6, <1>7 DEF RecordInv

\* Every step keeps what the records say.
LEMMA RecordsKeep == ASSUME HookInv, RecordInv, Next PROVE RecordInv'
<1>1. HookInv'
  BY NextKeeps
<1>2. CASE \E d \in Deliveries : Insert(d) \/ Accept(d)
  BY <1>1, <1>2, InsertRecords, AcceptRecords
<1>3. CASE \E t \in 1..Pool : Pipeline(t)
  BY <1>1, <1>3, PipelineRecords
<1>4. CASE \E r \in Rules : RuleCreate(r) \/ RuleRevoke(r) \/ Watch(r)
  <2>1. CASE \E r \in Rules : RuleCreate(r) \/ RuleRevoke(r)
    <3>1. UNCHANGED <<tasks, load, crashes, sb, row, rec, plans, now>>
      BY <2>1 DEF RuleCreate, RuleRevoke, memory
    <3> QED BY <3>1, StillRecords
  <2>2. CASE \E r \in Rules : Watch(r)
    BY <1>1, <2>2, WatchRecords
  <2> QED BY <1>4, <2>1, <2>2
<1>5. CASE \E n \in DOMAIN plans : PlanEnds(n)
  BY <1>5, PlanEndsRecords
<1>6. CASE Protect
  <2>1. UNCHANGED <<tasks, load, crashes, sb, row, rec, plans, now>>
    BY <1>6 DEF Protect, memory
  <2> QED BY <2>1, StillRecords
<1>7. CASE Sweep \/ Tick \/ Crash
  BY <1>7, SweepRecords, TickRecords, CrashRecords
<1> QED BY <1>2, <1>3, <1>4, <1>5, <1>6, <1>7 DEF Next

\* What the invariants say of every state of a behaviour of the pipeline.
RecordsInv == part = "hooks" => HookInv /\ RecordInv

\* What the rows, the records and the build records say is what happened, and
\* every build ends, however pushes, re-matches, the sweeper and the tasks
\* interleave (set_status, claim_delivery, fail_builds, sweep).
THEOREM RecordsTruthful == MCSpec => []HookRecordsHold
<1>1. MCInit => RecordsInv
  BY InitHolds, RecordsStart DEF MCInit, RecordsInv
<1>2. RecordsInv /\ PipelineInv' /\ [MCNext]_<<part, vars, cronVars>> => RecordsInv'
  <2> SUFFICES ASSUME RecordsInv, PipelineInv', [MCNext]_<<part, vars, cronVars>>, part' = "hooks"
               PROVE HookInv' /\ RecordInv'
    BY DEF RecordsInv
  <2>1. part = "hooks" /\ HookInv'
    BY DEF MCNext, PipelineInv
  <2>2. HookInv /\ RecordInv
    BY <2>1 DEF RecordsInv
  <2>3. CASE Next
    BY <2>1, <2>2, <2>3, RecordsKeep
  <2>4. CASE UNCHANGED vars
    <3>1. UNCHANGED <<tasks, load, crashes, sb, row, rec, plans, now>>
      BY <2>4 DEF vars, store, memory
    <3> QED BY <2>1, <2>2, <3>1, StillRecords
  <2> QED BY <2>1, <2>3, <2>4 DEF MCNext
<1>3. RecordsInv => HookRecordsHold
  <2> SUFFICES ASSUME HookInv, RecordInv PROVE StatusTruthful /\ BuildsEnd
    BY DEF RecordsInv, HookRecordsHold
  <2>1. \A t \in 1..Pool : tasks[t].at \in Held => tasks[t].at # "idle"
    BY DEF Held
  <2>2. OfRule \subseteq Held
    BY DEF Held, OfRule
  <2>3. ASSUME NEW d \in Deliveries, ~AtWork(d) PROVE \A t \in 1..Pool : ~(tasks[t].at \in Held /\ tasks[t].d = d)
    BY <2>1, <2>3 DEF AtWork
  <2>4. StatusTruthful
    BY <2>3 DEF StatusTruthful, RecordInv, RowsAgree, DeployedOnes, SucceededIn
  <2>5. BuildsEnd
    <3> SUFFICES ASSUME NEW d \in Deliveries, NEW r \in Rules, crashes = 0, ~AtWork(d)
                 PROVE Concluded(sb[d][r])
      BY DEF BuildsEnd, Concluded
    <3>1. \A t \in 1..Pool : ~Works(tasks[t], d, r)
      BY <2>2, <2>3 DEF Works
    <3> QED BY <3>1 DEF RecordInv, BuildsOpen
  <2> QED BY <2>4, <2>5
<1> QED BY <1>1, <1>2, <1>3, PipelineInvariant, PTL DEF MCSpec

=============================================================================
