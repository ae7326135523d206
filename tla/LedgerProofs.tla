---------------------------- MODULE LedgerProofs ----------------------------
(***************************************************************************)
(* Proofs about AdmissionLedger, for every set of plans, scopes, rules and *)
(* loads, any window and any length of log: the rows agree with the        *)
(* runner's log and the heads with the history of admissions, and a rule   *)
(* whose revocation is under way does not trigger.                         *)
(***************************************************************************)
EXTENDS AdmissionLedger, FiniteSetTheorems, TLAPS

Events == {"consumed", "op", "result"}
EndNames == Outcomes \cup {""}
AdmRow == [seq : Nat, at : Nat, done : BOOLEAN, outcome : EndNames, before : Seq(Plans)]
ActRow == [consumed : Nat, done : BOOLEAN, outcome : EndNames, result : Nat]
RuleRow == [created : BOOLEAN, revoked : BOOLEAN, pending : Plans \cup {NoPlan}]
Line == [event : Events, step : Steps, op : Ops \cup {""}, outcome : EndNames]

LedgerType ==
  /\ load \in Loads /\ now \in Nat
  /\ adm \in [Plans -> AdmRow]
  /\ act \in [Steps -> ActRow]
  /\ heads \in [Scopes -> Seq(Plans)]
  /\ rules \in [Rules -> RuleRow]
  /\ log \in Seq(Line) /\ cursor \in 0..Len(log)

\* The runner consumes and ends an action at most once, and only actions of
\* admitted plans are in its log.
LogOnce ==
  /\ \A k \in 1..Len(log) : log[k].step[1] \in Admitted
  /\ \A j, k \in 1..Len(log) :
       /\ log[j].event \in {"consumed", "result"}
       /\ log[j].event = log[k].event /\ log[j].step = log[k].step
       => j = k

\* admission_seq counts the admissions.
SeqsCount == IsFiniteSet(Admitted) /\ \A p \in Admitted : adm[p].seq <= LastSeq

\* The mark of a rule under revocation stands until a revocation of the plan
\* that set it ends.
MarksStand ==
  \A s \in Steps :
    /\ s[1] \in Admitted /\ Kind(s) = "rule.revoke"
    /\ \A t \in StepsOf(s[1]) : Kind(t) = "rule.revoke" => ~act[t].done
    => rules[RuleOf(s)].pending = s[1] \/ rules[RuleOf(s)].revoked

LedgerInv == LedgerType /\ LogOnce /\ LogWins /\ SeqsCount /\ HeadsAreHistory /\ MarksStand

----------------------------------------------------------------------------
(* The operators.                                                          *)

\* An element of a sequence.
LEMMA SeqElement == ASSUME NEW S, NEW q \in Seq(S), NEW i \in 1..Len(q) PROVE q[i] \in S
  OBVIOUS

\* What a step is, and what its action holds.
LEMMA StepParts ==
  ASSUME load \in Loads, NEW s \in Steps
  PROVE  /\ s[1] \in Plans /\ s[2] \in 1..Len(Actions[s[1]]) /\ s = <<s[1], s[2]>>
         /\ Kind(s) \in {"rule.create", "rule.revoke"} => RuleOf(s) \in Rules
<1>1. PICK p \in Plans : s \in {p} \X (1..Len(Actions[p]))
  BY DEF Steps
<1>2. s[1] = p /\ s[2] \in 1..Len(Actions[p]) /\ s = <<s[1], s[2]>>
  BY <1>1
<1>3. Actions[p] \in Seq([kind : STRING, rule : Rules \cup {NoRule}])
  BY <1>1, LedgerAssumption DEF Actions
<1>4. Actions[p][s[2]] \in [kind : STRING, rule : Rules \cup {NoRule}]
  BY <1>2, <1>3, SeqElement
<1> QED
  BY <1>2, <1>4, LedgerAssumption DEF Kind, RuleOf, Actions

\* Tables of a transaction in progress.
Tables == [act : [Steps -> ActRow], adm : [Plans -> AdmRow], rules : [Rules -> RuleRow]]

\* The summary of a plan's outcomes is one of them.
LEMMA SummaryType == ASSUME NEW acts, NEW p PROVE Summary(acts, p) \in Outcomes
  BY DEF Summary, Outcomes

\* finish_admission_if_done writes at most the end of one admission.
LEMMA FinishAdmission ==
  ASSUME NEW t \in Tables, NEW p \in Plans
  PROVE  LET u == finish_admission_if_done(t, p)
         IN  /\ u \in Tables /\ u.act = t.act /\ u.rules = t.rules
             /\ \A q \in Plans : /\ u.adm[q].seq = t.adm[q].seq /\ u.adm[q].at = t.adm[q].at
                                 /\ u.adm[q].before = t.adm[q].before
<1> DEFINE row == [t.adm[p] EXCEPT !.done = TRUE, !.outcome = Summary(t.act, p)]
           u == finish_admission_if_done(t, p)
           full == [t EXCEPT !.adm = [@ EXCEPT ![p] = row]]
<1>0. t.adm[p] \in AdmRow /\ t.adm \in [Plans -> AdmRow] 
  BY DEF Tables
<1>1. row \in AdmRow /\ row.seq = t.adm[p].seq /\ row.at = t.adm[p].at /\ row.before = t.adm[p].before
  <2> DEFINE a == t.adm[p]
             o == Summary(t.act, p)
  <2>1. a \in AdmRow /\ o \in EndNames
    BY <1>0, SummaryType DEF EndNames
  <2> HIDE DEF a, o
  <2>2. LET w == [a EXCEPT !.done = TRUE, !.outcome = o]
        IN  w \in AdmRow /\ w.seq = a.seq /\ w.at = a.at /\ w.before = a.before
    BY <2>1 DEF AdmRow
  <2> QED
    BY <2>2 DEF a, o
<1>2. u = t \/ u = full
  BY DEF finish_admission_if_done, Tables
<1>3. full \in Tables /\ full.act = t.act /\ full.rules = t.rules /\ full.adm = [t.adm EXCEPT ![p] = row]
  BY <1>0, <1>1 DEF Tables
<1> QED
  BY <1>0, <1>1, <1>2, <1>3

\* settle_rule_revoke writes the rules only: marks of the plan are dropped or
\* made a revocation, others stay.
LEMMA SettleRevoke ==
  ASSUME NEW t \in Tables, NEW s \in Steps, NEW outcome \in EndNames
  PROVE  LET u == settle_rule_revoke(t, s, outcome)
         IN  /\ u \in Tables /\ u.act = t.act /\ u.adm = t.adm
             /\ \A r \in Rules :
                  /\ t.rules[r].revoked => u.rules[r].revoked
                  /\ \/ u.rules[r] = t.rules[r]
                     \/ Kind(s) = "rule.revoke" /\ t.rules[r].pending = s[1]
<1> DEFINE u == settle_rule_revoke(t, s, outcome)
           new(r) == IF t.rules[r].pending # s[1] \/ t.rules[r].revoked THEN t.rules[r]
                     ELSE IF outcome = "succeeded" THEN [t.rules[r] EXCEPT !.revoked = TRUE]
                     ELSE [t.rules[r] EXCEPT !.pending = NoPlan]
<1>1. CASE Kind(s) # "rule.revoke"
  BY <1>1 DEF settle_rule_revoke
<1>2. CASE Kind(s) = "rule.revoke"
  <2>1. u = [t EXCEPT !.rules = [r \in Rules |-> new(r)]]
    BY <1>2 DEF settle_rule_revoke
  <2>2. \A r \in Rules : t.rules[r] \in RuleRow
    BY DEF Tables
  <2>3. \A r \in Rules : /\ new(r) \in RuleRow
                         /\ t.rules[r].revoked => new(r).revoked
                         /\ new(r) = t.rules[r] \/ t.rules[r].pending = s[1]
    BY <2>2 DEF RuleRow
  <2> HIDE DEF new
  <2>4. u \in Tables /\ u.act = t.act /\ u.adm = t.adm /\ u.rules = [r \in Rules |-> new(r)]
    BY <2>1, <2>3 DEF Tables
  <2> HIDE DEF u
  <2>5. \A r \in Rules : u.rules[r] = new(r)
    BY <2>4
  <2> QED
    BY <1>2, <2>3, <2>4, <2>5 DEF u
<1> QED
  BY <1>1, <1>2

\* A transaction that ends or marks actions of s[1] keeps the types, writes of
\* the admissions only their end, and touches the mark of a rule only where it
\* ends a rule.revoke of the plan that set it.
Settles(t, u, s) ==
  /\ u \in Tables
  /\ \A q \in Plans : /\ u.adm[q].seq = t.adm[q].seq /\ u.adm[q].at = t.adm[q].at
                      /\ u.adm[q].before = t.adm[q].before
  /\ \A r \in Rules :
       /\ t.rules[r].revoked => u.rules[r].revoked
       /\ \/ u.rules[r] = t.rules[r]
          \/ Kind(s) = "rule.revoke" /\ t.rules[r].pending = s[1] /\ u.act[s].done
  /\ \A x \in Steps : t.act[x].done => u.act[x].done

\* The common end of finish_action and of a result line.
LEMMA EndAction ==
  ASSUME load \in Loads, NEW t \in Tables, NEW s \in Steps, NEW outcome \in EndNames,
         NEW row \in ActRow, row.done,
         NEW set \in Tables, set = [t EXCEPT !.act = [t.act EXCEPT ![s] = row]]
  PROVE  LET u == finish_admission_if_done(settle_rule_revoke(set, s, outcome), s[1])
         IN  Settles(t, u, s) /\ u.act = [t.act EXCEPT ![s] = row]
<1> DEFINE v == settle_rule_revoke(set, s, outcome)
           u == finish_admission_if_done(v, s[1])
<1>1. s[1] \in Plans
  BY StepParts
<1>2. set.act = [t.act EXCEPT ![s] = row] /\ set.adm = t.adm /\ set.rules = t.rules
  BY DEF Tables
<1>3. /\ v \in Tables /\ v.act = set.act /\ v.adm = set.adm
      /\ \A r \in Rules : /\ set.rules[r].revoked => v.rules[r].revoked
                          /\ \/ v.rules[r] = set.rules[r]
                             \/ Kind(s) = "rule.revoke" /\ set.rules[r].pending = s[1]
  BY SettleRevoke
<1> HIDE DEF v
<1>4. /\ u \in Tables /\ u.act = v.act /\ u.rules = v.rules
      /\ \A q \in Plans : /\ u.adm[q].seq = v.adm[q].seq /\ u.adm[q].at = v.adm[q].at
                          /\ u.adm[q].before = v.adm[q].before
  BY <1>1, <1>3, FinishAdmission
<1> HIDE DEF u
<1>5. u.act = [t.act EXCEPT ![s] = row] /\ t.act \in [Steps -> ActRow]
  BY <1>2, <1>3, <1>4 DEF Tables
<1>6. u.act[s].done /\ \A x \in Steps : t.act[x].done => u.act[x].done
  BY <1>5
<1>7. Settles(t, u, s)
  BY <1>2, <1>3, <1>4, <1>6 DEF Settles
<1> QED
  BY <1>5, <1>7 DEF u, v

\* The row of an action the agent ended.
Recorded(a, outcome) == [a EXCEPT !.done = TRUE, !.outcome = outcome]

\* finish_action ends an action that has not ended, and changes no other row.
LEMMA FinishActionEffect ==
  ASSUME load \in Loads, NEW t \in Tables, NEW s \in Steps, NEW outcome \in Outcomes
  PROVE  LET u == finish_action(t, s, outcome)
         IN  /\ Settles(t, u, s)
             /\ \/ u.act = t.act
                \/ /\ ~t.act[s].done
                   /\ u.act = [t.act EXCEPT ![s] = Recorded(t.act[s], outcome)]
<1> DEFINE row == [t.act[s] EXCEPT !.done = TRUE, !.outcome = outcome]
           set == [t EXCEPT !.act = [t.act EXCEPT ![s] = row]]
           u == finish_action(t, s, outcome)
<1>1. t.act \in [Steps -> ActRow] /\ t.act[s] \in ActRow /\ s[1] \in Plans
  BY StepParts DEF Tables
<1>2. row \in ActRow /\ row.done
  <2> DEFINE a == t.act[s]
  <2> HIDE DEF a
  <2>1. a \in ActRow
    BY <1>1 DEF a
  <2>2. LET w == [a EXCEPT !.done = TRUE, !.outcome = outcome] IN w \in ActRow /\ w.done
    BY <2>1 DEF ActRow, EndNames
  <2> QED
    BY <2>2 DEF a
<1>3. CASE t.act[s].done
  <2>1. u = finish_admission_if_done(t, s[1])
    BY <1>3 DEF finish_action
  <2>2. /\ u \in Tables /\ u.act = t.act /\ u.rules = t.rules
        /\ \A q \in Plans : /\ u.adm[q].seq = t.adm[q].seq /\ u.adm[q].at = t.adm[q].at
                            /\ u.adm[q].before = t.adm[q].before
    BY <1>1, <2>1, FinishAdmission
  <2> HIDE DEF u
  <2> QED
    BY <2>2 DEF Settles, u
<1>4. CASE ~t.act[s].done
  <2>1. set \in Tables
    <3> HIDE DEF row
    <3> QED BY <1>1, <1>2 DEF Tables
  <2>2. u = finish_admission_if_done(settle_rule_revoke(set, s, outcome), s[1])
    BY <1>4 DEF finish_action, Tables
  <2> HIDE DEF set, row
  <2>3. Settles(t, u, s) /\ u.act = [t.act EXCEPT ![s] = row]
    <3>1. set = [t EXCEPT !.act = [t.act EXCEPT ![s] = row]]
      BY DEF set
    <3>2. outcome \in EndNames
      BY DEF EndNames
    <3> HIDE DEF u
    <3> QED
      BY <1>2, <2>1, <2>2, <3>1, <3>2, EndAction
  <2> QED
    BY <1>4, <2>3 DEF row, Recorded
<1> QED
  BY <1>3, <1>4

\* apply_line writes what the line says of its action, and nothing else.
LEMMA ApplyLineEffect ==
  ASSUME load \in Loads, NEW t \in Tables, NEW line \in Line, NEW seq \in Nat
  PROVE  LET u == apply_line(t, line, seq)  s == line.step
         IN  /\ Settles(t, u, s)
             /\ \/ /\ line.event = "consumed"
                   /\ \/ t.act[s].consumed # 0 /\ u.act = t.act
                      \/ /\ t.act[s].consumed = 0
                         /\ u.act = [t.act EXCEPT ![s] = [@ EXCEPT !.consumed = seq]]
                \/ /\ line.event = "result"
                   /\ u.act = [t.act EXCEPT ![s] = [@ EXCEPT !.done = TRUE,
                                                      !.outcome = line.outcome, !.result = seq]]
                \/ line.event = "op" /\ u.act = t.act
<1> DEFINE s == line.step
           u == apply_line(t, line, seq)
<1>1. s \in Steps /\ line.event \in Events /\ line.outcome \in EndNames
  BY DEF Line
<1>2. t.act \in [Steps -> ActRow] /\ t.act[s] \in ActRow
  BY <1>1 DEF Tables
<1>3. Settles(t, t, s)
  BY DEF Settles
<1>4. CASE line.event = "op"
  BY <1>3, <1>4 DEF apply_line
<1>5. CASE line.event = "consumed" /\ t.act[s].consumed # 0
  BY <1>3, <1>5 DEF apply_line
<1>6. CASE line.event = "consumed" /\ t.act[s].consumed = 0
  <2> DEFINE row == [t.act[s] EXCEPT !.consumed = seq]
             set == [t EXCEPT !.act = [t.act EXCEPT ![s] = row]]
  <2>1. u = set
    BY <1>6 DEF apply_line, Tables
  <2>2. row \in ActRow /\ row.done = t.act[s].done
    BY <1>2 DEF ActRow
  <2>3. set \in Tables /\ set.adm = t.adm /\ set.rules = t.rules /\ set.act = [t.act EXCEPT ![s] = row]
    <3> HIDE DEF row
    <3> QED BY <1>2, <2>2 DEF Tables
  <2> HIDE DEF set, u
  <2>4. u.act = [t.act EXCEPT ![s] = row] /\ u \in Tables /\ u.adm = t.adm /\ u.rules = t.rules
    BY <2>1, <2>3
  <2>5. Settles(t, u, s)
    <3> HIDE DEF row
    <3> QED BY <1>1, <1>2, <2>2, <2>4 DEF Settles
  <2> QED
    BY <1>6, <2>4, <2>5 DEF row, u
<1>7. CASE line.event = "result"
  <2> DEFINE row == [t.act[s] EXCEPT !.done = TRUE, !.outcome = line.outcome, !.result = seq]
             set == [t EXCEPT !.act = [t.act EXCEPT ![s] = row]]
  <2>1. u = finish_admission_if_done(settle_rule_revoke(set, s, line.outcome), s[1])
    BY <1>7 DEF apply_line, Tables
  <2>2. row \in ActRow /\ row.done
    <3> DEFINE a == t.act[s]
               o == line.outcome
    <3>1. a \in ActRow /\ o \in EndNames
      BY <1>1, <1>2
    <3> HIDE DEF a, o
    <3>2. LET w == [a EXCEPT !.done = TRUE, !.outcome = o, !.result = seq] IN w \in ActRow /\ w.done
      BY <3>1 DEF ActRow
    <3> QED
      BY <3>2 DEF a, o
  <2>3. set \in Tables
    <3> HIDE DEF row
    <3> QED BY <1>2, <2>2 DEF Tables
  <2> HIDE DEF set, row
  <2>4. Settles(t, u, s) /\ u.act = [t.act EXCEPT ![s] = row]
    <3>1. set = [t EXCEPT !.act = [t.act EXCEPT ![s] = row]]
      BY DEF set
    <3> HIDE DEF u
    <3> QED
      BY <1>1, <2>1, <2>2, <2>3, <3>1, EndAction
  <2> QED
    BY <1>7, <2>4 DEF row
<1> QED
  BY <1>1, <1>4, <1>5, <1>6, <1>7 DEF Events

----------------------------------------------------------------------------
(* The inductive invariant.                                                *)

\* The plans never change.
LEMMA Frame ==
  ASSUME load' = load
  PROVE  /\ Steps' = Steps /\ \A p : StepsOf(p)' = StepsOf(p)
         /\ \A s : Kind(s)' = Kind(s) /\ RuleOf(s)' = RuleOf(s)
  BY DEF Steps, StepsOf, Kind, RuleOf, Actions

\* An empty store.
LEMMA InitLedger == Init => LedgerInv
<1> SUFFICES ASSUME Init PROVE LedgerInv
  OBVIOUS
<1>1. LedgerType
  <2>1. NoRow \in AdmRow /\ FreshAction \in ActRow
    BY DEF NoRow, FreshAction, AdmRow, ActRow, EndNames
  <2>2. [created |-> FALSE, revoked |-> FALSE, pending |-> NoPlan] \in RuleRow
    BY DEF RuleRow
  <2> QED
    BY <2>1, <2>2 DEF Init, LedgerType
<1>2. Admitted = {}
  <2>1. NoRow.seq = 0
    BY DEF NoRow
  <2> QED
    BY <2>1 DEF Init, Admitted
<1>3. SeqsCount
  BY <1>2, FS_EmptySet DEF SeqsCount, LastSeq
<1>4. LogOnce /\ LogWins
  <2>1. FreshAction.consumed = 0 /\ FreshAction.result = 0
    BY DEF FreshAction
  <2>2. \A x \in Steps : act[x] = FreshAction
    BY DEF Init
  <2> QED
    BY <2>1, <2>2 DEF Init, LogOnce, LogWins
<1>5. HeadsAreHistory
  BY <1>2 DEF Init, HeadsAreHistory
<1>6. MarksStand
  BY <1>2 DEF MarksStand
<1> QED
  BY <1>1, <1>3, <1>4, <1>5, <1>6 DEF LedgerInv

\* The heads stay the history when no admission and no head changes.
LEMMA HeadsKept ==
  ASSUME HeadsAreHistory, heads \in [Scopes -> Seq(Plans)], heads' = heads, Admitted' = Admitted,
         \A q \in Plans : adm'[q].seq = adm[q].seq /\ adm'[q].before = adm[q].before
  PROVE  HeadsAreHistory'
<1> SUFFICES ASSUME NEW c \in Scopes
             PROVE  /\ {heads[c][i] : i \in 1..Len(heads[c])} = {p \in Admitted : Scope[p] = c}
                    /\ \A i \in 1..Len(heads[c]) :
                         /\ adm'[heads[c][i]].before = SubSeq(heads[c], 1, i - 1)
                         /\ \A j \in 1..i - 1 : adm'[heads[c][j]].seq < adm'[heads[c][i]].seq
  BY DEF HeadsAreHistory
<1>1. \A i \in 1..Len(heads[c]) : heads[c][i] \in Plans
  BY SeqElement
<1>2. /\ {heads[c][i] : i \in 1..Len(heads[c])} = {p \in Admitted : Scope[p] = c}
      /\ \A i \in 1..Len(heads[c]) :
           /\ adm[heads[c][i]].before = SubSeq(heads[c], 1, i - 1)
           /\ \A j \in 1..i - 1 : adm[heads[c][j]].seq < adm[heads[c][i]].seq
  BY DEF HeadsAreHistory
<1>3. \A i \in 1..Len(heads[c]) : \A j \in 1..i - 1 : j \in 1..Len(heads[c])
  OBVIOUS
<1> QED
  BY <1>1, <1>2, <1>3

\* What every transaction on the tables keeps.
LEMMA SettleStep ==
  ASSUME LedgerInv, NEW u, NEW s \in Steps, Settles(tables, u, s), Commit(u),
         UNCHANGED <<load, now, heads>>
  PROVE  /\ Admitted' = Admitted
         /\ act' \in [Steps -> ActRow] /\ adm' \in [Plans -> AdmRow] /\ rules' \in [Rules -> RuleRow]
         /\ SeqsCount' /\ HeadsAreHistory' /\ MarksStand'
<1>1. act' \in [Steps -> ActRow] /\ adm' \in [Plans -> AdmRow] /\ rules' \in [Rules -> RuleRow]
  BY DEF Settles, Commit, Tables
<1>2. \A q \in Plans : adm'[q].seq = adm[q].seq /\ adm'[q].before = adm[q].before
  BY DEF Settles, Commit, tables
<1>3. Admitted' = Admitted
  BY <1>2 DEF Admitted
<1>4. SeqsCount'
  BY <1>2, <1>3 DEF SeqsCount, LastSeq, LedgerInv, Admitted
<1>5. HeadsAreHistory'
  BY <1>2, <1>3, HeadsKept DEF LedgerInv, LedgerType
<1>6. MarksStand'
  <2> SUFFICES ASSUME NEW x \in Steps, x[1] \in Admitted, Kind(x) = "rule.revoke",
                      \A t \in StepsOf(x[1]) : Kind(t) = "rule.revoke" => ~act'[t].done
               PROVE  rules'[RuleOf(x)].pending = x[1] \/ rules'[RuleOf(x)].revoked
    BY <1>3, Frame DEF MarksStand
  <2>1. RuleOf(x) \in Rules /\ x \in StepsOf(x[1])
    BY StepParts DEF LedgerInv, LedgerType, StepsOf
  <2>2. \A t \in Steps : act[t].done => act'[t].done
    BY DEF Settles, Commit, tables
  <2>3. rules[RuleOf(x)].pending = x[1] \/ rules[RuleOf(x)].revoked
    BY <2>2 DEF LedgerInv, MarksStand, StepsOf
  <2>4. CASE rules[RuleOf(x)].revoked
    BY <2>1, <2>4 DEF Settles, Commit, tables
  <2>5. CASE rules[RuleOf(x)].pending = x[1] /\ rules'[RuleOf(x)] = rules[RuleOf(x)]
    BY <2>5
  <2>6. CASE /\ rules[RuleOf(x)].pending = x[1] /\ rules'[RuleOf(x)] # rules[RuleOf(x)]
    <3>1. Kind(s) = "rule.revoke" /\ rules[RuleOf(x)].pending = s[1] /\ act'[s].done
      BY <2>1, <2>6 DEF Settles, Commit, tables
    <3>2. s \in StepsOf(x[1])
      BY <2>6, <3>1 DEF StepsOf
    <3> QED
      BY <3>1, <3>2
  <2> QED
    BY <2>3, <2>4, <2>5, <2>6
<1> QED
  BY <1>1, <1>3, <1>4, <1>5, <1>6

\* The tables have their types.
LEMMA TablesType == LedgerType => tables \in Tables
  BY DEF LedgerType, tables, Tables

\* finish_action keeps the invariant: an outcome of the agent stands only
\* where no result line was read.
LEMMA FinishStep ==
  ASSUME LedgerInv, NEW s \in Steps, NEW outcome \in Outcomes,
         Commit(finish_action(tables, s, outcome)), UNCHANGED <<load, now, heads, log, cursor>>
  PROVE  LedgerInv'
<1> DEFINE u == finish_action(tables, s, outcome)
<1>1. /\ Settles(tables, u, s)
      /\ \/ u.act = act
         \/ /\ ~act[s].done
            /\ u.act = [act EXCEPT ![s] = Recorded(act[s], outcome)]
  <2>1. load \in Loads /\ tables \in Tables /\ tables.act = act
    BY TablesType DEF LedgerInv, LedgerType, tables
  <2>2. /\ Settles(tables, u, s)
        /\ \/ u.act = tables.act
           \/ /\ ~tables.act[s].done
              /\ u.act = [tables.act EXCEPT ![s] = Recorded(tables.act[s], outcome)]
    BY <2>1, FinishActionEffect
  <2> HIDE DEF u
  <2> QED
    BY <2>1, <2>2
<1> HIDE DEF u
<1>2. Commit(u)
  BY DEF u
<1>3. /\ Admitted' = Admitted /\ SeqsCount' /\ HeadsAreHistory' /\ MarksStand'
      /\ act' \in [Steps -> ActRow] /\ adm' \in [Plans -> AdmRow] /\ rules' \in [Rules -> RuleRow]
  BY <1>1, <1>2, SettleStep
<1>4. Steps' = Steps /\ Line' = Line
  BY Frame DEF Line
<1>5. LedgerType'
  BY <1>3, <1>4 DEF LedgerInv, LedgerType
<1>6. LogOnce'
  BY <1>3 DEF LedgerInv, LogOnce
<1>7. \A x \in Steps : /\ act'[x].consumed = act[x].consumed /\ act'[x].result = act[x].result
                       /\ act[x].done => act'[x].done /\ act'[x].outcome = act[x].outcome
  <2>1. act' = u.act /\ act \in [Steps -> ActRow]
    BY <1>2 DEF Commit, LedgerInv, LedgerType
  <2>2. CASE u.act = act
    BY <2>1, <2>2
  <2>3. CASE /\ ~act[s].done
             /\ u.act = [act EXCEPT ![s] = Recorded(act[s], outcome)]
    BY <2>1, <2>3 DEF ActRow, Recorded
  <2> QED
    BY <1>1, <2>2, <2>3
<1>8. LogWins'
  BY <1>4, <1>7 DEF LedgerInv, LogWins
<1> QED
  BY <1>3, <1>5, <1>6, <1>8 DEF LedgerInv

\* A pass applies each line to the row of its action, once.
LEMMA ReconcileStep == LedgerInv /\ Reconcile => LedgerInv'
<1> SUFFICES ASSUME LedgerInv, Reconcile PROVE LedgerInv'
  OBVIOUS
<1> DEFINE n == cursor + 1
           line == log[n]
           s == line.step
           u == apply_line(tables, line, n)
<1>1. n \in 1..Len(log) /\ cursor \in Nat /\ n \in Nat /\ cursor' = n
  BY DEF LedgerInv, LedgerType, Reconcile
<1>2. line \in Line /\ s \in Steps /\ s[1] \in Admitted
  <2>1. line \in Line
    BY <1>1, SeqElement DEF LedgerInv, LedgerType
  <2> QED
    BY <1>1, <2>1 DEF Line, LedgerInv, LogOnce
<1>3. Commit(u) /\ UNCHANGED <<load, now, heads, log>>
  BY <1>2 DEF Reconcile
<1>4. /\ Settles(tables, u, s)
      /\ \/ /\ line.event = "consumed"
            /\ \/ act[s].consumed # 0 /\ u.act = act
               \/ /\ act[s].consumed = 0
                  /\ u.act = [act EXCEPT ![s] = [@ EXCEPT !.consumed = n]]
         \/ /\ line.event = "result"
            /\ u.act = [act EXCEPT ![s] = [@ EXCEPT !.done = TRUE,
                                             !.outcome = line.outcome, !.result = n]]
         \/ line.event = "op" /\ u.act = act
  <2>1. load \in Loads /\ tables \in Tables /\ tables.act = act
    BY TablesType DEF LedgerInv, LedgerType, tables
  <2> HIDE DEF line, n
  <2> QED
    BY <1>1, <1>2, <2>1, ApplyLineEffect
<1> HIDE DEF u
<1>5. /\ Admitted' = Admitted /\ SeqsCount' /\ HeadsAreHistory' /\ MarksStand'
      /\ act' \in [Steps -> ActRow] /\ adm' \in [Plans -> AdmRow] /\ rules' \in [Rules -> RuleRow]
  BY <1>2, <1>3, <1>4, SettleStep
<1>6. Steps' = Steps /\ Line' = Line
  BY <1>3, Frame DEF Line
<1>7. LedgerType'
  BY <1>1, <1>3, <1>5, <1>6 DEF LedgerInv, LedgerType
<1>8. LogOnce'
  BY <1>3, <1>5 DEF LedgerInv, LogOnce
<1>9. LogWins'
  <2> USE DEF LedgerInv
  <2>1. act \in [Steps -> ActRow] /\ act[s] \in ActRow
    BY <1>2 DEF LedgerType
  <2>2. \A k \in 1..n : k \in 1..cursor \/ k = n
    BY <1>1
  <2> SUFFICES ASSUME NEW x \in Steps
               PROVE  /\ \A k \in 1..n : log[k].step = x =>
                           /\ log[k].event = "consumed" => act'[x].consumed = k
                           /\ log[k].event = "result" =>
                                act'[x].done /\ act'[x].result = k /\ act'[x].outcome = log[k].outcome
                      /\ act'[x].consumed # 0 =>
                           /\ act'[x].consumed <= n
                           /\ log[act'[x].consumed].event = "consumed" /\ log[act'[x].consumed].step = x
                      /\ act'[x].result # 0 =>
                           /\ act'[x].result <= n
                           /\ log[act'[x].result].event = "result" /\ log[act'[x].result].step = x
    BY <1>1, <1>3, <1>6 DEF LogWins
  <2>3. act[x] \in ActRow
    BY <2>1
  <2>4. /\ \A k \in 1..cursor : log[k].step = x =>
             /\ log[k].event = "consumed" => act[x].consumed = k
             /\ log[k].event = "result" =>
                  act[x].done /\ act[x].result = k /\ act[x].outcome = log[k].outcome
        /\ act[x].consumed # 0 =>
             /\ act[x].consumed <= cursor
             /\ log[act[x].consumed].event = "consumed" /\ log[act[x].consumed].step = x
        /\ act[x].result # 0 =>
             /\ act[x].result <= cursor
             /\ log[act[x].result].event = "result" /\ log[act[x].result].step = x
    BY DEF LogWins
  <2>5. CASE x # s \/ line.event = "op"
    <3>1. act'[x] = act[x]
      BY <1>3, <1>4, <2>1, <2>5 DEF Commit
    <3> QED
      BY <1>1, <2>2, <2>3, <2>4, <2>5, <3>1 DEF ActRow
  <2>6. CASE x = s /\ line.event = "consumed"
    <3>1. act[s].consumed = 0
      <4> SUFFICES ASSUME act[s].consumed # 0 PROVE FALSE
        OBVIOUS
      <4> DEFINE j == act[s].consumed
      <4>1. j \in Nat /\ j <= cursor /\ log[j].event = "consumed" /\ log[j].step = s
        BY <2>3, <2>4, <2>6 DEF ActRow
      <4>2. j \in 1..Len(log) /\ j # n
        BY <1>1, <4>1
      <4> HIDE DEF j, n
      <4> QED
        BY <1>1, <2>6, <4>1, <4>2 DEF LogOnce
    <3>2. act'[x] = [act[x] EXCEPT !.consumed = n]
      BY <1>3, <1>4, <2>1, <2>6, <3>1 DEF Commit
    <3> QED
      BY <1>1, <2>2, <2>3, <2>4, <2>6, <3>1, <3>2 DEF ActRow
  <2>7. CASE x = s /\ line.event = "result"
    <3>1. \A k \in 1..cursor : log[k].step = s => log[k].event # "result"
      BY <1>1, <2>7 DEF LogOnce
    <3>2. act'[x] = [act[x] EXCEPT !.done = TRUE, !.outcome = line.outcome, !.result = n]
      BY <1>3, <1>4, <2>1, <2>7 DEF Commit
    <3>3. act'[x].done /\ act'[x].outcome = line.outcome /\ act'[x].result = n
          /\ act'[x].consumed = act[x].consumed
      BY <2>3, <3>2 DEF ActRow
    <3> QED
      BY <1>1, <2>2, <2>3, <2>4, <2>7, <3>1, <3>3 DEF ActRow
  <2> QED
    BY <1>4, <2>5, <2>6, <2>7
<1> QED
  BY <1>5, <1>7, <1>8, <1>9 DEF LedgerInv

\* A line the runner appends is not read yet; a second consumed or result line
\* of an action is never written.
LEMMA WriteStep ==
  ASSUME LedgerInv, NEW line \in Line, line.step[1] \in Admitted,
         line.event # "op" => ~Logged(line.event, line.step),
         log' = Append(log, line), UNCHANGED <<load, now, adm, act, heads, rules, cursor>>
  PROVE  LedgerInv'
<1>3. log \in Seq(Line) /\ Len(log) \in Nat /\ cursor \in 0..Len(log)
  BY DEF LedgerInv, LedgerType
<1>4. /\ log' \in Seq(Line) /\ Len(log') = Len(log) + 1 /\ log'[Len(log) + 1] = line
      /\ \A k \in 1..Len(log) : log'[k] = log[k]
  BY <1>3
<1>5. /\ Steps' = Steps /\ Admitted' = Admitted /\ Line' = Line
      /\ \A p : StepsOf(p)' = StepsOf(p)
      /\ \A x : Kind(x)' = Kind(x) /\ RuleOf(x)' = RuleOf(x)
  BY Frame DEF Admitted, Line
<1>6. LedgerType'
  BY <1>3, <1>4, <1>5 DEF LedgerInv, LedgerType
<1>7. LogOnce'
  <2>1. \A k \in 1..Len(log') : k \in 1..Len(log) \/ k = Len(log) + 1
    BY <1>3, <1>4
  <2>2. \A k \in 1..Len(log) : line.event # "op" => ~(log[k].event = line.event /\ log[k].step = line.step)
    BY DEF Logged
  <2>3. \A k \in 1..Len(log') : log'[k].step[1] \in Admitted
    BY <1>4, <2>1 DEF LedgerInv, LogOnce
  <2>4. ASSUME NEW j \in 1..Len(log'), NEW k \in 1..Len(log'),
               log'[j].event \in {"consumed", "result"},
               log'[j].event = log'[k].event, log'[j].step = log'[k].step
        PROVE  j = k
    <3>1. CASE j \in 1..Len(log) /\ k \in 1..Len(log)
      BY <1>4, <2>4, <3>1 DEF LedgerInv, LogOnce
    <3>2. CASE j = Len(log) + 1 /\ k \in 1..Len(log)
      BY <1>4, <2>2, <2>4, <3>2
    <3>3. CASE k = Len(log) + 1 /\ j \in 1..Len(log)
      BY <1>4, <2>2, <2>4, <3>3
    <3> QED
      BY <2>1, <3>1, <3>2, <3>3
  <2> QED
    BY <1>5, <2>3, <2>4 DEF LogOnce
<1>8. LogWins'
  <2>1. \A k \in 1..cursor : k \in 1..Len(log)
    BY <1>3
  <2>2. \A x \in Steps : act[x].consumed \in Nat /\ act[x].result \in Nat
    BY DEF LedgerInv, LedgerType, ActRow
  <2>3. \A x \in Steps : /\ act[x].consumed # 0 => act[x].consumed \in 1..Len(log)
                         /\ act[x].result # 0 => act[x].result \in 1..Len(log)
    BY <1>3, <2>2 DEF LedgerInv, LogWins
  <2> QED
    BY <1>4, <1>5, <2>1, <2>3 DEF LedgerInv, LogWins
<1>9. SeqsCount' /\ HeadsAreHistory' /\ MarksStand'
  <2>1. HeadsAreHistory'
    BY <1>5, HeadsKept DEF LedgerInv, LedgerType
  <2>2. SeqsCount'
    BY <1>5 DEF LedgerInv, SeqsCount, LastSeq
  <2>3. MarksStand'
    BY <1>5 DEF LedgerInv, MarksStand
  <2> QED
    BY <2>1, <2>2, <2>3
<1> QED
  BY <1>6, <1>7, <1>8, <1>9 DEF LedgerInv

\* The end of the window ends only actions no line was read of.
LEMMA ExpireStep == LedgerInv /\ ExpireWindows => LedgerInv'
<1> SUFFICES ASSUME LedgerInv, ExpireWindows PROVE LedgerInv'
  OBVIOUS
<1>1. UNCHANGED <<load, now, heads, rules, log, cursor>>
  BY DEF ExpireWindows
<1>2. act \in [Steps -> ActRow] /\ adm \in [Plans -> AdmRow]
  BY DEF LedgerInv, LedgerType
<1>3. \A x \in Steps :
        /\ act'[x] \in ActRow
        /\ \/ act'[x] = act[x]
           \/ /\ ~act[x].done /\ act'[x].done
              /\ act'[x].consumed = act[x].consumed /\ act'[x].result = act[x].result
  BY <1>2 DEF ExpireWindows, ActRow, EndNames, Outcomes
<1>4. \A p \in Plans : /\ adm'[p] \in AdmRow
                       /\ adm'[p].seq = adm[p].seq /\ adm'[p].before = adm[p].before
  BY <1>2 DEF ExpireWindows, AdmRow, EndNames, Outcomes
<1>5. act' \in [Steps -> ActRow] /\ adm' \in [Plans -> AdmRow]
  BY <1>3, <1>4 DEF ExpireWindows
<1>6. Steps' = Steps /\ Line' = Line /\ Admitted' = Admitted
  BY <1>1, <1>4, Frame DEF Line, Admitted
<1>7. LedgerType' /\ LogOnce'
  BY <1>1, <1>5, <1>6 DEF LedgerInv, LedgerType, LogOnce
<1>8. LogWins'
  BY <1>1, <1>3, <1>6 DEF LedgerInv, LogWins
<1>9. SeqsCount'
  BY <1>4, <1>6 DEF LedgerInv, SeqsCount, LastSeq, Admitted
<1>10. MarksStand'
  BY <1>1, <1>3, <1>6, Frame DEF LedgerInv, MarksStand, StepsOf
<1>11. HeadsAreHistory'
  BY <1>1, <1>4, <1>6, HeadsKept DEF LedgerInv, LedgerType
<1> QED
  BY <1>7, <1>8, <1>9, <1>10, <1>11 DEF LedgerInv

\* An admission extends the head of its scope, is later than all others, and
\* marks only rules no plan has marked.
LEMMA AdmitStep == ASSUME LedgerInv, NEW p \in Plans, Admit(p) PROVE LedgerInv'
<1> DEFINE row == [NoRow EXCEPT !.seq = LastSeq + 1, !.at = now, !.before = heads[Scope[p]]]
           new(r) == [rules[r] EXCEPT !.created = @ \/ Creates(p, r),
                                      !.pending = IF Revokes(p, r) THEN p ELSE @]
<1>1. /\ p \notin Admitted /\ execution_preconditions(p) /\ UNCHANGED <<load, now, act, log, cursor>>
      /\ adm' = [adm EXCEPT ![p] = row] /\ heads' = [heads EXCEPT ![Scope[p]] = Append(@, p)]
      /\ rules' = [r \in Rules |-> new(r)]
  BY DEF Admit, write_admission
<1>2. LastSeq \in Nat /\ IsFiniteSet(Admitted) /\ Scope[p] \in Scopes /\ heads[Scope[p]] \in Seq(Plans)
  BY FS_CardinalityType, LedgerAssumption DEF LedgerInv, SeqsCount, LedgerType, LastSeq
<1>3. row \in AdmRow /\ row.seq = LastSeq + 1 /\ row.before = heads[Scope[p]]
  <2> DEFINE q == heads[Scope[p]]
             n == LastSeq + 1
  <2>1. q \in Seq(Plans) /\ n \in Nat /\ now \in Nat
    BY <1>2 DEF LedgerInv, LedgerType
  <2> HIDE DEF q, n
  <2>2. LET w == [NoRow EXCEPT !.seq = n, !.at = now, !.before = q]
        IN  w \in AdmRow /\ w.seq = n /\ w.before = q
    BY <2>1 DEF NoRow, AdmRow, EndNames
  <2> QED
    BY <2>2 DEF q, n
<1>4. \A r \in Rules : /\ new(r) \in RuleRow /\ new(r).revoked = rules[r].revoked
                       /\ new(r).pending = IF Revokes(p, r) THEN p ELSE rules[r].pending
  BY DEF LedgerInv, LedgerType, RuleRow
<1> HIDE DEF row, new
<1>5. /\ adm' \in [Plans -> AdmRow] /\ adm'[p] = row
      /\ \A q \in Plans \ {p} : adm'[q] = adm[q]
  BY <1>1, <1>3 DEF LedgerInv, LedgerType
<1>6. Admitted' = Admitted \cup {p}
  BY <1>2, <1>3, <1>5 DEF Admitted
<1>7. heads' \in [Scopes -> Seq(Plans)]
  BY <1>1, <1>2 DEF LedgerInv, LedgerType
<1>8. /\ Steps' = Steps /\ Line' = Line /\ \A q : StepsOf(q)' = StepsOf(q)
      /\ \A s : Kind(s)' = Kind(s) /\ RuleOf(s)' = RuleOf(s)
  BY <1>1, Frame DEF Line
<1>9. LedgerType'
  BY <1>1, <1>4, <1>5, <1>7, <1>8 DEF LedgerInv, LedgerType
<1>10. LogOnce' /\ LogWins'
  BY <1>1, <1>6, <1>8 DEF LedgerInv, LogOnce, LogWins
<1>11. SeqsCount'
  <2>1. IsFiniteSet(Admitted') /\ LastSeq' = LastSeq + 1
    BY <1>1, <1>2, <1>6, FS_AddElement DEF LastSeq
  <2>2. \A q \in Admitted : q \in Plans \ {p} /\ adm[q].seq \in Nat /\ adm[q].seq <= LastSeq
    BY <1>1 DEF LedgerInv, LedgerType, SeqsCount, Admitted, AdmRow
  <2> QED
    BY <1>2, <1>3, <1>5, <1>6, <2>1, <2>2 DEF SeqsCount
<1>12. HeadsAreHistory'
  <2> SUFFICES ASSUME NEW c \in Scopes
               PROVE  /\ {heads'[c][i] : i \in 1..Len(heads'[c])} = {q \in Admitted' : Scope[q] = c}
                      /\ \A i \in 1..Len(heads'[c]) :
                           /\ adm'[heads'[c][i]].before = SubSeq(heads'[c], 1, i - 1)
                           /\ \A j \in 1..i - 1 : adm'[heads'[c][j]].seq < adm'[heads'[c][i]].seq
    BY DEF HeadsAreHistory
  <2> DEFINE h == heads[c]
  <2>1. /\ {h[i] : i \in 1..Len(h)} = {q \in Admitted : Scope[q] = c}
        /\ \A i \in 1..Len(h) : /\ adm[h[i]].before = SubSeq(h, 1, i - 1)
                                /\ \A j \in 1..i - 1 : adm[h[j]].seq < adm[h[i]].seq
    BY DEF LedgerInv, HeadsAreHistory
  <2>2. h \in Seq(Plans) /\ Len(h) \in Nat
    BY DEF LedgerInv, LedgerType
  <2>3. \A i \in 1..Len(h) : /\ h[i] \in Admitted /\ h[i] \in Plans \ {p} /\ adm'[h[i]] = adm[h[i]]
                             /\ adm[h[i]].seq \in Nat /\ adm[h[i]].seq <= LastSeq
    <3>1. \A i \in 1..Len(h) : h[i] \in Admitted
      BY <2>1
    <3> QED
      BY <1>1, <1>5, <3>1 DEF LedgerInv, LedgerType, SeqsCount, Admitted, AdmRow
  <2>4. CASE c # Scope[p]
    <3>1. heads'[c] = h
      BY <1>1, <2>4 DEF LedgerInv, LedgerType
    <3>2. {q \in Admitted' : Scope[q] = c} = {q \in Admitted : Scope[q] = c}
      BY <1>6, <2>4
    <3>3. \A i \in 1..Len(h) : \A j \in 1..i - 1 : j \in 1..Len(h)
      BY <2>2
    <3> HIDE DEF h
    <3>4. \A i \in 1..Len(h) : /\ adm'[h[i]].before = SubSeq(h, 1, i - 1)
                              /\ \A j \in 1..i - 1 : adm'[h[j]].seq < adm'[h[i]].seq
      BY <2>1, <2>3, <3>3
    <3> QED
      BY <2>1, <3>1, <3>2, <3>4
  <2>5. CASE c = Scope[p]
    <3> DEFINE g == Append(h, p)
    <3>1. heads'[c] = g
      BY <1>1, <2>5 DEF LedgerInv, LedgerType
    <3> HIDE DEF h
    <3>2. Len(g) = Len(h) + 1 /\ g[Len(h) + 1] = p /\ \A i \in 1..Len(h) : g[i] = h[i]
      BY <2>2
    <3>3. \A i \in 1..Len(h) + 1 : SubSeq(g, 1, i - 1) = SubSeq(h, 1, i - 1)
      BY <2>2
    <3>4. SubSeq(h, 1, Len(h)) = h
      BY <2>2
    <3> HIDE DEF g
    <3>5. {g[i] : i \in 1..Len(g)} = {h[i] : i \in 1..Len(h)} \cup {p}
      <4>1. \A i \in 1..Len(g) : i \in 1..Len(h) \/ i = Len(h) + 1
        BY <2>2, <3>2
      <4>2. \A i \in 1..Len(h) : i \in 1..Len(g)
        BY <2>2, <3>2
      <4>3. Len(h) + 1 \in 1..Len(g)
        BY <2>2, <3>2
      <4> QED
        BY <3>2, <4>1, <4>2, <4>3
    <3>6. {q \in Admitted' : Scope[q] = c} = {q \in Admitted : Scope[q] = c} \cup {p}
      BY <1>6, <2>5
    <3>7. ASSUME NEW i \in 1..Len(g)
          PROVE  /\ adm'[g[i]].before = SubSeq(g, 1, i - 1)
                 /\ \A j \in 1..i - 1 : adm'[g[j]].seq < adm'[g[i]].seq
      <4>1. CASE i \in 1..Len(h)
        <5>1. \A j \in 1..i - 1 : j \in 1..Len(h)
          BY <2>2, <4>1
        <5> QED
          BY <2>1, <2>2, <2>3, <3>2, <3>3, <4>1, <5>1
      <4>2. CASE i = Len(h) + 1
        <5>1. g[i] = p /\ adm'[g[i]] = row /\ SubSeq(g, 1, i - 1) = h
          BY <1>5, <2>2, <3>2, <3>3, <3>4, <4>2
        <5>2. adm'[g[i]].before = SubSeq(g, 1, i - 1)
          BY <1>3, <2>5, <5>1 DEF h
        <5>3. \A j \in 1..i - 1 : adm'[g[j]].seq \in Nat /\ adm'[g[j]].seq <= LastSeq
          BY <2>2, <2>3, <3>2, <4>2
        <5>4. adm'[g[i]].seq = LastSeq + 1
          BY <1>3, <5>1
        <5> QED
          BY <1>2, <5>2, <5>3, <5>4
      <4> QED
        BY <2>2, <3>2, <4>1, <4>2
    <3> QED
      BY <2>1, <3>1, <3>5, <3>6, <3>7
  <2> QED
    BY <2>4, <2>5
<1>13. MarksStand'
  <2> SUFFICES ASSUME NEW x \in Steps, x[1] \in Admitted', Kind(x) = "rule.revoke",
                      \A t \in StepsOf(x[1]) : Kind(t) = "rule.revoke" => ~act[t].done
               PROVE  rules'[RuleOf(x)].pending = x[1] \/ rules'[RuleOf(x)].revoked
    BY <1>1, <1>8 DEF MarksStand
  <2>1. RuleOf(x) \in Rules /\ x \in StepsOf(x[1]) /\ x[1] \in Plans
    BY StepParts DEF LedgerInv, LedgerType, StepsOf
  <2>2. CASE x[1] = p
    BY <1>1, <1>4, <2>1, <2>2 DEF Revokes
  <2>3. CASE x[1] # p
    <3>1. rules[RuleOf(x)].pending = x[1] \/ rules[RuleOf(x)].revoked
      BY <1>6, <2>3 DEF LedgerInv, MarksStand
    <3>2. ~Revokes(p, RuleOf(x))
      <4>1. rules[RuleOf(x)].pending # NoPlan \/ rules[RuleOf(x)].revoked
        BY <2>1, <3>1, LedgerAssumption
      <4> QED
        BY <1>1, <4>1 DEF Revokes, execution_preconditions, Triggers
    <3> QED
      BY <1>1, <1>4, <2>1, <3>1, <3>2
  <2> QED
    BY <2>2, <2>3
<1> QED
  BY <1>9, <1>10, <1>11, <1>12, <1>13 DEF LedgerInv

\* Every step of the ledger keeps the invariant.
LEMMA NextLedger == LedgerInv /\ [Next]_vars => LedgerInv'
<1> SUFFICES ASSUME LedgerInv, [Next]_vars PROVE LedgerInv'
  OBVIOUS
<1> USE DEF LedgerInv
<1>1. CASE Reconcile
  BY <1>1, ReconcileStep
<1>2. ASSUME NEW p \in Plans, Admit(p) PROVE LedgerInv'
  BY <1>2, AdmitStep
<1>3. ASSUME NEW s \in Steps, RunnerConsume(s) PROVE LedgerInv'
  <2> DEFINE line == [event |-> "consumed", step |-> s, op |-> "", outcome |-> ""]
  <2>1. line \in Line /\ line.event = "consumed" /\ line.step = s
    BY DEF Line, Events, EndNames
  <2>2. /\ s[1] \in Admitted /\ ~Logged("consumed", s) /\ log' = Append(log, line)
        /\ UNCHANGED <<load, now, adm, act, heads, rules, cursor>>
    BY <1>3 DEF RunnerConsume, RunnerWrites
  <2> HIDE DEF line
  <2> QED
    BY <2>1, <2>2, WriteStep
<1>4. ASSUME NEW s \in Steps, RunnerOp(s) PROVE LedgerInv'
  <2>1. PICK op \in Ops : s[1] \in Admitted /\ RunnerWrites("op", s, op, "")
    BY <1>4 DEF RunnerOp
  <2> DEFINE line == [event |-> "op", step |-> s, op |-> op, outcome |-> ""]
  <2>2. line \in Line /\ line.event = "op" /\ line.step = s
    BY DEF Line, Events, EndNames
  <2>3. log' = Append(log, line) /\ UNCHANGED <<load, now, adm, act, heads, rules, cursor>>
    BY <2>1 DEF RunnerWrites
  <2> HIDE DEF line
  <2> QED
    BY <2>1, <2>2, <2>3, WriteStep
<1>5. ASSUME NEW s \in Steps, RunnerResult(s) PROVE LedgerInv'
  <2>1. PICK outcome \in Outcomes : /\ ~Logged("result", s) /\ RunnerWrites("result", s, "", outcome)
                                    /\ Logged("consumed", s) \/ LoggedOp(s, "close")
    BY <1>5, LedgerAssumption DEF RunnerResult
  <2> DEFINE line == [event |-> "result", step |-> s, op |-> "", outcome |-> outcome]
  <2>2. line \in Line /\ line.event = "result" /\ line.step = s
    BY DEF Line, Events, EndNames
  <2>3. log' = Append(log, line) /\ UNCHANGED <<load, now, adm, act, heads, rules, cursor>>
    BY <2>1 DEF RunnerWrites
  <2>4. s[1] \in Admitted
    BY <2>1 DEF LogOnce, Logged, LoggedOp
  <2> HIDE DEF line
  <2> QED
    BY <2>1, <2>2, <2>3, <2>4, WriteStep
<1>6. ASSUME NEW s \in Steps, FinishAction(s) PROVE LedgerInv'
  <2>1. PICK outcome \in Outcomes : Commit(finish_action(tables, s, outcome))
    BY <1>6, LedgerAssumption DEF FinishAction, AgentOutcomes
  <2> QED
    BY <1>6, <2>1, FinishStep DEF FinishAction
<1>7. CASE ExpireWindows
  BY <1>7, ExpireStep
<1>8. CASE UNCHANGED <<load, adm, act, heads, rules, log, cursor>> /\ now' \in Nat
  <2>1. /\ Steps' = Steps /\ Line' = Line /\ Admitted' = Admitted
        /\ \A q : StepsOf(q)' = StepsOf(q)
        /\ \A s : Kind(s)' = Kind(s) /\ RuleOf(s)' = RuleOf(s)
    BY <1>8, Frame DEF Line, Admitted
  <2>2. LedgerType' /\ LogOnce' /\ LogWins'
    BY <1>8, <2>1 DEF LedgerType, LogOnce, LogWins
  <2>3. SeqsCount' /\ MarksStand'
    BY <1>8, <2>1 DEF SeqsCount, LastSeq, MarksStand
  <2>4. HeadsAreHistory'
    BY <1>8, <2>1, HeadsKept DEF LedgerType
  <2> QED
    BY <2>2, <2>3, <2>4
<1>9. CASE Tick \/ UNCHANGED vars
  BY <1>8, <1>9 DEF Tick, vars, LedgerType
<1> QED
  BY <1>1, <1>2, <1>3, <1>4, <1>5, <1>6, <1>7, <1>9 DEF Next

\* The invariant of the ledger (admit, apply_line, finish_action,
\* expire_windows).
THEOREM LedgerInvariant == Spec => []LedgerInv
  BY InitLedger, NextLedger, PTL DEF Spec

\* However the runner's lines, the agent's own outcomes and the end of the
\* window interleave, the rows say what the lines read so far say, and the
\* head of each scope is the chain of its admissions (apply_line,
\* finish_action, expire_windows, write_admission).
THEOREM LedgerAgrees == Spec => []LedgerHolds
<1>1. LedgerInv => LedgerHolds
  BY DEF LedgerInv, LedgerHolds
<1> QED
  BY <1>1, LedgerInvariant, PTL

\* An invariant state has no rule that triggers while its revocation is open.
LEMMA MarksFailClosed == LedgerInv => RevokeFailsClosed
<1> SUFFICES ASSUME LedgerInv, NEW s \in Steps, s[1] \in Admitted, Kind(s) = "rule.revoke",
                    \A t \in StepsOf(s[1]) : Kind(t) = "rule.revoke" => ~act[t].done
             PROVE  ~Triggers(RuleOf(s))
  BY DEF RevokeFailsClosed
<1>1. rules[RuleOf(s)].pending = s[1] \/ rules[RuleOf(s)].revoked
  BY DEF LedgerInv, MarksStand
<1>2. s[1] # NoPlan
  BY LedgerAssumption DEF Admitted
<1> QED
  BY <1>1, <1>2 DEF Triggers

\* A rule that an admitted plan revokes does not trigger until a revocation of
\* that plan ends (write_admission, settle_rule_revoke).
THEOREM RevocationFailsClosed == Spec => []RevokeFailsClosed
  BY MarksFailClosed, LedgerInvariant, PTL
=============================================================================
