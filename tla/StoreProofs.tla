----------------------------- MODULE StoreProofs -----------------------------
(***************************************************************************)
(* Proofs about what the agent keeps of who may do what.                   *)
(*                                                                         *)
(* The store: at-most-once admission across its loss, for every set of     *)
(* plans and every lifetime, skew and quarantine that satisfy              *)
(* TimesAssumption.  The argument: NothingForgotten is inductive under     *)
(* CarefulOperation.  A plan is admitted at most Skew before it was        *)
(* created, so it is dead Lifetime + 2 * Skew after any moment at which it *)
(* had been admitted; the store that replaces the one that knew it stays   *)
(* closed for longer.                                                      *)
(*                                                                         *)
(* The file of trusted keys, for any number of keys, plans and submissions *)
(* in flight: the pass over the keys of a valid file finds exactly what a  *)
(* compromised key added, and no plan that races another leaves a file     *)
(* that does not load or a server without an owner.                        *)
(***************************************************************************)
EXTENDS MCStore, DataInduction, TLAPS

----------------------------------------------------------------------------
(* The store.                                                              *)

\* What writing an admission does to a store (write_admission).
LEMMA WriteAdmission ==
  ASSUME NEW s \in Stores, NEW p \in Plans, NEW at \in Nat
  PROVE  /\ write_admission(s, p, at) \in Stores
         /\ write_admission(s, p, at).ends = s.ends
         /\ write_admission(s, p, at).admissions = s.admissions \cup {p}
  BY DEF write_admission, prune_seen, Stores

LEMMA EmptyStoreType ==
  ASSUME NEW end \in Nat
  PROVE  EmptyStore(end) \in Stores /\ EmptyStore(end).ends = end
  BY DEF EmptyStore, Stores

\* Every step keeps the types (the columns of meta, seen and admissions).
LEMMA TypeStep == TypeOK /\ [Next]_vars => TypeOK'
<1> SUFFICES ASSUME TypeOK, [Next]_vars PROVE TypeOK'
  OBVIOUS
<1> USE DEF TypeOK, storeVars
<1>1. ASSUME NEW p \in Plans, Bootstrap(p) PROVE TypeOK'
  BY <1>1 DEF Bootstrap
<1>2. ASSUME NEW p \in Plans, Submit(p) PROVE TypeOK'
  BY <1>2 DEF Submit
<1>3. ASSUME NEW r \in requests, Admit(r) PROVE TypeOK'
  <2>1. r.plan \in Plans /\ r.at \in Nat
    OBVIOUS
  <2>2. db \in Stores
    BY DEF db
  <2>3. write_admission(db, r.plan, r.at) \in Stores
    BY <2>1, <2>2, WriteAdmission
  <2>4. disk' \in Stores /\ orphan' \in Stores
    BY <1>3, <2>3 DEF Admit, Write
  <2>5. times' \in [Plans -> Nat]
    BY <1>3, <2>1 DEF Admit
  <2> QED
    BY <1>3, <2>4, <2>5 DEF Admit
<1>4. ASSUME NEW r \in requests, Refuse(r) PROVE TypeOK'
  BY <1>4 DEF Refuse
<1>5. CASE OpenExisting
  BY <1>5 DEF OpenExisting
<1>6. CASE OpenRecreate
  BY <1>6, TimesAssumption DEF OpenRecreate, Max2, NoQuarantine
<1>7. CASE FinishCreate
  BY <1>7, EmptyStoreType DEF FinishCreate
<1>8. CASE Crash
  BY <1>8, EmptyStoreType DEF Crash, NoQuarantine
<1>0. Detach => attached' \in BOOLEAN /\ orphan' \in Stores
  <2>1. CASE agent = "up" /\ attached
    BY <2>1 DEF Detach
  <2>2. CASE ~(agent = "up" /\ attached)
    BY <2>2 DEF Detach
  <2> QED
    BY <2>1, <2>2
<1>9. CASE LoseFile
  BY <1>0, <1>9 DEF LoseFile
<1>10. CASE ResetReseed
  BY <1>0, <1>10, TimesAssumption DEF ResetReseed, Max2
<1>11. CASE ResetCreated
  BY <1>11, EmptyStoreType DEF ResetCreated
<1>12. CASE ResetMoveTrust
  BY <1>12 DEF ResetMoveTrust
<1>13. CASE ResetCrash
  BY <1>13 DEF ResetCrash
<1>14. CASE Tick
  BY <1>14 DEF Tick
<1>15. CASE UNCHANGED vars
  BY <1>15 DEF vars
<1> QED
  BY <1>1, <1>2, <1>3, <1>4, <1>5, <1>6, <1>7, <1>8, <1>9, <1>10, <1>11,
     <1>12, <1>13, <1>14, <1>15 DEF Next

\* The model's variables keep their types in every behaviour.
THEOREM TypeCorrect == Spec => []TypeOK
<1>1. Init => TypeOK
  <2> SUFFICES ASSUME Init PROVE TypeOK
    OBVIOUS
  <2>1. EmptyStore(NoQuarantine) \in Stores
    BY EmptyStoreType DEF NoQuarantine
  <2>2. trust \in BOOLEAN /\ attached \in BOOLEAN
    BY DEF Init
  <2>3. times \in [Plans -> Nat]
    BY DEF Init
  <2> QED
    BY <2>1, <2>2, <2>3 DEF Init, TypeOK, NoQuarantine
<1> QED
  BY <1>1, TypeStep, PTL DEF Spec

----------------------------------------------------------------------------

\* The parts of the invariant hold in a fresh server's state (Init).
LEMMA InitNothingForgotten == Init => NothingForgotten /\ AtMostOnce
<1> SUFFICES ASSUME Init PROVE NothingForgotten /\ AtMostOnce
  OBVIOUS
<1>1. \A p \in Plans : times[p] = 0
  BY DEF Init
<1>2. Phases
  BY DEF Init, Phases
<1>3. Remembered
  BY <1>1 DEF Remembered
<1>4. QuarantineRecorded
  BY TimesAssumption DEF Init, QuarantineRecorded, NoQuarantine
<1>5. AtMostOnce
  BY <1>1 DEF AtMostOnce
<1> QED
  BY <1>2, <1>3, <1>4, <1>5 DEF NothingForgotten

\* An admission takes a plan that was never admitted before: had it been, the
\* store in use would hold it or its quarantine would outlive it (admit).
LEMMA AdmitFresh ==
  ASSUME TypeOK, NothingForgotten, NEW r \in requests, Admit(r)
  PROVE  /\ times[r.plan] = 0
         /\ r.plan \in Plans /\ r.at \in Nat /\ r.at <= now
         /\ db.ends <= r.at /\ db.ends = lostUntil
<1>1. r.plan \in Plans /\ r.at \in Nat
  BY DEF TypeOK
<1>2. r.at <= now
  BY DEF NothingForgotten, Phases
<1>3. db \in Stores /\ db.ends \in Nat
  BY DEF db, TypeOK, Stores
<1>4. db.ends <= r.at
  BY <1>1, <1>3 DEF Admit, check_quarantine
<1>5. db.ends = lostUntil
  BY DEF db, Admit, NothingForgotten, Phases, QuarantineRecorded
<1>6. ASSUME times[r.plan] > 0 PROVE FALSE
  <2>1. r.plan \in db.admissions \/ r.plan.expires + Skew < db.ends
    BY <1>1, <1>6 DEF db, Admit, NothingForgotten, Phases, Remembered
  <2>2. r.plan \notin db.admissions
    BY DEF Admit, seen
  <2>3. r.at <= r.plan.expires + Skew
    BY DEF Admit, check_time
  <2> QED
    BY <1>1, <1>3, <1>4, <2>1, <2>2, <2>3, PlansAssumption, TimesAssumption
<1>7. times[r.plan] \in Nat
  BY <1>1 DEF TypeOK
<1> QED
  BY <1>1, <1>2, <1>4, <1>5, <1>6, <1>7

\* One step under CarefulOperation keeps the invariant: one case per action.
LEMMA StepNothingForgotten ==
  ASSUME CarefulOperation, TypeOK, TypeOK', NothingForgotten, AtMostOnce, [Next]_vars
  PROVE  NothingForgotten' /\ AtMostOnce'
<1> USE DEF storeVars
<1>1. ASSUME NEW p \in Plans, Bootstrap(p) PROVE NothingForgotten' /\ AtMostOnce'
  BY <1>1 DEF Bootstrap, NothingForgotten, Phases, Remembered, QuarantineRecorded,
     AtMostOnce, TypeOK
<1>2. ASSUME NEW p \in Plans, Submit(p) PROVE NothingForgotten' /\ AtMostOnce'
  <2>1. Phases'
    BY <1>2 DEF Submit, NothingForgotten, Phases, TypeOK
  <2>2. Remembered' /\ QuarantineRecorded' /\ AtMostOnce'
    BY <1>2 DEF Submit, NothingForgotten, Remembered, QuarantineRecorded, AtMostOnce
  <2> QED
    BY <2>1, <2>2 DEF NothingForgotten
<1>3. ASSUME NEW r \in requests, Admit(r) PROVE NothingForgotten' /\ AtMostOnce'
  <2>1. /\ times[r.plan] = 0 /\ r.plan \in Plans /\ r.at \in Nat /\ r.at <= now
    BY <1>3, AdmitFresh
  <2>2. times' = [times EXCEPT ![r.plan] = 1]
    BY <1>3, <2>1 DEF Admit, TypeOK
  <2>3. AtMostOnce'
    BY <2>1, <2>2 DEF AtMostOnce, TypeOK
  <2>4. /\ write_admission(db, r.plan, r.at).ends = db.ends
        /\ write_admission(db, r.plan, r.at).admissions = db.admissions \cup {r.plan}
    <3>1. db \in Stores
      BY DEF db, TypeOK
    <3> QED
      BY <2>1, <3>1, WriteAdmission
  <2>5. Phases'
    BY <1>3 DEF Admit, NothingForgotten, Phases
  <2>6. QuarantineRecorded'
    BY <1>3, <2>4 DEF Admit, Write, db, NothingForgotten, Phases, QuarantineRecorded
  <2>7. Remembered'
    <3> SUFFICES ASSUME NEW p \in Plans, times'[p] > 0
                 PROVE  /\ p.expires <= now + Skew + Lifetime
                        /\ path = "store" =>
                             p \in disk'.admissions \/ p.expires + Skew < disk'.ends
                        /\ ~attached =>
                             p \in orphan'.admissions \/ p.expires + Skew < orphan'.ends
                        /\ trust \/ path # "absent"
      BY <1>3 DEF Admit, NothingForgotten, Phases, Remembered
    <3>1. CASE p = r.plan
      <4>1. p.expires <= now + Skew + Lifetime
        BY <1>3, <2>1, <3>1, PlansAssumption, TimesAssumption
           DEF Admit, check_time, TypeOK
      <4>2. /\ path = "store" => p \in disk'.admissions
            /\ ~attached => p \in orphan'.admissions
        BY <1>3, <2>4, <3>1 DEF Admit, Write, NothingForgotten, Phases
      <4>3. trust \/ path # "absent"
        BY <1>3 DEF Admit, NothingForgotten, Phases
      <4> QED
        BY <4>1, <4>2, <4>3
    <3>2. CASE p # r.plan
      <4>1. times[p] > 0
        BY <2>1, <2>2, <3>2 DEF TypeOK
      <4>2. /\ disk.admissions \subseteq disk'.admissions /\ disk'.ends = disk.ends
            /\ orphan.admissions \subseteq orphan'.admissions /\ orphan'.ends = orphan.ends
        BY <1>3, <2>4 DEF Admit, Write, db
      <4> QED
        BY <1>3, <4>1, <4>2 DEF Admit, NothingForgotten, Remembered
    <3> QED
      BY <3>1, <3>2
  <2> QED
    BY <2>3, <2>5, <2>6, <2>7 DEF NothingForgotten
<1>4. ASSUME NEW r \in requests, Refuse(r) PROVE NothingForgotten' /\ AtMostOnce'
  BY <1>4 DEF Refuse, NothingForgotten, Phases, Remembered, QuarantineRecorded, AtMostOnce
<1>5. CASE OpenExisting
  BY <1>5 DEF OpenExisting, CarefulOperation, NothingForgotten, Phases, Remembered,
     QuarantineRecorded, AtMostOnce
<1>6. CASE OpenRecreate
  <2>1. Phases'
    BY <1>6 DEF OpenRecreate, NothingForgotten, Phases
  <2>2. ends' = lostUntil' /\ lostUntil' <= now + Quarantine
    <3>1. CASE path # "absent" \/ trust
      <4>1. ends' = now + Quarantine /\ lostUntil' = Max2(lostUntil, now + Quarantine)
        BY <1>6, <3>1 DEF OpenRecreate
      <4> QED
        BY <4>1, TimesAssumption DEF Max2, NothingForgotten, QuarantineRecorded, TypeOK
    <3>2. CASE ~(path # "absent" \/ trust)
      BY <1>6, <3>2, TimesAssumption
         DEF OpenRecreate, Max2, NoQuarantine, NothingForgotten, QuarantineRecorded, TypeOK
    <3> QED
      BY <3>1, <3>2
  <2>3. QuarantineRecorded'
    BY <1>6, <2>2 DEF OpenRecreate, QuarantineRecorded, NothingForgotten, Phases
  <2>4. Remembered'
    <3> SUFFICES ASSUME NEW p \in Plans, times[p] > 0
                 PROVE  p.expires <= now + Skew + Lifetime /\ p.expires + Skew < ends'
      BY <1>6 DEF OpenRecreate, Remembered
    <3>1. p.expires <= now + Skew + Lifetime /\ (trust \/ path # "absent")
      BY DEF NothingForgotten, Remembered
    <3>2. ends' = now + Quarantine
      BY <1>6, <3>1 DEF OpenRecreate
    <3> QED
      BY <3>1, <3>2, PlansAssumption, TimesAssumption DEF TypeOK
  <2> QED
    BY <1>6, <2>1, <2>3, <2>4 DEF OpenRecreate, NothingForgotten, AtMostOnce
<1>7. CASE FinishCreate
  <2>1. disk'.ends = ends
    BY <1>7, EmptyStoreType DEF FinishCreate, TypeOK
  <2> QED
    BY <1>7, <2>1 DEF FinishCreate, NothingForgotten, Phases, Remembered,
       QuarantineRecorded, AtMostOnce
<1>8. CASE Crash
  BY <1>8 DEF Crash, NothingForgotten, Phases, Remembered, QuarantineRecorded, AtMostOnce
<1>9. CASE LoseFile
  <2>1. trust
    BY <1>9 DEF LoseFile, CarefulOperation
  <2>2. CASE agent = "up" /\ attached
    BY <1>9, <2>1, <2>2 DEF LoseFile, Detach, NothingForgotten, Phases, Remembered,
       QuarantineRecorded, AtMostOnce
  <2>3. CASE ~(agent = "up" /\ attached)
    BY <1>9, <2>1, <2>3 DEF LoseFile, Detach, NothingForgotten, Phases, Remembered,
       QuarantineRecorded, AtMostOnce
  <2> QED
    BY <2>2, <2>3
<1>10. CASE ResetReseed
  <2>1. agent = "down" /\ trust
    BY <1>10 DEF ResetReseed, CarefulOperation
  <2>2. UNCHANGED <<attached, orphan>>
    BY <1>10, <2>1 DEF ResetReseed, Detach
  <2>3. ends' = lostUntil' /\ lostUntil' = now + Quarantine
    BY <1>10, TimesAssumption
       DEF ResetReseed, Max2, NothingForgotten, QuarantineRecorded, TypeOK
  <2>4. Phases' /\ AtMostOnce'
    BY <1>10, <2>1, <2>2 DEF ResetReseed, NothingForgotten, Phases, AtMostOnce
  <2>5. QuarantineRecorded'
    BY <1>10, <2>1, <2>2, <2>3, TimesAssumption DEF ResetReseed, QuarantineRecorded, TypeOK
  <2>6. Remembered'
    <3> SUFFICES ASSUME NEW p \in Plans, times[p] > 0
                 PROVE  p.expires <= now + Skew + Lifetime /\ p.expires + Skew < ends'
      BY <1>10, <2>1, <2>2 DEF ResetReseed, Remembered
    <3>1. p.expires <= now + Skew + Lifetime
      BY DEF NothingForgotten, Remembered
    <3> QED
      BY <2>3, <3>1, PlansAssumption, TimesAssumption DEF TypeOK
  <2> QED
    BY <2>4, <2>5, <2>6 DEF NothingForgotten
<1>11. CASE ResetCreated
  <2>1. disk'.ends = ends
    BY <1>11, EmptyStoreType DEF ResetCreated, TypeOK
  <2> QED
    BY <1>11, <2>1 DEF ResetCreated, NothingForgotten, Phases, Remembered,
       QuarantineRecorded, AtMostOnce
<1>12. CASE ResetMoveTrust
  BY <1>12 DEF ResetMoveTrust, NothingForgotten, Phases, Remembered,
     QuarantineRecorded, AtMostOnce
<1>13. CASE ResetCrash
  BY <1>13 DEF ResetCrash, NothingForgotten, Phases, Remembered,
     QuarantineRecorded, AtMostOnce
<1>14. CASE Tick
  <2>1. Phases' /\ QuarantineRecorded' /\ AtMostOnce'
    BY <1>14, TimesAssumption
       DEF Tick, NothingForgotten, Phases, QuarantineRecorded, AtMostOnce, TypeOK
  <2>2. Remembered'
    BY <1>14, TimesAssumption, PlansAssumption
       DEF Tick, NothingForgotten, Remembered, TypeOK
  <2> QED
    BY <2>1, <2>2 DEF NothingForgotten
<1>15. CASE UNCHANGED vars
  BY <1>15 DEF vars, NothingForgotten, Phases, Remembered, QuarantineRecorded, AtMostOnce
<1> QED
  BY <1>1, <1>2, <1>3, <1>4, <1>5, <1>6, <1>7, <1>8, <1>9, <1>10, <1>11,
     <1>12, <1>13, <1>14, <1>15 DEF Next

\* A signed plan is admitted at most once over the life of the server, through
\* crashes, losses and re-seeds of admissions.db (admit, open, trust_reset).
THEOREM AdmittedAtMostOnce == CarefulOperation /\ Spec => []AtMostOnce
<1> SUFFICES ASSUME CarefulOperation PROVE Spec => []AtMostOnce
  OBVIOUS
<1>1. TypeOK /\ TypeOK' /\ NothingForgotten /\ AtMostOnce /\ [Next]_vars
        => NothingForgotten' /\ AtMostOnce'
  BY StepNothingForgotten
<1> QED
  BY <1>1, InitNothingForgotten, TypeCorrect, PTL DEF Spec

\* What the store, the trust file and the recorded quarantine remember is
\* enough to refuse every plan admitted before, in every state a crash or a
\* re-seed leaves (open, trust_reset): the invariant of the proof, itself
\* checked by the run of the store.
THEOREM RecoveryForgetsNothing == CarefulOperation /\ Spec => []NothingForgotten
<1> SUFFICES ASSUME CarefulOperation PROVE Spec => []NothingForgotten
  OBVIOUS
<1>1. TypeOK /\ TypeOK' /\ NothingForgotten /\ AtMostOnce /\ [Next]_vars
        => NothingForgotten' /\ AtMostOnce'
  BY StepNothingForgotten
<1> QED
  BY <1>1, InitNothingForgotten, TypeCorrect, PTL DEF Spec

\* While a quarantine called for by a loss or a re-seed runs, no agent admits
\* anything (check_quarantine, and the clock a submission captured).
THEOREM QuarantineHolds == CarefulOperation /\ Spec => NoAdmissionInQuarantine
<1> SUFFICES ASSUME CarefulOperation PROVE Spec => NoAdmissionInQuarantine
  OBVIOUS
<1>1. TypeOK /\ TypeOK' /\ NothingForgotten /\ AtMostOnce /\ [Next]_vars
        => NothingForgotten' /\ AtMostOnce'
  BY StepNothingForgotten
<1>2. TypeOK /\ NothingForgotten /\ [Next]_vars => [times' # times => now >= lostUntil]_vars
  <2> SUFFICES ASSUME TypeOK, NothingForgotten, [Next]_vars, times' # times
               PROVE  now >= lostUntil
    OBVIOUS
  <2>1. PICK r \in requests : Admit(r)
    BY DEF Next, vars, Bootstrap, Submit, Refuse, OpenExisting, OpenRecreate, FinishCreate,
       Crash, LoseFile, ResetReseed, ResetCreated, ResetMoveTrust, ResetCrash, Tick
  <2>2. r.at \in Nat /\ r.at <= now /\ db.ends <= r.at /\ db.ends = lostUntil
    BY <2>1, AdmitFresh
  <2> QED
    BY <2>2 DEF TypeOK
<1> QED
  BY <1>1, <1>2, InitNothingForgotten, TypeCorrect, PTL DEF Spec, NoAdmissionInQuarantine

\* A store is created without a quarantine only on a server that never
\* admitted a plan (the meta.quarantine_ends_at comment; open).
THEOREM UnquarantinedIsFirst == CarefulOperation /\ Spec => []NothingBeforeUnquarantined
<1> SUFFICES ASSUME CarefulOperation PROVE Spec => []NothingBeforeUnquarantined
  OBVIOUS
<1>1. TypeOK /\ TypeOK' /\ NothingForgotten /\ AtMostOnce /\ [Next]_vars
        => NothingForgotten' /\ AtMostOnce'
  BY StepNothingForgotten
<1>2. TypeOK /\ NothingForgotten => NothingBeforeUnquarantined
  BY PlansAssumption, TimesAssumption DEF NothingForgotten, Remembered, NothingBeforeUnquarantined,
     NoQuarantine, TypeOK
<1> QED
  BY <1>1, <1>2, InitNothingForgotten, TypeCorrect, PTL DEF Spec

----------------------------------------------------------------------------
(* The pass of validate_trust over the keys.                               *)

Entry == [id : Keys, by : Keys \cup {NoKey}]
Revocation == [key : Keys, by : Keys, compromised : BOOLEAN]
TrustFile == [keys : Seq(Entry), revs : Seq(Revocation)]

\* What the pass adds to the keys found when it meets key i of f.
Found(f, i, S) == S \cup IF f.keys[i].by \in S THEN {f.keys[i].id} ELSE {}

\* The pass is well defined: each key is judged by the ones found before it.
LEMMA CascadeSteps ==
  ASSUME NEW f \in TrustFile
  PROVE  /\ cascade(f)[0] = DirectlyCompromised(f)
         /\ \A i \in 1..Len(f.keys) : cascade(f)[i] = Found(f, i, cascade(f)[i - 1])
<1> DEFINE D == DirectlyCompromised(f)
           Is(g, n) == g = [i \in 0..n |-> IF i = 0 THEN D ELSE Found(f, i, g[i - 1])]
           S == {n \in Nat : \E g : Is(g, n)}
<1>1. 0 \in S
  <2> DEFINE h == [i \in 0..0 |-> D]
  <2>1. Is(h, 0)
    OBVIOUS
  <2> QED BY <2>1
<1>2. ASSUME NEW n \in Nat, n \in S PROVE n + 1 \in S
  <2>1. PICK g : Is(g, n)
    BY <1>2
  <2> DEFINE h == [i \in 0..(n + 1) |-> IF i = n + 1 THEN Found(f, i, g[n]) ELSE g[i]]
  <2>2. ASSUME NEW i \in 0..(n + 1)
        PROVE  h[i] = IF i = 0 THEN D ELSE Found(f, i, h[i - 1])
    <3> HIDE DEF D
    <3>1. CASE i = n + 1
      <4>1. h[i] = Found(f, i, g[n]) /\ h[i - 1] = g[n] /\ i # 0
        BY <3>1
      <4> QED BY <4>1
    <3>2. CASE i \in 1..n
      <4>1. h[i] = g[i] /\ h[i - 1] = g[i - 1] /\ i # 0
        BY <3>2
      <4>2. g[i] = Found(f, i, g[i - 1])
        BY <2>1, <3>2
      <4> QED BY <4>1, <4>2
    <3>3. CASE i = 0
      <4>1. h[i] = g[0]
        BY <3>3
      <4> QED BY <2>1, <3>3, <4>1
    <3> QED BY <3>1, <3>2, <3>3
  <2>3. Is(h, n + 1)
    <3> DEFINE t(i) == IF i = 0 THEN D ELSE Found(f, i, h[i - 1])
    <3>1. \A i \in 0..(n + 1) : h[i] = t(i)
      BY <2>2
    <3>2. h = [i \in 0..(n + 1) |-> h[i]]
      OBVIOUS
    <3> HIDE DEF h
    <3>3. h = [i \in 0..(n + 1) |-> t(i)]
      <4> HIDE DEF t
      <4> QED BY <3>1, <3>2
    <3> QED BY <3>3
  <2>4. \E hh : Is(hh, n + 1)
    <3> HIDE DEF Is, h
    <3> QED BY <2>3
  <2> QED BY <2>4
<1>3. Len(f.keys) \in Nat
  BY DEF TrustFile
<1>4. Len(f.keys) \in S
  <2>1. \A n \in Nat : n \in S
    <3> HIDE DEF S
    <3> QED BY <1>1, <1>2, SetInduction
  <2> QED BY <1>3, <2>1
<1>5. Is(cascade(f), Len(f.keys))
  <2>1. cascade(f) = CHOOSE g : Is(g, Len(f.keys))
    BY DEF cascade, Found
  <2>2. \E g : Is(g, Len(f.keys))
    BY <1>4
  <2> HIDE DEF Is
  <2> QED BY <2>1, <2>2
<1> DEFINE c == cascade(f)
<1>6. c = [i \in 0..Len(f.keys) |-> IF i = 0 THEN D ELSE Found(f, i, c[i - 1])]
  BY <1>5
<1> HIDE DEF c, D
<1>7. c[0] = D
  BY <1>3, <1>6
<1>8. ASSUME NEW i \in 1..Len(f.keys) PROVE c[i] = Found(f, i, c[i - 1])
  <2>1. i \in 0..Len(f.keys) /\ i # 0
    BY <1>3
  <2> QED BY <1>6, <2>1
<1> QED BY <1>7, <1>8 DEF c, D

\* The pass forgets nothing it found.
LEMMA CascadeGrows ==
  ASSUME NEW f \in TrustFile
  PROVE  \A j \in 0..Len(f.keys) : \A i \in 0..j : cascade(f)[i] \subseteq cascade(f)[j]
<1> DEFINE c == cascade(f)
           n == Len(f.keys)
           S == {j \in Nat : j <= n => \A i \in 0..j : c[i] \subseteq c[j]}
<1>1. n \in Nat
  BY DEF TrustFile
<1>2. \A i \in 1..n : c[i - 1] \subseteq c[i]
  BY CascadeSteps DEF Found
<1> HIDE DEF c, n
<1>3. 0 \in S
  OBVIOUS
<1>4. ASSUME NEW j \in Nat, j \in S PROVE j + 1 \in S
  <2>1. ASSUME j + 1 <= n, NEW i \in 0..(j + 1) PROVE c[i] \subseteq c[j + 1]
    <3>1. c[j] \subseteq c[j + 1]
      BY <1>1, <1>2, <2>1
    <3>2. CASE i = j + 1
      BY <3>2
    <3>3. CASE i \in 0..j
      BY <1>1, <1>4, <2>1, <3>1, <3>3
    <3> QED BY <3>2, <3>3
  <2> QED BY <2>1
<1>5. \A j \in Nat : j \in S
  <2> HIDE DEF S
  <2> QED BY <1>3, <1>4, SetInduction
<1>6. ASSUME NEW j \in 0..n, NEW i \in 0..j PROVE c[i] \subseteq c[j]
  BY <1>1, <1>5
<1> QED BY <1>6 DEF c, n

\* A key of a valid file has one place in it.
LEMMA PlacesDiffer ==
  ASSUME NEW f \in TrustFile, valid_keys(f),
         NEW a \in 1..Len(f.keys), NEW b \in 1..Len(f.keys), f.keys[a].id = f.keys[b].id
  PROVE  a = b
<1>1. Len(f.keys) \in Nat /\ DOMAIN f.keys = 1..Len(f.keys)
  BY DEF TrustFile
<1>2. ASSUME NEW x \in 1..Len(f.keys), NEW y \in 1..Len(f.keys), x < y
      PROVE  f.keys[x].id # f.keys[y].id
  <2>1. f.keys[y].id \notin EarlierIds(f, y)
    BY <1>1 DEF valid_keys
  <2>2. f.keys[x].id \in EarlierIds(f, y)
    BY <1>1, <1>2 DEF EarlierIds
  <2> QED BY <2>1, <2>2
<1> QED BY <1>1, <1>2

\* The keys, and what the entries and the revocations of a valid file say.
LEMMA ValidFile ==
  ASSUME NEW f \in TrustFile, validate_trust(f)
  PROVE  /\ Len(f.keys) \in Nat \ {0} /\ DOMAIN f.keys = 1..Len(f.keys)
         /\ Ids(f) \subseteq Keys /\ NoKey \notin Ids(f)
         /\ DirectlyCompromised(f) \subseteq Ids(f)
         /\ f.keys[1].by = NoKey
         /\ \A i \in 2..Len(f.keys) : f.keys[i].by \in EarlierIds(f, i)
         /\ \A i \in 1..Len(f.keys) : f.keys[i].id \in Ids(f)
<1>1. Len(f.keys) \in Nat /\ DOMAIN f.keys = 1..Len(f.keys) /\ f.keys \in Seq(Entry)
  BY DEF TrustFile
<1>2. Len(f.keys) # 0
  BY <1>1 DEF validate_trust, valid_keys
<1>3. Ids(f) \subseteq Keys
  <2>1. \A i \in 1..Len(f.keys) : f.keys[i] \in Entry
    BY <1>1
  <2>2. \A i \in 1..Len(f.keys) : f.keys[i].id \in Keys
    BY <2>1 DEF Entry
  <2> QED BY <1>1, <2>2 DEF Ids
<1>4. \A i \in DOMAIN f.revs : f.revs[i].key \in Ids(f)
  BY DEF validate_trust, valid_revocations
<1>5. DirectlyCompromised(f) \subseteq Ids(f)
  BY <1>4 DEF DirectlyCompromised, Revs
<1>6. f.keys[1].by = NoKey /\ \A i \in 2..Len(f.keys) : f.keys[i].by \in EarlierIds(f, i)
  BY <1>1 DEF validate_trust, valid_keys, signed_by_owner
<1>7. \A i \in 1..Len(f.keys) : f.keys[i].id \in Ids(f)
  BY <1>1 DEF Ids
<1> QED BY <1>1, <1>2, <1>3, <1>5, <1>6, <1>7, TrustAssumption

----------------------------------------------------------------------------
(* The pass finds what a chain of additions reaches.                       *)

\* A chain of m keys of f, each added by the one before, from a compromised one.
IsChain(f, m, s) ==
  /\ s \in [1..m -> Ids(f)] /\ s[1] \in DirectlyCompromised(f)
  /\ \A i \in 1..(m - 1) : <<s[i], s[i + 1]>> \in AddedBy(f)

\* A key found among the first i has a chain of at most i keys.
LEMMA FoundHasChain ==
  ASSUME NEW f \in TrustFile, validate_trust(f)
  PROVE  \A k \in compromised(f) :
           \E m \in 1..Len(f.keys) : \E s : IsChain(f, m, s) /\ s[m] = k
<1> DEFINE c == cascade(f)
           n == Len(f.keys)
           Reach(k, i) == \E m \in 1..i : \E s : IsChain(f, m, s) /\ s[m] = k
           S == {i \in Nat : i + 1 <= n => \A k \in c[i + 1] : Reach(k, i + 1)}
<1>1. n \in Nat \ {0} /\ DOMAIN f.keys = 1..n
  BY ValidFile
<1>2. \A i \in 1..n : c[i] = Found(f, i, c[i - 1])
  BY CascadeSteps
<1>3. 0 \in S
  <2>1. c[0] = DirectlyCompromised(f)
    BY CascadeSteps
  <2>2. c[1] = c[0]
    <3>1. f.keys[1].by \notin c[0]
      BY <2>1, ValidFile
    <3>2. c[1] = Found(f, 1, c[0])
      BY <1>1, <1>2
    <3> QED BY <3>1, <3>2 DEF Found
  <2>3. ASSUME NEW k \in c[1] PROVE Reach(k, 1)
    <3> DEFINE s == [x \in 1..1 |-> k]
    <3>1. k \in Ids(f) /\ k \in DirectlyCompromised(f)
      BY <2>1, <2>2, <2>3, ValidFile
    <3>2. IsChain(f, 1, s) /\ s[1] = k
      BY <3>1 DEF IsChain
    <3> HIDE DEF s
    <3> QED BY <3>2
  <2> HIDE DEF c, Reach
  <2> QED BY <2>3
<1>4. ASSUME NEW i \in Nat, i \in S PROVE i + 1 \in S
  <2> SUFFICES ASSUME i + 2 <= n, NEW k \in c[i + 2] PROVE Reach(k, i + 2)
    <3> HIDE DEF c, Reach, n
    <3>1. (i + 1) + 1 = i + 2
      OBVIOUS
    <3> QED BY <3>1
  <2> DEFINE j == i + 2
  <2>1. j \in 2..n /\ j - 1 = i + 1 /\ j - 1 \in 1..n
    BY <1>1
  <2>2. c[j] = Found(f, j, c[j - 1])
    BY <1>2, <2>1
  <2>3. \A x \in c[j - 1] : Reach(x, j - 1)
    <3> HIDE DEF c, Reach
    <3>1. i + 1 <= n /\ i \in S
      BY <1>1, <1>4, <2>1
    <3> HIDE DEF n
    <3> QED BY <2>1, <3>1
  <2>4. CASE k \in c[j - 1]
    <3>1. PICK m \in 1..(j - 1) : \E s : IsChain(f, m, s) /\ s[m] = k
      BY <2>3, <2>4
    <3>2. m \in 1..j
      BY <2>1
    <3> QED BY <3>1, <3>2
  <2>5. CASE k \notin c[j - 1]
    <3>1. k = f.keys[j].id /\ f.keys[j].by \in c[j - 1]
      BY <2>2, <2>5 DEF Found
    <3>2. PICK m \in 1..(j - 1) : \E s : IsChain(f, m, s) /\ s[m] = f.keys[j].by
      BY <2>3, <3>1
    <3>3. PICK s : IsChain(f, m, s) /\ s[m] = f.keys[j].by
      BY <3>2
    <3> DEFINE t == [x \in 1..(m + 1) |-> IF x = m + 1 THEN k ELSE s[x]]
    <3>4. m \in Nat /\ m >= 1 /\ m + 1 \in 1..j
      BY <2>1
    <3>5. k \in Ids(f)
      BY <2>1, <3>1, ValidFile
    <3>6. <<f.keys[j].by, k>> \in AddedBy(f)
      BY <1>1, <2>1, <3>1 DEF AddedBy
    <3>7. t \in [1..(m + 1) -> Ids(f)] /\ t[1] = s[1] /\ t[m + 1] = k
      BY <3>3, <3>4, <3>5 DEF IsChain
    <3>8. ASSUME NEW x \in 1..((m + 1) - 1) PROVE <<t[x], t[x + 1]>> \in AddedBy(f)
      <4>1. CASE x = m
        <5>1. t[x] = f.keys[j].by /\ t[x + 1] = k
          BY <3>3, <3>4, <4>1
        <5> QED BY <3>6, <5>1
      <4>2. CASE x # m
        <5>1. x \in 1..(m - 1)
          BY <3>4, <3>8, <4>2
        <5>2. t[x] = s[x] /\ t[x + 1] = s[x + 1]
          BY <3>4, <5>1
        <5> QED BY <3>3, <5>1, <5>2 DEF IsChain
      <4> QED BY <4>1, <4>2
    <3> HIDE DEF t
    <3>9. IsChain(f, m + 1, t) /\ t[m + 1] = k
      BY <3>3, <3>7, <3>8 DEF IsChain
    <3> QED BY <3>4, <3>9
  <2> QED BY <2>4, <2>5
<1>5. \A i \in Nat : i \in S
  <2> HIDE DEF S
  <2> QED BY <1>3, <1>4, SetInduction
<1>6. n - 1 \in Nat /\ (n - 1) + 1 = n
  BY <1>1
<1>7. \A k \in c[n] : Reach(k, n)
  <2> HIDE DEF c, n, Reach
  <2>1. n - 1 \in S
    BY <1>5, <1>6
  <2> QED BY <1>1, <1>6, <2>1
<1> QED BY <1>7 DEF compromised

\* The end of a chain is found: its keys come later and later in the file.
LEMMA ChainIsFound ==
  ASSUME NEW f \in TrustFile, validate_trust(f),
         NEW m \in Nat \ {0}, NEW s, IsChain(f, m, s)
  PROVE  s[m] \in compromised(f)
<1> DEFINE c == cascade(f)
           n == Len(f.keys)
           At(k) == \E a \in 1..n : f.keys[a].id = k /\ k \in c[a]
           S == {j \in Nat : j + 1 <= m => At(s[j + 1])}
<1>1. n \in Nat \ {0} /\ DOMAIN f.keys = 1..n
  BY ValidFile
<1>2. \A i \in 1..n : c[i] = Found(f, i, c[i - 1])
  BY CascadeSteps
<1>3. \A j \in 0..n : \A i \in 0..j : c[i] \subseteq c[j]
  BY CascadeGrows
<1>4. \A j \in 1..m : s[j] \in Ids(f)
  BY DEF IsChain
<1>5. 0 \in S
  <2>1. s[1] \in c[0]
    BY CascadeSteps DEF IsChain
  <2>2. PICK a \in 1..n : f.keys[a].id = s[1]
    BY <1>1, <1>4 DEF Ids
  <2>3. c[0] \subseteq c[a]
    BY <1>1, <1>3
  <2> HIDE DEF c, n
  <2> QED BY <2>1, <2>2, <2>3
<1>6. ASSUME NEW j \in Nat, j \in S PROVE j + 1 \in S
  <2> SUFFICES ASSUME j + 2 <= m PROVE At(s[j + 2])
    <3> HIDE DEF At
    <3>1. (j + 1) + 1 = j + 2
      OBVIOUS
    <3> QED BY <3>1
  <2>1. PICK a \in 1..n : f.keys[a].id = s[j + 1] /\ s[j + 1] \in c[a]
    <3> HIDE DEF c, n
    <3> QED BY <1>6
  <2>2. <<s[j + 1], s[j + 2]>> \in AddedBy(f)
    <3>1. j + 1 \in 1..(m - 1) /\ (j + 1) + 1 = j + 2
      OBVIOUS
    <3> QED BY <3>1 DEF IsChain
  <2>3. PICK b \in 1..n : f.keys[b].by = s[j + 1] /\ f.keys[b].id = s[j + 2]
    BY <1>1, <2>2 DEF AddedBy
  <2>4. s[j + 1] # NoKey
    BY <1>4, ValidFile
  <2>5. b \in 2..n
    BY <1>1, <2>3, <2>4, ValidFile
  <2>6. PICK e \in 1..(b - 1) : f.keys[e].id = s[j + 1]
    BY <2>3, <2>5, ValidFile DEF EarlierIds
  <2>7. e \in 1..n /\ b - 1 \in 0..n
    BY <1>1, <2>5
  <2>8. a = e
    BY <2>1, <2>6, <2>7, PlacesDiffer DEF validate_trust
  <2>9. c[a] \subseteq c[b - 1]
    BY <1>1, <1>3, <2>7, <2>8
  <2>10. s[j + 2] \in c[b]
    BY <1>2, <2>1, <2>3, <2>9 DEF Found
  <2> HIDE DEF c, n
  <2> QED BY <2>3, <2>10
<1>7. \A j \in Nat : j \in S
  <2> HIDE DEF S
  <2> QED BY <1>5, <1>6, SetInduction
<1>8. At(s[m])
  <2>1. m - 1 \in Nat /\ (m - 1) + 1 = m
    OBVIOUS
  <2>2. m - 1 \in S
    BY <1>7, <2>1
  <2> HIDE DEF At
  <2> QED BY <2>1, <2>2
<1>9. PICK a \in 1..n : s[m] \in c[a]
  <2> HIDE DEF c, n
  <2> QED BY <1>8
<1>10. c[a] \subseteq c[n]
  BY <1>1, <1>3
<1> QED BY <1>9, <1>10 DEF compromised

\* The keys a compromised key reaches through added_by, as CascadeComplete puts it.
ChainEnds(f) == {s[Len(s)] : s \in {c \in Chains(f) : c[1] \in DirectlyCompromised(f)}}

\* One pass in file order over a valid file finds exactly the keys a
\* compromised key added, directly or through others, however long the chains
\* and wherever the keys stand (validate_trust).
THEOREM PassIsComplete ==
  ASSUME NEW f \in TrustFile, validate_trust(f)
  PROVE  compromised(f) = ChainEnds(f)
<1> DEFINE n == Len(f.keys)
<1>1. n \in Nat \ {0}
  BY ValidFile
<1>2. ASSUME NEW k \in compromised(f) PROVE k \in ChainEnds(f)
  <2>1. PICK m \in 1..n : \E s : IsChain(f, m, s) /\ s[m] = k
    BY FoundHasChain
  <2>2. PICK s : IsChain(f, m, s) /\ s[m] = k
    BY <2>1
  <2>3. m \in Nat /\ m # 0 /\ s \in [1..m -> Ids(f)]
    BY <1>1, <2>1, <2>2 DEF IsChain
  <2>4. s \in Seq(Ids(f)) /\ Len(s) = m
    BY <2>3, FunctionIsSeq
  <2>5. s \in SeqOf(Ids(f), n)
    BY <1>1, <2>3 DEF SeqOf
  <2>6. s # <<>>
    BY <2>3, <2>4
  <2>7. s \in Chains(f)
    BY <2>2, <2>4, <2>5, <2>6 DEF Chains, IsChain
  <2> QED BY <2>2, <2>4, <2>7 DEF ChainEnds, IsChain
<1>3. ASSUME NEW k \in ChainEnds(f) PROVE k \in compromised(f)
  <2>1. PICK s \in Chains(f) : s[1] \in DirectlyCompromised(f) /\ k = s[Len(s)]
    BY <1>3 DEF ChainEnds
  <2>2. PICK m \in 0..n : s \in [1..m -> Ids(f)]
    BY <2>1 DEF Chains, SeqOf
  <2>3. s \in Seq(Ids(f)) /\ Len(s) = m /\ m \in Nat
    BY <1>1, <2>2, FunctionIsSeq
  <2>4. m # 0
    BY <2>1, <2>3 DEF Chains
  <2>5. IsChain(f, m, s)
    BY <2>1, <2>2, <2>3 DEF IsChain, Chains
  <2> QED BY <2>1, <2>3, <2>4, <2>5, ChainIsFound
<1> QED BY <1>2, <1>3

----------------------------------------------------------------------------
(* What a change leaves alone.                                             *)

\* A key at the end of the file changes nothing for the keys before it.
LEMMA AddKeeps ==
  ASSUME NEW f \in TrustFile, NEW e \in Entry,
         NEW g \in TrustFile, g.keys = Append(f.keys, e), g.revs = f.revs
  PROVE  /\ Ids(f) \subseteq Ids(g) /\ revoked(f) \subseteq revoked(g)
         /\ revoked(g) \subseteq revoked(f) \cup {e.id}
<1> DEFINE n == Len(f.keys)
           S == {i \in Nat : i <= n => cascade(g)[i] = cascade(f)[i]}
<1>1. n \in Nat /\ f.keys \in Seq(Entry) /\ DOMAIN f.keys = 1..n
  BY DEF TrustFile
<1>2. /\ Len(g.keys) = n + 1 /\ DOMAIN g.keys = 1..(n + 1) /\ g.keys[n + 1] = e
      /\ \A i \in 1..n : g.keys[i] = f.keys[i]
  BY <1>1
<1>3. Revs(g) = Revs(f) /\ DirectlyCompromised(g) = DirectlyCompromised(f)
  BY DEF Revs, DirectlyCompromised
<1>4. /\ cascade(f)[0] = DirectlyCompromised(f)
      /\ \A i \in 1..n : cascade(f)[i] = Found(f, i, cascade(f)[i - 1])
  BY CascadeSteps
<1>5. /\ cascade(g)[0] = DirectlyCompromised(g)
      /\ \A i \in 1..(n + 1) : cascade(g)[i] = Found(g, i, cascade(g)[i - 1])
  BY <1>2, CascadeSteps
<1>6. 0 \in S
  BY <1>3, <1>4, <1>5
<1>7. ASSUME NEW i \in Nat, i \in S PROVE i + 1 \in S
  <2>1. ASSUME i + 1 <= n PROVE cascade(g)[i + 1] = cascade(f)[i + 1]
    <3>1. i + 1 \in 1..n /\ i + 1 \in 1..(n + 1) /\ (i + 1) - 1 = i
      BY <1>1, <2>1
    <3>2. cascade(g)[i] = cascade(f)[i]
      BY <1>1, <1>7, <2>1
    <3>3. g.keys[i + 1] = f.keys[i + 1]
      BY <1>2, <3>1
    <3>4. cascade(g)[i + 1] = Found(g, i + 1, cascade(g)[i])
      BY <1>5, <3>1
    <3>5. cascade(f)[i + 1] = Found(f, i + 1, cascade(f)[i])
      BY <1>4, <3>1
    <3> QED BY <3>2, <3>3, <3>4, <3>5 DEF Found
  <2> HIDE DEF n
  <2> QED BY <2>1
<1>8. cascade(g)[n] = cascade(f)[n]
  <2>1. \A i \in Nat : i \in S
    <3> HIDE DEF S
    <3> QED BY <1>6, <1>7, SetInduction
  <2> HIDE DEF n
  <2> QED BY <1>1, <2>1
<1>9. compromised(f) = cascade(f)[n] /\ compromised(g) = Found(g, n + 1, cascade(f)[n])
  <2>1. n + 1 \in 1..(n + 1) /\ (n + 1) - 1 = n
    BY <1>1
  <2> QED BY <1>2, <1>5, <1>8, <2>1 DEF compromised
<1>10. compromised(f) \subseteq compromised(g) /\ compromised(g) \subseteq compromised(f) \cup {e.id}
  BY <1>2, <1>9 DEF Found
<1>11. Ids(f) \subseteq Ids(g)
  BY <1>1, <1>2 DEF Ids
<1> QED BY <1>3, <1>10, <1>11 DEF revoked

\* A further revocation takes none back, nor what an earlier one cascaded to.
LEMMA RevokeKeeps ==
  ASSUME NEW f \in TrustFile, NEW r \in Revocation,
         NEW g \in TrustFile, g.keys = f.keys, g.revs = Append(f.revs, r)
  PROVE  revoked(f) \subseteq revoked(g)
<1> DEFINE n == Len(f.keys)
           S == {i \in Nat : i <= n => cascade(f)[i] \subseteq cascade(g)[i]}
<1>1. n \in Nat /\ f.revs \in Seq(Revocation)
  BY DEF TrustFile
<1>2. Revs(f) \subseteq Revs(g)
  BY <1>1 DEF Revs
<1>3. DirectlyCompromised(f) \subseteq DirectlyCompromised(g)
  BY <1>2 DEF DirectlyCompromised
<1>4. /\ cascade(f)[0] = DirectlyCompromised(f)
      /\ \A i \in 1..n : cascade(f)[i] = Found(f, i, cascade(f)[i - 1])
  BY CascadeSteps
<1>5. /\ cascade(g)[0] = DirectlyCompromised(g)
      /\ \A i \in 1..n : cascade(g)[i] = Found(g, i, cascade(g)[i - 1])
  BY CascadeSteps
<1>6. 0 \in S
  BY <1>3, <1>4, <1>5
<1>7. ASSUME NEW i \in Nat, i \in S PROVE i + 1 \in S
  <2>1. ASSUME i + 1 <= n PROVE cascade(f)[i + 1] \subseteq cascade(g)[i + 1]
    <3>1. i + 1 \in 1..n /\ (i + 1) - 1 = i
      BY <1>1, <2>1
    <3>2. cascade(f)[i] \subseteq cascade(g)[i]
      BY <1>1, <1>7, <2>1
    <3>3. cascade(g)[i + 1] = Found(g, i + 1, cascade(g)[i])
      BY <1>5, <3>1
    <3>4. cascade(f)[i + 1] = Found(f, i + 1, cascade(f)[i])
      BY <1>4, <3>1
    <3> QED BY <3>2, <3>3, <3>4 DEF Found
  <2> HIDE DEF n
  <2> QED BY <2>1
<1>8. cascade(f)[n] \subseteq cascade(g)[n]
  <2>1. \A i \in Nat : i \in S
    <3> HIDE DEF S
    <3> QED BY <1>6, <1>7, SetInduction
  <2> HIDE DEF n
  <2> QED BY <1>1, <2>1
<1> QED BY <1>2, <1>8 DEF revoked, compromised

----------------------------------------------------------------------------
(* The file under plans in flight.                                         *)

\* A submission that was read or admitted has changes left, and a file to change.
FlightOk(x) ==
  /\ flight[x].changes \in Seq(Changes(Keys))
  /\ flight[x].at # "idle" => flight[x].changes # <<>> /\ file # NoFile

TrustInv ==
  /\ file \in TrustFile /\ trustLoad \in TrustLoad
  /\ DOMAIN flight = Flights /\ \A x \in Flights : FlightOk(x)
  /\ FileLoads /\ OwnerRemains

\* An allowed change of a file that loads and has an owner leaves another one,
\* with every revocation it had (apply_change).
LEMMA ChangeKeeps ==
  ASSUME NEW f \in TrustFile, validate_trust(f), active_owners(f) # {},
         NEW c \in Changes(Keys), allowed(f, c)
  PROVE  /\ changed(f, c) \in TrustFile /\ validate_trust(changed(f, c))
         /\ active_owners(changed(f, c)) # {}
         /\ revoked(f) \subseteq revoked(changed(f, c))
<1> DEFINE g == changed(f, c)
<1>1. c.key \in Keys /\ c.by \in Keys /\ c.compromised \in BOOLEAN
      /\ c.kind \in {"key.add", "key.revoke"}
  BY DEF Changes, AddKeys, RevokeKeys
<1>2. f.keys \in Seq(Entry) /\ f.revs \in Seq(Revocation)
  BY DEF TrustFile
<1>3. validate_trust(g)
  BY DEF allowed
<1>4. CASE c.kind = "key.add"
  <2> DEFINE e == [id |-> c.key, by |-> c.by]
  <2>1. e \in Entry
    BY <1>1 DEF Entry
  <2>2. g = [f EXCEPT !.keys = Append(@, e)]
    BY <1>4 DEF changed
  <2>3. g.keys = Append(f.keys, e) /\ g.revs = f.revs /\ g \in TrustFile
    <3> HIDE DEF g, e
    <3>1. Append(f.keys, e) \in Seq(Entry)
      BY <1>2, <2>1
    <3> QED BY <1>2, <2>2, <3>1 DEF TrustFile
  <2>4. c.key \notin Ids(f)
    BY <1>4 DEF allowed
  <2> HIDE DEF g
  <2>5. /\ Ids(f) \subseteq Ids(g) /\ revoked(f) \subseteq revoked(g)
        /\ revoked(g) \subseteq revoked(f) \cup {e.id}
    <3> HIDE DEF e
    <3> QED BY <2>1, <2>3, AddKeeps
  <2>6. active_owners(f) \subseteq active_owners(g)
    BY <2>4, <2>5 DEF active_owners
  <2> QED BY <1>3, <2>3, <2>5, <2>6 DEF g
<1>5. CASE c.kind = "key.revoke"
  <2> DEFINE r == [key |-> c.key, by |-> c.by, compromised |-> c.compromised]
  <2>1. r \in Revocation
    BY <1>1 DEF Revocation
  <2>2. g = [f EXCEPT !.revs = Append(@, r)]
    BY <1>5 DEF changed
  <2>3. g.keys = f.keys /\ g.revs = Append(f.revs, r) /\ g \in TrustFile
    <3> HIDE DEF g, r
    <3>1. Append(f.revs, r) \in Seq(Revocation)
      BY <1>2, <2>1
    <3> QED BY <1>2, <2>2, <3>1 DEF TrustFile
  <2>4. active_owners(g) # {}
    BY <1>5 DEF allowed
  <2>5. revoked(f) \subseteq revoked(g)
    <3> HIDE DEF g, r
    <3> QED BY <2>1, <2>3, RevokeKeeps
  <2> QED BY <1>3, <2>3, <2>4, <2>5
<1> QED BY <1>1, <1>4, <1>5

\* The bootstrap and the empty file.
LEMMA FirstFile ==
  /\ NoFile \in TrustFile
  /\ revoked(NoFile) = {}
  /\ \A k \in Owners :
       LET f == [keys |-> <<[id |-> k, by |-> NoKey]>>, revs |-> <<>>]
       IN  f \in TrustFile /\ f # NoFile /\ validate_trust(f) /\ active_owners(f) # {}
<1>1. NoFile \in TrustFile
  BY DEF NoFile, TrustFile
<1>2. revoked(NoFile) = {}
  <2>1. Revs(NoFile) = {} /\ DirectlyCompromised(NoFile) = {}
    BY DEF Revs, NoFile, DirectlyCompromised
  <2>2. compromised(NoFile) = {}
    BY <1>1, <2>1, CascadeSteps DEF compromised, NoFile
  <2> QED BY <2>1, <2>2 DEF revoked
<1>3. ASSUME NEW k \in Owners, NEW f, f = [keys |-> <<[id |-> k, by |-> NoKey]>>, revs |-> <<>>]
      PROVE  f \in TrustFile /\ f # NoFile /\ validate_trust(f) /\ active_owners(f) # {}
  <2>1. f.keys = <<[id |-> k, by |-> NoKey]>> /\ f.revs = <<>> /\ k \in Keys
    BY <1>3, TrustAssumption
  <2>2. /\ Len(f.keys) = 1 /\ DOMAIN f.keys = 1..1 /\ f.keys[1] = [id |-> k, by |-> NoKey]
        /\ f.keys \in Seq(Entry)
    BY <2>1 DEF Entry
  <2>3. f \in TrustFile
    BY <1>3, <2>1, <2>2 DEF TrustFile
  <2>4. f # NoFile
    BY <2>1, <2>2 DEF NoFile
  <2>5. DOMAIN f.revs = {} /\ Revs(f) = {} /\ DirectlyCompromised(f) = {}
    BY <2>1 DEF Revs, DirectlyCompromised
  <2>6. validate_trust(f)
    <3>1. EarlierIds(f, 1) = {}
      BY DEF EarlierIds
    <3>2. valid_keys(f)
      BY <2>1, <2>2, <3>1 DEF valid_keys
    <3> QED BY <2>5, <3>2 DEF validate_trust, valid_revocations
  <2>7. revoked(f) = {}
    <3> 1 \in 1..Len(f.keys) /\ 1 - 1 = 0
      BY <2>2
    <3>1. cascade(f)[0] = {} /\ cascade(f)[1] = Found(f, 1, cascade(f)[0])
      BY <2>3, <2>5, CascadeSteps
    <3>2. compromised(f) = {}
      BY <2>2, <3>1 DEF Found, compromised
    <3> QED BY <2>5, <3>2 DEF revoked
  <2>8. Ids(f) = {k}
    BY <2>2 DEF Ids
  <2> QED BY <2>3, <2>4, <2>6, <2>7, <2>8 DEF active_owners
<1> QED BY <1>1, <1>2, <1>3

\* The changes a submission may hold are a sequence of them.
LEMMA SubmittedChanges ==
  ASSUME NEW ks \in SUBSET Keys, NEW top \in Nat,
         NEW cs \in UNION {[1..n -> Changes(ks)] : n \in 1..top}
  PROVE  cs \in Seq(Changes(Keys)) /\ cs # <<>>
<1>1. PICK n \in 1..top : cs \in [1..n -> Changes(ks)]
  OBVIOUS
<1>2. Changes(ks) \subseteq Changes(Keys)
  BY DEF Changes, AddKeys, RevokeKeys
<1>3. cs \in [1..n -> Changes(Keys)] /\ n \in Nat /\ n # 0
  BY <1>1, <1>2
<1>4. cs \in Seq(Changes(Keys)) /\ Len(cs) = n
  BY <1>3, FunctionIsSeq
<1> QED BY <1>3, <1>4

\* One step on the file or on a submission; no revocation is taken back.
LEMMA TrustStep ==
  ASSUME TrustInv, TkNext
  PROVE  TrustInv' /\ revoked(file) \subseteq revoked(file')
<1> USE DEF TrustInv
<1>1. ASSUME NEW k \in trustLoad.keys, BootstrapKeys(k)
      PROVE  TrustInv' /\ revoked(file) \subseteq revoked(file')
  <2>1. file' \in TrustFile /\ file' # NoFile /\ validate_trust(file') /\ active_owners(file') # {}
    BY <1>1, FirstFile DEF BootstrapKeys
  <2>2. revoked(file) = {}
    BY <1>1, FirstFile DEF BootstrapKeys
  <2>3. UNCHANGED <<flight, trustLoad>>
    BY <1>1 DEF BootstrapKeys
  <2>4. \A x \in Flights : FlightOk(x)'
    BY <2>1, <2>3 DEF FlightOk
  <2> QED BY <2>1, <2>2, <2>3, <2>4 DEF FileLoads, OwnerRemains
<1>2. ASSUME NEW x \in Flights, SubmitKeys(x)
      PROVE  TrustInv' /\ revoked(file) \subseteq revoked(file')
  <2>1. file' = file /\ trustLoad' = trustLoad /\ file # NoFile
    BY <1>2 DEF SubmitKeys
  <2>2. PICK k \in trustLoad.keys,
             cs \in UNION {[1..n -> Changes(trustLoad.keys)] : n \in 1..trustLoad.changes} :
          flight' = [flight EXCEPT ![x] = [at |-> "read", trust |-> file, signer |-> k,
                                           changes |-> cs]]
    BY <1>2 DEF SubmitKeys
  <2>3. trustLoad.keys \in SUBSET Keys /\ trustLoad.changes \in Nat
    BY DEF TrustLoad
  <2>4. cs \in Seq(Changes(Keys)) /\ cs # <<>>
    BY <2>3, SubmittedChanges
  <2>5. DOMAIN flight' = Flights /\ flight'[x].changes = cs
        /\ \A y \in Flights \ {x} : flight'[y] = flight[y]
    BY <2>2
  <2>6. \A y \in Flights : FlightOk(y)'
    BY <2>1, <2>4, <2>5 DEF FlightOk
  <2> QED BY <2>1, <2>5, <2>6 DEF FileLoads, OwnerRemains
<1>3. ASSUME NEW x \in Flights, AdmitKeys(x)
      PROVE  TrustInv' /\ revoked(file) \subseteq revoked(file')
  <2>1. file' = file /\ trustLoad' = trustLoad /\ flight[x].at # "idle"
    BY <1>3 DEF AdmitKeys
  <2>2. /\ DOMAIN flight' = Flights /\ \A y \in Flights \ {x} : flight'[y] = flight[y]
        /\ \/ flight'[x].changes = flight[x].changes
           \/ flight'[x].changes = <<>> /\ flight'[x].at = "idle"
    BY <1>3 DEF AdmitKeys, Idle
  <2>3. \A y \in Flights : FlightOk(y)'
    <3>1. <<>> \in Seq(Changes(Keys)) /\ FlightOk(x)
      OBVIOUS
    <3>2. FlightOk(x)'
      BY <2>1, <2>2, <3>1 DEF FlightOk
    <3>3. \A y \in Flights \ {x} : FlightOk(y)'
      BY <2>1, <2>2 DEF FlightOk
    <3> QED BY <3>2, <3>3
  <2> QED BY <2>1, <2>2, <2>3 DEF FileLoads, OwnerRemains
<1>4. ASSUME NEW x \in Flights, update_trusted_keys(x)
      PROVE  TrustInv' /\ revoked(file) \subseteq revoked(file')
  <2> DEFINE c == Head(flight[x].changes)
             rest == Tail(flight[x].changes)
  <2>1. flight[x].changes \in Seq(Changes(Keys)) /\ flight[x].changes # <<>> /\ file # NoFile
    BY <1>4 DEF update_trusted_keys, FlightOk
  <2>2. c \in Changes(Keys) /\ rest \in Seq(Changes(Keys))
    BY <2>1
  <2>3. trustLoad' = trustLoad /\ file' = IF allowed(file, c) THEN changed(file, c) ELSE file
    BY <1>4 DEF update_trusted_keys
  <2>4. /\ DOMAIN flight' = Flights /\ \A y \in Flights \ {x} : flight'[y] = flight[y]
        /\ \/ flight'[x].changes = rest /\ rest # <<>>
           \/ flight'[x].changes = <<>> /\ flight'[x].at = "idle"
    BY <1>4 DEF update_trusted_keys, Idle
  <2>5. validate_trust(file) /\ active_owners(file) # {}
    BY <2>1 DEF FileLoads, OwnerRemains
  <2> HIDE DEF c, rest
  <2>6. /\ file' \in TrustFile /\ validate_trust(file') /\ active_owners(file') # {}
        /\ revoked(file) \subseteq revoked(file')
    BY <2>2, <2>3, <2>5, ChangeKeeps
  <2>7. file' # NoFile
    <3>1. Ids(NoFile) = {}
      BY DEF Ids, NoFile
    <3> QED BY <2>6, <3>1 DEF active_owners
  <2>8. \A y \in Flights : FlightOk(y)'
    <3>1. <<>> \in Seq(Changes(Keys))
      OBVIOUS
    <3>2. FlightOk(x)'
      BY <2>2, <2>4, <2>7, <3>1 DEF FlightOk
    <3>3. \A y \in Flights \ {x} : FlightOk(y)'
      BY <2>4, <2>7 DEF FlightOk
    <3> QED BY <3>2, <3>3
  <2> QED BY <2>3, <2>4, <2>6, <2>8 DEF FileLoads, OwnerRemains
<1> QED BY <1>1, <1>2, <1>3, <1>4 DEF TkNext

\* The inductive invariant of a behaviour about the file.
TrustPartInv == part = "trust" => TrustInv

\* It holds of the file from the start and after every step.
LEMMA TrustInvariant == MCSpec => []TrustPartInv
<1>1. MCInit => TrustPartInv
  <2> SUFFICES ASSUME TkInit PROVE TrustInv
    BY DEF MCInit, TrustPartInv
  <2>1. file = NoFile /\ DOMAIN flight = Flights /\ \A x \in Flights : flight[x] = Idle
    BY DEF TkInit
  <2>2. trustLoad \in TrustLoad
    BY TrustAssumption DEF TkInit
  <2>3. <<>> \in Seq(Changes(Keys)) /\ Idle.changes = <<>> /\ Idle.at = "idle"
    BY DEF Idle
  <2>4. \A x \in Flights : FlightOk(x)
    BY <2>1, <2>3 DEF FlightOk
  <2> QED BY <2>1, <2>2, <2>4, FirstFile DEF TrustInv, FileLoads, OwnerRemains
<1>2. TrustPartInv /\ [MCNext]_<<part, vars, tkVars>> => TrustPartInv'
  <2> SUFFICES ASSUME TrustPartInv, [MCNext]_<<part, vars, tkVars>>, part' = "trust" PROVE TrustInv'
    BY DEF TrustPartInv
  <2>1. part' = part
    BY DEF MCNext
  <2>2. CASE TkNext
    BY <2>1, <2>2, TrustStep DEF TrustPartInv
  <2>3. CASE UNCHANGED tkVars
    BY <2>1, <2>3 DEF tkVars, TrustPartInv, TrustInv, FlightOk, FileLoads, OwnerRemains
  <2> QED BY <2>1, <2>2, <2>3 DEF MCNext
<1> QED BY <1>1, <1>2, PTL DEF MCSpec

\* Whatever plans are in flight between the agent's check and the runner's,
\* the file stays one the agent can load, with an owner key that is not
\* revoked, and what a compromised key added is revoked with it
\* (apply_change, validate_trust).
THEOREM TrustFileStaysSound == MCSpec => []TrustFileHolds
<1>1. TrustPartInv => TrustFileHolds
  <2> SUFFICES ASSUME TrustInv PROVE CascadeComplete
    BY DEF TrustFileHolds, TrustPartInv, TrustInv
  <2>1. CASE file = NoFile
    <3>1. compromised(file) = {}
      BY <2>1, FirstFile DEF revoked
    <3>2. DirectlyCompromised(file) = {}
      BY <2>1 DEF DirectlyCompromised, Revs, NoFile
    <3> QED BY <3>1, <3>2 DEF CascadeComplete
  <2>2. CASE file # NoFile
    BY <2>2, PassIsComplete DEF TrustInv, FileLoads, CascadeComplete, ChainEnds
  <2> QED BY <2>1, <2>2
<1> QED BY <1>1, TrustInvariant, PTL

\* A step of a behaviour about the file takes no revocation back.
RevocationsStay == part = "trust" => revoked(file) \subseteq revoked(file')

\* A key revoked directly or through the key that added it stays revoked,
\* whatever the plans in flight add or revoke afterwards: the file only grows,
\* and the pass over a longer file finds no less (apply_change, validate_trust).
THEOREM RevokedForGood == MCSpec => [][RevocationsStay]_<<part, vars, tkVars>>
<1>1. ASSUME TrustPartInv, [MCNext]_<<part, vars, tkVars>>
      PROVE  [RevocationsStay]_<<part, vars, tkVars>>
  <2> SUFFICES ASSUME MCNext, part = "trust" PROVE revoked(file) \subseteq revoked(file')
    BY <1>1 DEF RevocationsStay
  <2>1. CASE TkNext
    BY <1>1, <2>1, TrustStep DEF TrustPartInv
  <2>2. CASE UNCHANGED tkVars
    BY <2>2 DEF tkVars
  <2> QED BY <2>1, <2>2 DEF MCNext
<1> QED BY <1>1, TrustInvariant, PTL DEF MCSpec
=============================================================================
