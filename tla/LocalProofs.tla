----------------------------- MODULE LocalProofs -----------------------------
(***************************************************************************)
(* Proofs about components of the local agent, for any calls, clients and  *)
(* limits: the permits of shells, which plan opens one and how often calls *)
(* may pass, and when a session ends.                                      *)
(***************************************************************************)
EXTENDS MCLocal, DataInduction, TLAPS

----------------------------------------------------------------------------
(* Calls and shells: the inductive invariant.                              *)

\* Who is at the gate has a plan of its kind of call; who admitted a plan is a
\* call with its id that went on; a shell that the runner is asked for admitted
\* its plan, and none was opened for it.
Asking == {"bind", "opening"}
AdmitInv ==
  /\ \A c \in DOMAIN handlers : At(c) \in {"gate", "admit"} =>
       \/ Rpc(c) = "shell" /\ PlanOf(c).kinds = {"shell.open"}
       \/ Rpc(c) \in {"submit", "cancel"} /\ ~holds_kind(PlanOf(c), "shell.open")
  /\ \A p \in DOMAIN admitted :
       /\ admitted[p].by \in DOMAIN handlers /\ PlanOf(admitted[p].by).id = p
       /\ At(admitted[p].by) \notin {"new", "gate", "admit", "existing"}
  /\ \A c \in DOMAIN handlers :
       /\ At(c) \in Asking \cup {"pump", "exiting"} => Rpc(c) = "shell"
       /\ At(c) \in Asking \cup {"admitted", "existing"} => PlanOf(c).id \in DOMAIN admitted
       /\ At(c) \in Asking => admitted[PlanOf(c).id].by = c /\ PlanOf(c).id \notin DOMAIN opened
  /\ OnePlanOneShell /\ SameOperation

\* The list of a limit is the end of the times that passed it, and what it has
\* forgotten has left the window.
Follows(list, times) ==
  /\ list \in Seq(Nat) /\ times \in Seq(Nat) /\ Len(list) <= Len(times)
  /\ \A i \in 1..Len(list) : list[i] = times[Len(times) - Len(list) + i]
  /\ \A i \in 1..(Len(times) - Len(list)) : callNow - times[i] > Window
LimitInv ==
  /\ passes = [submissions |-> passes.submissions, hostShells |-> passes.hostShells]
  /\ Follows(submissions, passes.submissions) /\ Within(passes.submissions, SubmitLimit)
  /\ Follows(hostShells, passes.hostShells) /\ Within(passes.hostShells, HostLimit)
  /\ passes.submissions # <<>> => \E c \in DOMAIN handlers : Rpc(c) # "verify" /\ ~HostShell(c)

\* A session that was not held up by its client is before its next timer, and it
\* has the reason for which it began to end.
InSession == {"pump", "exiting", "closed"}
SessionFields == {"at", "reason", "clientOpen", "listens", "closing", "asked", "activity", "deadline", "out", "chunks", "cause",
                  "exits", "stalled"}
IsSession(v) ==
  /\ SessionFields \subseteq DOMAIN v
  /\ v.closing \in Nat \cup {NoTime} /\ v.activity \in Nat /\ v.deadline \in Nat
InTime(v, t) ==
  /\ v.closing # NoTime <=> v.reason # NoReason
  /\ v.closing # NoTime => v.asked
  /\ ~v.stalled /\ v.closing # NoTime => t <= v.closing /\ v.closing <= v.deadline + Grace
  /\ ~v.stalled /\ v.closing = NoTime => t <= v.deadline /\ t <= v.activity + IdleTime
ReasonOk(v) ==
  /\ v.cause # NoReason => v.reason = v.cause
  /\ v.exits = IF v.at = "closed" THEN 1 ELSE 0
SessionOk(v, t) == v.at \in InSession => IsSession(v) /\ ReasonOk(v) /\ (v.at = "pump" => InTime(v, t))

\* The calls that hold a permit.
Holders == {c \in DOMAIN handlers : HoldsSlot(c)}

SlotInv == freeSlots \in Nat /\ freeSlots + Cardinality(Holders) = MaxShells

CallInv ==
  /\ callLoad \in CallLoads /\ callNow \in Nat /\ DOMAIN handlers \subseteq DOMAIN callLoad.calls
  /\ SlotInv /\ AdmitInv /\ LimitInv /\ \A c \in DOMAIN handlers : SessionOk(handlers[c], callNow)

----------------------------------------------------------------------------
(* Calls and shells: a step of one call.                                   *)

\* Call c comes to be at v, and no other call moves.
Puts(c, v) ==
  /\ callLoad' = callLoad /\ c \in DOMAIN callLoad.calls
  /\ DOMAIN handlers' = DOMAIN handlers \cup {c} /\ handlers'[c] = v
  /\ \A d \in DOMAIN handlers : d # c => handlers'[d] = handlers[d]

\* The two ways in which a handler is written.
LEMMA Writes ==
  ASSUME NEW c \in DOMAIN callLoad.calls, NEW v, callLoad' = callLoad,
         handlers' = WithKey(handlers, c, v) \/ (c \in DOMAIN handlers /\ handlers' = [handlers EXCEPT ![c] = v])
  PROVE  Puts(c, v)
BY DEF WithKey, Puts

\* Where the calls are after it.
LEMMA Others ==
  ASSUME NEW c, NEW v, Puts(c, v)
  PROVE  /\ At(c)' = v.at /\ \A d : d # c => At(d)' = At(d)
         /\ \A d : Rpc(d)' = Rpc(d) /\ PlanOf(d)' = PlanOf(d) /\ HostShell(d)' = HostShell(d)
         /\ \A d : d # c => (HoldsSlot(d)' <=> HoldsSlot(d))
<1>1. At(c)' = v.at
  BY DEF Puts, At
<1>2. \A d : d # c => At(d)' = At(d)
  BY DEF Puts, At
<1>3. \A d : Rpc(d)' = Rpc(d) /\ PlanOf(d)' = PlanOf(d) /\ HostShell(d)' = HostShell(d)
  BY DEF Puts, Rpc, PlanOf, HostShell
<1> QED BY <1>1, <1>2, <1>3 DEF HoldsSlot

\* Permits: what a call holds it took, and what it held it gives back.
Swap(c) ==
  \/ HoldsSlot(c) /\ HoldsSlot(c)' /\ freeSlots' = freeSlots
  \/ ~HoldsSlot(c) /\ ~HoldsSlot(c)' /\ freeSlots' = freeSlots
  \/ HoldsSlot(c) /\ ~HoldsSlot(c)' /\ freeSlots' = freeSlots + 1
  \/ ~HoldsSlot(c) /\ HoldsSlot(c)' /\ freeSlots' = freeSlots - 1 /\ freeSlots > 0
LEMMA SlotsStep ==
  ASSUME SlotInv, IsFiniteSet(DOMAIN handlers), NEW c, NEW v, Puts(c, v), Swap(c)
  PROVE  SlotInv'
<1>1. IsFiniteSet(Holders)
  BY FS_Subset DEF Holders
<1>2. HoldsSlot(c) => c \in DOMAIN handlers
  BY DEF HoldsSlot, At
<1>3. \A d : d # c => (d \in Holders' <=> d \in Holders)
  BY Others DEF Holders, Puts
<1>4. (c \in Holders' <=> HoldsSlot(c)') /\ (c \in Holders <=> HoldsSlot(c))
  BY <1>2 DEF Holders, Puts
<1>5. Cardinality(Holders) \in Nat /\ MaxShells \in Nat
  BY <1>1, FS_CardinalityType, CallAssumption
<1>6. CASE HoldsSlot(c) <=> HoldsSlot(c)'
  <2>1. Holders' = Holders
    BY <1>3, <1>4, <1>6
  <2>2. freeSlots' = freeSlots
    BY <1>6 DEF Swap
  <2> QED BY <2>1, <2>2 DEF SlotInv
<1>7. CASE HoldsSlot(c) /\ ~HoldsSlot(c)'
  <2>1. Holders' = Holders \ {c} /\ c \in Holders
    BY <1>3, <1>4, <1>7
  <2>2. Cardinality(Holders') = Cardinality(Holders) - 1
    BY <1>1, <2>1, FS_RemoveElement
  <2>3. freeSlots' = freeSlots + 1
    BY <1>7 DEF Swap
  <2> QED BY <1>5, <2>2, <2>3 DEF SlotInv
<1>8. CASE ~HoldsSlot(c) /\ HoldsSlot(c)'
  <2>1. Holders' = Holders \cup {c} /\ c \notin Holders
    BY <1>3, <1>4, <1>8
  <2>2. Cardinality(Holders') = Cardinality(Holders) + 1
    BY <1>1, <2>1, FS_AddElement
  <2>3. freeSlots' = freeSlots - 1 /\ freeSlots > 0
    BY <1>8 DEF Swap
  <2> QED BY <1>5, <2>2, <2>3 DEF SlotInv
<1> QED BY <1>6, <1>7, <1>8

\* A call that moves on without admitting or opening anything: what it must be
\* to be at the gate, and that none that admitted its plan goes back.
LEMMA AdmitKept ==
  ASSUME AdmitInv, NEW c, NEW v, Puts(c, v), UNCHANGED <<admitted, opened>>,
         v.at \notin {"new", "bind", "admitted"},
         v.at \in {"gate", "admit"} =>
           \/ Rpc(c) = "shell" /\ PlanOf(c).kinds = {"shell.open"}
           \/ Rpc(c) \in {"submit", "cancel"} /\ ~holds_kind(PlanOf(c), "shell.open"),
         v.at \in {"gate", "admit", "existing"} => At(c) \in {"new", "gate", "admit"},
         v.at = "existing" =>
           PlanOf(c).id \in DOMAIN admitted /\ admitted[PlanOf(c).id].digest = PlanOf(c).digest,
         v.at = "opening" => At(c) = "bind",
         v.at \in {"pump", "exiting"} => At(c) \in {"pump", "exiting"}
  PROVE  AdmitInv'
<1>1. /\ At(c)' = v.at /\ \A d : d # c => At(d)' = At(d)
      /\ \A d : Rpc(d)' = Rpc(d) /\ PlanOf(d)' = PlanOf(d)
      /\ \A d \in DOMAIN handlers' : d # c => d \in DOMAIN handlers
      /\ DOMAIN handlers \subseteq DOMAIN handlers'
  BY Others DEF Puts
<1>2. At(c) # "new" => c \in DOMAIN handlers
  BY DEF At
<1>3. \A p \in DOMAIN admitted : admitted[p].by = c => At(c) \notin {"new", "gate", "admit", "existing"}
  BY DEF AdmitInv
<1>4. \A d \in DOMAIN handlers' : At(d)' \in {"gate", "admit"} =>
        \/ Rpc(d)' = "shell" /\ PlanOf(d)'.kinds = {"shell.open"}
        \/ Rpc(d)' \in {"submit", "cancel"} /\ ~holds_kind(PlanOf(d)', "shell.open")
  BY <1>1 DEF AdmitInv
<1>5. \A p \in DOMAIN admitted' :
        /\ (admitted[p].by \in DOMAIN handlers)' /\ (PlanOf(admitted[p].by).id = p)'
        /\ (At(admitted[p].by) \notin {"new", "gate", "admit", "existing"})'
  <2> SUFFICES ASSUME NEW p \in DOMAIN admitted, NEW b, b = admitted[p].by
               PROVE  /\ b \in DOMAIN handlers' /\ PlanOf(b)'.id = p
                      /\ At(b)' \notin {"new", "gate", "admit", "existing"}
    BY DEF PlanOf, At
  <2> QED BY <1>1, <1>3 DEF AdmitInv
<1>6. \A d \in DOMAIN handlers' :
        /\ At(d)' \in Asking \cup {"pump", "exiting"} => Rpc(d)' = "shell"
        /\ At(d)' \in Asking \cup {"admitted", "existing"} => PlanOf(d)'.id \in DOMAIN admitted'
        /\ At(d)' \in Asking => admitted'[PlanOf(d)'.id].by = d /\ PlanOf(d)'.id \notin DOMAIN opened'
  BY <1>1, <1>2 DEF AdmitInv, Asking
<1>7. OnePlanOneShell'
  <2>1. callLoad' = callLoad
    BY DEF Puts
  <2> QED BY <2>1 DEF AdmitInv, OnePlanOneShell, PlanOf, Rpc, holds_kind
<1>8. SameOperation'
  <2>1. ASSUME NEW d \in DOMAIN handlers'
        PROVE  /\ At(d)' = "existing" => admitted'[PlanOf(d)'.id].digest = PlanOf(d)'.digest /\ admitted'[PlanOf(d)'.id].by # d
               /\ At(d)' = "admitted" => admitted'[PlanOf(d)'.id].by = d
    BY <1>1, <1>3 DEF AdmitInv, SameOperation
  <2> QED BY <2>1 DEF SameOperation
<1> QED BY <1>4, <1>5, <1>6, <1>7, <1>8 DEF AdmitInv

\* A call that the limits do not count.
LEMMA LimitKept ==
  ASSUME LimitInv, NEW c, NEW v, Puts(c, v), UNCHANGED <<limitVars, callNow>>
  PROVE  LimitInv'
<1>1. passes.submissions # <<>> => \E d \in DOMAIN handlers' : Rpc(d)' # "verify" /\ ~HostShell(d)'
  BY Others DEF LimitInv, Puts
<1>2. /\ Follows(submissions, passes.submissions)' /\ Within(passes.submissions, SubmitLimit)'
      /\ Follows(hostShells, passes.hostShells)' /\ Within(passes.hostShells, HostLimit)'
  BY DEF LimitInv, Follows, Within, limitVars
<1> QED BY <1>1, <1>2 DEF LimitInv, limitVars

\* A session that stays in order while the clock stands.
LEMMA SessionsKept ==
  ASSUME \A d \in DOMAIN handlers : SessionOk(handlers[d], callNow), NEW c, NEW v, Puts(c, v),
         SessionOk(v, callNow), UNCHANGED callNow
  PROVE  \A d \in DOMAIN handlers' : SessionOk(handlers'[d], callNow')
BY DEF Puts

\* The parts of the invariant together.
LEMMA CallMoves ==
  ASSUME CallInv, NEW c, NEW v, Puts(c, v), Swap(c), AdmitInv', LimitInv', SessionOk(v, callNow),
         UNCHANGED callNow
  PROVE  CallInv'
<1>1. IsFiniteSet(DOMAIN handlers)
  BY CallAssumption, FS_Subset DEF CallInv
<1>2. SlotInv'
  BY <1>1, SlotsStep DEF CallInv
<1>3. \A d \in DOMAIN handlers' : SessionOk(handlers'[d], callNow')
  BY SessionsKept DEF CallInv
<1> QED BY <1>2, <1>3 DEF CallInv, Puts

\* A place that is no session's.
LEMMA NoSession == ASSUME NEW at, at \notin InSession, NEW t PROVE SessionOk([at |-> at], t) /\ [at |-> at].at = at
BY DEF SessionOk

----------------------------------------------------------------------------
(* Calls and shells: submit, verify, cancel and the gate.                  *)

\* A call of another kind than a shell comes in.
LEMMA EntersStep ==
  ASSUME CallInv, NEW c \in DOMAIN callLoad.calls, At(c) = "new", NEW at, Moves(c, at), Rpc(c) # "shell",
         at \in {"gate", "refused", "replay", "existing", "not found", "rate limited", "valid", "invalid"},
         at = "gate" => Rpc(c) \in {"submit", "cancel"} /\ ~holds_kind(PlanOf(c), "shell.open"),
         at = "existing" => PlanOf(c).id \in DOMAIN admitted /\ admitted[PlanOf(c).id].digest = PlanOf(c).digest,
         UNCHANGED <<admitted, limitVars, freeSlots, opened, work, callNow, callLoad>>
  PROVE  CallInv'
<1> DEFINE v == [at |-> at]
<1>1. Puts(c, v)
  BY Writes DEF Moves
<1>2. v.at = at /\ SessionOk(v, callNow)
  BY NoSession DEF InSession
<1> HIDE DEF v
<1>3. Swap(c)
  BY <1>1, Others DEF Swap, HoldsSlot
<1>4. AdmitInv'
  BY <1>1, <1>2, AdmitKept DEF CallInv
<1>5. LimitInv'
  BY <1>1, LimitKept DEF CallInv
<1> QED BY <1>1, <1>2, <1>3, <1>4, <1>5, CallMoves

\* What submit_enters answers.
LEMMA SubmitEnters ==
  ASSUME NEW c
  PROVE  /\ submit_enters(c) \in {"gate", "refused", "replay", "existing"}
         /\ submit_enters(c) = "gate" => ~holds_kind(PlanOf(c), "shell.open")
         /\ submit_enters(c) = "existing" =>
              PlanOf(c).id \in DOMAIN admitted /\ admitted[PlanOf(c).id].digest = PlanOf(c).digest
BY DEF submit_enters, verified_existing

LEMMA SubmitStep == CallInv /\ submit_signed_plan => CallInv'
<1> SUFFICES ASSUME CallInv, submit_signed_plan PROVE CallInv'
  OBVIOUS
<1>1. PICK c \in DOMAIN callLoad.calls : At(c) = "new" /\ Rpc(c) = "submit" /\ Moves(c, submit_enters(c))
  BY DEF submit_signed_plan
<1> QED BY <1>1, SubmitEnters, EntersStep DEF submit_signed_plan

LEMMA CancelStep == CallInv /\ cancel_operation => CallInv'
<1> SUFFICES ASSUME CallInv, cancel_operation PROVE CallInv'
  OBVIOUS
<1>1. PICK c \in DOMAIN callLoad.calls :
        /\ At(c) = "new" /\ Rpc(c) = "cancel"
        /\ Moves(c, "not found") \/ Moves(c, "refused") \/ Moves(c, submit_enters(c))
  BY DEF cancel_operation
<1>2. PICK at \in {"not found", "refused", submit_enters(c)} : Moves(c, at)
  BY <1>1
<1> QED BY <1>1, <1>2, SubmitEnters, EntersStep DEF cancel_operation

LEMMA VerifyStep == CallInv /\ verify_signed_plan => CallInv'
<1> SUFFICES ASSUME CallInv, verify_signed_plan PROVE CallInv'
  OBVIOUS
<1>1. PICK c \in DOMAIN callLoad.calls :
        /\ At(c) = "new" /\ Rpc(c) = "verify"
        /\ \E at \in {"refused", "rate limited", "valid", "invalid"} : Moves(c, at)
  BY DEF verify_signed_plan
<1>2. PICK at \in {"refused", "rate limited", "valid", "invalid"} : Moves(c, at)
  BY <1>1
<1> QED BY <1>1, <1>2, EntersStep DEF verify_signed_plan

\* What leaves a list at its front has left the window.
LEMMA ExpireSlots ==
  ASSUME NEW list \in Seq(Nat), callNow \in Nat
  PROVE  \E n \in 0..Len(list) :
           /\ expire_slots(list, Window) = SubSeq(list, n + 1, Len(list))
           /\ \A i \in 1..n : callNow - list[i] > Window
<1> DEFINE Gone(n) == /\ \A i \in 1..n : callNow - list[i] > Window
                      /\ n < Len(list) => callNow - list[n + 1] <= Window
           T == {n \in Nat : n < Len(list) /\ callNow - list[n + 1] <= Window}
<1>1. Len(list) \in Nat /\ Window \in Nat /\ \A i \in 1..Len(list) : list[i] \in Nat
  BY CallAssumption
<1>2. \E n \in 0..Len(list) : Gone(n)
  <2>1. CASE T = {}
    <3>1. \A i \in 1..Len(list) : i - 1 \in Nat /\ i - 1 < Len(list) /\ (i - 1) + 1 = i
      BY <1>1
    <3>2. ASSUME NEW i \in 1..Len(list) PROVE callNow - list[i] > Window
      <4>1. i - 1 \notin T /\ list[(i - 1) + 1] = list[i]
        BY <2>1, <3>1
      <4> QED BY <1>1, <3>1, <4>1
    <3>3. Gone(Len(list))
      BY <1>1, <3>2
    <3> QED BY <1>1, <3>3
  <2>2. CASE T # {}
    <3>1. PICK m \in T : \A k \in T : m <= k
      BY <2>2, LeastOf
    <3>2. \A i \in 1..m : i - 1 \in Nat /\ i - 1 < m /\ i - 1 < Len(list) /\ (i - 1) + 1 = i /\ i \in 1..Len(list)
      BY <1>1, <3>1
    <3>3. ASSUME NEW i \in 1..m PROVE callNow - list[i] > Window
      <4>1. i - 1 \notin T /\ list[(i - 1) + 1] = list[i]
        BY <3>1, <3>2
      <4> QED BY <1>1, <3>2, <4>1
    <3>4. Gone(m) /\ m \in 0..Len(list)
      BY <1>1, <3>1, <3>3
    <3> QED BY <3>4
  <2> QED BY <2>1, <2>2
<1>3. PICK n \in 0..Len(list) : n = (CHOOSE k \in 0..Len(list) : Gone(k)) /\ Gone(n)
  BY <1>2
<1>4. expire_slots(list, Window) = SubSeq(list, (CHOOSE k \in 0..Len(list) : Gone(k)) + 1, Len(list))
  BY DEF expire_slots
<1>5. expire_slots(list, Window) = SubSeq(list, n + 1, Len(list))
  BY <1>3, <1>4
<1> QED BY <1>3, <1>5

\* The list without what left it still follows the times.
LEMMA ExpiredFollows ==
  ASSUME NEW list, NEW times, Follows(list, times), callNow \in Nat
  PROVE  Follows(expire_slots(list, Window), times)
<1>1. list \in Seq(Nat) /\ times \in Seq(Nat) /\ Len(list) \in Nat /\ Len(times) \in Nat /\ Len(list) <= Len(times)
  BY DEF Follows
<1>2. PICK n \in 0..Len(list) : /\ expire_slots(list, Window) = SubSeq(list, n + 1, Len(list))
                                /\ \A i \in 1..n : callNow - list[i] > Window
  BY <1>1, ExpireSlots
<1> DEFINE rest == SubSeq(list, n + 1, Len(list))
<1>3. rest \in Seq(Nat) /\ Len(rest) = Len(list) - n /\ \A i \in 1..(Len(list) - n) : rest[i] = list[n + i]
  <2>1. n + 1 \in Int /\ Len(list) \in Int /\ \A i \in (n + 1)..Len(list) : list[i] \in Nat
    BY <1>1
  <2>2. /\ rest \in Seq(Nat) /\ Len(rest) = IF n + 1 <= Len(list) THEN Len(list) - (n + 1) + 1 ELSE 0
        /\ \A i \in 1..(Len(list) - (n + 1) + 1) : rest[i] = list[(n + 1) + i - 1]
    BY <2>1, SubSeqProperties
  <2> HIDE DEF rest
  <2>3. Len(rest) = Len(list) - n /\ Len(list) - (n + 1) + 1 = Len(list) - n
    BY <1>1, <2>2
  <2>4. \A i \in 1..(Len(list) - n) : (n + 1) + i - 1 = n + i
    BY <1>1
  <2> QED BY <2>2, <2>3, <2>4
<1> HIDE DEF rest
<1>4. \A i \in 1..Len(rest) : rest[i] = times[Len(times) - Len(rest) + i]
  <2> SUFFICES ASSUME NEW i \in 1..Len(rest) PROVE rest[i] = times[Len(times) - Len(rest) + i]
    OBVIOUS
  <2>1. n + i \in 1..Len(list) /\ rest[i] = list[n + i]
    BY <1>1, <1>3
  <2>2. list[n + i] = times[Len(times) - Len(list) + (n + i)]
    BY <2>1 DEF Follows
  <2>3. Len(times) - Len(list) + (n + i) = Len(times) - Len(rest) + i
    BY <1>1, <1>3
  <2> QED BY <2>1, <2>2, <2>3
<1>5. \A i \in 1..(Len(times) - Len(rest)) : callNow - times[i] > Window
  <2> SUFFICES ASSUME NEW i \in 1..(Len(times) - Len(rest)) PROVE callNow - times[i] > Window
    OBVIOUS
  <2>1. CASE i \in 1..(Len(times) - Len(list))
    BY <2>1 DEF Follows
  <2>2. CASE i \notin 1..(Len(times) - Len(list))
    <3>1. PICK j \in 1..n : i = Len(times) - Len(list) + j
      <4> DEFINE k == i - (Len(times) - Len(list))
      <4>1. k \in 1..n /\ i = Len(times) - Len(list) + k
        BY <1>1, <1>3, <2>2
      <4> QED BY <4>1
    <3>2. list[j] = times[i]
      BY <1>1, <3>1 DEF Follows
    <3> QED BY <1>2, <3>2
  <2> QED BY <2>1, <2>2
<1>6. Len(rest) <= Len(times)
  BY <1>1, <1>3
<1>7. Follows(rest, times)
  BY <1>1, <1>3, <1>4, <1>5, <1>6 DEF Follows
<1> QED BY <1>2, <1>7 DEF rest

\* The times within the window of the last one are those the list still has.
LEMMA PassesWithin ==
  ASSUME NEW rest, NEW times, Follows(rest, times), callNow \in Nat, NEW limit \in Nat, Within(times, limit), Len(rest) < limit
  PROVE  Within(Append(times, callNow), limit)
<1> DEFINE all == Append(times, callNow)
<1>1. /\ times \in Seq(Nat) /\ rest \in Seq(Nat) /\ Len(rest) \in Nat /\ Len(times) \in Nat /\ Len(rest) <= Len(times)
      /\ Window \in Nat
  BY CallAssumption DEF Follows
<1>2. /\ all \in Seq(Nat) /\ Len(all) = Len(times) + 1 /\ all[Len(times) + 1] = callNow
      /\ \A i \in 1..Len(times) : all[i] = times[i]
  BY <1>1
<1> HIDE DEF all
<1>3. ASSUME NEW n \in DOMAIN all PROVE Cardinality({m \in 1..n : all[n] - all[m] <= Window}) <= limit
  <2>1. n \in 1..(Len(times) + 1)
    BY <1>1, <1>2
  <2>2. CASE n \in 1..Len(times)
    <3>1. {m \in 1..n : all[n] - all[m] <= Window} = {m \in 1..n : times[n] - times[m] <= Window}
      <4>1. all[n] = times[n] /\ \A m \in 1..n : m \in 1..Len(times)
        BY <1>1, <1>2, <2>2
      <4>2. \A m \in 1..n : all[m] = times[m]
        BY <1>2, <4>1
      <4> QED BY <4>1, <4>2
    <3>2. n \in DOMAIN times
      BY <1>1, <2>2
    <3> QED BY <3>1, <3>2 DEF Within
  <2>3. CASE n = Len(times) + 1
    <3> DEFINE S == {m \in 1..n : all[n] - all[m] <= Window}
               a == Len(times) - Len(rest) + 1
               b == Len(times) + 1
    <3>1. a \in Int /\ b \in Int /\ a <= b /\ b - a + 1 = Len(rest) + 1
      BY <1>1
    <3>2. S \subseteq a..b
      <4> SUFFICES ASSUME NEW m \in S PROVE m \in a..b
        OBVIOUS
      <4>1. m \in 1..(Len(times) + 1) /\ callNow - all[m] <= Window
        BY <1>2, <2>3
      <4>2. CASE m \in 1..(Len(times) - Len(rest))
        <5>0. m \in 1..Len(times)
          BY <1>1, <4>2
        <5>1. all[m] = times[m] /\ times[m] \in Nat
          BY <1>1, <1>2, <5>0
        <5>2. callNow - times[m] > Window
          BY <4>2 DEF Follows
        <5> QED BY <1>1, <4>1, <5>1, <5>2
      <4> QED BY <1>1, <4>1, <4>2
    <3>3. IsFiniteSet(a..b) /\ Cardinality(a..b) = b - a + 1
      <4> HIDE DEF a, b
      <4>1. IsFiniteSet(a..b) /\ Cardinality(a..b) = IF a > b THEN 0 ELSE b - a + 1
        BY <3>1, FS_Interval
      <4>2. ~(a > b)
        BY <3>1
      <4> QED BY <4>1, <4>2
    <3> HIDE DEF S, a, b
    <3>4. IsFiniteSet(S) /\ Cardinality(S) <= Cardinality(a..b) /\ Cardinality(S) \in Nat
      BY <3>2, <3>3, FS_Subset, FS_CardinalityType
    <3>5. Cardinality(S) <= limit
      BY <1>1, <3>1, <3>3, <3>4
    <3> QED BY <3>5 DEF S
  <2> QED BY <1>1, <2>1, <2>2, <2>3
<1> QED BY <1>3 DEF Within, all

\* A place in the list that a call takes.
LEMMA TakeSlot ==
  ASSUME NEW list, NEW times, Follows(list, times), callNow \in Nat, NEW limit \in Nat, Within(times, limit)
  PROVE  /\ slot_open(list, limit, Window) =>
              /\ Follows(take_slot(list, limit, Window), Append(times, callNow))
              /\ Within(Append(times, callNow), limit)
         /\ ~slot_open(list, limit, Window) => Follows(take_slot(list, limit, Window), times)
<1> DEFINE rest == expire_slots(list, Window)
<1>1. Follows(rest, times)
  BY ExpiredFollows
<1>2. ~slot_open(list, limit, Window) => Follows(take_slot(list, limit, Window), times)
  BY <1>1 DEF take_slot
<1> HIDE DEF rest
<1>3. /\ times \in Seq(Nat) /\ rest \in Seq(Nat) /\ Len(rest) \in Nat /\ Len(times) \in Nat /\ Len(rest) <= Len(times)
      /\ Window \in Nat
  BY <1>1, CallAssumption DEF Follows
<1>4. Follows(Append(rest, callNow), Append(times, callNow))
  <2> DEFINE l == Append(rest, callNow)
             t == Append(times, callNow)
  <2>1. /\ l \in Seq(Nat) /\ Len(l) = Len(rest) + 1 /\ l[Len(rest) + 1] = callNow
        /\ \A i \in 1..Len(rest) : l[i] = rest[i]
    BY <1>3
  <2>2. /\ t \in Seq(Nat) /\ Len(t) = Len(times) + 1 /\ t[Len(times) + 1] = callNow
        /\ \A i \in 1..Len(times) : t[i] = times[i]
    BY <1>3
  <2> HIDE DEF l, t
  <2>3. Len(t) - Len(l) = Len(times) - Len(rest) /\ Len(l) <= Len(t)
    BY <1>3, <2>1, <2>2
  <2>4. ASSUME NEW i \in 1..Len(l) PROVE l[i] = t[Len(t) - Len(l) + i]
    <3>1. CASE i = Len(l)
      <4>1. Len(t) - Len(l) + i = Len(times) + 1 /\ i = Len(rest) + 1
        BY <1>3, <2>1, <2>2, <3>1
      <4> QED BY <2>1, <2>2, <4>1
    <3>2. CASE i \in 1..Len(rest)
      <4>0. Len(times) - Len(rest) + i \in 1..Len(times)
        <5>1. i \in Nat /\ 1 <= i /\ i <= Len(rest)
          BY <1>3, <3>2
        <5> QED BY <1>3, <5>1
      <4>1. Len(times) - Len(rest) + i \in 1..Len(times) /\ Len(t) - Len(l) + i = Len(times) - Len(rest) + i
        BY <2>3, <4>0
      <4>2. rest[i] = times[Len(times) - Len(rest) + i]
        BY <1>1, <3>2 DEF Follows
      <4> QED BY <2>1, <2>2, <3>2, <4>1, <4>2
    <3> QED BY <1>3, <2>1, <3>1, <3>2
  <2>5. ASSUME NEW i \in 1..(Len(t) - Len(l)) PROVE callNow - t[i] > Window
    <3>1. i \in 1..(Len(times) - Len(rest)) /\ i \in 1..Len(times)
      BY <1>3, <2>3
    <3> QED BY <1>1, <2>2, <3>1 DEF Follows
  <2>6. Follows(l, t)
    BY <2>1, <2>2, <2>3, <2>4, <2>5 DEF Follows
  <2> QED BY <2>6 DEF l, t
<1>5. slot_open(list, limit, Window) <=> Len(rest) < limit
  BY DEF slot_open, rest
<1>6. slot_open(list, limit, Window) => take_slot(list, limit, Window) = Append(rest, callNow)
  BY DEF take_slot, rest
<1> QED BY <1>1, <1>2, <1>4, <1>5, <1>6, PassesWithin

\* What a call that passes, or does not, does to the limits.
LEMMA GateLimits ==
  ASSUME CallInv, NEW c \in DOMAIN handlers, NEW v, Puts(c, v), At(c) = "gate", consumes(c),
         passes' = IF ~allowed(c) THEN passes
                   ELSE IF HostShell(c) THEN [passes EXCEPT !.hostShells = Append(@, callNow)]
                   ELSE [passes EXCEPT !.submissions = Append(@, callNow)],
         UNCHANGED callNow
  PROVE  LimitInv'
<1>1. LimitInv /\ callNow \in Nat /\ SubmitLimit \in Nat /\ HostLimit \in Nat
  BY CallAssumption DEF CallInv
<1>2. \A l, t : (Follows(l, t) => Follows(l, t)') /\ \A n : Within(t, n) => Within(t, n)'
  BY DEF Follows, Within
<1>3. /\ Follows(submissions, passes.submissions) /\ Within(passes.submissions, SubmitLimit)
      /\ Follows(hostShells, passes.hostShells) /\ Within(passes.hostShells, HostLimit)
      /\ passes = [submissions |-> passes.submissions, hostShells |-> passes.hostShells]
  BY <1>1 DEF LimitInv
<1>4. Rpc(c) # "verify" /\ \A d : Rpc(d)' = Rpc(d) /\ (HostShell(d)' <=> HostShell(d))
  BY Others DEF CallInv, AdmitInv
<1>5. (passes.submissions # <<>> \/ ~HostShell(c)) => \E d \in DOMAIN handlers' : Rpc(d)' # "verify" /\ ~HostShell(d)'
  BY <1>1, <1>4 DEF LimitInv, Puts
<1>6. CASE HostShell(c)
  <2>1. hostShells' = take_slot(hostShells, HostLimit, Window) /\ submissions' = submissions
    BY <1>6 DEF consumes, counts_as
  <2>2. allowed(c) <=> slot_open(hostShells, HostLimit, Window)
    BY <1>6 DEF allowed, counts_as
  <2>3. /\ passes' = [submissions |-> passes'.submissions, hostShells |-> passes'.hostShells]
        /\ passes'.submissions = passes.submissions
        /\ passes'.hostShells = IF allowed(c) THEN Append(passes.hostShells, callNow) ELSE passes.hostShells
    BY <1>3, <1>6
  <2>4. Follows(hostShells', passes'.hostShells) /\ Within(passes'.hostShells, HostLimit)
    BY <1>1, <1>3, <2>1, <2>2, <2>3, TakeSlot
  <2>5. Follows(hostShells, passes.hostShells)' /\ Within(passes.hostShells, HostLimit)'
    BY <2>4 DEF Follows, Within
  <2>6. Follows(submissions, passes.submissions)' /\ Within(passes.submissions, SubmitLimit)'
    BY <1>3, <2>1, <2>3 DEF Follows, Within
  <2> QED BY <1>5, <2>3, <2>5, <2>6 DEF LimitInv
<1>7. CASE ~HostShell(c)
  <2>1. submissions' = take_slot(submissions, SubmitLimit, Window) /\ hostShells' = hostShells
    BY <1>7 DEF consumes, counts_as
  <2>2. allowed(c) <=> slot_open(submissions, SubmitLimit, Window)
    BY <1>7 DEF allowed, counts_as
  <2>3. /\ passes' = [submissions |-> passes'.submissions, hostShells |-> passes'.hostShells]
        /\ passes'.hostShells = passes.hostShells
        /\ passes'.submissions = IF allowed(c) THEN Append(passes.submissions, callNow) ELSE passes.submissions
    BY <1>3, <1>7
  <2>4. Follows(submissions', passes'.submissions) /\ Within(passes'.submissions, SubmitLimit)
    BY <1>1, <1>3, <2>1, <2>2, <2>3, TakeSlot
  <2>5. Follows(submissions, passes.submissions)' /\ Within(passes.submissions, SubmitLimit)'
    BY <2>4 DEF Follows, Within
  <2>6. Follows(hostShells, passes.hostShells)' /\ Within(passes.hostShells, HostLimit)'
    BY <1>3, <2>1, <2>3 DEF Follows, Within
  <2> QED BY <1>5, <1>7, <2>3, <2>5, <2>6 DEF LimitInv
<1> QED BY <1>6, <1>7

LEMMA GateStep == CallInv /\ gate => CallInv'
<1> SUFFICES ASSUME CallInv, gate PROVE CallInv'
  OBVIOUS
<1>1. PICK c \in DOMAIN callLoad.calls :
        /\ At(c) = "gate" /\ consumes(c)
        /\ passes' = IF ~allowed(c) THEN passes
                     ELSE IF HostShell(c) THEN [passes EXCEPT !.hostShells = Append(@, callNow)]
                     ELSE [passes EXCEPT !.submissions = Append(@, callNow)]
        /\ Moves(c, IF ~allowed(c) THEN "rate limited" ELSE IF ~stageable(PlanOf(c)) THEN "refused" ELSE "admit")
        /\ freeSlots' = IF Rpc(c) = "shell" /\ ~(allowed(c) /\ stageable(PlanOf(c))) THEN freeSlots + 1 ELSE freeSlots
  BY DEF gate
<1> DEFINE at == IF ~allowed(c) THEN "rate limited" ELSE IF ~stageable(PlanOf(c)) THEN "refused" ELSE "admit"
           v == [at |-> at]
<1>2. UNCHANGED <<admitted, opened, work, callNow, callLoad>>
  BY DEF gate
<1>3. Puts(c, v)
  BY <1>1, <1>2, Writes DEF Moves
<1>4. /\ v.at \in {"rate limited", "refused", "admit"} /\ SessionOk(v, callNow)
      /\ v.at = "admit" <=> allowed(c) /\ stageable(PlanOf(c))
  BY NoSession DEF InSession
<1> HIDE DEF v, at
<1>5. c \in DOMAIN handlers
  BY <1>1 DEF At
<1>6. Swap(c)
  <2>1. HoldsSlot(c) <=> Rpc(c) = "shell"
    BY <1>1 DEF HoldsSlot
  <2>2. HoldsSlot(c)' <=> Rpc(c) = "shell" /\ v.at = "admit"
    BY <1>3, <1>4, Others DEF HoldsSlot
  <2> QED BY <1>1, <1>4, <2>1, <2>2 DEF Swap
<1>7. AdmitInv'
  <2>1. \/ Rpc(c) = "shell" /\ PlanOf(c).kinds = {"shell.open"}
        \/ Rpc(c) \in {"submit", "cancel"} /\ ~holds_kind(PlanOf(c), "shell.open")
    BY <1>1, <1>5 DEF CallInv, AdmitInv
  <2> QED BY <1>1, <1>2, <1>3, <1>4, <2>1, AdmitKept DEF CallInv
<1>8. LimitInv'
  BY <1>1, <1>2, <1>3, <1>5, GateLimits
<1> QED BY <1>2, <1>3, <1>4, <1>6, <1>7, <1>8, CallMoves

\* A plan with a new id is admitted by the call that is at it.
LEMMA AdmitNew ==
  ASSUME AdmitInv, NEW c \in DOMAIN handlers, NEW v, Puts(c, v), At(c) = "admit", PlanOf(c).id \notin DOMAIN admitted,
         v.at = IF Rpc(c) = "shell" THEN "bind" ELSE "admitted",
         admitted' = WithKey(admitted, PlanOf(c).id, [digest |-> PlanOf(c).digest, by |-> c]), opened' = opened
  PROVE  AdmitInv'
<1> DEFINE new == PlanOf(c).id
<1>1. /\ At(c)' = v.at /\ \A d : d # c => At(d)' = At(d)
      /\ \A d : Rpc(d)' = Rpc(d) /\ PlanOf(d)' = PlanOf(d)
      /\ DOMAIN handlers' = DOMAIN handlers
  BY Others DEF Puts
<1>2. /\ DOMAIN admitted' = DOMAIN admitted \cup {new} /\ new \notin DOMAIN admitted
      /\ admitted'[new] = [digest |-> PlanOf(c).digest, by |-> c]
      /\ \A p \in DOMAIN admitted : admitted'[p] = admitted[p]
  BY DEF WithKey
<1> HIDE DEF new
<1>3. \A p \in DOMAIN admitted : /\ admitted[p].by # c /\ admitted[p].by \in DOMAIN handlers
                                 /\ PlanOf(admitted[p].by).id = p
                                 /\ At(admitted[p].by) \notin {"new", "gate", "admit", "existing"}
  BY DEF AdmitInv
<1>4. holds_kind(PlanOf(c), "shell.open") <=> Rpc(c) = "shell"
  BY DEF AdmitInv, holds_kind
<1>5. new \notin DOMAIN opened /\ PlanOf(c).id = new
  BY <1>2 DEF AdmitInv, OnePlanOneShell, new
<1>6. v.at \in {"bind", "admitted"} /\ (v.at = "bind" <=> Rpc(c) = "shell")
  OBVIOUS
<1>7. \A d \in DOMAIN handlers' : At(d)' \in {"gate", "admit"} =>
        \/ Rpc(d)' = "shell" /\ PlanOf(d)'.kinds = {"shell.open"}
        \/ Rpc(d)' \in {"submit", "cancel"} /\ ~holds_kind(PlanOf(d)', "shell.open")
  BY <1>1, <1>6 DEF AdmitInv
<1>8. \A p \in DOMAIN admitted' :
        /\ (admitted[p].by \in DOMAIN handlers)' /\ (PlanOf(admitted[p].by).id = p)'
        /\ (At(admitted[p].by) \notin {"new", "gate", "admit", "existing"})'
  <2> SUFFICES ASSUME NEW p \in DOMAIN admitted', NEW b, b = admitted'[p].by
               PROVE  /\ b \in DOMAIN handlers' /\ PlanOf(b)'.id = p
                      /\ At(b)' \notin {"new", "gate", "admit", "existing"}
    BY DEF PlanOf, At
  <2>1. CASE p = new
    BY <1>1, <1>2, <1>5, <1>6, <2>1
  <2>2. CASE p \in DOMAIN admitted
    BY <1>1, <1>2, <1>3, <2>2
  <2> QED BY <1>2, <2>1, <2>2
<1>9. \A d \in DOMAIN handlers' :
        /\ At(d)' \in Asking \cup {"pump", "exiting"} => Rpc(d)' = "shell"
        /\ At(d)' \in Asking \cup {"admitted", "existing"} => PlanOf(d)'.id \in DOMAIN admitted'
        /\ At(d)' \in Asking => admitted'[PlanOf(d)'.id].by = d /\ PlanOf(d)'.id \notin DOMAIN opened'
  <2> SUFFICES ASSUME NEW d \in DOMAIN handlers
               PROVE  /\ At(d)' \in Asking \cup {"pump", "exiting"} => Rpc(d) = "shell"
                      /\ At(d)' \in Asking \cup {"admitted", "existing"} => PlanOf(d).id \in DOMAIN admitted'
                      /\ At(d)' \in Asking => admitted'[PlanOf(d).id].by = d /\ PlanOf(d).id \notin DOMAIN opened
    BY <1>1
  <2>1. CASE d = c
    BY <1>1, <1>2, <1>5, <1>6, <2>1 DEF Asking
  <2>2. CASE d # c
    BY <1>1, <1>2, <2>2 DEF AdmitInv, Asking
  <2> QED BY <2>1, <2>2
<1>10. OnePlanOneShell'
  <2>1. \A p \in DOMAIN opened' : opened'[p] = 1 /\ p \in DOMAIN admitted'
    BY <1>2 DEF AdmitInv, OnePlanOneShell
  <2>2. \A p \in DOMAIN admitted' : (holds_kind(PlanOf(admitted[p].by), "shell.open") <=> Rpc(admitted[p].by) = "shell")'
    <3> SUFFICES ASSUME NEW p \in DOMAIN admitted', NEW b, b = admitted'[p].by
                 PROVE  holds_kind(PlanOf(b)', "shell.open") <=> Rpc(b)' = "shell"
      BY DEF PlanOf, Rpc, holds_kind
    <3>1. CASE p = new
      BY <1>1, <1>2, <1>4, <3>1
    <3>2. CASE p \in DOMAIN admitted
      BY <1>1, <1>2, <3>2 DEF AdmitInv, OnePlanOneShell
    <3> QED BY <1>2, <3>1, <3>2
  <2> QED BY <2>1, <2>2 DEF OnePlanOneShell
<1>11. SameOperation'
  <2>1. ASSUME NEW d \in DOMAIN handlers'
        PROVE  /\ At(d)' = "existing" => admitted'[PlanOf(d)'.id].digest = PlanOf(d)'.digest /\ admitted'[PlanOf(d)'.id].by # d
               /\ At(d)' = "admitted" => admitted'[PlanOf(d)'.id].by = d
    <3>1. CASE d = c
      BY <1>1, <1>2, <1>5, <1>6, <3>1
    <3>2. CASE d # c
      BY <1>1, <1>2, <3>2 DEF AdmitInv, SameOperation
    <3> QED BY <3>1, <3>2
  <2> QED BY <2>1 DEF SameOperation
<1> QED BY <1>7, <1>8, <1>9, <1>10, <1>11 DEF AdmitInv

LEMMA AdmitStep == CallInv /\ admit => CallInv'
<1> SUFFICES ASSUME CallInv, admit PROVE CallInv'
  OBVIOUS
<1> DEFINE known(c) == PlanOf(c).id \in DOMAIN admitted
           same(c) == known(c) /\ admitted[PlanOf(c).id].digest = PlanOf(c).digest
           next(c) == IF ~PlanOf(c).valid THEN "refused" ELSE IF known(c) /\ ~same(c) THEN "replay"
                      ELSE IF Rpc(c) # "shell" THEN IF known(c) THEN "existing" ELSE "admitted"
                      ELSE IF known(c) THEN "refused" ELSE "bind"
<1>1. PICK c \in DOMAIN callLoad.calls :
        /\ At(c) = "admit" /\ Moves(c, next(c))
        /\ admitted' = IF PlanOf(c).valid /\ ~known(c)
                       THEN WithKey(admitted, PlanOf(c).id, [digest |-> PlanOf(c).digest, by |-> c]) ELSE admitted
        /\ freeSlots' = IF Rpc(c) = "shell" /\ next(c) # "bind" THEN freeSlots + 1 ELSE freeSlots
  BY DEF admit
<1>2. UNCHANGED <<limitVars, opened, work, callNow, callLoad>>
  BY DEF admit
<1> DEFINE v == [at |-> next(c)]
<1>3. Puts(c, v)
  BY <1>1, <1>2, Writes DEF Moves
<1>4. /\ v.at = next(c) /\ next(c) \in {"refused", "replay", "existing", "admitted", "bind"}
      /\ next(c) = "bind" => Rpc(c) = "shell"
      /\ next(c) = "existing" => same(c)
      /\ PlanOf(c).valid /\ ~known(c) => next(c) = IF Rpc(c) = "shell" THEN "bind" ELSE "admitted"
      /\ ~(PlanOf(c).valid /\ ~known(c)) => next(c) \notin {"bind", "admitted"}
  OBVIOUS
<1> HIDE DEF next
<1>5. SessionOk(v, callNow)
  BY <1>4, NoSession DEF InSession
<1> HIDE DEF v
<1>6. c \in DOMAIN handlers
  BY <1>1 DEF At
<1>7. Swap(c)
  <2>1. HoldsSlot(c) <=> Rpc(c) = "shell"
    BY <1>1 DEF HoldsSlot
  <2>2. HoldsSlot(c)' <=> Rpc(c) = "shell" /\ next(c) = "bind"
    BY <1>3, <1>4, Others DEF HoldsSlot
  <2> QED BY <1>1, <1>4, <2>1, <2>2 DEF Swap
<1>8. AdmitInv'
  <2>1. CASE PlanOf(c).valid /\ ~known(c)
    BY <1>1, <1>2, <1>3, <1>4, <1>6, <2>1, AdmitNew DEF CallInv
  <2>2. CASE ~(PlanOf(c).valid /\ ~known(c))
    BY <1>1, <1>2, <1>3, <1>4, <2>2, AdmitKept DEF CallInv
  <2> QED BY <2>1, <2>2
<1>9. LimitInv'
  BY <1>2, <1>3, LimitKept DEF CallInv
<1> QED BY <1>2, <1>3, <1>5, <1>7, <1>8, <1>9, CallMoves

----------------------------------------------------------------------------
(* Calls and shells: the shell up to its session.                          *)

\* A call that moves on, or ends, before it is a session.
LEMMA PlainStep ==
  ASSUME CallInv, NEW c \in DOMAIN callLoad.calls, NEW at, Moves(c, at), Swap(c),
         at \notin InSession \cup {"new", "bind", "admitted", "admit", "existing"},
         at = "gate" => At(c) = "new" /\ Rpc(c) = "shell" /\ PlanOf(c).kinds = {"shell.open"},
         at = "opening" => At(c) = "bind",
         UNCHANGED <<admitted, limitVars, opened, work, callNow, callLoad>>
  PROVE  CallInv'
<1> DEFINE v == [at |-> at]
<1>1. Puts(c, v)
  BY Writes DEF Moves
<1>2. v.at = at /\ SessionOk(v, callNow)
  BY NoSession
<1> HIDE DEF v
<1>3. AdmitInv'
  BY <1>1, <1>2, AdmitKept DEF CallInv, InSession
<1>4. LimitInv'
  BY <1>1, LimitKept DEF CallInv
<1> QED BY <1>1, <1>2, <1>3, <1>4, CallMoves

\* Where a call is after it moves.
LEMMA MovesTo ==
  ASSUME NEW c \in DOMAIN callLoad.calls, NEW at, Moves(c, at), callLoad' = callLoad
  PROVE  At(c)' = at /\ Rpc(c)' = Rpc(c)
<1> DEFINE v == [at |-> at]
<1>1. Puts(c, v)
  BY Writes DEF Moves
<1>2. At(c)' = v.at /\ Rpc(c)' = Rpc(c)
  <2> HIDE DEF v
  <2> QED BY <1>1, Others
<1> QED BY <1>2

LEMMA ShellStep == CallInv /\ shell => CallInv'
<1> SUFFICES ASSUME CallInv, shell PROVE CallInv'
  OBVIOUS
<1> DEFINE ok(c) == PlanOf(c).kinds = {"shell.open"}
           next(c) == IF ~callLoad.calls[c].opens THEN "invalid" ELSE IF freeSlots = 0 THEN "shell limit"
                      ELSE IF ok(c) THEN "gate" ELSE "refused"
<1>1. PICK c \in DOMAIN callLoad.calls :
        /\ At(c) = "new" /\ Rpc(c) = "shell" /\ Moves(c, next(c))
        /\ freeSlots' = IF callLoad.calls[c].opens /\ freeSlots > 0 /\ ok(c) THEN freeSlots - 1 ELSE freeSlots
  BY DEF shell
<1>2. UNCHANGED <<admitted, limitVars, opened, work, callNow, callLoad>>
  BY DEF shell
<1>3. freeSlots \in Nat
  BY DEF CallInv, SlotInv
<1>4. /\ next(c) \in {"invalid", "shell limit", "gate", "refused"} /\ (next(c) = "gate" => ok(c))
      /\ next(c) = "gate" <=> callLoad.calls[c].opens /\ freeSlots > 0 /\ ok(c)
  BY <1>3
<1> HIDE DEF next
<1>5. Swap(c)
  <2>1. ~HoldsSlot(c)
    BY <1>1 DEF HoldsSlot
  <2>2. HoldsSlot(c)' <=> next(c) = "gate"
    BY <1>1, <1>2, <1>4, MovesTo DEF HoldsSlot
  <2> QED BY <1>1, <1>4, <2>1, <2>2 DEF Swap
<1> QED BY <1>1, <1>2, <1>4, <1>5, PlainStep DEF InSession

\* A shell that fails gives its permit back.
LEMMA FailStep ==
  ASSUME CallInv, NEW c \in DOMAIN handlers, At(c) \in {"gate", "admit", "bind", "opening"}, NEW at,
         at \in {"failed", "shell limit", "abandoned"}, Moves(c, at),
         freeSlots' = IF Rpc(c) = "shell" THEN freeSlots + 1 ELSE freeSlots,
         UNCHANGED <<admitted, limitVars, opened, work, callNow, callLoad>>
  PROVE  CallInv'
<1>1. c \in DOMAIN callLoad.calls
  BY DEF CallInv
<1>2. Swap(c)
  <2>1. HoldsSlot(c) <=> Rpc(c) = "shell"
    BY DEF HoldsSlot
  <2>2. ~HoldsSlot(c)'
    BY <1>1, MovesTo DEF HoldsSlot
  <2> QED BY <2>1, <2>2 DEF Swap
<1> QED BY <1>1, <1>2, PlainStep DEF InSession

LEMMA BindStep == CallInv /\ bind_shell => CallInv'
<1> SUFFICES ASSUME CallInv, bind_shell PROVE CallInv'
  OBVIOUS
<1>1. PICK c \in DOMAIN handlers : /\ At(c) = "bind"
                                   /\ \/ Moves(c, "opening") /\ UNCHANGED freeSlots
                                      \/ Moves(c, "failed") /\ freeSlots' = freeSlots + 1
  BY DEF bind_shell
<1>2. UNCHANGED <<admitted, limitVars, opened, work, callNow, callLoad>>
  BY DEF bind_shell
<1>3. c \in DOMAIN callLoad.calls /\ Rpc(c) = "shell"
  BY <1>1 DEF CallInv, AdmitInv, Asking
<1>4. CASE Moves(c, "opening") /\ UNCHANGED freeSlots
  <2>1. Swap(c)
    BY <1>1, <1>2, <1>3, <1>4, MovesTo DEF Swap, HoldsSlot
  <2> QED BY <1>1, <1>2, <1>3, <1>4, <2>1, PlainStep DEF InSession
<1>5. CASE Moves(c, "failed") /\ freeSlots' = freeSlots + 1
  BY <1>1, <1>2, <1>3, <1>5, FailStep
<1> QED BY <1>1, <1>4, <1>5

LEMMA AbandonStep == CallInv /\ call_abandoned => CallInv'
<1> SUFFICES ASSUME CallInv, call_abandoned PROVE CallInv'
  OBVIOUS
<1>1. PICK c \in DOMAIN handlers :
        /\ At(c) \in {"gate", "admit", "bind", "opening"} /\ Moves(c, "abandoned")
        /\ freeSlots' = IF Rpc(c) = "shell" THEN freeSlots + 1 ELSE freeSlots
  BY DEF call_abandoned
<1> QED BY <1>1, FailStep DEF call_abandoned

\* The runner opens a session: none of another call is asked for with its plan.
LEMMA OpensAdmit ==
  ASSUME AdmitInv, NEW c \in DOMAIN handlers, NEW v, Puts(c, v), At(c) = "opening", v.at = "pump", admitted' = admitted,
         opened' = WithKey(opened, PlanOf(c).id, IF PlanOf(c).id \in DOMAIN opened THEN opened[PlanOf(c).id] + 1 ELSE 1)
  PROVE  AdmitInv'
<1> DEFINE id == PlanOf(c).id
<1>1. /\ At(c)' = v.at /\ \A d : d # c => At(d)' = At(d)
      /\ \A d : Rpc(d)' = Rpc(d) /\ PlanOf(d)' = PlanOf(d)
      /\ DOMAIN handlers' = DOMAIN handlers /\ callLoad' = callLoad
  BY Others DEF Puts
<1>2. Rpc(c) = "shell" /\ id \in DOMAIN admitted /\ admitted[id].by = c /\ id \notin DOMAIN opened
  BY DEF AdmitInv, Asking
<1>3. DOMAIN opened' = DOMAIN opened \cup {id} /\ opened'[id] = 1 /\ \A p \in DOMAIN opened : opened'[p] = opened[p]
  BY <1>2 DEF WithKey
<1> HIDE DEF id
<1>4. \A d \in DOMAIN handlers' : At(d)' \in {"gate", "admit"} =>
        \/ Rpc(d)' = "shell" /\ PlanOf(d)'.kinds = {"shell.open"}
        \/ Rpc(d)' \in {"submit", "cancel"} /\ ~holds_kind(PlanOf(d)', "shell.open")
  BY <1>1 DEF AdmitInv
<1>5. \A p \in DOMAIN admitted' :
        /\ (admitted[p].by \in DOMAIN handlers)' /\ (PlanOf(admitted[p].by).id = p)'
        /\ (At(admitted[p].by) \notin {"new", "gate", "admit", "existing"})'
  <2> SUFFICES ASSUME NEW p \in DOMAIN admitted, NEW b, b = admitted[p].by
               PROVE  /\ b \in DOMAIN handlers' /\ PlanOf(b)'.id = p
                      /\ At(b)' \notin {"new", "gate", "admit", "existing"}
    BY DEF PlanOf, At
  <2> QED BY <1>1 DEF AdmitInv
<1>6. \A d \in DOMAIN handlers' :
        /\ At(d)' \in Asking \cup {"pump", "exiting"} => Rpc(d)' = "shell"
        /\ At(d)' \in Asking \cup {"admitted", "existing"} => PlanOf(d)'.id \in DOMAIN admitted'
        /\ At(d)' \in Asking => admitted'[PlanOf(d)'.id].by = d /\ PlanOf(d)'.id \notin DOMAIN opened'
  <2> SUFFICES ASSUME NEW d \in DOMAIN handlers
               PROVE  /\ At(d)' \in Asking \cup {"pump", "exiting"} => Rpc(d) = "shell"
                      /\ At(d)' \in Asking \cup {"admitted", "existing"} => PlanOf(d).id \in DOMAIN admitted
                      /\ At(d)' \in Asking => admitted[PlanOf(d).id].by = d /\ PlanOf(d).id \notin DOMAIN opened'
    BY <1>1
  <2>1. CASE d = c
    BY <1>1, <1>2, <2>1 DEF Asking
  <2>2. CASE d # c
    BY <1>1, <1>2, <1>3, <2>2 DEF AdmitInv, Asking
  <2> QED BY <2>1, <2>2
<1>7. OnePlanOneShell'
  <2>1. \A p \in DOMAIN opened' : opened'[p] = 1 /\ p \in DOMAIN admitted'
    BY <1>2, <1>3 DEF AdmitInv, OnePlanOneShell
  <2>2. \A p \in DOMAIN admitted' : (holds_kind(PlanOf(admitted[p].by), "shell.open") <=> Rpc(admitted[p].by) = "shell")'
    BY <1>1 DEF AdmitInv, OnePlanOneShell, PlanOf, Rpc, holds_kind
  <2> QED BY <2>1, <2>2 DEF OnePlanOneShell
<1>8. SameOperation'
  <2>1. ASSUME NEW d \in DOMAIN handlers'
        PROVE  /\ At(d)' = "existing" => admitted'[PlanOf(d)'.id].digest = PlanOf(d)'.digest /\ admitted'[PlanOf(d)'.id].by # d
               /\ At(d)' = "admitted" => admitted'[PlanOf(d)'.id].by = d
    BY <1>1 DEF AdmitInv, SameOperation
  <2> QED BY <2>1 DEF SameOperation
<1> QED BY <1>4, <1>5, <1>6, <1>7, <1>8 DEF AdmitInv

\* The end that is set for it is not past.
LEMMA DeadlineOf ==
  ASSUME callNow \in Nat, callLoad \in CallLoads, NEW c \in DOMAIN callLoad.calls, NEW rest \in callLoad.deadlines
  PROVE  deadline_of(c, callNow + rest) \in Nat /\ callNow <= deadline_of(c, callNow + rest)
<1>1. rest \in Nat /\ PlanOf(c).ttl \in Int /\ MaxTtl \in Nat /\ MaxTtl > 0
  BY CallAssumption DEF PlanOf
<1>2. clamp_ttl(PlanOf(c).ttl) \in Nat
  BY <1>1 DEF clamp_ttl
<1> QED BY <1>1, <1>2 DEF deadline_of

LEMMA RunnerStep == CallInv /\ runner_answers => CallInv'
<1> SUFFICES ASSUME CallInv, runner_answers PROVE CallInv'
  OBVIOUS
<1> DEFINE v(d) == [at |-> "pump", reason |-> NoReason, clientOpen |-> TRUE, listens |-> TRUE, closing |-> NoTime, asked |-> FALSE,
                    activity |-> callNow, deadline |-> d, out |-> 1, chunks |-> 0, cause |-> NoReason, exits |-> 0, stalled |-> FALSE]
           opens(c) == /\ \E rest \in callLoad.deadlines :
                            handlers' = [handlers EXCEPT ![c] = v(deadline_of(c, callNow + rest))]
                       /\ opened' = WithKey(opened, PlanOf(c).id, IF PlanOf(c).id \in DOMAIN opened THEN opened[PlanOf(c).id] + 1 ELSE 1)
                       /\ UNCHANGED freeSlots
<1>1. PICK c \in DOMAIN handlers :
        /\ At(c) = "opening"
        /\ \/ opens(c)
           \/ \E at \in {"failed", "shell limit"} : Moves(c, at) /\ freeSlots' = freeSlots + 1 /\ UNCHANGED opened
  BY DEF runner_answers
<1>2. UNCHANGED <<admitted, limitVars, work, callNow, callLoad>>
  BY DEF runner_answers
<1>3. c \in DOMAIN callLoad.calls /\ Rpc(c) = "shell"
  BY <1>1 DEF CallInv, AdmitInv, Asking
<1>4. CASE opens(c)
  <2>1. PICK rest \in callLoad.deadlines : handlers' = [handlers EXCEPT ![c] = v(deadline_of(c, callNow + rest))]
    BY <1>4
  <2> DEFINE d == deadline_of(c, callNow + rest)
             u == v(d)
  <2>2. d \in Nat /\ callNow <= d /\ callNow \in Nat
    BY <1>3, DeadlineOf DEF CallInv
  <2> HIDE DEF d
  <2>3. SessionOk(u, callNow) /\ u.at = "pump"
    <3>1. IsSession(u)
      BY <2>2 DEF IsSession, SessionFields
    <3>2. ReasonOk(u)
      BY DEF ReasonOk
    <3>3. InTime(u, callNow)
      <4>1. IdleTime \in Nat
        BY CallAssumption
      <4> QED BY <2>2, <4>1 DEF InTime
    <3> HIDE DEF u
    <3> QED BY <3>1, <3>2, <3>3 DEF SessionOk, u
  <2>4. Puts(c, u)
    BY <1>2, <1>3, <2>1, Writes DEF d
  <2> HIDE DEF u
  <2>5. Swap(c)
    BY <1>1, <1>3, <1>4, <2>3, <2>4, Others DEF Swap, HoldsSlot
  <2>6. AdmitInv'
    BY <1>1, <1>2, <1>4, <2>3, <2>4, OpensAdmit DEF CallInv
  <2>7. LimitInv'
    BY <1>2, <2>4, LimitKept DEF CallInv
  <2> QED BY <1>2, <2>3, <2>4, <2>5, <2>6, <2>7, CallMoves
<1>5. CASE \E at \in {"failed", "shell limit"} : Moves(c, at) /\ freeSlots' = freeSlots + 1 /\ UNCHANGED opened
  BY <1>1, <1>2, <1>3, <1>5, FailStep
<1> QED BY <1>1, <1>4, <1>5

----------------------------------------------------------------------------
(* Calls and shells: the session.                                          *)

\* A session that goes on, or ends and gives its permit back.
LEMMA SessionStep ==
  ASSUME CallInv, NEW c \in DOMAIN handlers, At(c) \in {"pump", "exiting"}, NEW v, SessionIs(c, v), SessionOk(v, callNow),
         \/ v.at \in {"pump", "exiting"} /\ freeSlots' = freeSlots
         \/ v.at = "closed" /\ freeSlots' = freeSlots + 1,
         UNCHANGED <<admitted, limitVars, opened, callNow, callLoad>>
  PROVE  CallInv'
<1>1. c \in DOMAIN callLoad.calls /\ Rpc(c) = "shell"
  BY DEF CallInv, AdmitInv
<1>2. Puts(c, v)
  BY <1>1, Writes DEF SessionIs
<1>3. Swap(c)
  BY <1>1, <1>2, Others DEF Swap, HoldsSlot
<1>4. AdmitInv'
  BY <1>2, AdmitKept DEF CallInv
<1>5. LimitInv'
  BY <1>2, LimitKept DEF CallInv
<1> QED BY <1>2, <1>3, <1>4, <1>5, CallMoves

\* What is known of a session.
LEMMA OfSession ==
  ASSUME CallInv, NEW c \in DOMAIN handlers, At(c) \in {"pump", "exiting"}
  PROVE  /\ At(c) = handlers[c].at /\ IsSession(handlers[c]) /\ ReasonOk(handlers[c])
         /\ At(c) = "pump" => InTime(handlers[c], callNow)
         /\ callNow \in Nat /\ Grace \in Nat /\ IdleTime \in Nat
BY CallAssumption DEF CallInv, SessionOk, At, InSession

\* A session that begins to end, for a reason.
LEMMA ClosesOk ==
  ASSUME NEW v, IsSession(v), ReasonOk(v), InTime(v, callNow), v.at = "pump", v.closing = NoTime, NEW why, why # NoReason,
         callNow \in Nat, Grace \in Nat
  PROVE  SessionOk(Closes(v, why), callNow) /\ Closes(v, why).at = "pump"
<1> DEFINE u == Closes(v, why)
<1>1. /\ DOMAIN u = DOMAIN v /\ u.reason = why /\ u.cause = why /\ u.closing = callNow + Grace /\ u.asked = TRUE
      /\ u.at = v.at /\ u.activity = v.activity /\ u.deadline = v.deadline /\ u.exits = v.exits /\ u.stalled = v.stalled
  BY DEF Closes, IsSession, SessionFields
<1> HIDE DEF u
<1>2. u.closing \in Nat /\ u.closing # NoTime /\ callNow <= u.closing
  <2>1. callNow + Grace \in Nat /\ callNow + Grace # NoTime /\ callNow <= callNow + Grace
    BY DEF NoTime
  <2> QED BY <1>1, <2>1
<1>3. IsSession(u)
  BY <1>1, <1>2 DEF IsSession
<1>4. ReasonOk(u)
  BY <1>1 DEF ReasonOk
<1>5. InTime(u, callNow)
  <2>1. ~v.stalled => callNow <= v.deadline
    BY DEF InTime
  <2>2. ~u.stalled => u.closing <= u.deadline + Grace
    <3> SUFFICES ASSUME ~u.stalled PROVE u.closing <= u.deadline + Grace
      OBVIOUS
    <3>1. callNow <= v.deadline /\ v.deadline \in Nat
      BY <1>1, <2>1 DEF IsSession
    <3>2. callNow + Grace <= v.deadline + Grace
      BY <3>1
    <3> QED BY <1>1, <3>2
  <2> QED BY <1>1, <1>2, <2>2 DEF InTime
<1>6. SessionOk(u, callNow) /\ u.at = "pump"
  BY <1>1, <1>3, <1>4, <1>5 DEF SessionOk
<1> QED BY <1>6 DEF u

\* A session that is over keeps the reason for which it began to end.
LEMMA ExitsOk ==
  ASSUME NEW v, IsSession(v), ReasonOk(v), v.at = "pump", NEW why
  PROVE  SessionOk(Exits(v, why), callNow) /\ Exits(v, why).at = "exiting"
<1> DEFINE u == Exits(v, why)
<1>1. /\ DOMAIN u = DOMAIN v /\ u.at = "exiting" /\ u.reason = IF v.reason = NoReason THEN why ELSE v.reason
      /\ u.cause = v.cause /\ u.exits = v.exits /\ u.closing = v.closing /\ u.activity = v.activity /\ u.deadline = v.deadline
  BY DEF Exits, IsSession, SessionFields
<1> HIDE DEF u
<1>2. IsSession(u)
  BY <1>1 DEF IsSession
<1>3. ReasonOk(u)
  BY <1>1 DEF ReasonOk
<1>4. SessionOk(u, callNow) /\ u.at = "exiting"
  BY <1>1, <1>2, <1>3 DEF SessionOk
<1> QED BY <1>4 DEF u

LEMMA PumpLineStep == CallInv /\ pump_line => CallInv'
<1> SUFFICES ASSUME CallInv, pump_line PROVE CallInv'
  OBVIOUS
<1>1. PICK c \in DOMAIN handlers :
        /\ Pumping(c)
        /\ \/ \E why : SessionIs(c, Exits(handlers[c], why))
           \/ \E n : SessionIs(c, [handlers[c] EXCEPT !.activity = callNow, !.chunks = n])
  BY DEF pump_line
<1> DEFINE v == handlers[c]
<1>2. At(c) = "pump" /\ v.at = "pump" /\ IsSession(v) /\ ReasonOk(v) /\ InTime(v, callNow) /\ callNow \in Nat /\ IdleTime \in Nat
  BY <1>1, OfSession DEF Pumping
<1>3. CASE \E why : SessionIs(c, Exits(v, why))
  BY <1>2, <1>3, ExitsOk, SessionStep DEF pump_line
<1>4. CASE \E n : SessionIs(c, [v EXCEPT !.activity = callNow, !.chunks = n])
  <2>1. PICK n : SessionIs(c, [v EXCEPT !.activity = callNow, !.chunks = n])
    BY <1>4
  <2> DEFINE u == [v EXCEPT !.activity = callNow, !.chunks = n]
  <2> HIDE DEF v
  <2>2. /\ DOMAIN u = DOMAIN v /\ u.activity = callNow /\ u.at = v.at /\ u.reason = v.reason /\ u.closing = v.closing /\ u.asked = v.asked
        /\ u.deadline = v.deadline /\ u.cause = v.cause /\ u.exits = v.exits /\ u.stalled = v.stalled
    BY <1>2 DEF IsSession, SessionFields
  <2> HIDE DEF u
  <2>3. IsSession(u) /\ ReasonOk(u) /\ u.at = "pump"
    BY <1>2, <2>2 DEF IsSession, ReasonOk
  <2>4. InTime(u, callNow)
    <3>1. callNow <= u.activity + IdleTime
      BY <1>2, <2>2
    <3>2. ~u.stalled <=> ~v.stalled
      BY <2>2
    <3> QED BY <1>2, <2>2, <3>1, <3>2 DEF InTime
  <2>5. SessionOk(u, callNow)
    BY <2>3, <2>4 DEF SessionOk
  <2> QED BY <1>2, <2>1, <2>3, <2>5, SessionStep DEF pump_line, u, v
<1> QED BY <1>1, <1>3, <1>4

\* A session of which only what the client has and does changes.
LEMMA SideOk ==
  ASSUME NEW v, IsSession(v), ReasonOk(v), v.at \in {"pump", "exiting"}, v.at = "pump" => InTime(v, callNow), NEW u, IsSession(u),
         /\ u.at = v.at /\ u.reason = v.reason /\ u.closing = v.closing /\ u.asked = v.asked /\ u.activity = v.activity
         /\ u.deadline = v.deadline /\ u.cause = v.cause /\ u.exits = v.exits /\ u.stalled = v.stalled
  PROVE  SessionOk(u, callNow) /\ ReasonOk(u) /\ (u.at = "pump" => InTime(u, callNow))
<1>1. ReasonOk(u)
  BY DEF ReasonOk
<1>2. u.at = "pump" => InTime(u, callNow)
  BY DEF InTime
<1> QED BY <1>1, <1>2 DEF SessionOk

LEMMA PumpChunkStep == CallInv /\ pump_chunk => CallInv'
<1> SUFFICES ASSUME CallInv, pump_chunk PROVE CallInv'
  OBVIOUS
<1> DEFINE Sent(v) == [v EXCEPT !.out = @ + 1, !.chunks = @ - 1]
           Left(v) == [v EXCEPT !.chunks = 0, !.clientOpen = FALSE]
<1>1. PICK c \in DOMAIN handlers :
        /\ At(c) = "pump"
        /\ \/ SessionIs(c, Sent(handlers[c]))
           \/ SessionIs(c, IF Left(handlers[c]).closing = NoTime THEN Closes(Left(handlers[c]), "client_closed") ELSE Left(handlers[c]))
  BY DEF pump_chunk
<1>2. PICK v : v = handlers[c]
  OBVIOUS
<1>3. v.at = "pump" /\ IsSession(v) /\ ReasonOk(v) /\ InTime(v, callNow) /\ callNow \in Nat /\ Grace \in Nat
  BY <1>1, <1>2, OfSession
<1>4. IsSession(Sent(v)) /\ SessionOk(Sent(v), callNow) /\ Sent(v).at = "pump"
  <2> DEFINE u == Sent(v)
  <2>1. /\ DOMAIN u = DOMAIN v /\ u.at = v.at /\ u.reason = v.reason /\ u.closing = v.closing /\ u.asked = v.asked /\ u.activity = v.activity
        /\ u.deadline = v.deadline /\ u.cause = v.cause /\ u.exits = v.exits /\ u.stalled = v.stalled
    BY <1>3 DEF IsSession, SessionFields
  <2> HIDE DEF u
  <2>2. IsSession(u) /\ u.at = "pump"
    BY <1>3, <2>1 DEF IsSession
  <2>3. SessionOk(u, callNow)
    BY <1>3, <2>1, <2>2, SideOk
  <2> QED BY <2>2, <2>3 DEF u
<1>5. IsSession(Left(v)) /\ SessionOk(Left(v), callNow) /\ Left(v).at = "pump" /\ ReasonOk(Left(v)) /\ InTime(Left(v), callNow)
  <2> DEFINE u == Left(v)
  <2>1. /\ DOMAIN u = DOMAIN v /\ u.at = v.at /\ u.reason = v.reason /\ u.closing = v.closing /\ u.asked = v.asked /\ u.activity = v.activity
        /\ u.deadline = v.deadline /\ u.cause = v.cause /\ u.exits = v.exits /\ u.stalled = v.stalled
    BY <1>3 DEF IsSession, SessionFields
  <2> HIDE DEF u
  <2>2. IsSession(u) /\ u.at = "pump"
    BY <1>3, <2>1 DEF IsSession
  <2>3. SessionOk(u, callNow) /\ ReasonOk(u) /\ InTime(u, callNow)
    BY <1>3, <2>1, <2>2, SideOk
  <2> QED BY <2>2, <2>3 DEF u
<1> HIDE DEF Sent, Left
<1>6. Left(v).closing = NoTime => SessionOk(Closes(Left(v), "client_closed"), callNow) /\ Closes(Left(v), "client_closed").at = "pump"
  BY <1>3, <1>5, ClosesOk DEF NoReason
<1>7. PICK u \in {Sent(v), Left(v), Closes(Left(v), "client_closed")} : SessionIs(c, u) /\ SessionOk(u, callNow) /\ u.at = "pump"
  BY <1>1, <1>2, <1>4, <1>5, <1>6
<1> QED BY <1>1, <1>7, SessionStep DEF pump_chunk

LEMMA PumpFrameStep == CallInv /\ pump_frame => CallInv'
<1> SUFFICES ASSUME CallInv, pump_frame PROVE CallInv'
  OBVIOUS
<1>1. PICK c \in DOMAIN handlers :
        Pumping(c) /\ \E frame, why : SessionIs(c, AfterFrame(handlers[c], Heard(handlers[c], frame), why))
  BY DEF pump_frame
<1>2. PICK frame, why : SessionIs(c, AfterFrame(handlers[c], Heard(handlers[c], frame), why))
  BY <1>1
<1>3. PICK v : v = handlers[c]
  OBVIOUS
<1>4. /\ At(c) = "pump" /\ v.at = "pump" /\ IsSession(v) /\ ReasonOk(v) /\ InTime(v, callNow)
      /\ callNow \in Nat /\ Grace \in Nat /\ IdleTime \in Nat
  BY <1>1, <1>3, OfSession DEF Pumping
<1>5. PICK u : u = Heard(v, frame)
  OBVIOUS
<1>6. /\ DOMAIN u = DOMAIN v /\ u.at = v.at /\ u.reason = v.reason /\ u.closing = v.closing /\ u.asked = v.asked
      /\ u.deadline = v.deadline /\ u.cause = v.cause /\ u.exits = v.exits /\ u.stalled = v.stalled
      /\ u.activity = v.activity \/ u.activity = callNow
  BY <1>4, <1>5 DEF IsSession, SessionFields, Heard
<1>7. IsSession(u) /\ ReasonOk(u) /\ u.at = "pump"
  BY <1>4, <1>6 DEF IsSession, ReasonOk
<1>8. InTime(u, callNow)
  <2>1. callNow <= callNow + IdleTime
    BY <1>4
  <2>2. ~u.stalled <=> ~v.stalled
    BY <1>6
  <2> QED BY <1>4, <1>6, <2>1, <2>2 DEF InTime
<1>9. SessionOk(u, callNow)
  BY <1>7, <1>8 DEF SessionOk
<1>10. SessionOk(AfterFrame(v, u, why), callNow) /\ AfterFrame(v, u, why).at = "pump"
  <2>1. CASE why = NoReason
    BY <1>7, <1>9, <2>1 DEF AfterFrame
  <2>2. CASE why # NoReason /\ v.closing = NoTime
    <3>1. pump_reason(v, why) # NoReason
      BY <2>2 DEF pump_reason
    <3> QED BY <1>4, <1>6, <1>7, <1>8, <2>2, <3>1, ClosesOk DEF AfterFrame
  <2>3. CASE why # NoReason /\ v.closing # NoTime
    <3>1. pump_reason(v, why) = v.reason
      BY <1>4, <2>3 DEF pump_reason, InTime
    <3>2. PICK w : w = [u EXCEPT !.reason = v.reason]
      OBVIOUS
    <3>3. /\ DOMAIN w = DOMAIN u /\ w.at = u.at /\ w.reason = u.reason /\ w.closing = u.closing /\ w.asked = u.asked
          /\ w.activity = u.activity /\ w.deadline = u.deadline /\ w.cause = u.cause /\ w.exits = u.exits /\ w.stalled = u.stalled
      BY <1>6, <1>7, <3>2 DEF IsSession, SessionFields
    <3>4. IsSession(w)
      BY <1>7, <3>3 DEF IsSession
    <3>5. SessionOk(w, callNow) /\ w.at = "pump"
      BY <1>7, <1>8, <3>3, <3>4, SideOk
    <3> QED BY <2>3, <3>1, <3>2, <3>5 DEF AfterFrame
  <2> QED BY <2>1, <2>2, <2>3
<1> QED BY <1>1, <1>2, <1>3, <1>4, <1>5, <1>10, SessionStep DEF pump_frame

LEMMA PumpTimerStep == CallInv /\ pump_timer => CallInv'
<1> SUFFICES ASSUME CallInv, pump_timer PROVE CallInv'
  OBVIOUS
<1>1. PICK c \in DOMAIN handlers :
        /\ Pumping(c)
        /\ \/ SessionIs(c, Exits(handlers[c], "error"))
           \/ handlers[c].closing = NoTime /\ \E why \in {"expired", "idle_timeout"} : SessionIs(c, Closes(handlers[c], why))
  BY DEF pump_timer
<1>2. PICK v : v = handlers[c]
  OBVIOUS
<1>3. /\ At(c) = "pump" /\ v.at = "pump" /\ IsSession(v) /\ ReasonOk(v) /\ InTime(v, callNow)
      /\ callNow \in Nat /\ Grace \in Nat
  BY <1>1, <1>2, OfSession DEF Pumping
<1>4. CASE SessionIs(c, Exits(v, "error"))
  BY <1>3, <1>4, ExitsOk, SessionStep DEF pump_timer
<1>5. CASE v.closing = NoTime /\ \E why \in {"expired", "idle_timeout"} : SessionIs(c, Closes(v, why))
  BY <1>3, <1>5, ClosesOk, SessionStep DEF pump_timer, NoReason
<1> QED BY <1>1, <1>2, <1>4, <1>5

LEMMA ShellExitsStep == CallInv /\ shell_exits => CallInv'
<1> SUFFICES ASSUME CallInv, shell_exits PROVE CallInv'
  OBVIOUS
<1>1. PICK c \in DOMAIN handlers :
        /\ At(c) = "exiting" /\ SessionIs(c, [handlers[c] EXCEPT !.at = "closed", !.exits = @ + 1]) /\ freeSlots' = freeSlots + 1
  BY DEF shell_exits
<1>2. PICK v : v = handlers[c]
  OBVIOUS
<1>3. v.at = "exiting" /\ IsSession(v) /\ ReasonOk(v)
  BY <1>1, <1>2, OfSession
<1>4. PICK u : u = [v EXCEPT !.at = "closed", !.exits = @ + 1]
  OBVIOUS
<1>5. /\ DOMAIN u = DOMAIN v /\ u.at = "closed" /\ u.reason = v.reason /\ u.closing = v.closing
      /\ u.activity = v.activity /\ u.deadline = v.deadline /\ u.cause = v.cause /\ u.exits = v.exits + 1
  BY <1>3, <1>4 DEF IsSession, SessionFields
<1>6. IsSession(u)
  BY <1>3, <1>5 DEF IsSession
<1>7. ReasonOk(u)
  <2>1. v.exits = 0 /\ u.exits = 1
    BY <1>3, <1>5 DEF ReasonOk
  <2> QED BY <1>3, <1>5, <2>1 DEF ReasonOk
<1>8. SessionOk(u, callNow)
  BY <1>5, <1>6, <1>7 DEF SessionOk
<1> QED BY <1>1, <1>2, <1>4, <1>5, <1>8, SessionStep DEF shell_exits

LEMMA ClientStep == CallInv /\ (client_reads \/ client_goes) => CallInv'
<1> SUFFICES ASSUME CallInv, client_reads \/ client_goes PROVE CallInv'
  OBVIOUS
<1> DEFINE Fewer(v) == [v EXCEPT !.out = @ - 1]
           Deaf(v) == [v EXCEPT !.listens = FALSE]
<1>1. PICK c \in DOMAIN handlers :
        At(c) \in {"pump", "exiting"} /\ (SessionIs(c, Fewer(handlers[c])) \/ SessionIs(c, Deaf(handlers[c])))
  BY DEF client_reads, client_goes
<1>2. UNCHANGED <<admitted, limitVars, freeSlots, opened, work, callNow, callLoad>>
  BY DEF client_reads, client_goes
<1>3. PICK v : v = handlers[c]
  OBVIOUS
<1>4. v.at \in {"pump", "exiting"} /\ IsSession(v) /\ ReasonOk(v) /\ (v.at = "pump" => InTime(v, callNow))
  BY <1>1, <1>3, OfSession
<1>5. PICK u \in {Fewer(v), Deaf(v)} : SessionIs(c, u)
  BY <1>1, <1>3
<1>6. /\ DOMAIN u = DOMAIN v /\ u.at = v.at /\ u.reason = v.reason /\ u.closing = v.closing /\ u.asked = v.asked
      /\ u.activity = v.activity /\ u.deadline = v.deadline /\ u.cause = v.cause /\ u.exits = v.exits /\ u.stalled = v.stalled
  <2>1. CASE u = Fewer(v)
    BY <1>4, <2>1 DEF IsSession, SessionFields
  <2>2. CASE u = Deaf(v)
    BY <1>4, <2>2 DEF IsSession, SessionFields
  <2> QED BY <1>5, <2>1, <2>2
<1> HIDE DEF Fewer, Deaf
<1>7. IsSession(u)
  BY <1>4, <1>6 DEF IsSession
<1>8. SessionOk(u, callNow)
  BY <1>4, <1>6, <1>7, SideOk
<1> QED BY <1>1, <1>2, <1>4, <1>5, <1>6, <1>8, SessionStep

\* The clock moves when no timer is due: who waits for its client is held up,
\* and every other session is before its next timer still.
LEMMA TimersKept ==
  ASSUME NEW v, SessionOk(v, callNow), callNow \in Nat, ~TimerDue(v), ~(v.at = "pump" /\ v.chunks # 0)
  PROVE  SessionOk(v, callNow + 1)
<1> SUFFICES ASSUME v.at = "pump" PROVE InTime(v, callNow + 1)
  BY DEF SessionOk
<1>1. IsSession(v) /\ InTime(v, callNow) /\ v.chunks = 0
  BY DEF SessionOk, InSession
<1>2. v.deadline \in Nat /\ v.activity \in Nat /\ v.closing \in Nat \cup {NoTime} /\ IdleTime \in Nat
  BY <1>1, CallAssumption DEF IsSession
<1>3. ~(callNow >= (IF v.closing # NoTime THEN v.closing ELSE IF v.deadline < v.activity + IdleTime THEN v.deadline ELSE v.activity + IdleTime))
  <2>1. ~(v.chunks > 0)
    BY <1>1
  <2> QED BY <2>1 DEF TimerDue
<1>4. v.closing # NoTime => callNow + 1 <= v.closing
  BY <1>2, <1>3
<1>5. v.closing = NoTime => callNow + 1 <= v.deadline /\ callNow + 1 <= v.activity + IdleTime
  BY <1>2, <1>3
<1> QED BY <1>1, <1>4, <1>5 DEF InTime

LEMMA ClockStep == CallInv /\ call_clock => CallInv'
<1> SUFFICES ASSUME CallInv, call_clock PROVE CallInv'
  OBVIOUS
<1>1. /\ \A c \in DOMAIN handlers : ~TimerDue(handlers[c])
      /\ callNow \in Nat /\ callNow' = callNow + 1
      /\ handlers' = [c \in DOMAIN handlers |-> IF At(c) = "pump" /\ ~Pumping(c) THEN [handlers[c] EXCEPT !.stalled = TRUE] ELSE handlers[c]]
      /\ UNCHANGED <<admitted, limitVars, freeSlots, opened, work, callLoad>>
  BY DEF call_clock, CallInv
<1>2. DOMAIN handlers' = DOMAIN handlers
  BY <1>1
<1>3. \A c \in DOMAIN handlers : handlers'[c].at = handlers[c].at /\ SessionOk(handlers'[c], callNow + 1)
  <2> SUFFICES ASSUME NEW c \in DOMAIN handlers PROVE handlers'[c].at = handlers[c].at /\ SessionOk(handlers'[c], callNow + 1)
    OBVIOUS
  <2>1. PICK v : v = handlers[c] /\ SessionOk(v, callNow) /\ ~TimerDue(v) /\ At(c) = v.at
    BY <1>1 DEF CallInv, At
  <2>2. CASE At(c) = "pump" /\ ~Pumping(c)
    <3>1. PICK u : u = [v EXCEPT !.stalled = TRUE] /\ handlers'[c] = u
      BY <1>1, <2>1, <2>2
    <3>2. IsSession(v) /\ ReasonOk(v) /\ InTime(v, callNow) /\ v.at = "pump"
      BY <2>1, <2>2 DEF SessionOk, InSession
    <3>3. /\ DOMAIN u = DOMAIN v /\ u.at = v.at /\ u.reason = v.reason /\ u.closing = v.closing /\ u.asked = v.asked /\ u.stalled = TRUE
          /\ u.activity = v.activity /\ u.deadline = v.deadline /\ u.cause = v.cause /\ u.exits = v.exits
      BY <3>1, <3>2 DEF IsSession, SessionFields
    <3>4. IsSession(u) /\ ReasonOk(u)
      BY <3>2, <3>3 DEF IsSession, ReasonOk
    <3>5. InTime(u, callNow + 1)
      BY <3>2, <3>3 DEF InTime
    <3> QED BY <2>1, <3>1, <3>3, <3>4, <3>5 DEF SessionOk
  <2>3. CASE ~(At(c) = "pump" /\ ~Pumping(c))
    <3>1. handlers'[c] = v /\ ~(v.at = "pump" /\ v.chunks # 0)
      BY <1>1, <2>1, <2>3 DEF Pumping
    <3> QED BY <1>1, <2>1, <3>1, TimersKept
  <2> QED BY <2>2, <2>3
<1>4. /\ \A d : At(d)' = At(d) /\ Rpc(d)' = Rpc(d) /\ PlanOf(d)' = PlanOf(d) /\ (HostShell(d)' <=> HostShell(d))
      /\ \A d : HoldsSlot(d)' <=> HoldsSlot(d)
  <2>1. \A d : At(d)' = At(d)
    BY <1>2, <1>3 DEF At
  <2>2. \A d : Rpc(d)' = Rpc(d) /\ PlanOf(d)' = PlanOf(d) /\ (HostShell(d)' <=> HostShell(d))
    BY <1>1 DEF Rpc, PlanOf, HostShell
  <2> QED BY <2>1, <2>2 DEF HoldsSlot
<1>5. SlotInv'
  <2>1. Holders' = Holders
    BY <1>2, <1>4 DEF Holders
  <2> QED BY <1>1, <2>1 DEF CallInv, SlotInv
<1>6. AdmitInv'
  <2>1. \A d \in DOMAIN handlers' :
          /\ At(d)' \in {"gate", "admit"} =>
               \/ Rpc(d)' = "shell" /\ PlanOf(d)'.kinds = {"shell.open"}
               \/ Rpc(d)' \in {"submit", "cancel"} /\ ~holds_kind(PlanOf(d)', "shell.open")
          /\ At(d)' \in Asking \cup {"pump", "exiting"} => Rpc(d)' = "shell"
          /\ At(d)' \in Asking \cup {"admitted", "existing"} => PlanOf(d)'.id \in DOMAIN admitted'
          /\ At(d)' \in Asking => admitted'[PlanOf(d)'.id].by = d /\ PlanOf(d)'.id \notin DOMAIN opened'
    BY <1>1, <1>2, <1>4 DEF CallInv, AdmitInv
  <2>2. \A p \in DOMAIN admitted' :
          /\ (admitted[p].by \in DOMAIN handlers)' /\ (PlanOf(admitted[p].by).id = p)'
          /\ (At(admitted[p].by) \notin {"new", "gate", "admit", "existing"})'
    <3> SUFFICES ASSUME NEW p \in DOMAIN admitted, NEW b, b = admitted[p].by
                 PROVE  /\ b \in DOMAIN handlers' /\ PlanOf(b)'.id = p
                        /\ At(b)' \notin {"new", "gate", "admit", "existing"}
      BY <1>1 DEF PlanOf, At
    <3> QED BY <1>2, <1>4 DEF CallInv, AdmitInv
  <2>3. OnePlanOneShell'
    BY <1>1 DEF CallInv, AdmitInv, OnePlanOneShell, PlanOf, Rpc, holds_kind
  <2>4. SameOperation'
    <3>1. ASSUME NEW d \in DOMAIN handlers'
          PROVE  /\ At(d)' = "existing" => admitted'[PlanOf(d)'.id].digest = PlanOf(d)'.digest /\ admitted'[PlanOf(d)'.id].by # d
                 /\ At(d)' = "admitted" => admitted'[PlanOf(d)'.id].by = d
      BY <1>1, <1>2, <1>4 DEF CallInv, AdmitInv, SameOperation
    <3> QED BY <3>1 DEF SameOperation
  <2> QED BY <2>1, <2>2, <2>3, <2>4 DEF AdmitInv
<1>7. LimitInv'
  <2>1. LimitInv /\ limitVars' = limitVars
    BY <1>1 DEF CallInv
  <2> DEFINE Later(l, t) ==
               /\ l \in Seq(Nat) /\ t \in Seq(Nat) /\ Len(l) <= Len(t)
               /\ \A i \in 1..Len(l) : l[i] = t[Len(t) - Len(l) + i]
               /\ \A i \in 1..(Len(t) - Len(l)) : callNow' - t[i] > Window
  <2>2. ASSUME NEW l, NEW t, Follows(l, t) PROVE Later(l, t)
    <3>1. l \in Seq(Nat) /\ t \in Seq(Nat) /\ Len(l) \in Nat /\ Len(t) \in Nat /\ Len(l) <= Len(t) /\ Window \in Nat
      BY <2>2, CallAssumption DEF Follows
    <3>2. ASSUME NEW i \in 1..(Len(t) - Len(l)) PROVE callNow' - t[i] > Window
      <4>1. i \in 1..Len(t)
        BY <3>1
      <4>2. t[i] \in Nat
        BY <3>1, <4>1
      <4>3. callNow - t[i] > Window
        BY <2>2 DEF Follows
      <4> QED BY <1>1, <3>1, <4>2, <4>3
    <3> QED BY <2>2, <3>1, <3>2 DEF Follows
  <2>3. Follows(submissions, passes.submissions)' /\ Follows(hostShells, passes.hostShells)'
    <3>1. Follows(submissions, passes.submissions) /\ Follows(hostShells, passes.hostShells)
      BY <2>1 DEF LimitInv
    <3>2. submissions' = submissions /\ hostShells' = hostShells /\ passes' = passes
      BY <2>1 DEF limitVars
    <3>3. Later(submissions, passes.submissions) /\ Later(hostShells, passes.hostShells)
      <4> HIDE DEF Later
      <4> QED BY <2>2, <3>1
    <3>4. Follows(submissions, passes.submissions)'
      BY <3>2, <3>3, Zenon DEF Follows
    <3>5. Follows(hostShells, passes.hostShells)'
      BY <3>2, <3>3, Zenon DEF Follows
    <3> QED BY <3>4, <3>5
  <2>4. Within(passes.submissions, SubmitLimit)' /\ Within(passes.hostShells, HostLimit)'
    BY <2>1 DEF LimitInv, Within, limitVars
  <2>5. passes.submissions # <<>> => \E c \in DOMAIN handlers' : Rpc(c)' # "verify" /\ ~HostShell(c)'
    BY <1>2, <1>4, <2>1 DEF LimitInv
  <2> QED BY <2>1, <2>3, <2>4, <2>5 DEF LimitInv, limitVars
<1>8. \A c \in DOMAIN handlers' : SessionOk(handlers'[c], callNow')
  BY <1>1, <1>2, <1>3
<1> QED BY <1>1, <1>2, <1>5, <1>6, <1>7, <1>8 DEF CallInv

----------------------------------------------------------------------------
(* Calls and shells: the theorem.                                          *)

LEMMA CallsBegin == ASSUME CcInit PROVE CallInv
<1>1. callLoad \in CallLoads /\ callNow \in Nat /\ DOMAIN handlers = {} /\ DOMAIN admitted = {} /\ DOMAIN opened = {}
  BY DEF CcInit
<1>2. SlotInv
  <2>1. Holders = {}
    BY <1>1 DEF Holders
  <2>2. Cardinality(Holders) = 0
    BY <2>1, FS_EmptySet
  <2>3. freeSlots = MaxShells /\ MaxShells \in Nat
    BY CallAssumption DEF CcInit
  <2> QED BY <2>2, <2>3 DEF SlotInv
<1>3. AdmitInv
  BY <1>1 DEF AdmitInv, OnePlanOneShell, SameOperation
<1>4. LimitInv
  <2>1. /\ passes = [submissions |-> <<>>, hostShells |-> <<>>] /\ submissions = <<>> /\ hostShells = <<>>
    BY DEF CcInit
  <2>2. <<>> \in Seq(Nat) /\ Len(<<>>) = 0 /\ DOMAIN <<>> = {}
    OBVIOUS
  <2>3. Follows(<<>>, <<>>) /\ \A n : Within(<<>>, n)
    BY <2>2 DEF Follows, Within
  <2> QED BY <2>1, <2>3 DEF LimitInv
<1> QED BY <1>1, <1>2, <1>3, <1>4 DEF CallInv

LEMMA CallsKept == ASSUME CallInv, CcNext PROVE CallInv'
BY SubmitStep, CancelStep, VerifyStep, GateStep, AdmitStep, ShellStep, BindStep, RunnerStep, AbandonStep, PumpLineStep,
   PumpChunkStep, PumpFrameStep, PumpTimerStep, ShellExitsStep, ClientStep, ClockStep DEF CcNext

\* A step of another component.
LEMMA CallsStand == ASSUME CallInv, UNCHANGED ccVars PROVE CallInv'
<1>1. /\ handlers' = handlers /\ admitted' = admitted /\ submissions' = submissions /\ hostShells' = hostShells /\ passes' = passes
      /\ freeSlots' = freeSlots /\ opened' = opened /\ callNow' = callNow /\ callLoad' = callLoad
  BY DEF ccVars
<1>2. SlotInv'
  BY <1>1 DEF CallInv, SlotInv, Holders, HoldsSlot, At, Rpc
<1>3. AdmitInv'
  BY <1>1 DEF CallInv, AdmitInv, OnePlanOneShell, SameOperation, At, Rpc, PlanOf, holds_kind
<1>4. LimitInv'
  BY <1>1 DEF CallInv, LimitInv, Follows, Within, HostShell, Rpc, PlanOf
<1> QED BY <1>1, <1>2, <1>3, <1>4 DEF CallInv

\* The invariant says what the property does.
LEMMA CallsImply == ASSUME CallInv PROVE CallsHold
<1>1. SlotsReturn
  BY DEF CallInv, SlotInv, SlotsReturn, Holders
<1>2. OnePlanOneShell /\ SameOperation
  BY DEF CallInv, AdmitInv
<1>3. LimitsKept
  <2>1. LimitInv
    BY DEF CallInv
  <2>2. passes.submissions = <<>> => submissions = <<>>
    <3> SUFFICES ASSUME passes.submissions = <<>> PROVE submissions = <<>>
      OBVIOUS
    <3>1. submissions \in Seq(Nat) /\ Len(submissions) <= Len(passes.submissions) /\ Len(passes.submissions) = 0
      BY <2>1 DEF LimitInv, Follows
    <3>2. Len(submissions) = 0
      BY <3>1
    <3> QED BY <3>1, <3>2
  <2> QED BY <2>1, <2>2 DEF LimitInv, LimitsKept
<1>4. EndsInTime
  <2> SUFFICES ASSUME NEW c \in DOMAIN handlers, At(c) = "pump", NEW v, v = handlers[c]
               PROVE  /\ v.closing # NoTime <=> v.reason # NoReason
                      /\ v.closing # NoTime => v.asked
                      /\ ~v.stalled => callNow <= v.deadline + Grace /\ (v.closing # NoTime => callNow <= v.closing)
                      /\ (~v.stalled /\ v.closing = NoTime) => callNow <= v.activity + IdleTime
    BY DEF EndsInTime
  <2>1. IsSession(v) /\ InTime(v, callNow) /\ callNow \in Nat /\ Grace \in Nat
    BY OfSession
  <2>2. ~v.stalled => callNow <= v.deadline + Grace
    <3>1. CASE v.closing = NoTime
      BY <2>1, <3>1 DEF InTime, IsSession
    <3>2. CASE v.closing # NoTime
      BY <2>1, <3>2 DEF InTime, IsSession
    <3> QED BY <3>1, <3>2
  <2> QED BY <2>1, <2>2 DEF InTime
<1>5. ReasonIsFirst
  BY DEF CallInv, ReasonIsFirst, SessionOk, ReasonOk, InSession, At
<1> QED BY <1>1, <1>2, <1>3, <1>4, <1>5 DEF CallsHold

\* local/change.rs, local/shell.rs: however calls, clients, the runner and the
\* clock interleave, every permit of a shell is free or held by one call; one
\* signed shell.open opens one session and an id is admitted once; no window has
\* more calls than its limit; a session whose client reads ends in time, with
\* the reason it began to end for.
THEOREM CallsInOrder == Spec => []ChangeCallsHold
<1> DEFINE Inv == part = "calls" => CallInv
<1>1. MCInit => Inv
  <2> SUFFICES ASSUME MCInit, part = "calls" PROVE CallInv
    OBVIOUS
  <2>1. CcInit
    BY DEF MCInit
  <2> QED BY <2>1, CallsBegin
<1>2. Inv /\ [MCNext]_allVars => Inv'
  <2> SUFFICES ASSUME Inv, [MCNext]_allVars, part' = "calls" PROVE CallInv'
    OBVIOUS
  <2>1. part' = part /\ (CcNext \/ UNCHANGED ccVars)
    BY DEF MCNext, allVars
  <2> QED BY <2>1, CallsKept, CallsStand
<1>3. Inv => ChangeCallsHold
  BY CallsImply DEF ChangeCallsHold
<1> QED BY <1>1, <1>2, <1>3, PTL DEF Spec

=============================================================================
