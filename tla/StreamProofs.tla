---------------------------- MODULE StreamProofs ----------------------------
(***************************************************************************)
(* Proofs about the hosted command stream, for any commands, dispatches,   *)
(* permits, breaks and cancels: the capacity of the agent, the workers of  *)
(* CI jobs whose task is gone, and how often a CI job is started.  And     *)
(* about the CI jobs themselves, for any number of workers and any plans:  *)
(* that they clean up, keep apart, stop where they failed and report what  *)
(* happened.                                                               *)
(***************************************************************************)
EXTENDS MCCi, FiniteSetTheorems, TLAPS

----------------------------------------------------------------------------
(* The inductive invariant.                                                *)

Waiting == {"ack", "reject"}
Early == {"none", "ack", "reject", "rejected"}
CmdPcs == Early \cup {"run", "answer", "cancelled", "ended"}

StreamType ==
  /\ kind \in Kinds /\ sent \in [Commands -> Nat] /\ permits \in Nat
  /\ row \in [Commands -> {"pending", "dispatched", "final"}]
  /\ cmdPc \in [Dispatches -> CmdPcs] /\ worker \in [Dispatches -> {"none", "running", "ended"}]
  /\ permit \in [Dispatches -> BOOLEAN] /\ started \in [Dispatches -> BOOLEAN]
  /\ aborted \in [Dispatches -> BOOLEAN] /\ cmdSignal \in [Dispatches -> BOOLEAN]
  /\ registry \in [Commands -> Dispatches \cup {NoDispatch}]

\* What is known of one dispatch: who holds a permit; which dispatches there are
\* and that only the last one can be waiting for its acknowledgement; that a
\* started CI job was acknowledged, so that no dispatch follows; and what a
\* worker's task and flag are.
TaskInv(d) ==
  /\ permit[d] <=> Live(d) /\ ~command_bypasses_limit(KindOf(d))
  /\ cmdPc[d] = "none" <=> d[2] > sent[d[1]]
  /\ cmdPc[d] \in Waiting => d[2] = sent[d[1]]
  /\ started[d] /\ KindOf(d) = "ci" => row[d[1]] # "pending" /\ d[2] = sent[d[1]]
  /\ worker[d] # "none" => KindOf(d) = "ci"
  /\ cmdPc[d] \in Early => worker[d] = "none"
  /\ cmdPc[d] = "answer" => worker[d] # "running"
  /\ aborted[d] /\ KindOf(d) = "ci" => cmdSignal[d]
  /\ worker[d] = "running" /\ ~Handling(d) => cmdSignal[d]

\* The permits that are out.
Permitted == {d \in Dispatches : permit[d]}
PermitCount == IsFiniteSet(Permitted) /\ permits + Cardinality(Permitted) = MaxPermits

StreamInv == StreamType /\ PermitCount /\ \A d \in Dispatches : TaskInv(d)

----------------------------------------------------------------------------
(* Dispatches and permits.                                                 *)

\* A dispatch is a command and a number.
LEMMA DispatchIs ==
  /\ \A d \in Dispatches : /\ d[1] \in Commands /\ d[2] \in Nat \ {0} /\ d[2] <= MaxDispatch[d[1]]
                           /\ d = <<d[1], d[2]>>
  /\ \A c \in Commands, n \in Nat \ {0} : n <= MaxDispatch[c] => <<c, n>> \in Dispatches
<1>1. ASSUME NEW d \in Dispatches
      PROVE  /\ d[1] \in Commands /\ d[2] \in Nat \ {0} /\ d[2] <= MaxDispatch[d[1]]
             /\ d = <<d[1], d[2]>>
  <2>1. PICK c \in Commands : d \in {c} \X (1..MaxDispatch[c])
    BY DEF Dispatches
  <2> QED BY <2>1, CommandAssumption
<1>2. ASSUME NEW c \in Commands, NEW n \in Nat \ {0}, n <= MaxDispatch[c] PROVE <<c, n>> \in Dispatches
  <2>1. <<c, n>> \in {c} \X (1..MaxDispatch[c])
    BY <1>2, CommandAssumption
  <2> QED BY <2>1 DEF Dispatches
<1> QED BY <1>1, <1>2

\* A permit that is given back is free again.
LEMMA ReleaseCounts ==
  ASSUME StreamType, PermitCount, NEW d \in Dispatches, Release(d)
  PROVE  PermitCount' /\ permits' \in Nat /\ permit' \in [Dispatches -> BOOLEAN]
<1>1. permit' = [permit EXCEPT ![d] = FALSE] /\ permits' = IF permit[d] THEN permits + 1 ELSE permits
  BY DEF Release
<1>2. permit \in [Dispatches -> BOOLEAN] /\ permits \in Nat
  BY DEF StreamType
<1>3. Permitted' = Permitted \ {d} /\ (d \in Permitted <=> permit[d])
  BY <1>1, <1>2 DEF Permitted
<1>4. /\ IsFiniteSet(Permitted \ {d})
      /\ Cardinality(Permitted \ {d}) = IF d \in Permitted THEN Cardinality(Permitted) - 1 ELSE Cardinality(Permitted)
  BY FS_RemoveElement DEF PermitCount
<1>5. Cardinality(Permitted) \in Nat /\ MaxPermits \in Nat
  BY FS_CardinalityType, CommandAssumption DEF PermitCount
<1>6. permits' \in Nat /\ permit' \in [Dispatches -> BOOLEAN]
  BY <1>1, <1>2
<1>7. permits' + Cardinality(Permitted \ {d}) = MaxPermits
  BY <1>1, <1>2, <1>3, <1>4, <1>5 DEF PermitCount
<1> QED BY <1>3, <1>4, <1>6, <1>7 DEF PermitCount

\* A permit that is taken is one less.
LEMMA TakeCounts ==
  ASSUME StreamType, PermitCount, NEW d \in Dispatches, ~permit[d], permits > 0,
         permit' = [permit EXCEPT ![d] = TRUE], permits' = permits - 1
  PROVE  PermitCount' /\ permits' \in Nat /\ permit' \in [Dispatches -> BOOLEAN]
<1>1. permit \in [Dispatches -> BOOLEAN] /\ permits \in Nat
  BY DEF StreamType
<1>2. Permitted' = Permitted \cup {d} /\ d \notin Permitted
  BY <1>1 DEF Permitted
<1>3. IsFiniteSet(Permitted \cup {d}) /\ Cardinality(Permitted \cup {d}) = Cardinality(Permitted) + 1
  BY <1>2, FS_AddElement DEF PermitCount
<1>4. Cardinality(Permitted) \in Nat /\ MaxPermits \in Nat
  BY FS_CardinalityType, CommandAssumption DEF PermitCount
<1>5. permits' \in Nat /\ permit' \in [Dispatches -> BOOLEAN]
  BY <1>1
<1>6. permits' + Cardinality(Permitted \cup {d}) = MaxPermits
  BY <1>1, <1>3, <1>4 DEF PermitCount
<1> QED BY <1>2, <1>3, <1>5, <1>6 DEF PermitCount

\* Permits that nobody touches.
LEMMA PermitsStay == PermitCount /\ UNCHANGED <<permit, permits>> => PermitCount'
BY DEF PermitCount, Permitted

\* A dispatch that a step leaves alone: its row may only leave pending.
SameAt(d) ==
  /\ cmdPc'[d] = cmdPc[d] /\ permit'[d] = permit[d] /\ started'[d] = started[d]
  /\ aborted'[d] = aborted[d] /\ cmdSignal'[d] = cmdSignal[d] /\ worker'[d] = worker[d]
RowsGoOn == \A c \in Commands : row'[c] = "pending" => row[c] = "pending"

\* What is known of a dispatch that a step leaves alone stays known.
LEMMA SameStays ==
  ASSUME StreamInv, NEW d \in Dispatches, SameAt(d), RowsGoOn, UNCHANGED <<sent, kind>>
  PROVE  TaskInv(d)'
<1>1. TaskInv(d) /\ d[1] \in Commands
  BY DispatchIs DEF StreamInv
<1>2. (Live(d)' <=> Live(d)) /\ (Handling(d)' <=> Handling(d)) /\ KindOf(d)' = KindOf(d)
  BY DEF SameAt, Live, Handling, KindOf
<1> QED BY <1>1, <1>2 DEF TaskInv, SameAt, RowsGoOn, command_bypasses_limit

\* A step of one task.
LEMMA OneTask ==
  ASSUME StreamInv, NEW d \in Dispatches, StreamType', PermitCount', RowsGoOn, UNCHANGED <<sent, kind>>,
         \A x \in Dispatches : x # d => SameAt(x), TaskInv(d)'
  PROVE  StreamInv'
BY SameStays DEF StreamInv

----------------------------------------------------------------------------
(* The steps of a task.                                                    *)

\* The arrays a step changes at one dispatch.
LEMMA GoIs ==
  ASSUME StreamType, NEW d \in Dispatches, NEW l \in CmdPcs, Go(d, l)
  PROVE  /\ cmdPc' \in [Dispatches -> CmdPcs] /\ cmdPc'[d] = l
         /\ \A x \in Dispatches : x # d => cmdPc'[x] = cmdPc[x]
BY DEF StreamType, Go

\* The permits a release changes.
LEMMA ReleaseIs ==
  ASSUME StreamType, NEW d \in Dispatches, Release(d)
  PROVE  ~permit'[d] /\ \A x \in Dispatches : x # d => permit'[x] = permit[x]
BY DEF StreamType, Release

\* The registry after an entry is taken off.
LEMMA UnregisterIs ==
  ASSUME StreamType, NEW d \in Dispatches, Unregister(d)
  PROVE  registry' \in [Commands -> Dispatches \cup {NoDispatch}]
BY DispatchIs DEF StreamType, Unregister

\* ack_command_receipt: a CI job is started by the dispatch whose acknowledgement
\* was confirmed, and no other one can be waiting for its own.
LEMMA AckKeeps == ASSUME StreamInv, NEW d \in Dispatches, ack_command_receipt(d) PROVE StreamInv'
<1>1. /\ cmdPc[d] \in {"ack", "reject"}
      /\ UNCHANGED <<sent, aborted, cmdSignal, kind>>
  BY DEF ack_command_receipt
<1>2. PICK seen \in BOOLEAN, ok \in BOOLEAN :
       /\ ok => seen
       /\ row' = IF seen /\ row[d[1]] = "pending" THEN [row EXCEPT ![d[1]] = "dispatched"] ELSE row
       /\ \/ /\ cmdPc[d] = "reject" /\ Go(d, "rejected")
             /\ UNCHANGED <<permit, permits, registry, started, worker>>
          \/ /\ cmdPc[d] = "ack" /\ End_after_ack(d) /\ UNCHANGED <<started, worker>>
          \/ /\ cmdPc[d] = "ack" /\ (ok \/ ~command_requires_ack(KindOf(d)))
             /\ UNCHANGED <<permit, permits, registry>>
             /\ \/ Go(d, "answer") /\ UNCHANGED <<started, worker>>
                \/ /\ Go(d, "run") /\ started' = [started EXCEPT ![d] = TRUE]
                   /\ worker' = IF KindOf(d) = "ci" THEN [worker EXCEPT ![d] = "running"] ELSE worker
  BY DEF ack_command_receipt
<1>3. StreamType /\ PermitCount /\ TaskInv(d) /\ d[1] \in Commands
  BY DispatchIs DEF StreamInv
<1>4. row \in [Commands -> {"pending", "dispatched", "final"}]
  BY <1>3 DEF StreamType
<1>5. row' \in [Commands -> {"pending", "dispatched", "final"}] /\ RowsGoOn
  BY <1>2, <1>3, <1>4 DEF RowsGoOn
<1>6. ok => row'[d[1]] # "pending"
  BY <1>2, <1>3, <1>4
<1>7. KindOf(d)' = KindOf(d) /\ {"rejected", "ended", "answer", "run"} \subseteq CmdPcs
  BY <1>1 DEF KindOf, CmdPcs, Early
<1>8. worker[d] = "none" /\ d[2] = sent[d[1]]
  BY <1>1, <1>3 DEF TaskInv, Early, Waiting
<1>9. CASE cmdPc[d] = "reject" /\ Go(d, "rejected") /\ UNCHANGED <<permit, permits, registry, started, worker>>
  <2>1. /\ cmdPc' \in [Dispatches -> CmdPcs] /\ cmdPc'[d] = "rejected"
        /\ \A x \in Dispatches : x # d => cmdPc'[x] = cmdPc[x]
    BY <1>3, <1>7, <1>9, GoIs
  <2>2. StreamType' /\ PermitCount'
    BY <1>1, <1>3, <1>5, <1>9, <2>1, PermitsStay DEF StreamType
  <2>3. TaskInv(d)'
    <3>1. ~Live(d) /\ ~Live(d)' /\ ~Handling(d)'
      BY <1>9, <2>1 DEF Live, Handling
    <3> QED BY <1>1, <1>3, <1>5, <1>7, <1>8, <1>9, <2>1, <3>1 DEF TaskInv, Waiting, Early, RowsGoOn
  <2> QED BY <1>1, <1>5, <1>9, <2>1, <2>2, <2>3, OneTask DEF SameAt
<1>10. CASE cmdPc[d] = "ack" /\ End_after_ack(d) /\ UNCHANGED <<started, worker>>
  <2>0. Go(d, "ended") /\ Unregister(d) /\ Release(d)
    BY <1>10 DEF End_after_ack
  <2>1. /\ cmdPc' \in [Dispatches -> CmdPcs] /\ cmdPc'[d] = "ended"
        /\ \A x \in Dispatches : x # d => cmdPc'[x] = cmdPc[x]
    BY <1>3, <1>7, <2>0, GoIs
  <2>2. ~permit'[d] /\ \A x \in Dispatches : x # d => permit'[x] = permit[x]
    BY <1>3, <2>0, ReleaseIs
  <2>3. PermitCount' /\ permits' \in Nat /\ permit' \in [Dispatches -> BOOLEAN]
    BY <1>3, <2>0, ReleaseCounts
  <2>4. registry' \in [Commands -> Dispatches \cup {NoDispatch}]
    BY <1>3, <2>0, UnregisterIs
  <2>5. StreamType'
    BY <1>1, <1>3, <1>5, <1>10, <2>1, <2>3, <2>4 DEF StreamType
  <2>6. TaskInv(d)'
    <3>1. ~Live(d)' /\ ~Handling(d)'
      BY <2>1 DEF Live, Handling
    <3> QED BY <1>1, <1>3, <1>5, <1>7, <1>8, <1>10, <2>1, <2>2, <3>1 DEF TaskInv, Waiting, Early, RowsGoOn
  <2> QED BY <1>1, <1>5, <1>10, <2>1, <2>2, <2>3, <2>5, <2>6, OneTask DEF SameAt
<1>11. CASE /\ cmdPc[d] = "ack" /\ UNCHANGED <<permit, permits, registry>>
            /\ Go(d, "answer") /\ UNCHANGED <<started, worker>>
  <2>1. /\ cmdPc' \in [Dispatches -> CmdPcs] /\ cmdPc'[d] = "answer"
        /\ \A x \in Dispatches : x # d => cmdPc'[x] = cmdPc[x]
    BY <1>3, <1>7, <1>11, GoIs
  <2>2. StreamType' /\ PermitCount'
    BY <1>1, <1>3, <1>5, <1>11, <2>1, PermitsStay DEF StreamType
  <2>3. TaskInv(d)'
    <3>1. Live(d) /\ Live(d)' /\ Handling(d)'
      BY <1>11, <2>1 DEF Live, Handling
    <3> QED BY <1>1, <1>3, <1>5, <1>7, <1>8, <1>11, <2>1, <3>1
            DEF TaskInv, Waiting, Early, RowsGoOn, command_bypasses_limit
  <2> QED BY <1>1, <1>5, <1>11, <2>1, <2>2, <2>3, OneTask DEF SameAt
<1>12. CASE /\ cmdPc[d] = "ack" /\ (ok \/ ~command_requires_ack(KindOf(d)))
            /\ UNCHANGED <<permit, permits, registry>>
            /\ Go(d, "run") /\ started' = [started EXCEPT ![d] = TRUE]
            /\ worker' = IF KindOf(d) = "ci" THEN [worker EXCEPT ![d] = "running"] ELSE worker
  <2>1. /\ cmdPc' \in [Dispatches -> CmdPcs] /\ cmdPc'[d] = "run"
        /\ \A x \in Dispatches : x # d => cmdPc'[x] = cmdPc[x]
    BY <1>3, <1>7, <1>12, GoIs
  <2>2. /\ worker' \in [Dispatches -> {"none", "running", "ended"}]
        /\ \A x \in Dispatches : x # d => worker'[x] = worker[x] /\ started'[x] = started[x]
        /\ started' \in [Dispatches -> BOOLEAN]
        /\ worker'[d] # "none" => KindOf(d) = "ci"
    BY <1>3, <1>8, <1>12 DEF StreamType
  <2>3. StreamType' /\ PermitCount'
    BY <1>1, <1>3, <1>5, <1>12, <2>1, <2>2, PermitsStay DEF StreamType
  <2>4. KindOf(d) = "ci" => row'[d[1]] # "pending"
    BY <1>6, <1>12 DEF command_requires_ack
  <2>5. TaskInv(d)'
    <3>1. Live(d) /\ Live(d)' /\ Handling(d)'
      BY <1>12, <2>1 DEF Live, Handling
    <3> QED BY <1>1, <1>3, <1>7, <1>8, <1>12, <2>1, <2>2, <2>4, <3>1
            DEF TaskInv, Waiting, Early, command_bypasses_limit
  <2> QED BY <1>1, <1>5, <1>12, <2>1, <2>2, <2>3, <2>5, OneTask DEF SameAt
<1> QED BY <1>2, <1>9, <1>10, <1>11, <1>12

\* worker_returns and handle_command.
LEMMA WorkKeeps ==
  ASSUME StreamInv, NEW d \in Dispatches, worker_returns(d) \/ handle_command(d) PROVE StreamInv'
<1>1. UNCHANGED <<row, sent, permit, started, aborted, cmdSignal, registry, permits, kind>>
  BY DEF worker_returns, handle_command
<1>2. StreamType /\ PermitCount /\ TaskInv(d)
  BY DEF StreamInv
<1>3. RowsGoOn /\ PermitCount' /\ KindOf(d)' = KindOf(d)
  BY <1>1, <1>2, PermitsStay DEF RowsGoOn, KindOf
<1>4. CASE worker_returns(d)
  <2>1. worker[d] = "running" /\ worker' = [worker EXCEPT ![d] = "ended"] /\ UNCHANGED cmdPc
    BY <1>4 DEF worker_returns
  <2>2. /\ worker' \in [Dispatches -> {"none", "running", "ended"}] /\ worker'[d] = "ended"
        /\ \A x \in Dispatches : x # d => worker'[x] = worker[x]
    BY <1>2, <2>1 DEF StreamType
  <2>3. StreamType'
    BY <1>1, <1>2, <2>1, <2>2 DEF StreamType
  <2>4. TaskInv(d)'
    <3>1. (Live(d)' <=> Live(d)) /\ (Handling(d)' <=> Handling(d))
      BY <2>1 DEF Live, Handling
    <3> QED BY <1>1, <1>2, <1>3, <2>1, <2>2, <3>1 DEF TaskInv, command_bypasses_limit
  <2> QED BY <1>1, <1>3, <2>1, <2>2, <2>3, <2>4, OneTask DEF SameAt
<1>5. CASE handle_command(d)
  <2>1. cmdPc[d] = "run" /\ Go(d, "answer") /\ UNCHANGED worker /\ (KindOf(d) = "ci" => worker[d] = "ended")
    BY <1>5 DEF handle_command
  <2>2. "answer" \in CmdPcs
    BY DEF CmdPcs
  <2>3. /\ cmdPc' \in [Dispatches -> CmdPcs] /\ cmdPc'[d] = "answer"
        /\ \A x \in Dispatches : x # d => cmdPc'[x] = cmdPc[x]
    BY <1>2, <2>1, <2>2, GoIs
  <2>4. StreamType'
    BY <1>1, <1>2, <2>1, <2>3 DEF StreamType
  <2>5. TaskInv(d)'
    <3>1. Live(d) /\ Live(d)' /\ Handling(d)'
      BY <2>1, <2>3 DEF Live, Handling
    <3> QED BY <1>1, <1>2, <1>3, <2>1, <2>3, <3>1 DEF TaskInv, Waiting, Early, command_bypasses_limit
  <2> QED BY <1>1, <1>3, <2>1, <2>3, <2>4, <2>5, OneTask DEF SameAt
<1> QED BY <1>4, <1>5

\* abort_handler: a worker left behind has its flag.
LEMMA AbortKeeps == ASSUME StreamInv, NEW d \in Dispatches, abort_handler(d) PROVE StreamInv'
<1>1. /\ aborted[d] /\ Handling(d) /\ Go(d, "cancelled") /\ Unregister(d)
      /\ UNCHANGED <<row, sent, permit, started, aborted, cmdSignal, worker, permits, kind>>
  BY DEF abort_handler
<1>2. StreamType /\ PermitCount /\ TaskInv(d)
  BY DEF StreamInv
<1>3. RowsGoOn /\ PermitCount' /\ KindOf(d)' = KindOf(d) /\ "cancelled" \in CmdPcs
  BY <1>1, <1>2, PermitsStay DEF RowsGoOn, KindOf, CmdPcs
<1>4. /\ cmdPc' \in [Dispatches -> CmdPcs] /\ cmdPc'[d] = "cancelled"
      /\ \A x \in Dispatches : x # d => cmdPc'[x] = cmdPc[x]
  BY <1>1, <1>2, <1>3, GoIs
<1>5. registry' \in [Commands -> Dispatches \cup {NoDispatch}]
  BY <1>1, <1>2, UnregisterIs
<1>6. StreamType'
  BY <1>1, <1>2, <1>4, <1>5 DEF StreamType
<1>7. TaskInv(d)'
  <2>1. Live(d) /\ Live(d)' /\ cmdPc[d] # "none"
    BY <1>1, <1>4 DEF Live, Handling
  <2> QED BY <1>1, <1>2, <1>3, <1>4, <2>1 DEF TaskInv, Waiting, Early, command_bypasses_limit
<1> QED BY <1>1, <1>3, <1>4, <1>6, <1>7, OneTask DEF SameAt

\* send_result: the permit goes with the task.
LEMMA SendKeeps == ASSUME StreamInv, NEW d \in Dispatches, send_result(d) PROVE StreamInv'
<1>1. /\ cmdPc[d] \in {"answer", "cancelled", "rejected"} /\ Go(d, "ended") /\ Release(d)
      /\ Unregister(d) \/ UNCHANGED registry
      /\ UNCHANGED <<row, sent, started, aborted, cmdSignal, worker, kind>>
  BY DEF send_result
<1>2. StreamType /\ PermitCount /\ TaskInv(d)
  BY DEF StreamInv
<1>3. RowsGoOn /\ KindOf(d)' = KindOf(d) /\ "ended" \in CmdPcs
  BY <1>1, <1>2 DEF RowsGoOn, KindOf, CmdPcs
<1>4. /\ cmdPc' \in [Dispatches -> CmdPcs] /\ cmdPc'[d] = "ended"
      /\ \A x \in Dispatches : x # d => cmdPc'[x] = cmdPc[x]
  BY <1>1, <1>2, <1>3, GoIs
<1>5. ~permit'[d] /\ \A x \in Dispatches : x # d => permit'[x] = permit[x]
  BY <1>1, <1>2, ReleaseIs
<1>6. PermitCount' /\ permits' \in Nat /\ permit' \in [Dispatches -> BOOLEAN]
  BY <1>1, <1>2, ReleaseCounts
<1>7. registry' \in [Commands -> Dispatches \cup {NoDispatch}]
  <2>1. CASE Unregister(d)
    BY <1>2, <2>1, UnregisterIs
  <2>2. CASE UNCHANGED registry
    BY <1>2, <2>2 DEF StreamType
  <2> QED BY <1>1, <2>1, <2>2
<1>8. StreamType'
  BY <1>1, <1>2, <1>4, <1>6, <1>7 DEF StreamType
<1>9. TaskInv(d)'
  <2>1. ~Live(d)' /\ cmdPc[d] # "none" /\ worker[d] = "running" => cmdSignal[d]
    BY <1>1, <1>2, <1>4 DEF Live, Handling, TaskInv, Early
  <2>2. ~Live(d)' /\ cmdPc[d] # "none" /\ ~Handling(d)'
    BY <1>1, <1>4 DEF Live, Handling
  <2> QED BY <1>1, <1>2, <1>3, <1>4, <1>5, <2>1, <2>2 DEF TaskInv, Waiting, Early
<1> QED BY <1>1, <1>3, <1>4, <1>5, <1>6, <1>8, <1>9, OneTask DEF SameAt

\* receive_result: the row is final.
LEMMA ReceiveKeeps == ASSUME StreamInv, NEW d \in Dispatches, receive_result(d) PROVE StreamInv'
<1>1. /\ row' = [row EXCEPT ![d[1]] = "final"]
      /\ UNCHANGED <<sent, cmdPc, permit, started, aborted, cmdSignal, worker, registry, permits, kind>>
  BY DEF receive_result
<1>2. StreamType /\ PermitCount /\ d[1] \in Commands
  BY DispatchIs DEF StreamInv
<1>3. row' \in [Commands -> {"pending", "dispatched", "final"}] /\ RowsGoOn
  BY <1>1, <1>2 DEF StreamType, RowsGoOn
<1>4. StreamType' /\ PermitCount' /\ \A x \in Dispatches : SameAt(x)
  BY <1>1, <1>2, <1>3, PermitsStay DEF StreamType, SameAt
<1> QED BY <1>1, <1>3, <1>4, SameStays DEF StreamInv

----------------------------------------------------------------------------
(* The dispatcher, the stream, cancels and the process.                    *)

\* run: the new dispatch is the command's last, and the one before it is past
\* its acknowledgement.
LEMMA RunKeeps == ASSUME StreamInv, NEW c \in Commands, run(c) PROVE StreamInv'
<1>0. PICK n \in Nat : n = sent[c]
  BY DEF StreamInv, StreamType
<1> DEFINE d == <<c, n + 1>>
<1>1. /\ row[c] = "pending" /\ n < MaxDispatch[c]
      /\ n > 0 => cmdPc[<<c, n>>] \notin {"ack", "reject"}
      /\ sent' = [sent EXCEPT ![c] = sent[c] + 1] /\ Go(d, admission_for(c))
      /\ IF admission_for(c) = "reject" THEN UNCHANGED <<permit, permits, registry>>
         ELSE /\ registry' = [registry EXCEPT ![c] = d]
              /\ IF command_bypasses_limit(kind[c]) THEN UNCHANGED <<permit, permits>>
                 ELSE permit' = [permit EXCEPT ![d] = TRUE] /\ permits' = permits - 1
      /\ UNCHANGED <<row, started, aborted, cmdSignal, worker, kind>>
  BY <1>0 DEF run
<1>2. StreamType /\ PermitCount
  BY DEF StreamInv
<1>3. d \in Dispatches /\ d[1] = c /\ d[2] = n + 1
  <2>1. n + 1 \in Nat \ {0} /\ n + 1 <= MaxDispatch[c]
    BY <1>1, CommandAssumption
  <2> QED BY <2>1, DispatchIs
<1>4. \A x \in Dispatches : /\ x[1] \in Commands /\ x[2] \in Nat \ {0}
                            /\ x # d => x[1] # c \/ x[2] # n + 1
  <2> SUFFICES ASSUME NEW x \in Dispatches, x[1] = c, x[2] = n + 1 PROVE x = d
    BY DispatchIs
  <2> QED BY DispatchIs
<1> HIDE DEF d
<1>5. sent' \in [Commands -> Nat] /\ sent'[c] = n + 1 /\ \A b \in Commands : b # c => sent'[b] = sent[b]
  BY <1>0, <1>1, <1>2 DEF StreamType
<1>6. TaskInv(d) /\ cmdPc[d] = "none"
  BY <1>0, <1>3 DEF StreamInv, TaskInv
<1>7. KindOf(d) = kind[c] /\ KindOf(d)' = kind[c]
  BY <1>1, <1>3 DEF KindOf
<1>8. ~permit[d] /\ worker[d] = "none" /\ ~(started[d] /\ KindOf(d) = "ci")
  BY <1>1, <1>3, <1>6 DEF TaskInv, Live, Handling, Early
<1>9. /\ admission_for(c) \in {"ack", "reject"}
      /\ admission_for(c) = "ack" => command_bypasses_limit(kind[c]) \/ permits > 0
  BY DEF admission_for
<1>10. /\ cmdPc' \in [Dispatches -> CmdPcs] /\ cmdPc'[d] = admission_for(c)
       /\ \A x \in Dispatches : x # d => cmdPc'[x] = cmdPc[x]
  <2>1. admission_for(c) \in CmdPcs
    BY <1>9 DEF CmdPcs, Early
  <2> QED BY <1>1, <1>2, <1>3, <2>1, GoIs
<1>11. /\ PermitCount' /\ permits' \in Nat /\ permit' \in [Dispatches -> BOOLEAN]
       /\ registry' \in [Commands -> Dispatches \cup {NoDispatch}]
       /\ permit'[d] <=> admission_for(c) = "ack" /\ ~command_bypasses_limit(kind[c])
       /\ \A x \in Dispatches : x # d => permit'[x] = permit[x]
  <2>1. CASE admission_for(c) = "reject"
    BY <1>1, <1>2, <1>8, <2>1, PermitsStay DEF StreamType
  <2>2. CASE admission_for(c) # "reject" /\ command_bypasses_limit(kind[c])
    <3>1. UNCHANGED <<permit, permits>> /\ registry' = [registry EXCEPT ![c] = d]
      BY <1>1, <2>2
    <3>2. registry' \in [Commands -> Dispatches \cup {NoDispatch}]
      BY <1>2, <1>3, <3>1 DEF StreamType
    <3> QED BY <1>2, <1>8, <2>2, <3>1, <3>2, PermitsStay DEF StreamType
  <2>3. CASE admission_for(c) # "reject" /\ ~command_bypasses_limit(kind[c])
    <3>1. /\ permit' = [permit EXCEPT ![d] = TRUE] /\ permits' = permits - 1 /\ permits > 0
          /\ registry' = [registry EXCEPT ![c] = d] /\ admission_for(c) = "ack"
      BY <1>1, <1>9, <2>3
    <3>2. registry' \in [Commands -> Dispatches \cup {NoDispatch}]
      BY <1>2, <1>3, <3>1 DEF StreamType
    <3>3. PermitCount' /\ permits' \in Nat /\ permit' \in [Dispatches -> BOOLEAN]
      BY <1>2, <1>3, <1>8, <3>1, TakeCounts
    <3>4. permit'[d] /\ \A x \in Dispatches : x # d => permit'[x] = permit[x]
      BY <1>2, <1>3, <3>1 DEF StreamType
    <3> QED BY <2>3, <3>1, <3>2, <3>3, <3>4
  <2> QED BY <2>1, <2>2, <2>3
<1>12. StreamType'
  BY <1>1, <1>2, <1>5, <1>10, <1>11 DEF StreamType
<1>13. TaskInv(d)'
  <2>1. /\ Live(d)' <=> admission_for(c) = "ack"
        /\ Handling(d)' <=> admission_for(c) = "ack"
        /\ cmdPc'[d] \in {"ack", "reject"}
    BY <1>9, <1>10 DEF Live, Handling
  <2> QED BY <1>1, <1>3, <1>5, <1>6, <1>7, <1>8, <1>11, <2>1 DEF TaskInv, Early, command_bypasses_limit
<1>14. ASSUME NEW x \in Dispatches, x # d PROVE TaskInv(x)'
  <2>1. TaskInv(x) /\ SameAt(x)
    BY <1>1, <1>10, <1>11, <1>14 DEF StreamInv, SameAt
  <2>2. (Live(x)' <=> Live(x)) /\ (Handling(x)' <=> Handling(x)) /\ KindOf(x)' = KindOf(x)
    BY <1>1, <2>1 DEF SameAt, Live, Handling, KindOf
  <2>3. CASE x[1] # c
    <3>1. sent'[x[1]] = sent[x[1]]
      BY <1>4, <1>5, <2>3
    <3> QED BY <1>1, <2>1, <2>2, <3>1 DEF TaskInv, SameAt, command_bypasses_limit
  <2>4. CASE x[1] = c
    <3>1. x[2] # n + 1 /\ x[2] \in Nat \ {0} /\ sent[x[1]] = n /\ sent'[x[1]] = n + 1
      BY <1>0, <1>4, <1>5, <1>14, <2>4
    <3>2. cmdPc[x] = "none" <=> x[2] > n + 1
      BY <2>1, <3>1 DEF TaskInv
    <3>3. cmdPc[x] \notin Waiting
      <4>1. CASE x[2] = n
        <5>1. x = <<c, n>> /\ n > 0
          BY <2>4, <3>1, <4>1, DispatchIs
        <5> QED BY <1>1, <5>1 DEF Waiting
      <4>2. CASE x[2] # n
        BY <2>1, <3>1, <4>2 DEF TaskInv
      <4> QED BY <4>1, <4>2
    <3>4. ~(started[x] /\ KindOf(x) = "ci")
      BY <1>1, <2>1, <2>4 DEF TaskInv
    <3> QED BY <2>1, <2>2, <3>1, <3>2, <3>3, <3>4 DEF TaskInv, SameAt, command_bypasses_limit
  <2> QED BY <2>3, <2>4
<1> QED BY <1>11, <1>12, <1>13, <1>14 DEF StreamInv

\* handle_cancel_command: a CI job's flag is set with the abort.
LEMMA CancelKeeps == ASSUME StreamInv, NEW c \in Commands, handle_cancel_command(c) PROVE StreamInv'
<1>1. /\ registry[c] = NoDispatch => UNCHANGED <<aborted, cmdSignal>>
      /\ registry[c] # NoDispatch => cancel_entry(registry[c])
      /\ UNCHANGED <<row, sent, cmdPc, permit, started, worker, registry, permits, kind>>
  BY DEF handle_cancel_command
<1>2. StreamType /\ PermitCount /\ RowsGoOn /\ PermitCount'
  BY <1>1, PermitsStay DEF StreamInv, RowsGoOn
<1>3. CASE registry[c] = NoDispatch
  <2>1. StreamType' /\ \A x \in Dispatches : SameAt(x)
    BY <1>1, <1>2, <1>3 DEF StreamType, SameAt
  <2> QED BY <1>1, <1>2, <2>1, SameStays DEF StreamInv
<1>4. CASE registry[c] # NoDispatch
  <2>0. PICK d \in Dispatches : d = registry[c]
    BY <1>2, <1>4 DEF StreamType
  <2>1. /\ aborted' = [aborted EXCEPT ![d] = TRUE]
        /\ cmdSignal' = IF KindOf(d) = "ci" THEN [cmdSignal EXCEPT ![d] = TRUE] ELSE cmdSignal
    BY <1>1, <1>4, <2>0 DEF cancel_entry
  <2>2. /\ aborted' \in [Dispatches -> BOOLEAN] /\ cmdSignal' \in [Dispatches -> BOOLEAN]
        /\ \A x \in Dispatches : x # d => aborted'[x] = aborted[x] /\ cmdSignal'[x] = cmdSignal[x]
        /\ cmdSignal[d] => cmdSignal'[d]
        /\ KindOf(d) = "ci" => cmdSignal'[d]
    BY <1>2, <2>1 DEF StreamType
  <2>3. StreamType'
    BY <1>1, <1>2, <2>2 DEF StreamType
  <2>4. TaskInv(d)'
    <3>1. TaskInv(d) /\ KindOf(d)' = KindOf(d) /\ (Live(d)' <=> Live(d)) /\ (Handling(d)' <=> Handling(d))
      BY <1>1 DEF StreamInv, KindOf, Live, Handling
    <3> QED BY <1>1, <2>2, <3>1 DEF TaskInv, command_bypasses_limit
  <2> QED BY <1>1, <1>2, <2>2, <2>3, <2>4, OneTask DEF SameAt
<1> QED BY <1>3, <1>4

\* Steps of the stream and of the trust file touch no task.
LEMMA OutsideKeeps ==
  ASSUME StreamInv,
         UNCHANGED <<row, sent, cmdPc, permit, started, aborted, cmdSignal, worker, registry, permits, kind>>
  PROVE  StreamInv'
<1>1. StreamType' /\ PermitCount' /\ RowsGoOn /\ \A x \in Dispatches : SameAt(x)
  BY PermitsStay DEF StreamInv, StreamType, RowsGoOn, SameAt
<1> QED BY <1>1, SameStays DEF StreamInv

\* process_exit: every task ends, and with them permits and workers.
LEMMA ExitKeeps == ASSUME StreamInv, process_exit PROVE StreamInv'
<1>1. /\ cmdPc' = [d \in Dispatches |-> IF cmdPc[d] = "none" THEN "none" ELSE "ended"]
      /\ permit' = [d \in Dispatches |-> FALSE] /\ worker' = [d \in Dispatches |-> "none"]
      /\ registry' = [c \in Commands |-> NoDispatch] /\ permits' = MaxPermits
      /\ UNCHANGED <<row, sent, started, aborted, cmdSignal, kind>>
  BY DEF process_exit
<1>2. {"none", "ended"} \subseteq CmdPcs /\ MaxPermits \in Nat
  BY CommandAssumption DEF CmdPcs, Early
<1>3. StreamType'
  BY <1>1, <1>2 DEF StreamInv, StreamType
<1>4. PermitCount'
  <2>1. Permitted' = {}
    BY <1>1 DEF Permitted
  <2>2. IsFiniteSet({}) /\ Cardinality({}) = 0
    BY FS_EmptySet
  <2> QED BY <1>1, <1>2, <2>1, <2>2 DEF PermitCount
<1>5. ASSUME NEW d \in Dispatches PROVE TaskInv(d)'
  <2>1. TaskInv(d) /\ KindOf(d)' = KindOf(d)
    BY <1>1 DEF StreamInv, KindOf
  <2>2. /\ cmdPc'[d] \in {"none", "ended"} /\ (cmdPc'[d] = "none" <=> cmdPc[d] = "none")
        /\ ~permit'[d] /\ worker'[d] = "none"
    BY <1>1
  <2>3. ~Live(d)'
    BY <2>2 DEF Live, Handling
  <2> QED BY <1>1, <2>1, <2>2, <2>3 DEF TaskInv, Waiting
<1> QED BY <1>3, <1>4, <1>5 DEF StreamInv

----------------------------------------------------------------------------
(* The theorem.                                                            *)

\* The invariant holds at the start.
LEMMA CmdInitHolds == CmdInit => StreamInv
<1> SUFFICES ASSUME CmdInit PROVE StreamInv
  OBVIOUS
<1>1. "none" \in CmdPcs /\ MaxPermits \in Nat
  BY CommandAssumption DEF CmdPcs, Early
<1>2. StreamType
  BY <1>1 DEF CmdInit, StreamType
<1>3. PermitCount
  <2>1. Permitted = {}
    BY DEF CmdInit, Permitted
  <2>2. IsFiniteSet({}) /\ Cardinality({}) = 0
    BY FS_EmptySet
  <2> QED BY <1>1, <2>1, <2>2 DEF PermitCount, CmdInit
<1>4. ASSUME NEW d \in Dispatches PROVE TaskInv(d)
  <2>1. d[1] \in Commands /\ d[2] \in Nat \ {0}
    BY DispatchIs
  <2>2. d[2] > sent[d[1]]
    BY <2>1 DEF CmdInit
  <2>3. /\ cmdPc[d] = "none" /\ ~permit[d] /\ ~started[d] /\ ~aborted[d] /\ worker[d] = "none"
    BY DEF CmdInit
  <2>4. ~Live(d)
    BY <2>3 DEF Live, Handling
  <2> QED BY <2>2, <2>3, <2>4 DEF TaskInv, Waiting
<1> QED BY <1>2, <1>3, <1>4 DEF StreamInv

\* Every step keeps the invariant.
LEMMA CmdNextKeeps == ASSUME StreamInv, CmdNext PROVE StreamInv'
<1>1. CASE \E c \in Commands : run(c) \/ handle_cancel_command(c)
  BY <1>1, RunKeeps, CancelKeeps
<1>2. CASE \E d \in Dispatches : TaskStep(d)
  BY <1>2, AckKeeps, WorkKeeps, AbortKeeps, SendKeeps, ReceiveKeeps DEF TaskStep
<1>3. CASE stream_breaks \/ reconnect \/ signing_enabled
  BY <1>3, OutsideKeeps DEF stream_breaks, reconnect, signing_enabled, taskVars
<1>4. CASE process_exit
  BY <1>4, ExitKeeps
<1> QED BY <1>1, <1>2, <1>3, <1>4 DEF CmdNext

\* The invariant gives the three parts of StreamHolds.
LEMMA InvGives == ASSUME StreamInv PROVE CapacityAccounted /\ OrphansAreSignalled /\ CiStartedOnce
<1>1. CapacityAccounted
  <2>1. Permitted = {d \in Dispatches : Live(d) /\ ~command_bypasses_limit(KindOf(d))}
    BY DEF StreamInv, TaskInv, Permitted
  <2> QED BY <2>1 DEF StreamInv, PermitCount, CapacityAccounted
<1>2. OrphansAreSignalled
  BY DEF StreamInv, TaskInv, OrphansAreSignalled
<1>3. CiStartedOnce
  <2> SUFFICES ASSUME NEW c \in Commands, kind[c] = "ci"
               PROVE Cardinality({n \in 1..MaxDispatch[c] : started[<<c, n>>]}) <= 1
    BY DEF CiStartedOnce
  <2> DEFINE S == {n \in 1..MaxDispatch[c] : started[<<c, n>>]}
  <2>1. S \subseteq {sent[c]}
    <3> SUFFICES ASSUME NEW n \in 1..MaxDispatch[c], started[<<c, n>>] PROVE n = sent[c]
      OBVIOUS
    <3>1. n \in Nat \ {0} /\ n <= MaxDispatch[c]
      BY CommandAssumption
    <3>2. <<c, n>> \in Dispatches /\ <<c, n>>[1] = c /\ <<c, n>>[2] = n
      BY <3>1, DispatchIs
    <3> DEFINE d == <<c, n>>
    <3>3. d \in Dispatches /\ d[1] = c /\ d[2] = n /\ started[d]
      BY <3>2
    <3> HIDE DEF d
    <3>4. TaskInv(d) /\ KindOf(d) = "ci"
      BY <3>3 DEF StreamInv, KindOf
    <3> QED BY <3>3, <3>4 DEF TaskInv
  <2>2. IsFiniteSet({sent[c]}) /\ Cardinality({sent[c]}) = 1
    BY FS_Singleton
  <2> HIDE DEF S
  <2>3. Cardinality(S) <= 1
    BY <2>1, <2>2, FS_Subset
  <2> QED BY <2>3 DEF S
<1> QED BY <1>1, <1>2, <1>3

\* What the invariant says of every state of a behaviour of the stream.
CommandInv == part = "stream" => StreamInv

\* Permits are given back however a task ends, a CI worker whose task is gone has
\* been told to stop, and a CI job starts once however often it is dispatched
\* (command.rs), with and without the fairness that FairSpec assumes.
THEOREM CommandsAccounted == FairSpec => []StreamHolds
<1>1. MCInit => CommandInv
  BY CmdInitHolds DEF MCInit, CommandInv
<1>2. CommandInv /\ [MCNext]_<<part, jobVars, cmdVars>> => CommandInv'
  <2> SUFFICES ASSUME CommandInv, [MCNext]_<<part, jobVars, cmdVars>>, part' = "stream" PROVE StreamInv'
    BY DEF CommandInv
  <2>1. part = "stream"
    BY DEF MCNext
  <2>2. StreamInv
    BY <2>1 DEF CommandInv
  <2>3. CASE CmdNext
    BY <2>2, <2>3, CmdNextKeeps
  <2>4. CASE UNCHANGED cmdVars
    BY <2>2, <2>4, OutsideKeeps DEF cmdVars, taskVars
  <2> QED BY <2>1, <2>3, <2>4 DEF MCNext
<1>3. CommandInv => StreamHolds
  BY InvGives DEF CommandInv, StreamHolds
<1> QED BY <1>1, <1>2, <1>3, PTL DEF FairSpec

----------------------------------------------------------------------------
(* CI jobs.  What is known of one worker, said of the values it depends on *)
(* alone, so that a step of one worker is seen to leave the others be.     *)

Before == {"idle", "checkout", "git", "bundles", "services", "network", "login", "run", "ready",
           "ports", "next_service"}
Taking == {"top", "own", "step"}
Closing == {"clean_services", "clean_checkout", "done"}
JobPcs == Before \cup Taking \cup {"end"} \cup Closing
Watching == {"git", "network", "login", "run", "ready", "ports", "step"}
Serving == {"login", "run", "ready", "ports", "next_service"}
Stepping == Taking \cup {"end"}

Passed(s, v) == v \in {"success", "skipped"} \/ (v = "failure" /\ s.continue_on_error)

\* The steps of sq before k are passed, step k has the status v, none follows.
TakenUntil(sq, st, k, v) ==
  \A i \in 1..Len(sq) : /\ i < k => Passed(sq[i], st[i])
                        /\ i = k => st[i] = v
                        /\ i > k => st[i] = "none"

\* A failure that ended the job.
EndedBy(sq, st, k) ==
  /\ k \in 1..Len(sq) /\ ~sq[k].continue_on_error /\ TakenUntil(sq, st, k, "failure")

\* The steps sq, the worker at p, step k under way, the statuses st, the failed
\* step f, the conclusion c, the cancellation flag g.
ResultIs(sq, p, k, st, f, c, g) ==
  /\ p \in Before => TakenUntil(sq, st, 0, "none") /\ f = 0 /\ c = "none"
  /\ p \in Taking => /\ k \in 1..(Len(sq) + 1) /\ (p # "top" => k <= Len(sq))
                     /\ TakenUntil(sq, st, k, "none") /\ f = 0 /\ c = "none"
  /\ p = "end" => EndedBy(sq, st, k) /\ f = k /\ c = "none"
  /\ p \in Closing =>
       \/ c = "success" /\ TakenUntil(sq, st, Len(sq) + 1, "none")
       \/ c = "failure" /\ (TakenUntil(sq, st, 0, "none") \/ EndedBy(sq, st, f))
       \/ c = "cancelled" /\ g /\ \E n \in 0..Len(sq) : TakenUntil(sq, st, n, "cancelled")

Result(w) ==
  ResultIs(Steps(w), pc[w], at[w], statuses[w], failed_step[w], conclusion[w], signal[w])

\* The service containers of a plan.
Names(pl) == {<<pl.job, ToString(i)>> : i \in DOMAIN pl.services}

\* Worker w with the plan pl at p, service n under way, the child ch, its
\* checkout wk, and the credentials, networks, containers and leavings there are.
HoldsIs(w, pl, p, n, ch, wk, cf, nt, ct, kp) ==
  /\ ch # "none" => p \in Watching
  /\ p \in {"idle", "checkout", "done"} => wk # w
  /\ p \in (Before \ {"idle", "checkout", "git"}) \cup Stepping /\ pl.repo => wk = w
  /\ pl.job \in cf => p \in Serving \cup {"network"}
  /\ p \in Serving => n \in 1..Len(pl.services)
  /\ p = "network" => pl.services # <<>>
  /\ p \in {"idle", "checkout", "git", "bundles", "services", "network"} => <<pl.job, "net">> \notin nt
  /\ p \in Serving => <<pl.job, "net">> \in nt
  /\ p \in Stepping /\ pl.services # <<>> => <<pl.job, "net">> \in nt
  /\ pl.services = <<>> => <<pl.job, "net">> \notin nt
  /\ p \in {"clean_checkout", "done"} /\ <<pl.job, "net">> \in nt => <<pl.job, "net">> \in kp
  /\ \A c \in ct : c[1] = pl.job =>
       /\ c \in Names(pl)
       /\ p \notin {"idle", "checkout", "git", "bundles", "services", "network"}
       /\ p \in {"clean_checkout", "done"} => c \in kp
  /\ \A i \in DOMAIN pl.services :
       \/ p \in {"login", "run"} /\ i < n
       \/ p \in {"ready", "ports", "next_service"} /\ i <= n
       \/ p \in Stepping
       => <<pl.job, ToString(i)>> \in ct

Holds(w) ==
  HoldsIs(w, Plan[w], pc[w], svc[w], child[w], work[Plan[w].dir], config, networks, containers, kept)

\* The workers there are, and the values of one.
JobShape ==
  /\ DOMAIN pc = Workers /\ DOMAIN svc = Workers /\ DOMAIN at = Workers /\ DOMAIN child = Workers
  /\ DOMAIN signal = Workers /\ DOMAIN failed_step = Workers /\ DOMAIN statuses = Workers
  /\ DOMAIN conclusion = Workers /\ DOMAIN work = Dirs
TypeIs(sq, p, n, k, ch, g, f, st, c) ==
  /\ p \in JobPcs /\ n \in Nat /\ k \in Nat /\ g \in BOOLEAN /\ f \in Nat
  /\ ch \in {"none", "alive", "ok", "fail", "killed"} /\ DOMAIN st = 1..Len(sq)
  /\ c \in {"none", "success", "failure", "cancelled"}
Typed(w) ==
  TypeIs(Steps(w), pc[w], svc[w], at[w], child[w], signal[w], failed_step[w], statuses[w], conclusion[w])

SavesAfterSuccess == \A s \in saved : s[1] \in Workers /\ conclusion[s[1]] = "success"

JobInv ==
  /\ load \in Loads /\ JobShape /\ SavesAfterSuccess
  /\ \A w \in Workers : Typed(w) /\ Result(w) /\ Holds(w)

----------------------------------------------------------------------------
(* A step of one worker.                                                   *)

\* The loads that there are.
LEMMA PlanFacts ==
  ASSUME load \in Loads
  PROVE  /\ None \notin Workers
         /\ \A w \in Workers :
              /\ DOMAIN Steps(w) = 1..Len(Steps(w)) /\ Len(Steps(w)) \in Nat
              /\ DOMAIN Services(w) = 1..Len(Services(w)) /\ Len(Services(w)) \in Nat
              /\ Services(w) = <<>> <=> Len(Services(w)) = 0
              /\ Plan[w].dir \in Dirs
         /\ \A w, x \in Workers : w # x => Plan[w].job # Plan[x].job /\ Plan[w].dir # Plan[x].dir
BY JobAssumption DEF Workers, Plan, Steps, Services, Dirs

\* Worker x is none that moved: what it depends on is as it was.
Spared(x) ==
  /\ pc'[x] = pc[x] /\ svc'[x] = svc[x] /\ at'[x] = at[x] /\ child'[x] = child[x]
  /\ signal'[x] = signal[x] /\ failed_step'[x] = failed_step[x] /\ statuses'[x] = statuses[x]
  /\ conclusion'[x] = conclusion[x] /\ work'[Plan[x].dir] = work[Plan[x].dir]

\* A step of w leaves the other workers be, and of what they share it takes and
\* leaves only what carries the name of its own job.
Alone(w) ==
  /\ load' = load /\ kept \subseteq kept'
  /\ DOMAIN pc' = Workers /\ DOMAIN svc' = Workers /\ DOMAIN at' = Workers /\ DOMAIN child' = Workers
  /\ DOMAIN signal' = Workers /\ DOMAIN failed_step' = Workers /\ DOMAIN statuses' = Workers
  /\ DOMAIN conclusion' = Workers /\ DOMAIN work' = Dirs
  /\ \A x \in Workers : x # w => Spared(x)
  /\ config' \ {Plan[w].job} = config \ {Plan[w].job}
  /\ networks' \ {service_network_name(w)} = networks \ {service_network_name(w)}
  /\ \A c : c[1] # Plan[w].job => (c \in containers' <=> c \in containers)

\* Nothing is saved but by a worker that succeeds.
SavesOk(w) ==
  /\ conclusion[w] = "success" => conclusion'[w] = "success"
  /\ \A s \in saved' : s \in saved \/ (s[1] = w /\ conclusion'[w] = "success")

\* Then what is known of the others stays known.
LEMMA SparedKeeps ==
  ASSUME JobInv, NEW w \in Workers, Alone(w), NEW x \in Workers, x # w
  PROVE  Typed(x)' /\ Result(x)' /\ Holds(x)'
<1>1. Plan' = Plan /\ Workers' = Workers /\ Steps(x)' = Steps(x)
  BY DEF Plan, Workers, Steps, Alone
<1>2. Spared(x)
  BY DEF Alone
<1>3. Typed(x)' /\ Result(x)'
  <2>1. Typed(x) /\ Result(x)
    BY DEF JobInv
  <2>2. (Typed(x)' <=> Typed(x)) /\ (Result(x)' <=> Result(x))
    BY <1>1, <1>2 DEF Typed, Result, Spared
  <2> QED BY <2>1, <2>2
<1>4. Holds(x)'
  <2> DEFINE pl == Plan[x]
  <2>1. HoldsIs(x, pl, pc[x], svc[x], child[x], work[pl.dir], config, networks, containers, kept)
    BY DEF JobInv, Holds
  <2>2. HoldsIs(x, pl, pc[x], svc[x], child[x], work[pl.dir], config', networks', containers', kept')
    <3>1. pl.job # Plan[w].job
      BY PlanFacts DEF JobInv
    <3>2. /\ pl.job \in config' <=> pl.job \in config
          /\ <<pl.job, "net">> \in networks' <=> <<pl.job, "net">> \in networks
          /\ \A c : c[1] = pl.job => (c \in containers' <=> c \in containers)
      BY <3>1 DEF Alone, service_network_name
    <3>3. \A i : <<pl.job, ToString(i)>>[1] = pl.job
      OBVIOUS
    <3>4. kept \subseteq kept'
      BY DEF Alone
    <3> HIDE DEF pl
    <3> QED BY <2>1, <3>2, <3>3, <3>4 DEF HoldsIs
  <2>3. Plan'[x] = pl
    BY <1>1
  <2>4. /\ pc'[x] = pc[x] /\ svc'[x] = svc[x] /\ child'[x] = child[x] /\ work'[pl.dir] = work[pl.dir]
    BY <1>2 DEF Spared
  <2>5. HoldsIs(x, Plan'[x], pc'[x], svc'[x], child'[x], work'[Plan'[x].dir], config', networks', containers', kept')
    BY <2>2, <2>3, <2>4
  <2> QED BY <2>5 DEF Holds
<1> QED BY <1>3, <1>4

\* So a step of w keeps the invariant if it keeps what is known of w.
LEMMA MoveKeeps ==
  ASSUME JobInv, NEW w \in Workers, Alone(w), SavesOk(w), Typed(w)', Result(w)', Holds(w)'
  PROVE  JobInv'
<1>1. Workers' = Workers /\ Dirs' = Dirs
  BY DEF Workers, Plan, Dirs, Alone
<1>2. ASSUME NEW x \in Workers PROVE Typed(x)' /\ Result(x)' /\ Holds(x)'
  <2>1. CASE x = w
    BY <2>1
  <2>2. CASE x # w
    BY <2>2, SparedKeeps
  <2> QED BY <2>1, <2>2
<1>3. SavesAfterSuccess'
  <2> SUFFICES ASSUME NEW s \in saved' PROVE s[1] \in Workers /\ conclusion'[s[1]] = "success"
    BY <1>1 DEF SavesAfterSuccess
  <2>1. CASE s \in saved
    <3>1. s[1] \in Workers /\ conclusion[s[1]] = "success"
      BY <2>1 DEF JobInv, SavesAfterSuccess
    <3> QED BY <3>1 DEF SavesOk, Alone, Spared
  <2>2. CASE s[1] = w /\ conclusion'[w] = "success"
    BY <2>2
  <2> QED BY <2>1, <2>2 DEF SavesOk
<1>4. load' \in Loads /\ JobShape'
  BY <1>1 DEF JobShape, Alone, JobInv
<1> QED BY <1>1, <1>2, <1>3, <1>4 DEF JobInv

----------------------------------------------------------------------------
(* Before the steps.                                                       *)

\* A step before the first of the job's steps, to another such place, or given up.
LEMMA BeforeResult ==
  ASSUME JobInv, NEW w \in Workers, load' = load, pc[w] \in Before,
         statuses' = statuses, failed_step' = failed_step, signal'[w] = signal[w],
         \/ pc'[w] \in Before /\ conclusion'[w] = conclusion[w]
         \/ pc'[w] \in Closing /\ conclusion'[w] = "failure"
         \/ pc'[w] \in Closing /\ conclusion'[w] = "cancelled" /\ signal[w]
         \/ pc'[w] = "top" /\ conclusion'[w] = conclusion[w] /\ at'[w] = 1
  PROVE  Result(w)'
<1>1. Steps(w)' = Steps(w) /\ Len(Steps(w)) \in Nat
  BY PlanFacts DEF Steps, Plan, JobInv
<1> DEFINE sq == Steps(w)
<1>2. ResultIs(sq, pc[w], at[w], statuses[w], failed_step[w], conclusion[w], signal[w])
  BY DEF JobInv, Result
<1>3. TakenUntil(sq, statuses[w], 0, "none") /\ failed_step[w] = 0 /\ conclusion[w] = "none"
  BY <1>2 DEF ResultIs
<1>4. TakenUntil(sq, statuses[w], 1, "none") /\ TakenUntil(sq, statuses[w], 0, "cancelled")
  BY <1>1, <1>3 DEF TakenUntil
<1> HIDE DEF sq
<1>5. ResultIs(sq, pc'[w], at'[w], statuses[w], failed_step[w], conclusion'[w], signal[w])
  <2>1. CASE pc'[w] \in Before /\ conclusion'[w] = conclusion[w]
    BY <1>3, <2>1 DEF ResultIs, Before, Taking, Closing
  <2>2. CASE pc'[w] \in Closing /\ conclusion'[w] = "failure"
    BY <1>3, <2>2 DEF ResultIs, Before, Taking, Closing
  <2>3. CASE pc'[w] \in Closing /\ conclusion'[w] = "cancelled" /\ signal[w]
    <3>1. 0 \in 0..Len(sq)
      BY <1>1 DEF sq
    <3> QED BY <1>4, <2>3, <3>1 DEF ResultIs, Before, Taking, Closing
  <2>4. CASE pc'[w] = "top" /\ conclusion'[w] = conclusion[w] /\ at'[w] = 1
    <3>1. 1 \in 1..(Len(sq) + 1)
      BY <1>1 DEF sq
    <3> QED BY <1>3, <1>4, <2>4, <3>1 DEF ResultIs, Before, Taking, Closing
  <2> QED BY <2>1, <2>2, <2>3, <2>4
<1> QED BY <1>1, <1>5 DEF Result, sq

\* What is known of w, of the values that w has.
LEMMA Known ==
  ASSUME JobInv, NEW w \in Workers
  PROVE  /\ load \in Loads /\ JobShape
         /\ TypeIs(Steps(w), pc[w], svc[w], at[w], child[w], signal[w], failed_step[w], statuses[w],
                   conclusion[w])
         /\ HoldsIs(w, Plan[w], pc[w], svc[w], child[w], work[Plan[w].dir], config, networks,
                    containers, kept)
BY DEF JobInv, Typed, Holds

\* A step of w before the steps keeps the invariant if w holds what it should.
LEMMA BeforeKeeps ==
  ASSUME JobInv, NEW w \in Workers, Alone(w), pc[w] \in Before, saved' = saved,
         statuses' = statuses, failed_step' = failed_step, signal'[w] = signal[w],
         svc'[w] \in Nat, at'[w] \in Nat,
         child'[w] \in {"none", "alive", "ok", "fail", "killed"},
         \/ pc'[w] \in Before /\ conclusion'[w] = conclusion[w]
         \/ pc'[w] \in Closing /\ conclusion'[w] = "failure"
         \/ pc'[w] \in Closing /\ conclusion'[w] = "cancelled" /\ signal[w]
         \/ pc'[w] = "top" /\ conclusion'[w] = conclusion[w] /\ at'[w] = 1,
         HoldsIs(w, Plan[w], pc'[w], svc'[w], child'[w], work'[Plan[w].dir], config', networks',
                 containers', kept')
  PROVE  JobInv'
<1>1. load' = load /\ Plan' = Plan /\ Steps(w)' = Steps(w)
  BY DEF Alone, Plan, Steps
<1>2. Result(w)'
  BY <1>1, BeforeResult
<1>3. conclusion[w] # "success"
  BY DEF JobInv, Result, ResultIs
<1>4. SavesOk(w)
  BY <1>3 DEF SavesOk
<1>5. pc'[w] \in JobPcs
  BY DEF JobPcs, Taking
<1>6. Typed(w)'
  <2>1. TypeIs(Steps(w), pc'[w], svc'[w], at'[w], child'[w], signal[w], failed_step[w], statuses[w],
               conclusion'[w])
    BY <1>5, Known DEF TypeIs
  <2> QED BY <1>1, <2>1 DEF Typed
<1>7. Holds(w)'
  BY <1>1 DEF Holds
<1> QED BY <1>2, <1>4, <1>6, <1>7, MoveKeeps

\* execute_ci_job begins, or ends before anything exists.
LEMMA StartKeeps == ASSUME JobInv, NEW w \in Workers, execute_ci_job(w) PROVE JobInv'
<1>0. JobShape
  BY Known
<1>1. Alone(w)
  BY <1>0 DEF execute_ci_job, Goto, Conclude, work_vars, Alone, Spared, JobShape
<1>2. /\ pc[w] = "idle" /\ pc'[w] \in {"checkout", "done"}
      /\ pc'[w] = "checkout" => conclusion' = conclusion
      /\ pc'[w] = "done" => conclusion'[w] = "failure" \/ (conclusion'[w] = "cancelled" /\ signal[w])
  BY Known DEF execute_ci_job, Goto, Conclude, JobShape
<1>3. UNCHANGED <<svc, at, child, signal, statuses, failed_step, work, config, networks, containers,
                  kept, saved>>
  BY DEF execute_ci_job, work_vars
<1>4. /\ svc'[w] \in Nat /\ at'[w] \in Nat
      /\ child'[w] \in {"none", "alive", "ok", "fail", "killed"}
  BY <1>3, Known DEF TypeIs
<1>5. HoldsIs(w, Plan[w], pc'[w], svc'[w], child'[w], work'[Plan[w].dir], config', networks',
              containers', kept')
  <2> DEFINE pl == Plan[w]
  <2>1. HoldsIs(w, pl, "idle", svc[w], child[w], work[pl.dir], config, networks, containers, kept)
    BY <1>2, Known
  <2> HIDE DEF pl
  <2>2. HoldsIs(w, pl, pc'[w], svc[w], child[w], work[pl.dir], config, networks, containers, kept)
    BY <1>2, <2>1 DEF HoldsIs, Before, Taking, Watching, Serving, Stepping
  <2> QED BY <1>3, <2>2 DEF pl
<1> QED BY <1>1, <1>2, <1>3, <1>4, <1>5, BeforeKeeps DEF Before, Closing

\* What the other plans do not share with that of w.
LEMMA Apart ==
  ASSUME JobInv, NEW w \in Workers
  PROVE  /\ w # None /\ Plan[w].dir \in Dirs
         /\ \A x \in Workers : x # w => Plan[x].dir # Plan[w].dir /\ Plan[x].job # Plan[w].job
BY PlanFacts DEF JobInv

\* ensure_ci_checkout: the workspace is emptied.
LEMMA CheckoutKeeps == ASSUME JobInv, NEW w \in Workers, ensure_ci_checkout(w) PROVE JobInv'
<1>0. JobShape
  BY Known
<1>1. Alone(w)
  BY <1>0, Apart DEF ensure_ci_checkout, Goto, Conclude, step_vars, Next_child, Spawn, Give_up,
                     Alone, Spared, JobShape
<1>2. /\ pc[w] = "checkout"
      /\ \/ pc'[w] = "bundles" /\ ~Plan[w].repo /\ conclusion' = conclusion /\ child' = child
         \/ pc'[w] = "git" /\ conclusion' = conclusion /\ child'[w] = "alive"
         \/ pc'[w] = "clean_checkout" /\ conclusion'[w] = "failure" /\ child' = child
      /\ pc'[w] # "bundles" => work'[Plan[w].dir] = None
      /\ pc'[w] = "bundles" => work' = work
  BY <1>0, Apart DEF ensure_ci_checkout, Goto, Conclude, step_vars, Next_child, Spawn, Give_up, JobShape
<1>3. UNCHANGED <<svc, at, signal, statuses, failed_step, config, networks, containers, kept, saved>>
  BY DEF ensure_ci_checkout, step_vars, Give_up
<1>4. /\ svc'[w] \in Nat /\ at'[w] \in Nat
      /\ child'[w] \in {"none", "alive", "ok", "fail", "killed"}
  BY <1>2, <1>3, Known DEF TypeIs
<1>5. HoldsIs(w, Plan[w], pc'[w], svc'[w], child'[w], work'[Plan[w].dir], config', networks',
              containers', kept')
  <2> DEFINE pl == Plan[w]  wk == work'[Plan[w].dir]
  <2>1. HoldsIs(w, pl, "checkout", svc[w], child[w], work[pl.dir], config, networks, containers, kept)
    BY <1>2, Known
  <2>2. (pc'[w] # "bundles" => wk = None) /\ (pc'[w] = "bundles" => ~pl.repo)
    BY <1>2
  <2> HIDE DEF pl, wk
  <2>3. HoldsIs(w, pl, pc'[w], svc[w], child'[w], wk, config, networks, containers, kept)
    BY <1>2, <2>1, <2>2, Apart DEF HoldsIs, Before, Taking, Watching, Serving, Stepping
  <2> QED BY <1>3, <2>3 DEF pl, wk
<1> QED BY <1>1, <1>2, <1>3, <1>4, <1>5, BeforeKeeps DEF Before, Closing

\* clone, fetch and checkout.
LEMMA GitKeeps == ASSUME JobInv, NEW w \in Workers, run_git_command(w) PROVE JobInv'
<1>0. JobShape
  BY Known
<1>1. Alone(w)
  BY <1>0, Apart DEF run_git_command, Goto, Conclude, step_vars, Next_child, Spawn, Give_up, Collected,
                     Alone, Spared, JobShape
<1>2. /\ pc[w] = "git"
      /\ \/ pc'[w] = "git" /\ conclusion' = conclusion /\ child'[w] = "alive"
         \/ pc'[w] = "bundles" /\ conclusion' = conclusion /\ child'[w] = "none" /\ work'[Plan[w].dir] = w
         \/ pc'[w] = "clean_checkout" /\ conclusion'[w] = "failure" /\ child'[w] = "none"
  BY <1>0, Apart DEF run_git_command, Goto, Conclude, step_vars, Next_child, Spawn, Give_up, Collected,
                     JobShape
<1>3. UNCHANGED <<svc, at, signal, statuses, failed_step, config, networks, containers, kept, saved>>
  BY DEF run_git_command, step_vars, Give_up
<1>4. /\ svc'[w] \in Nat /\ at'[w] \in Nat
      /\ child'[w] \in {"none", "alive", "ok", "fail", "killed"}
  BY <1>2, <1>3, Known DEF TypeIs
<1>5. HoldsIs(w, Plan[w], pc'[w], svc'[w], child'[w], work'[Plan[w].dir], config', networks',
              containers', kept')
  <2> DEFINE pl == Plan[w]  wk == work'[Plan[w].dir]
  <2>1. HoldsIs(w, pl, "git", svc[w], child[w], work[pl.dir], config, networks, containers, kept)
    BY <1>2, Known
  <2>2. pc'[w] = "bundles" => wk = w
    BY <1>2
  <2> HIDE DEF pl, wk
  <2>3. HoldsIs(w, pl, pc'[w], svc[w], child'[w], wk, config, networks, containers, kept)
    BY <1>2, <2>1, <2>2 DEF HoldsIs, Before, Taking, Watching, Serving, Stepping
  <2> QED BY <1>3, <2>3 DEF pl, wk
<1> QED BY <1>1, <1>2, <1>3, <1>4, <1>5, BeforeKeeps DEF Before, Closing

\* The bundles are written, or are not.
LEMMA BundlesKeep == ASSUME JobInv, NEW w \in Workers, materialize_action_bundles(w) PROVE JobInv'
<1>0. JobShape
  BY Known
<1>1. Alone(w)
  BY <1>0 DEF materialize_action_bundles, Goto, Conclude, step_vars, work_vars, Give_up, Alone, Spared,
              JobShape
<1>2. /\ pc[w] = "bundles"
      /\ \/ pc'[w] = "services" /\ conclusion' = conclusion
         \/ pc'[w] = "clean_checkout" /\ conclusion'[w] = "failure"
  BY <1>0 DEF materialize_action_bundles, Goto, Conclude, step_vars, Give_up, JobShape
<1>3. UNCHANGED <<svc, at, child, signal, statuses, failed_step, work, config, networks, containers,
                  kept, saved>>
  BY DEF materialize_action_bundles, step_vars, work_vars, Give_up
<1>4. /\ svc'[w] \in Nat /\ at'[w] \in Nat
      /\ child'[w] \in {"none", "alive", "ok", "fail", "killed"}
  BY <1>3, Known DEF TypeIs
<1>5. HoldsIs(w, Plan[w], pc'[w], svc'[w], child'[w], work'[Plan[w].dir], config', networks',
              containers', kept')
  <2> DEFINE pl == Plan[w]
  <2>1. HoldsIs(w, pl, "bundles", svc[w], child[w], work[pl.dir], config, networks, containers, kept)
    BY <1>2, Known
  <2> HIDE DEF pl
  <2>2. HoldsIs(w, pl, pc'[w], svc[w], child[w], work[pl.dir], config, networks, containers, kept)
    BY <1>2, <2>1 DEF HoldsIs, Before, Taking, Watching, Serving, Stepping
  <2> QED BY <1>3, <2>2 DEF pl
<1> QED BY <1>1, <1>2, <1>3, <1>4, <1>5, BeforeKeeps DEF Before, Closing

----------------------------------------------------------------------------
(* Services.                                                               *)

\* The services of a plan.
LEMMA ServiceFacts ==
  ASSUME JobInv, NEW w \in Workers
  PROVE  /\ DOMAIN Plan[w].services = 1..Len(Plan[w].services) /\ Len(Plan[w].services) \in Nat
         /\ Plan[w].services = <<>> <=> Len(Plan[w].services) = 0
BY PlanFacts DEF JobInv, Services

\* A job without services goes to its steps, one with services makes its network.
LEMMA ServicesKeep == ASSUME JobInv, NEW w \in Workers, start_ci_services(w) PROVE JobInv'
<1>0. JobShape
  BY Known
<1>1. Alone(w)
  BY <1>0 DEF start_ci_services, Goto, Conclude, step_vars, Next_child, Spawn, Give_up, Services_failed,
              Drop_session, Open_session, Alone, Spared, JobShape
<1>2. /\ pc[w] = "services"
      /\ \/ /\ pc'[w] = "top" /\ conclusion' = conclusion /\ at'[w] = 1 /\ Plan[w].services = <<>>
            /\ child' = child /\ config' = config
         \/ /\ pc'[w] = "network" /\ conclusion' = conclusion /\ at' = at /\ Plan[w].services # <<>>
            /\ child'[w] = "alive"
         \/ /\ pc'[w] = "clean_services" /\ conclusion'[w] = "failure" /\ at' = at
            /\ child' = child /\ Plan[w].job \notin config'
  BY <1>0 DEF start_ci_services, Goto, Conclude, step_vars, Next_child, Spawn, Give_up, Services_failed,
              Drop_session, Open_session, JobShape, Services
<1>3. UNCHANGED <<svc, signal, statuses, failed_step, work, networks, containers, kept, saved>>
  BY DEF start_ci_services, step_vars, Services_failed, Give_up
<1>4. /\ svc'[w] \in Nat /\ at'[w] \in Nat
      /\ child'[w] \in {"none", "alive", "ok", "fail", "killed"}
  BY <1>2, <1>3, Known DEF TypeIs
<1>5. HoldsIs(w, Plan[w], pc'[w], svc'[w], child'[w], work'[Plan[w].dir], config', networks',
              containers', kept')
  <2> DEFINE pl == Plan[w]
  <2>1. HoldsIs(w, pl, "services", svc[w], child[w], work[pl.dir], config, networks, containers, kept)
    BY <1>2, Known
  <2>2. /\ pc'[w] = "top" => pl.services = <<>> /\ child' = child /\ config' = config
        /\ pc'[w] = "network" => pl.services # <<>>
        /\ pc'[w] = "clean_services" => child' = child /\ pl.job \notin config'
        /\ pc'[w] \in {"top", "network", "clean_services"}
    BY <1>2
  <2>3. DOMAIN pl.services = 1..Len(pl.services) /\ (pl.services = <<>> <=> Len(pl.services) = 0)
    BY ServiceFacts
  <2> HIDE DEF pl
  <2>4. HoldsIs(w, pl, pc'[w], svc[w], child'[w], work[pl.dir], config', networks, containers, kept)
    BY <2>1, <2>2, <2>3 DEF HoldsIs, Before, Taking, Watching, Serving, Stepping
  <2> QED BY <1>3, <2>4 DEF pl
<1> QED BY <1>1, <1>2, <1>3, <1>4, <1>5, BeforeKeeps DEF Before, Closing

\* docker network create.
LEMMA NetworkKeeps == ASSUME JobInv, NEW w \in Workers, network_created(w) PROVE JobInv'
<1>0. JobShape
  BY Known
<1>1. Alone(w)
  BY <1>0 DEF network_created, Goto, Conclude, step_vars, Collected, Give_up, Services_failed,
              Drop_session, Alone, Spared, JobShape
<1>2. /\ pc[w] = "network" /\ child'[w] = "none"
      /\ \/ /\ pc'[w] = "login" /\ conclusion' = conclusion /\ svc'[w] = 1 /\ config' = config
            /\ networks' = networks \cup {<<Plan[w].job, "net">>}
         \/ /\ pc'[w] = "clean_services" /\ conclusion'[w] = "failure" /\ svc' = svc
            /\ Plan[w].job \notin config'
  BY <1>0 DEF network_created, Goto, Conclude, step_vars, Collected, Give_up, Services_failed,
              Drop_session, JobShape, service_network_name
<1>3. UNCHANGED <<at, signal, statuses, failed_step, work, containers, kept, saved>>
  BY DEF network_created, step_vars, Services_failed, Give_up
<1>4. /\ svc'[w] \in Nat /\ at'[w] \in Nat
      /\ child'[w] \in {"none", "alive", "ok", "fail", "killed"}
  BY <1>2, <1>3, Known DEF TypeIs
<1>5. HoldsIs(w, Plan[w], pc'[w], svc'[w], child'[w], work'[Plan[w].dir], config', networks',
              containers', kept')
  <2> DEFINE pl == Plan[w]
  <2>1. HoldsIs(w, pl, "network", svc[w], child[w], work[pl.dir], config, networks, containers, kept)
    BY <1>2, Known
  <2>2. \/ pc'[w] = "login" /\ svc'[w] = 1 /\ config' = config /\ networks' = networks \cup {<<pl.job, "net">>}
        \/ pc'[w] = "clean_services" /\ pl.job \notin config' 
    BY <1>2
  <2>3. /\ DOMAIN pl.services = 1..Len(pl.services) /\ Len(pl.services) \in Nat
        /\ pl.services = <<>> <=> Len(pl.services) = 0
    BY ServiceFacts
  <2> HIDE DEF pl
  <2>4. HoldsIs(w, pl, pc'[w], svc'[w], child'[w], work[pl.dir], config', networks', containers, kept)
    BY <1>2, <2>1, <2>2, <2>3 DEF HoldsIs, Before, Taking, Watching, Serving, Stepping
  <2> QED BY <1>3, <2>4 DEF pl
<1> QED BY <1>1, <1>2, <1>3, <1>4, <1>5, BeforeKeeps DEF Before, Closing

\* The login of a service.
LEMMA LoginKeeps == ASSUME JobInv, NEW w \in Workers, start_service(w) PROVE JobInv'
<1>0. JobShape
  BY Known
<1>1. Alone(w)
  BY <1>0 DEF start_service, Goto, Conclude, step_vars, Collected, Give_up, Services_failed, Next_child,
              Spawn, Drop_session, Alone, Spared, JobShape
<1>2. /\ pc[w] = "login"
      /\ \/ /\ pc'[w] \in {"login", "run"} /\ conclusion' = conclusion /\ config' = config
            /\ child'[w] = "alive"
         \/ /\ pc'[w] = "clean_services" /\ conclusion'[w] = "failure" /\ child'[w] = "none"
            /\ Plan[w].job \notin config'
  BY <1>0 DEF start_service, Goto, Conclude, step_vars, Collected, Give_up, Services_failed, Next_child,
              Spawn, Drop_session, JobShape
<1>3. UNCHANGED <<svc, at, signal, statuses, failed_step, work, networks, containers, kept, saved>>
  BY DEF start_service, step_vars, Services_failed, Give_up
<1>4. /\ svc'[w] \in Nat /\ at'[w] \in Nat
      /\ child'[w] \in {"none", "alive", "ok", "fail", "killed"}
  BY <1>2, <1>3, Known DEF TypeIs
<1>5. HoldsIs(w, Plan[w], pc'[w], svc'[w], child'[w], work'[Plan[w].dir], config', networks',
              containers', kept')
  <2> DEFINE pl == Plan[w]
  <2>1. HoldsIs(w, pl, "login", svc[w], child[w], work[pl.dir], config, networks, containers, kept)
    BY <1>2, Known
  <2>2. \/ pc'[w] \in {"login", "run"} /\ config' = config
        \/ pc'[w] = "clean_services" /\ pl.job \notin config' /\ child'[w] = "none"
    BY <1>2
  <2> HIDE DEF pl
  <2>3. HoldsIs(w, pl, pc'[w], svc[w], child'[w], work[pl.dir], config', networks, containers, kept)
    BY <2>1, <2>2 DEF HoldsIs, Before, Taking, Watching, Serving, Stepping
  <2> QED BY <1>3, <2>3 DEF pl
<1> QED BY <1>1, <1>2, <1>3, <1>4, <1>5, BeforeKeeps DEF Before, Closing

\* docker run: the container is there, or may be.
LEMMA RunKeepsJobs == ASSUME JobInv, NEW w \in Workers, service_started(w) PROVE JobInv'
<1>0. JobShape
  BY Known
<1> DEFINE c == <<Plan[w].job, ToString(svc[w])>>
<1>a. container_name(w, svc[w]) = c /\ c[1] = Plan[w].job
  BY DEF container_name, service_network_name
<1>b. containers' = containers \/ containers' = containers \cup {c}
  BY <1>a DEF service_started
<1> HIDE DEF c
<1>1. Alone(w)
  BY <1>0, <1>a, <1>b DEF service_started, Goto, Conclude, step_vars, Collected, Give_up, Services_failed,
              Next_child, Spawn, Drop_session, Alone, Spared, JobShape
<1>2. /\ pc[w] = "run"
      /\ \/ /\ pc'[w] = "ready" /\ conclusion' = conclusion /\ config' = config /\ c \in containers'
            /\ child'[w] = "alive"
         \/ /\ pc'[w] = "clean_services" /\ conclusion'[w] = "failure" /\ child'[w] = "none"
            /\ Plan[w].job \notin config'
  BY <1>0, <1>a DEF service_started, Goto, Conclude, step_vars, Collected, Give_up, Services_failed,
              Next_child, Spawn, Drop_session, JobShape
<1>3. UNCHANGED <<svc, at, signal, statuses, failed_step, work, networks, kept, saved>>
  BY DEF service_started, step_vars, Services_failed, Give_up
<1>4. /\ svc'[w] \in Nat /\ at'[w] \in Nat
      /\ child'[w] \in {"none", "alive", "ok", "fail", "killed"}
  BY <1>2, <1>3, Known DEF TypeIs
<1>5. HoldsIs(w, Plan[w], pc'[w], svc'[w], child'[w], work'[Plan[w].dir], config', networks',
              containers', kept')
  <2> DEFINE pl == Plan[w]
  <2>1. HoldsIs(w, pl, "run", svc[w], child[w], work[pl.dir], config, networks, containers, kept)
    BY <1>2, Known
  <2>2. \/ pc'[w] = "ready" /\ config' = config /\ c \in containers'
        \/ pc'[w] = "clean_services" /\ pl.job \notin config' /\ child'[w] = "none"
    BY <1>2
  <2>3. DOMAIN pl.services = 1..Len(pl.services) /\ Len(pl.services) \in Nat
    BY ServiceFacts
  <2>4. c = <<pl.job, ToString(svc[w])>>
    BY DEF c
  <2> HIDE DEF pl
  <2>5. svc[w] \in DOMAIN pl.services
    BY <2>1, <2>3 DEF HoldsIs, Serving
  <2>6. c \in Names(pl)
    BY <2>4, <2>5 DEF Names
  <2>7. \A i \in DOMAIN pl.services : i <= svc[w] => i < svc[w] \/ i = svc[w]
    BY <2>3, <2>5
  <2>8. HoldsIs(w, pl, pc'[w], svc[w], child'[w], work[pl.dir], config', networks, containers', kept)
    BY <1>b, <2>1, <2>2, <2>4, <2>6, <2>7 DEF HoldsIs, Before, Taking, Watching, Serving, Stepping
  <2> QED BY <1>3, <2>8 DEF pl
<1> QED BY <1>1, <1>2, <1>3, <1>4, <1>5, BeforeKeeps DEF Before, Closing

\* The wait for a service.
LEMMA ReadyKeeps == ASSUME JobInv, NEW w \in Workers, wait_for_ci_service_ready(w) PROVE JobInv'
<1>0. JobShape
  BY Known
<1>1. Alone(w)
  BY <1>0 DEF wait_for_ci_service_ready, Goto, Conclude, step_vars, Collected, Give_up, Services_failed,
              Next_child, Spawn, Drop_session, Alone, Spared, JobShape
<1>2. /\ pc[w] = "ready"
      /\ \/ /\ pc'[w] \in {"ready", "ports"} /\ conclusion' = conclusion /\ config' = config
            /\ child'[w] = "alive"
         \/ /\ pc'[w] = "next_service" /\ conclusion' = conclusion /\ config' = config
            /\ child'[w] = "none"
         \/ /\ pc'[w] = "clean_services" /\ conclusion'[w] = "failure" /\ child'[w] = "none"
            /\ Plan[w].job \notin config'
  BY <1>0 DEF wait_for_ci_service_ready, Goto, Conclude, step_vars, Collected, Give_up, Services_failed,
              Next_child, Spawn, Drop_session, JobShape
<1>3. UNCHANGED <<svc, at, signal, statuses, failed_step, work, networks, containers, kept, saved>>
  BY DEF wait_for_ci_service_ready, step_vars, Services_failed, Give_up
<1>4. /\ svc'[w] \in Nat /\ at'[w] \in Nat
      /\ child'[w] \in {"none", "alive", "ok", "fail", "killed"}
  BY <1>2, <1>3, Known DEF TypeIs
<1>5. HoldsIs(w, Plan[w], pc'[w], svc'[w], child'[w], work'[Plan[w].dir], config', networks',
              containers', kept')
  <2> DEFINE pl == Plan[w]
  <2>1. HoldsIs(w, pl, "ready", svc[w], child[w], work[pl.dir], config, networks, containers, kept)
    BY <1>2, Known
  <2>2. \/ pc'[w] \in {"ready", "ports"} /\ config' = config
        \/ pc'[w] = "next_service" /\ config' = config /\ child'[w] = "none"
        \/ pc'[w] = "clean_services" /\ pl.job \notin config' /\ child'[w] = "none"
    BY <1>2
  <2> HIDE DEF pl
  <2>3. HoldsIs(w, pl, pc'[w], svc[w], child'[w], work[pl.dir], config', networks, containers, kept)
    BY <2>1, <2>2 DEF HoldsIs, Before, Taking, Watching, Serving, Stepping
  <2> QED BY <1>3, <2>3 DEF pl
<1> QED BY <1>1, <1>2, <1>3, <1>4, <1>5, BeforeKeeps DEF Before, Closing

\* The ports of a service.
LEMMA PortsKeep == ASSUME JobInv, NEW w \in Workers, record_host_shell_service_ports(w) PROVE JobInv'
<1>0. JobShape
  BY Known
<1>1. Alone(w)
  BY <1>0 DEF record_host_shell_service_ports, Goto, Conclude, step_vars, Collected, Give_up,
              Services_failed, Drop_session, Alone, Spared, JobShape
<1>2. /\ pc[w] = "ports" /\ child'[w] = "none"
      /\ \/ pc'[w] = "next_service" /\ conclusion' = conclusion /\ config' = config
         \/ pc'[w] = "clean_services" /\ conclusion'[w] = "failure" /\ Plan[w].job \notin config'
  BY <1>0 DEF record_host_shell_service_ports, Goto, Conclude, step_vars, Collected, Give_up,
              Services_failed, Drop_session, JobShape
<1>3. UNCHANGED <<svc, at, signal, statuses, failed_step, work, networks, containers, kept, saved>>
  BY DEF record_host_shell_service_ports, step_vars, Services_failed, Give_up
<1>4. /\ svc'[w] \in Nat /\ at'[w] \in Nat
      /\ child'[w] \in {"none", "alive", "ok", "fail", "killed"}
  BY <1>2, <1>3, Known DEF TypeIs
<1>5. HoldsIs(w, Plan[w], pc'[w], svc'[w], child'[w], work'[Plan[w].dir], config', networks',
              containers', kept')
  <2> DEFINE pl == Plan[w]
  <2>1. HoldsIs(w, pl, "ports", svc[w], child[w], work[pl.dir], config, networks, containers, kept)
    BY <1>2, Known
  <2>2. \/ pc'[w] = "next_service" /\ config' = config
        \/ pc'[w] = "clean_services" /\ pl.job \notin config'
    BY <1>2
  <2> HIDE DEF pl
  <2>3. HoldsIs(w, pl, pc'[w], svc[w], child'[w], work[pl.dir], config', networks, containers, kept)
    BY <1>2, <2>1, <2>2 DEF HoldsIs, Before, Taking, Watching, Serving, Stepping
  <2> QED BY <1>3, <2>3 DEF pl
<1> QED BY <1>1, <1>2, <1>3, <1>4, <1>5, BeforeKeeps DEF Before, Closing

\* With the last service up the credentials go.
LEMMA NextServiceKeeps == ASSUME JobInv, NEW w \in Workers, next_service(w) PROVE JobInv'
<1>0. JobShape
  BY Known
<1>1. Alone(w)
  BY <1>0 DEF next_service, Goto, step_vars, Drop_session, Alone, Spared, JobShape
<1>2. /\ pc[w] = "next_service" /\ conclusion' = conclusion
      /\ \/ /\ pc'[w] = "login" /\ svc[w] < Len(Plan[w].services) /\ svc'[w] = svc[w] + 1
            /\ at' = at /\ config' = config
         \/ /\ pc'[w] = "top" /\ ~(svc[w] < Len(Plan[w].services)) /\ svc' = svc
            /\ at'[w] = 1 /\ Plan[w].job \notin config'
  BY <1>0 DEF next_service, Goto, step_vars, Drop_session, JobShape, Services
<1>3. UNCHANGED <<child, signal, statuses, failed_step, work, networks, containers, kept, saved>>
  BY DEF next_service, step_vars
<1>4. /\ svc'[w] \in Nat /\ at'[w] \in Nat
      /\ child'[w] \in {"none", "alive", "ok", "fail", "killed"}
  BY <1>2, <1>3, Known DEF TypeIs
<1>5. HoldsIs(w, Plan[w], pc'[w], svc'[w], child'[w], work'[Plan[w].dir], config', networks',
              containers', kept')
  <2> DEFINE pl == Plan[w]
  <2>1. HoldsIs(w, pl, "next_service", svc[w], child[w], work[pl.dir], config, networks, containers, kept)
    BY <1>2, Known
  <2>2. \/ /\ pc'[w] = "login" /\ svc[w] < Len(pl.services) /\ svc'[w] = svc[w] + 1 /\ config' = config
        \/ /\ pc'[w] = "top" /\ ~(svc[w] < Len(pl.services)) /\ pl.job \notin config'
    BY <1>2
  <2>3. DOMAIN pl.services = 1..Len(pl.services) /\ Len(pl.services) \in Nat
    BY ServiceFacts
  <2> HIDE DEF pl
  <2>4. svc[w] \in 1..Len(pl.services)
    BY <2>1 DEF HoldsIs, Serving
  <2>5. HoldsIs(w, pl, pc'[w], svc'[w], child[w], work[pl.dir], config', networks, containers, kept)
    <3>1. CASE pc'[w] = "login"
      <4>1. svc'[w] \in 1..Len(pl.services) /\ \A i \in DOMAIN pl.services : i < svc'[w] => i <= svc[w]
        BY <2>2, <2>3, <2>4, <3>1
      <4> QED BY <2>1, <2>2, <3>1, <4>1 DEF HoldsIs, Before, Taking, Watching, Serving, Stepping
    <3>2. CASE pc'[w] = "top"
      <4>1. \A i \in DOMAIN pl.services : i <= svc[w]
        BY <2>2, <2>3, <2>4, <3>2
      <4> QED BY <2>1, <2>2, <3>2, <4>1 DEF HoldsIs, Before, Taking, Watching, Serving, Stepping
    <3> QED BY <2>2, <3>1, <3>2
  <2> QED BY <1>3, <2>5 DEF pl
<1> QED BY <1>1, <1>2, <1>3, <1>4, <1>5, BeforeKeeps DEF Before, Closing

----------------------------------------------------------------------------
(* Steps.                                                                  *)

\* Step k gets the status v.
LEMMA TakenNext ==
  ASSUME NEW sq, NEW st, NEW k, NEW v, NEW t, Len(sq) \in Nat, k \in 1..Len(sq), DOMAIN st = 1..Len(sq),
         TakenUntil(sq, st, k, "none"), t = [st EXCEPT ![k] = v]
  PROVE  /\ TakenUntil(sq, t, k, v) /\ DOMAIN t = 1..Len(sq)
         /\ Passed(sq[k], v) => TakenUntil(sq, t, k + 1, "none")
<1>1. /\ DOMAIN t = 1..Len(sq) /\ t[k] = v
      /\ \A i \in 1..Len(sq) : i # k => t[i] = st[i]
  OBVIOUS
<1>2. TakenUntil(sq, t, k, v)
  BY <1>1 DEF TakenUntil
<1>3. ASSUME Passed(sq[k], v) PROVE TakenUntil(sq, t, k + 1, "none")
  <2> SUFFICES ASSUME NEW i \in 1..Len(sq)
               PROVE  /\ i < k + 1 => Passed(sq[i], t[i])
                      /\ i = k + 1 => t[i] = "none"
                      /\ i > k + 1 => t[i] = "none"
    BY DEF TakenUntil
  <2>1. CASE i < k
    BY <1>1, <2>1 DEF TakenUntil
  <2>2. CASE i = k
    BY <1>1, <1>3, <2>2
  <2>3. CASE i > k
    <3>1. t[i] = "none"
      BY <1>1, <2>3 DEF TakenUntil
    <3> QED BY <2>3, <3>1
  <2> QED BY <2>1, <2>2, <2>3
<1> QED BY <1>1, <1>2, <1>3

\* The step under way is settled: the next one follows, or it ended the job, or
\* the job was cancelled.
Settled(w) ==
  \E v \in {"success", "skipped", "failure", "cancelled"} :
    /\ statuses'[w] = [statuses[w] EXCEPT ![at[w]] = v]
    /\ \/ /\ pc'[w] = "top" /\ at'[w] = at[w] + 1 /\ Passed(Steps(w)[at[w]], v)
          /\ failed_step'[w] = failed_step[w] /\ conclusion'[w] = conclusion[w]
       \/ /\ pc'[w] = "end" /\ at'[w] = at[w] /\ v = "failure" /\ ~Steps(w)[at[w]].continue_on_error
          /\ failed_step'[w] = at[w] /\ conclusion'[w] = conclusion[w]
       \/ /\ pc'[w] = "clean_services" /\ at'[w] = at[w] /\ v = "cancelled" /\ signal[w]
          /\ failed_step'[w] = failed_step[w] /\ conclusion'[w] = "cancelled"

\* It goes on.
GoesOn(w) ==
  /\ pc'[w] \in {"own", "step"} /\ at'[w] = at[w] /\ statuses'[w] = statuses[w]
  /\ failed_step'[w] = failed_step[w] /\ conclusion'[w] = conclusion[w]

\* While the steps are taken a worker touches nothing that is shared.
LEMMA StepKeeps ==
  ASSUME JobInv, NEW w \in Workers, Alone(w), pc[w] \in Taking, at[w] <= Len(Steps(w)),
         UNCHANGED <<svc, signal, work, config, networks, containers, kept, saved>>,
         child'[w] \in {"none", "alive"}, child'[w] = "none" \/ pc'[w] = "step",
         Settled(w) \/ GoesOn(w)
  PROVE  JobInv'
<1>1. /\ load' = load /\ Plan' = Plan /\ Steps(w)' = Steps(w) /\ Len(Steps(w)) \in Nat
      /\ load \in Loads
  BY PlanFacts DEF Alone, Plan, Steps, JobInv
<1> DEFINE sq == Steps(w)  k == at[w]  st == statuses[w]
<1>2. /\ Len(sq) \in Nat /\ DOMAIN st = 1..Len(sq) /\ TakenUntil(sq, st, k, "none") /\ k \in 1..Len(sq)
      /\ failed_step[w] = 0 /\ conclusion[w] = "none" /\ svc[w] \in Nat /\ signal[w] \in BOOLEAN
  <2>1. ResultIs(sq, pc[w], k, st, failed_step[w], conclusion[w], signal[w])
    BY DEF JobInv, Result
  <2>2. /\ k \in 1..(Len(sq) + 1) /\ TakenUntil(sq, st, k, "none") /\ failed_step[w] = 0
        /\ conclusion[w] = "none"
    BY <2>1 DEF ResultIs
  <2>3. DOMAIN st = 1..Len(sq) /\ svc[w] \in Nat /\ signal[w] \in BOOLEAN
    BY Known DEF TypeIs
  <2> QED BY <1>1, <2>2, <2>3
<1>3. /\ SavesOk(w)
  BY <1>2 DEF SavesOk
<1>4. HoldsIs(w, Plan[w], pc'[w], svc[w], child'[w], work[Plan[w].dir], config, networks, containers, kept)
  <2> DEFINE pl == Plan[w]
  <2>1. HoldsIs(w, pl, pc[w], svc[w], child[w], work[pl.dir], config, networks, containers, kept)
    BY Known
  <2>2. pc'[w] \in Stepping \cup {"clean_services"}
    BY DEF Settled, GoesOn, Stepping, Taking
  <2> HIDE DEF pl
  <2>3. HoldsIs(w, pl, pc'[w], svc[w], child'[w], work[pl.dir], config, networks, containers, kept)
    BY <2>1, <2>2 DEF HoldsIs, Before, Taking, Watching, Serving, Stepping
  <2> QED BY <2>3 DEF pl
<1>5. Holds(w)'
  BY <1>1, <1>4 DEF Holds
<1> DEFINE p == pc'[w]  kk == at'[w]  t == statuses'[w]  f == failed_step'[w]  c == conclusion'[w]
<1>6. ResultIs(sq, p, kk, t, f, c, signal[w]) /\ TypeIs(sq, p, svc[w], kk, child'[w], signal[w], f, t, c)
  <2>1. CASE GoesOn(w)
    <3>1. p \in {"own", "step"} /\ kk = k /\ t = st /\ f = 0 /\ c = "none"
      BY <1>2, <2>1 DEF GoesOn
    <3> HIDE DEF p, kk, t, f, c, sq, k, st
    <3>2. ResultIs(sq, p, kk, t, f, c, signal[w])
      BY <1>2, <3>1 DEF ResultIs, Before, Taking, Closing
    <3> QED BY <1>2, <3>1, <3>2 DEF TypeIs, JobPcs, Taking
  <2>2. CASE Settled(w)
    <3>1. PICK v \in {"success", "skipped", "failure", "cancelled"} :
            /\ t = [st EXCEPT ![k] = v]
            /\ \/ p = "top" /\ kk = k + 1 /\ Passed(sq[k], v) /\ f = 0 /\ c = "none"
               \/ p = "end" /\ kk = k /\ v = "failure" /\ ~sq[k].continue_on_error /\ f = k /\ c = "none"
               \/ p = "clean_services" /\ kk = k /\ v = "cancelled" /\ signal[w] /\ f = 0 /\ c = "cancelled"
      BY <1>2, <2>2 DEF Settled
    <3> HIDE DEF p, kk, t, f, c, sq, k, st
    <3>2. /\ TakenUntil(sq, t, k, v) /\ DOMAIN t = 1..Len(sq)
          /\ Passed(sq[k], v) => TakenUntil(sq, t, k + 1, "none")
      BY <1>2, <3>1, TakenNext
    <3>3. k \in 0..Len(sq) /\ k + 1 \in 1..(Len(sq) + 1) /\ k \in Nat /\ k + 1 \in Nat
      BY <1>2
    <3>4. ResultIs(sq, p, kk, t, f, c, signal[w])
      <4>1. CASE p = "top"
        BY <3>1, <3>2, <3>3, <4>1 DEF ResultIs, Before, Taking, Closing
      <4>2. CASE p = "end"
        BY <1>2, <3>1, <3>2, <4>2 DEF ResultIs, EndedBy, Before, Taking, Closing
      <4>3. CASE p = "clean_services"
        <5>1. \E n \in 0..Len(sq) : TakenUntil(sq, t, n, "cancelled")
          BY <3>1, <3>2, <3>3, <4>3
        <5> QED BY <3>1, <4>3, <5>1 DEF ResultIs, Before, Taking, Closing
      <4> QED BY <3>1, <4>1, <4>2, <4>3
    <3>5. TypeIs(sq, p, svc[w], kk, child'[w], signal[w], f, t, c)
      BY <1>2, <3>1, <3>2, <3>3 DEF TypeIs, JobPcs, Taking, Closing
    <3> QED BY <3>4, <3>5
  <2> QED BY <2>1, <2>2
<1>7. Result(w)' /\ Typed(w)'
  BY <1>1, <1>6 DEF Result, Typed
<1> QED BY <1>3, <1>5, <1>7, MoveKeeps

\* The variables of the steps, of the other workers.
OthersSteps(w) ==
  /\ DOMAIN pc' = Workers /\ DOMAIN at' = Workers /\ DOMAIN failed_step' = Workers
  /\ DOMAIN statuses' = Workers /\ DOMAIN conclusion' = Workers
  /\ \A x \in Workers : x # w =>
       /\ pc'[x] = pc[x] /\ at'[x] = at[x] /\ failed_step'[x] = failed_step[x]
       /\ statuses'[x] = statuses[x] /\ conclusion'[x] = conclusion[x]

\* What Settle does of it.
LEMMA SettleIs ==
  ASSUME JobShape, NEW w \in Workers, NEW r, Settle(w, r)
  PROVE  Settled(w) /\ OthersSteps(w)
<1>1. CASE r = "ok"
  <2>1. /\ Status(w, "success") /\ Goto(w, "top") /\ at' = [at EXCEPT ![w] = @ + 1]
        /\ UNCHANGED <<failed_step, conclusion>>
    BY <1>1 DEF Settle
  <2>2. statuses'[w] = [statuses[w] EXCEPT ![at[w]] = "success"]
    BY <2>1 DEF Status, JobShape
  <2>3. pc'[w] = "top" /\ at'[w] = at[w] + 1
    BY <2>1 DEF Goto, JobShape
  <2>4. Settled(w)
    BY <2>1, <2>2, <2>3 DEF Settled, Passed
  <2>5. OthersSteps(w)
    BY <2>1 DEF OthersSteps, Status, Goto, JobShape
  <2> QED BY <2>4, <2>5
<1>2. CASE r = "err" /\ signal[w]
  <2>1. /\ Status(w, "cancelled") /\ Conclude(w, "cancelled") /\ Goto(w, "clean_services")
        /\ UNCHANGED <<at, failed_step>>
    BY <1>2 DEF Settle
  <2>2. statuses'[w] = [statuses[w] EXCEPT ![at[w]] = "cancelled"]
    BY <2>1 DEF Status, JobShape
  <2>3. pc'[w] = "clean_services" /\ conclusion'[w] = "cancelled"
    BY <2>1 DEF Goto, Conclude, JobShape
  <2>4. Settled(w)
    BY <1>2, <2>1, <2>2, <2>3 DEF Settled
  <2>5. OthersSteps(w)
    BY <2>1 DEF OthersSteps, Status, Goto, Conclude, JobShape
  <2> QED BY <2>4, <2>5
<1>3. CASE r # "ok" /\ ~(r = "err" /\ signal[w])
  <2>1. step_failed(w)
    BY <1>3 DEF Settle
  <2>2. statuses'[w] = [statuses[w] EXCEPT ![at[w]] = "failure"]
    BY <2>1 DEF step_failed, Status, JobShape
  <2>3. /\ conclusion' = conclusion
        /\ \/ /\ Steps(w)[at[w]].continue_on_error /\ pc'[w] = "top" /\ at'[w] = at[w] + 1
              /\ failed_step' = failed_step
           \/ /\ ~Steps(w)[at[w]].continue_on_error /\ pc'[w] = "end" /\ at' = at
              /\ failed_step'[w] = at[w]
    BY <2>1 DEF step_failed, Goto, JobShape
  <2>4. Settled(w)
    BY <2>2, <2>3 DEF Settled, Passed
  <2>5. OthersSteps(w)
    BY <2>1 DEF OthersSteps, step_failed, Status, Goto, JobShape
  <2> QED BY <2>4, <2>5
<1> QED BY <1>1, <1>2, <1>3

\* A step that leaves the shared state and svc and signal alone is a step of w alone.
LEMMA StepAlone ==
  ASSUME JobShape, NEW w \in Workers, OthersSteps(w), load' = load,
         UNCHANGED <<svc, signal, work, config, networks, containers, kept>>,
         DOMAIN child' = Workers, \A x \in Workers : x # w => child'[x] = child[x]
  PROVE  Alone(w)
BY DEF Alone, Spared, OthersSteps, JobShape

\* The head of the loop.
LEMMA BeginKeeps == ASSUME JobInv, NEW w \in Workers, begin_step(w) PROVE JobInv'
<1>0. JobShape /\ pc[w] = "top" /\ at[w] <= Len(Steps(w)) /\ pc[w] \in Taking
  BY Known DEF begin_step, Taking
<1>1. UNCHANGED <<svc, signal, work, config, networks, containers, kept, saved, load>>
  BY DEF begin_step, work_vars
<1>2. child[w] = "none"
  BY <1>0, Known DEF HoldsIs, Watching
<1>3. /\ DOMAIN child' = Workers /\ \A x \in Workers : x # w => child'[x] = child[x]
      /\ child'[w] \in {"none", "alive"} /\ (child'[w] = "none" \/ pc'[w] = "step")
      /\ OthersSteps(w) /\ (Settled(w) \/ GoesOn(w))
  <2> DEFINE s == Steps(w)[at[w]]
             runs == ~signal[w] /\ should_run_ci_step(s.cond, saw_failure[w])
  <2>1. CASE /\ signal[w]
             /\ Status(w, "cancelled") /\ Conclude(w, "cancelled") /\ Goto(w, "clean_services")
             /\ UNCHANGED <<at, child, failed_step>>
    <3>1. statuses'[w] = [statuses[w] EXCEPT ![at[w]] = "cancelled"]
      BY <1>0, <2>1 DEF Status, JobShape
    <3>2. pc'[w] = "clean_services" /\ conclusion'[w] = "cancelled"
      BY <1>0, <2>1 DEF Goto, Conclude, JobShape
    <3>3. Settled(w)
      BY <2>1, <3>1, <3>2 DEF Settled
    <3>4. OthersSteps(w)
      BY <1>0, <2>1 DEF OthersSteps, Status, Goto, Conclude, JobShape
    <3> QED BY <1>0, <1>2, <2>1, <3>3, <3>4 DEF JobShape
  <2>2. CASE skip_step(w) /\ UNCHANGED <<pc, child, failed_step, conclusion>>
    <3>1. statuses'[w] = [statuses[w] EXCEPT ![at[w]] = "skipped"] /\ at'[w] = at[w] + 1
      BY <1>0, <2>2 DEF skip_step, Status, JobShape
    <3>2. Settled(w)
      BY <1>0, <2>2, <3>1 DEF Settled, Passed
    <3>3. OthersSteps(w)
      BY <1>0, <2>2 DEF OthersSteps, skip_step, Status, JobShape
    <3> QED BY <1>0, <1>2, <2>2, <3>2, <3>3 DEF JobShape
  <2>3. CASE Next_child(w, "step") /\ UNCHANGED <<at, step_vars>>
    <3>1. GoesOn(w) /\ OthersSteps(w)
      BY <1>0, <2>3 DEF GoesOn, OthersSteps, Next_child, Goto, step_vars, JobShape
    <3> QED BY <1>0, <2>3, <3>1 DEF Next_child, Spawn, Goto, JobShape
  <2>4. CASE Settle(w, "err") /\ UNCHANGED child
    BY <1>0, <1>2, <2>4, SettleIs DEF JobShape
  <2>5. CASE Goto(w, "own") /\ UNCHANGED <<at, child, step_vars>>
    <3>1. GoesOn(w) /\ OthersSteps(w)
      BY <1>0, <2>5 DEF GoesOn, OthersSteps, Goto, step_vars, JobShape
    <3> QED BY <1>0, <1>2, <2>5, <3>1 DEF JobShape
  <2> QED BY <2>1, <2>2, <2>3, <2>4, <2>5 DEF begin_step
<1> QED BY <1>0, <1>1, <1>3, StepAlone, StepKeeps

\* A step of the agent's own.
LEMMA OwnStepKeeps == ASSUME JobInv, NEW w \in Workers, own_step(w) PROVE JobInv'
<1>0. JobShape /\ pc[w] = "own" /\ pc[w] \in Taking
  BY Known DEF own_step, Taking
<1>1. at[w] <= Len(Steps(w))
  BY <1>0 DEF JobInv, Result, ResultIs, Taking
<1>2. UNCHANGED <<svc, child, signal, work, config, networks, containers, kept, saved, load>>
  BY DEF own_step, work_vars
<1>3. child[w] = "none"
  BY <1>0, Known DEF HoldsIs, Watching
<1>4. Settled(w) /\ OthersSteps(w)
  BY <1>0, SettleIs DEF own_step
<1>5. /\ DOMAIN child' = Workers /\ \A x \in Workers : x # w => child'[x] = child[x]
      /\ child'[w] = "none"
  BY <1>0, <1>2, <1>3 DEF JobShape
<1> QED BY <1>0, <1>1, <1>2, <1>4, <1>5, StepAlone, StepKeeps

\* A child of a step has ended.
LEMMA ChildStepKeeps == ASSUME JobInv, NEW w \in Workers, execute_ci_step(w) PROVE JobInv'
<1>0. JobShape /\ pc[w] = "step" /\ pc[w] \in Taking
  BY Known DEF execute_ci_step, Taking
<1>1. at[w] <= Len(Steps(w))
  BY <1>0 DEF JobInv, Result, ResultIs, Taking
<1>2. UNCHANGED <<svc, signal, work, config, networks, containers, kept, saved, load>>
  BY DEF execute_ci_step, work_vars
<1>3. /\ DOMAIN child' = Workers /\ \A x \in Workers : x # w => child'[x] = child[x]
      /\ child'[w] \in {"none", "alive"} /\ (child'[w] = "none" \/ pc'[w] = "step")
      /\ OthersSteps(w) /\ (Settled(w) \/ GoesOn(w))
  <2>1. CASE Next_child(w, "step") /\ UNCHANGED <<at, statuses, failed_step, conclusion>>
    <3>1. GoesOn(w) /\ OthersSteps(w)
      BY <1>0, <2>1 DEF GoesOn, OthersSteps, Next_child, Goto, JobShape
    <3> QED BY <1>0, <2>1, <3>1 DEF Next_child, Spawn, Goto, JobShape
  <2>2. CASE (\E r : Settle(w, r)) /\ Collected(w)
    <3>1. Settled(w) /\ OthersSteps(w)
      BY <1>0, <2>2, SettleIs
    <3> QED BY <1>0, <2>2, <3>1 DEF Collected, JobShape
  <2>3. \/ Next_child(w, "step") /\ UNCHANGED <<at, statuses, failed_step, conclusion>>
        \/ (\E r : Settle(w, r)) /\ Collected(w)
    BY DEF execute_ci_step
  <2> QED BY <2>1, <2>2, <2>3
<1> QED BY <1>0, <1>1, <1>2, <1>3, StepAlone, StepKeeps

\* The caches are saved if no step ended the job, and the result is decided.
LEMMA FinishKeeps == ASSUME JobInv, NEW w \in Workers, finish_steps(w) PROVE JobInv'
<1>0. /\ JobShape /\ pc[w] \in {"end", "top"} /\ (pc[w] = "top" => at[w] > Len(Steps(w)))
      /\ load \in Loads
  BY Known DEF finish_steps
<1>1. UNCHANGED <<svc, at, child, signal, statuses, failed_step, work, config, networks, containers,
                  kept, load>>
  BY DEF finish_steps
<1>2. /\ pc'[w] = "clean_services"
      /\ conclusion'[w] = IF failed_step[w] = 0 THEN "success" ELSE "failure"
  BY <1>0 DEF finish_steps, Goto, Conclude, JobShape
<1>3. OthersSteps(w)
  BY <1>0 DEF OthersSteps, finish_steps, Goto, Conclude, JobShape
<1>4. Alone(w)
  BY <1>0, <1>1, <1>3, StepAlone DEF JobShape
<1>5. Plan' = Plan /\ Steps(w)' = Steps(w) /\ Len(Steps(w)) \in Nat
  BY <1>0, <1>1, PlanFacts DEF Plan, Steps
<1> DEFINE sq == Steps(w)  k == at[w]  st == statuses[w]  f == failed_step[w]
<1>6. ResultIs(sq, pc[w], k, st, f, conclusion[w], signal[w])
  BY DEF JobInv, Result
<1>7. conclusion[w] = "none" /\ f \in Nat /\ k \in Nat
  BY <1>0, <1>6, Known DEF ResultIs, Taking, TypeIs
<1>8. SavesOk(w)
  <2>1. ASSUME NEW s \in saved', s \notin saved PROVE s[1] = w /\ conclusion'[w] = "success"
    BY <1>2, <2>1 DEF finish_steps, save_caches
  <2> QED BY <1>7, <2>1 DEF SavesOk
<1>9. ResultIs(sq, "clean_services", k, st, f, conclusion'[w], signal[w])
  <2> HIDE DEF sq, k, st, f
  <2>1. CASE pc[w] = "top"
    <3>1. f = 0 /\ k \in 1..(Len(sq) + 1) /\ TakenUntil(sq, st, k, "none")
      BY <1>6, <2>1 DEF ResultIs, Taking
    <3>2. k = Len(sq) + 1
      BY <1>0, <1>5, <1>7, <2>1, <3>1 DEF k, sq
    <3>3. conclusion'[w] = "success"
      BY <1>2, <3>1 DEF f
    <3> QED BY <3>1, <3>2, <3>3 DEF ResultIs, Before, Taking, Closing
  <2>2. CASE pc[w] = "end"
    <3>1. EndedBy(sq, st, k) /\ f = k
      BY <1>6, <2>2 DEF ResultIs
    <3>2. f # 0
      BY <1>5, <3>1 DEF EndedBy
    <3>3. conclusion'[w] = "failure"
      BY <1>2, <3>2 DEF f
    <3> QED BY <3>1, <3>3 DEF ResultIs, Before, Taking, Closing
  <2> QED BY <1>0, <2>1, <2>2
<1>10. Result(w)'
  BY <1>1, <1>2, <1>5, <1>9 DEF Result
<1>11. Typed(w)'
  <2>1. TypeIs(Steps(w), pc'[w], svc[w], at[w], child[w], signal[w], failed_step[w], statuses[w], conclusion'[w])
    BY <1>2, Known DEF TypeIs, JobPcs, Closing
  <2> QED BY <1>1, <1>5, <2>1 DEF Typed
<1>12. Holds(w)'
  <2> DEFINE pl == Plan[w]
  <2>1. HoldsIs(w, pl, pc[w], svc[w], child[w], work[pl.dir], config, networks, containers, kept)
    BY Known
  <2> HIDE DEF pl
  <2>2. HoldsIs(w, pl, pc'[w], svc[w], child[w], work[pl.dir], config, networks, containers, kept)
    BY <1>0, <1>2, <2>1 DEF HoldsIs, Before, Taking, Watching, Serving, Stepping
  <2> QED BY <1>1, <1>5, <2>2 DEF Holds, pl
<1> QED BY <1>4, <1>8, <1>10, <1>11, <1>12, MoveKeeps

----------------------------------------------------------------------------
(* Cleanup, and what happens around a worker.                              *)

\* A worker that only cleans up keeps what it decided.
LEMMA ClosingKeeps ==
  ASSUME JobInv, NEW w \in Workers, Alone(w), pc[w] \in Closing, pc'[w] \in Closing,
         UNCHANGED <<svc, at, child, signal, statuses, failed_step, conclusion, saved>>,
         HoldsIs(w, Plan[w], pc'[w], svc[w], child[w], work'[Plan[w].dir], config', networks',
                 containers', kept')
  PROVE  JobInv'
<1>1. load' = load /\ Plan' = Plan /\ Steps(w)' = Steps(w)
  BY DEF Alone, Plan, Steps
<1>2. SavesOk(w)
  BY DEF SavesOk
<1>3. Result(w)'
  <2>1. ResultIs(Steps(w), pc[w], at[w], statuses[w], failed_step[w], conclusion[w], signal[w])
    BY DEF JobInv, Result
  <2>2. ResultIs(Steps(w), pc'[w], at[w], statuses[w], failed_step[w], conclusion[w], signal[w])
    BY <2>1 DEF ResultIs, Before, Taking, Closing
  <2> QED BY <1>1, <2>2 DEF Result
<1>4. Typed(w)'
  <2>1. TypeIs(Steps(w), pc'[w], svc[w], at[w], child[w], signal[w], failed_step[w], statuses[w], conclusion[w])
    BY Known DEF TypeIs, JobPcs
  <2> QED BY <1>1, <2>1 DEF Typed
<1>5. Holds(w)'
  BY <1>1 DEF Holds
<1> QED BY <1>2, <1>3, <1>4, <1>5, MoveKeeps

\* docker rm of the containers and the network of a job: what stays is known to stay.
LEMMA CleanServicesKeeps == ASSUME JobInv, NEW w \in Workers, cleanup_ci_services(w) PROVE JobInv'
<1>0. JobShape
  BY Known
<1> DEFINE pl == Plan[w]  n == <<pl.job, "net">>  mine == Names(pl) \cap containers
<1>1. /\ pc[w] = "clean_services" /\ pc' = [pc EXCEPT ![w] = "clean_checkout"]
      /\ config' = config \ {pl.job} /\ load' = load
      /\ UNCHANGED <<svc, at, child, signal, statuses, failed_step, conclusion, work, saved>>
  BY DEF cleanup_ci_services, Drop_session, Goto, step_vars
<1>2. \/ pl.services = <<>> /\ UNCHANGED <<containers, networks, kept>>
      \/ \E stuck \in SUBSET mine, net \in BOOLEAN :
            LET stays == n \in networks /\ (net \/ stuck # {}) IN
            /\ containers' = containers \ (mine \ stuck)
            /\ networks' = IF stays THEN networks ELSE networks \ {n}
            /\ kept' = kept \cup stuck \cup (IF stays THEN {n} ELSE {})
  <2>1. /\ service_network_name(w) = n /\ Services(w) = pl.services
        /\ {container_name(w, i) : i \in DOMAIN Services(w)} = Names(pl)
    BY DEF service_network_name, container_name, Services, Names
  <2> HIDE DEF pl, n
  <2> QED BY <2>1 DEF cleanup_ci_services
<1>3. HoldsIs(w, pl, "clean_services", svc[w], child[w], work[pl.dir], config, networks, containers, kept)
  BY <1>1, Known
<1>4. \A c \in mine : c[1] = pl.job
  BY DEF Names
<1>5. /\ kept \subseteq kept' /\ networks' \ {n} = networks \ {n} /\ networks' \subseteq networks
      /\ containers' \subseteq containers /\ containers \ mine \subseteq containers'
      /\ pl.services = <<>> => UNCHANGED <<containers, networks>>
      /\ pl.services # <<>> => /\ n \in networks' => n \in kept'
                               /\ \A c \in containers' : c \in Names(pl) => c \in kept'
  <2>1. CASE pl.services = <<>> /\ UNCHANGED <<containers, networks, kept>>
    BY <2>1
  <2>2. CASE \E stuck \in SUBSET mine, net \in BOOLEAN :
            LET stays == n \in networks /\ (net \/ stuck # {}) IN
            /\ containers' = containers \ (mine \ stuck)
            /\ networks' = IF stays THEN networks ELSE networks \ {n}
            /\ kept' = kept \cup stuck \cup (IF stays THEN {n} ELSE {})
    <3>1. PICK stuck \in SUBSET mine, net \in BOOLEAN :
            LET stays == n \in networks /\ (net \/ stuck # {}) IN
            /\ containers' = containers \ (mine \ stuck)
            /\ networks' = IF stays THEN networks ELSE networks \ {n}
            /\ kept' = kept \cup stuck \cup (IF stays THEN {n} ELSE {})
      BY <2>2
    <3> HIDE DEF pl, n
    <3>2. kept \subseteq kept' /\ networks' \ {n} = networks \ {n} /\ networks' \subseteq networks
      BY <3>1
    <3>3. containers' \subseteq containers /\ containers \ mine \subseteq containers'
      BY <3>1
    <3>4. n \in networks' => n \in kept'
      BY <3>1
    <3>5. \A c \in containers' : c \in Names(pl) => c \in kept'
      BY <3>1
    <3>6. n \in networks' => n \in networks
      BY <3>2
    <3>7. pl.services = <<>> => UNCHANGED <<containers, networks>>
      <4> SUFFICES ASSUME pl.services = <<>> PROVE UNCHANGED <<containers, networks>>
        OBVIOUS
      <4>1. DOMAIN pl.services = {}
        OBVIOUS
      <4>2. mine = {}
        BY <4>1 DEF Names
      <4>3. n \notin networks
        BY <1>3 DEF HoldsIs, n
      <4> HIDE DEF mine
      <4> QED BY <3>1, <4>2, <4>3
    <3> QED BY <3>2, <3>3, <3>4, <3>5, <3>7
  <2> QED BY <1>2, <2>1, <2>2
<1>6. Alone(w)
  <2>1. networks' \ {service_network_name(w)} = networks \ {service_network_name(w)}
    BY <1>5 DEF service_network_name
  <2>2. ASSUME NEW c, c[1] # pl.job PROVE c \in containers' <=> c \in containers
    <3>1. c \notin mine
      BY <1>4, <2>2
    <3> HIDE DEF mine
    <3> QED BY <1>5, <3>1
  <2>3. config' \ {pl.job} = config \ {pl.job}
    BY <1>1
  <2> QED BY <1>0, <1>1, <1>5, <2>1, <2>2, <2>3 DEF Alone, Spared, JobShape
<1>7. HoldsIs(w, pl, "clean_checkout", svc[w], child[w], work[pl.dir], config', networks', containers', kept')
  <2>1. pl.job \notin config'
    BY <1>1
  <2>2. \A c \in containers' : c[1] = pl.job => c \in containers /\ c \in Names(pl)
    BY <1>3, <1>5 DEF HoldsIs
  <2>3. n \in networks' => n \in kept' /\ n \in networks
    BY <1>3, <1>5 DEF HoldsIs
  <2>4. \A c \in containers' : c[1] = pl.job => c \in kept'
    <3>1. CASE pl.services = <<>>
      <4>1. DOMAIN pl.services = {}
        BY <3>1
      <4>2. Names(pl) = {}
        BY <4>1 DEF Names
      <4> QED BY <2>2, <4>2
    <3>2. CASE pl.services # <<>>
      BY <1>5, <2>2, <3>2
    <3> QED BY <3>1, <3>2
  <2>5. <<pl.job, "net">> = n
    OBVIOUS
  <2> HIDE DEF pl, n
  <2> QED BY <1>3, <2>1, <2>2, <2>3, <2>4, <2>5 DEF HoldsIs, Before, Taking, Watching, Serving, Stepping
<1>8. pc'[w] = "clean_checkout"
  BY <1>0, <1>1 DEF JobShape
<1> QED BY <1>1, <1>6, <1>7, <1>8, ClosingKeeps DEF Closing

\* The checkout goes.
LEMMA CleanCheckoutKeeps == ASSUME JobInv, NEW w \in Workers, cleanup_ci_checkout(w) PROVE JobInv'
<1>0. JobShape
  BY Known
<1>1. Alone(w)
  BY <1>0, Apart DEF cleanup_ci_checkout, Goto, step_vars, Alone, Spared, JobShape
<1>2. /\ pc[w] = "clean_checkout" /\ pc'[w] = "done" /\ work'[Plan[w].dir] = None
      /\ UNCHANGED <<svc, at, child, signal, statuses, failed_step, conclusion, config, networks,
                     containers, kept, saved>>
  BY <1>0, Apart DEF cleanup_ci_checkout, Goto, step_vars, JobShape
<1>3. HoldsIs(w, Plan[w], "done", svc[w], child[w], None, config, networks, containers, kept)
  <2> DEFINE pl == Plan[w]
  <2>1. HoldsIs(w, pl, "clean_checkout", svc[w], child[w], work[pl.dir], config, networks, containers, kept)
    BY <1>2, Known
  <2> HIDE DEF pl
  <2>2. HoldsIs(w, pl, "done", svc[w], child[w], None, config, networks, containers, kept)
    BY <2>1, Apart DEF HoldsIs, Before, Taking, Watching, Serving, Stepping
  <2> QED BY <2>2 DEF pl
<1> QED BY <1>1, <1>2, <1>3, ClosingKeeps DEF Closing

\* A child that ends, a cancel and the passing of time change no more than the
\* child, the flag and what the invariant does not speak of.
LEMMA AroundKeeps ==
  ASSUME JobInv, NEW w \in Workers,
         UNCHANGED <<pc, svc, at, statuses, failed_step, conclusion, work_vars, load>>,
         \/ UNCHANGED <<child, signal>>
         \/ /\ signal' = signal /\ child[w] # "none"
            /\ \E v \in {"ok", "fail", "killed"} : child' = [child EXCEPT ![w] = v]
         \/ child' = child /\ signal' = [signal EXCEPT ![w] = TRUE]
  PROVE  JobInv'
<1>0. JobShape
  BY Known
<1>1. Alone(w)
  BY <1>0 DEF Alone, Spared, JobShape, work_vars
<1>2. Plan' = Plan /\ Steps(w)' = Steps(w)
  BY DEF Plan, Steps
<1>3. /\ child'[w] \in {"none", "alive", "ok", "fail", "killed"} /\ (child'[w] # "none" => child[w] # "none")
      /\ signal'[w] \in BOOLEAN /\ (signal[w] => signal'[w])
  BY <1>0, Known DEF TypeIs, JobShape
<1>4. Typed(w)'
  <2>1. TypeIs(Steps(w), pc[w], svc[w], at[w], child'[w], signal'[w], failed_step[w], statuses[w], conclusion[w])
    BY <1>3, Known DEF TypeIs
  <2> QED BY <1>2, <2>1 DEF Typed
<1>5. Result(w)'
  <2>1. ResultIs(Steps(w), pc[w], at[w], statuses[w], failed_step[w], conclusion[w], signal[w])
    BY DEF JobInv, Result
  <2>2. ResultIs(Steps(w), pc[w], at[w], statuses[w], failed_step[w], conclusion[w], signal'[w])
    BY <1>3, <2>1 DEF ResultIs
  <2> QED BY <1>2, <2>2 DEF Result
<1>6. Holds(w)'
  <2> DEFINE pl == Plan[w]
  <2>1. HoldsIs(w, pl, pc[w], svc[w], child[w], work[pl.dir], config, networks, containers, kept)
    BY Known
  <2> HIDE DEF pl
  <2>2. HoldsIs(w, pl, pc[w], svc[w], child'[w], work[pl.dir], config, networks, containers, kept)
    BY <1>3, <2>1 DEF HoldsIs
  <2> QED BY <1>2, <2>2 DEF Holds, pl, work_vars
<1>7. SavesOk(w)
  BY DEF SavesOk, work_vars
<1> QED BY <1>1, <1>4, <1>5, <1>6, <1>7, MoveKeeps

----------------------------------------------------------------------------
(* All of it.                                                              *)

\* Nothing exists at the start.
LEMMA JobInitHolds == ASSUME JobInit PROVE JobInv
<1>1. load \in Loads /\ JobShape /\ SavesAfterSuccess
  BY DEF JobInit, JobShape, SavesAfterSuccess
<1>2. ASSUME NEW w \in Workers PROVE Typed(w) /\ Result(w) /\ Holds(w)
  <2> DEFINE sq == Steps(w)  st == statuses[w]  pl == Plan[w]
  <2>1. /\ pc[w] = "idle" /\ svc[w] = 0 /\ at[w] = 0 /\ child[w] = "none" /\ signal[w] = FALSE
        /\ failed_step[w] = 0 /\ conclusion[w] = "none"
        /\ config = {} /\ networks = {} /\ containers = {} /\ kept = {}
    BY DEF JobInit
  <2>2. st = [i \in 1..Len(sq) |-> "none"] /\ Len(sq) \in Nat
    BY <1>1, PlanFacts DEF JobInit
  <2>3. pl.dir \in Dirs /\ w # None
    BY <1>1, PlanFacts
  <2>4. work[pl.dir] = None
    BY <2>3 DEF JobInit
  <2>5. TakenUntil(sq, st, 0, "none") /\ DOMAIN st = 1..Len(sq)
    BY <2>2 DEF TakenUntil
  <2> HIDE DEF sq, st, pl
  <2>6. TypeIs(sq, "idle", 0, 0, "none", FALSE, 0, st, "none")
    BY <2>5 DEF TypeIs, JobPcs, Before
  <2>7. ResultIs(sq, "idle", 0, st, 0, "none", FALSE)
    BY <2>5 DEF ResultIs, Before, Taking, Closing
  <2>8. HoldsIs(w, pl, "idle", 0, "none", None, {}, {}, {}, {})
    BY <2>3 DEF HoldsIs, Before, Taking, Watching, Serving, Stepping
  <2> QED BY <2>1, <2>4, <2>6, <2>7, <2>8 DEF Typed, Result, Holds, sq, st, pl
<1> QED BY <1>1, <1>2 DEF JobInv

\* Every step keeps the invariant.
LEMMA JobNextKeeps == ASSUME JobInv, JobNext PROVE JobInv'
<1>1. PICK w \in Workers :
        \/ Own(w) \/ terminate_child(w) \/ TailEnds(w) \/ cancel(w) \/ Expire(w)
        \/ \E s \in {"ok", "fail"} : ChildExits(w, s)
  BY DEF JobNext
<1>2. CASE Own(w)
  BY <1>2, StartKeeps, CheckoutKeeps, GitKeeps, BundlesKeep, ServicesKeep, NetworkKeeps, LoginKeeps,
     RunKeepsJobs, ReadyKeeps, PortsKeep, NextServiceKeeps, BeginKeeps, OwnStepKeeps, ChildStepKeeps,
     FinishKeeps, CleanServicesKeeps, CleanCheckoutKeeps DEF Own
<1>3. CASE terminate_child(w)
  BY <1>3, AroundKeeps DEF terminate_child, step_vars
<1>4. CASE TailEnds(w) \/ Expire(w)
  BY <1>4, AroundKeeps DEF TailEnds, Expire, step_vars
<1>5. CASE cancel(w)
  BY <1>5, AroundKeeps DEF cancel, step_vars
<1>6. CASE \E s \in {"ok", "fail"} : ChildExits(w, s)
  BY <1>6, AroundKeeps DEF ChildExits, step_vars
<1> QED BY <1>1, <1>2, <1>3, <1>4, <1>5, <1>6

\* And so does no step.
LEMMA JobStutterKeeps == ASSUME JobInv, UNCHANGED jobVars PROVE JobInv'
BY DEF JobInv, jobVars, step_vars, work_vars, Workers, Plan, Steps, Dirs, JobShape, SavesAfterSuccess,
       Typed, Result, Holds

\* What the invariant says of every state of a behaviour of the jobs.
PartInv == part = "job" => JobInv

\* The invariant holds in every behaviour.
LEMMA PartInvHolds == FairSpec => []PartInv
<1>1. MCInit => PartInv
  BY JobInitHolds DEF MCInit, PartInv
<1>2. PartInv /\ [MCNext]_<<part, jobVars, cmdVars>> => PartInv'
  <2> SUFFICES ASSUME PartInv, [MCNext]_<<part, jobVars, cmdVars>>, part' = "job" PROVE JobInv'
    BY DEF PartInv
  <2>1. part = "job"
    BY DEF MCNext
  <2>2. JobInv
    BY <2>1 DEF PartInv
  <2>3. CASE JobNext
    BY <2>2, <2>3, JobNextKeeps
  <2>4. CASE UNCHANGED jobVars
    BY <2>2, <2>4, JobStutterKeeps
  <2> QED BY <2>1, <2>3, <2>4 DEF MCNext
<1> QED BY <1>1, <1>2, PTL DEF FairSpec

\* Whatever ends a job, a failed checkout, service or step, a cancel, the deadline
\* or the last step, nothing of it is left but what docker refused to remove, and
\* the steps of a job have its own checkout, network and services for themselves.
THEOREM JobsCleanUp == FairSpec => []JobsLeaveNothing
<1>1. ASSUME JobInv PROVE CleanedUp
  <2> SUFFICES ASSUME NEW w \in Workers, pc[w] = "done"
               PROVE  /\ child[w] = "none" /\ work[Plan[w].dir] # w /\ Plan[w].job \notin config
                      /\ networks \cap {service_network_name(w)} \subseteq kept
                      /\ {c \in containers : c[1] = Plan[w].job} \subseteq kept
    BY DEF CleanedUp, Done
  <2> DEFINE pl == Plan[w]
  <2>1. HoldsIs(w, pl, "done", svc[w], child[w], work[pl.dir], config, networks, containers, kept)
    BY <1>1, Known
  <2>2. service_network_name(w) = <<pl.job, "net">>
    BY DEF service_network_name
  <2> HIDE DEF pl
  <2>3. /\ child[w] = "none" /\ work[pl.dir] # w /\ pl.job \notin config
        /\ networks \cap {service_network_name(w)} \subseteq kept
        /\ {c \in containers : c[1] = pl.job} \subseteq kept
    BY <2>1, <2>2 DEF HoldsIs, Watching, Serving
  <2> QED BY <2>3 DEF pl
<1>2. ASSUME JobInv PROVE Isolated
  <2> SUFFICES ASSUME NEW w \in Workers, pc[w] \in Stepping
               PROVE  /\ Plan[w].repo => work[Plan[w].dir] = w
                      /\ Services(w) # <<>> => service_network_name(w) \in networks
                      /\ \A i \in DOMAIN Services(w) : container_name(w, i) \in containers
    BY DEF Isolated, InSteps, Stepping, Taking
  <2> DEFINE pl == Plan[w]
  <2>1. HoldsIs(w, pl, pc[w], svc[w], child[w], work[pl.dir], config, networks, containers, kept)
    BY <1>2, Known
  <2>2. /\ service_network_name(w) = <<pl.job, "net">> /\ Services(w) = pl.services
        /\ \A i : container_name(w, i) = <<pl.job, ToString(i)>>
    BY DEF service_network_name, container_name, Services
  <2> HIDE DEF pl
  <2>3. /\ pl.repo => work[pl.dir] = w
        /\ pl.services # <<>> => <<pl.job, "net">> \in networks
        /\ \A i \in DOMAIN pl.services : <<pl.job, ToString(i)>> \in containers
    BY <2>1 DEF HoldsIs
  <2> QED BY <2>2, <2>3 DEF pl
<1>3. PartInv => JobsLeaveNothing
  BY <1>1, <1>2 DEF PartInv, JobsLeaveNothing
<1> QED BY <1>3, PartInvHolds, PTL

\* A job stops at the step that ended it, nothing is saved of a job that did not
\* succeed, and the result that is sent is what the steps say.
THEOREM ResultsTruthful == FairSpec => []JobResultsHold
<1>0. ASSUME JobInv, NEW w \in Workers
      PROVE  /\ Len(Steps(w)) \in Nat
             /\ \E k \in 0..(Len(Steps(w)) + 1), v \in {"none", "failure", "cancelled"} :
                  /\ TakenUntil(Steps(w), statuses[w], k, v)
                  /\ v = "failure" => ~Steps(w)[k].continue_on_error
  <2> DEFINE sq == Steps(w)
  <2>1. ResultIs(sq, pc[w], at[w], statuses[w], failed_step[w], conclusion[w], signal[w])
    BY <1>0 DEF JobInv, Result
  <2>2. pc[w] \in JobPcs /\ Len(sq) \in Nat
    BY <1>0, Known, PlanFacts DEF TypeIs
  <2> HIDE DEF sq
  <2>3. 0 \in 0..(Len(sq) + 1) /\ Len(sq) + 1 \in 0..(Len(sq) + 1)
    BY <2>2
  <2>4. \A k \in 1..Len(sq) : k \in 0..(Len(sq) + 1)
    BY <2>2
  <2>5. \A k \in 0..Len(sq) : k \in 0..(Len(sq) + 1)
    BY <2>2
  <2>6. \A k \in 1..(Len(sq) + 1) : k \in 0..(Len(sq) + 1)
    BY <2>2
  <2>7. CASE pc[w] \in Before
    BY <2>1, <2>2, <2>3, <2>7 DEF ResultIs, sq
  <2>8. CASE pc[w] \in Taking
    BY <2>1, <2>2, <2>6, <2>8 DEF ResultIs, sq
  <2>9. CASE pc[w] = "end"
    BY <2>1, <2>2, <2>4, <2>9 DEF ResultIs, EndedBy, sq
  <2>10. CASE pc[w] \in Closing
    BY <2>1, <2>2, <2>3, <2>4, <2>5, <2>10 DEF ResultIs, EndedBy, sq
  <2> QED BY <2>2, <2>7, <2>8, <2>9, <2>10 DEF JobPcs
<1>1. ASSUME JobInv PROVE StopsThere
  <2>1. \A s \in saved : conclusion[s[1]] = "success"
    BY <1>1 DEF JobInv, SavesAfterSuccess
  <2>2. ASSUME NEW w \in Workers, NEW i \in 1..Len(Steps(w)), NEW j \in 1..Len(Steps(w)), i < j
        PROVE  /\ statuses[w][j] # "none" => statuses[w][i] # "none"
               /\ statuses[w][i] = "cancelled" => statuses[w][j] = "none"
               /\ statuses[w][i] = "failure" /\ ~Steps(w)[i].continue_on_error => statuses[w][j] = "none"
    <3> DEFINE sq == Steps(w)  st == statuses[w]
    <3>1. Len(sq) \in Nat
      BY <1>0, <1>1
    <3>2. PICK k \in 0..(Len(sq) + 1), v \in {"none", "failure", "cancelled"} :
            TakenUntil(sq, st, k, v) /\ (v = "failure" => ~sq[k].continue_on_error)
      BY <1>0, <1>1
    <3>3. i \in 1..Len(sq) /\ j \in 1..Len(sq)
      OBVIOUS
    <3> HIDE DEF sq, st
    <3>4. CASE i < k
      <4>1. Passed(sq[i], st[i])
        BY <3>2, <3>3, <3>4 DEF TakenUntil
      <4> QED BY <4>1 DEF Passed, sq, st
    <3>5. CASE ~(i < k)
      <4>1. j > k
        BY <2>2, <3>1, <3>3, <3>5
      <4>2. st[j] = "none"
        BY <3>2, <3>3, <4>1 DEF TakenUntil
      <4> QED BY <4>2 DEF st
    <3> QED BY <3>4, <3>5
  <2> QED BY <2>1, <2>2 DEF StopsThere
<1>2. ASSUME JobInv PROVE ResultTruthful
  <2> SUFFICES ASSUME NEW w \in Workers, pc[w] = "done"
      PROVE CASE conclusion[w] = "success" ->
                \A i \in 1..Len(Steps(w)) :
                    \/ statuses[w][i] \in {"success", "skipped"}
                    \/ statuses[w][i] = "failure" /\ Steps(w)[i].continue_on_error
              [] conclusion[w] = "failure" ->
                \/ \A i \in 1..Len(Steps(w)) : statuses[w][i] = "none"
                \/ failed_step[w] # 0 /\ statuses[w][failed_step[w]] = "failure"
              [] OTHER -> signal[w]
    BY DEF ResultTruthful, Done
  <2> DEFINE sq == Steps(w)  st == statuses[w]
  <2>1. ResultIs(sq, "done", at[w], st, failed_step[w], conclusion[w], signal[w])
    BY <1>2 DEF JobInv, Result
  <2>2. Len(sq) \in Nat
    BY <1>0, <1>2
  <2>3. \/ conclusion[w] = "success" /\ TakenUntil(sq, st, Len(sq) + 1, "none")
        \/ conclusion[w] = "failure" /\ (TakenUntil(sq, st, 0, "none") \/ EndedBy(sq, st, failed_step[w]))
        \/ conclusion[w] = "cancelled" /\ signal[w]
    BY <2>1 DEF ResultIs, Closing
  <2>4. ASSUME conclusion[w] = "success", NEW i \in 1..Len(sq) PROVE Passed(sq[i], st[i])
    <3>1. TakenUntil(sq, st, Len(sq) + 1, "none")
      BY <2>3, <2>4
    <3>2. i < Len(sq) + 1
      BY <2>2
    <3> HIDE DEF sq, st
    <3> QED BY <3>1, <3>2 DEF TakenUntil
  <2>5. ASSUME TakenUntil(sq, st, 0, "none"), NEW i \in 1..Len(sq) PROVE st[i] = "none"
    <3>1. i > 0
      BY <2>2
    <3> HIDE DEF sq, st
    <3> QED BY <2>5, <3>1 DEF TakenUntil
  <2>6. ASSUME EndedBy(sq, st, failed_step[w]) PROVE failed_step[w] # 0 /\ st[failed_step[w]] = "failure"
    <3> HIDE DEF sq, st
    <3> QED BY <2>2, <2>6 DEF EndedBy, TakenUntil
  <2> QED BY <2>3, <2>4, <2>5, <2>6 DEF Passed
<1>3. PartInv => JobResultsHold
  BY <1>1, <1>2 DEF PartInv, JobResultsHold
<1> QED BY <1>3, PartInvHolds, PTL

=============================================================================
