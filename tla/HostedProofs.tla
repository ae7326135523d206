----------------------------- MODULE HostedProofs -----------------------------
(***************************************************************************)
(* Proofs about the components that a control plane commands, for any      *)
(* commands, names, faults and limits: what is left of a compose project   *)
(* when its handlers fail and overlap; what the CI cache restores and how  *)
(* much it holds; the files, clones and secrets of apps and services and   *)
(* when they may go; what a backup writes and what a restore leaves; and   *)
(* the agent's own binary, environment, tokens and keys.                   *)
(***************************************************************************)
EXTENDS MCHosted, DataInduction, TLAPS

----------------------------------------------------------------------------
(* Compose projects: the inductive invariant.                              *)

DirType == [compose : Nat, extra : Nat]
CoPcs == {"idle", "unback", "copy", "copymore", "validate", "write", "extra", "up", "unlink", "rename",
          "force", "forcemore", "rmdir"}
Verdicts == {"started", "failed", "stopped"}
CoOps == {"none", "nothing", "content", "restore", "start", "down", "down -v"} \cup Verdicts
CmdType == [project : Projects \cup {0}, op : CoOps, v : Nat, alone : BOOLEAN]

ComposeType ==
  /\ dir \in [Projects -> DirType] /\ bak \in [Projects -> DirType] /\ last \in [Projects -> DirType]
  /\ running \in [Projects -> Nat] /\ failed \in [Projects -> Nat] /\ sent \in Nat
  /\ coPc \in [Tasks -> CoPcs] /\ cmd \in [Tasks -> CmdType] /\ coSaid \in CmdType
  /\ \A t \in Tasks : coPc[t] # "idle" => P(t) \in Projects
  /\ coSaid.op = "stopped" => coSaid.project \in Projects

\* Where the last good deployment of a project is while its only handler is at
\* work and none failed since: in the directory until it is backed up or if it
\* is started again, in the backup while the directory is rewritten.
SafeAt(t, p) ==
  /\ coPc[t] \in {"unback", "copy", "copymore"} => dir[p] = last[p]
  /\ coPc[t] = "copy" => bak[p] = NoDir
  /\ coPc[t] = "copymore" => bak[p] = [compose |-> dir[p].compose, extra |-> 0]
  /\ coPc[t] \in {"validate", "write", "extra", "unlink", "rename"} => bak[p] = last[p]
  /\ last[p] \in {dir[p], bak[p]}
WayKept(p) ==
  DirExists(last[p]) =>
    /\ Handlers(p) = {} /\ failed[p] \in {0, 1} => last[p] \in {dir[p], bak[p]}
    /\ Handlers(p) = {} /\ failed[p] = 0 => dir[p] = last[p]
    /\ \A t \in Tasks : Handlers(p) = {t} /\ failed[p] = 0 => SafeAt(t, p)

\* A handler that had no other beside it is the only one, and when it comes to
\* remove the directory nothing runs.
AloneIs ==
  \A t \in Tasks : coPc[t] # "idle" /\ cmd[t].alone =>
    /\ Handlers(P(t)) = {t}
    /\ coPc[t] \in {"forcemore", "rmdir"} => running[P(t)] = 0

ComposeInv == ComposeType /\ (\A p \in Projects : WayKept(p)) /\ AloneIs /\ StoppedIsGone

----------------------------------------------------------------------------
(* Compose projects: the kinds of step.                                    *)

\* A step of handler t leaves every other project as it is.
Elsewhere(p) ==
  \A q \in Projects \ {p} :
    /\ dir'[q] = dir[q] /\ bak'[q] = bak[q] /\ running'[q] = running[q]
    /\ last'[q] = last[q] /\ failed'[q] = failed[q]

\* The handlers at work after a step of handler t that stays in its command.
LEMMA HandlersAfter ==
  ASSUME ComposeType, NEW t \in Tasks, coPc[t] # "idle", NEW l \in CoPcs, CoGo(t, l), UNCHANGED cmd
  PROVE  /\ \A u \in Tasks : coPc'[u] = IF u = t THEN l ELSE coPc[u]
         /\ P(t) \in Projects /\ t \in Handlers(P(t))
         /\ \A q : q # P(t) => Handlers(q)' = Handlers(q)
         /\ l # "idle" => Handlers(P(t))' = Handlers(P(t))
         /\ l = "idle" => Handlers(P(t))' = Handlers(P(t)) \ {t}
         /\ \A u \in Tasks : P(u)' = P(u)
<1>1. \A u \in Tasks : coPc'[u] = IF u = t THEN l ELSE coPc[u]
  BY DEF ComposeType, CoGo
<1>2. P(t) \in Projects /\ t \in Handlers(P(t)) /\ \A u \in Tasks : P(u)' = P(u)
  BY DEF ComposeType, Handlers, P
<1>3. ASSUME NEW q, q # P(t) PROVE Handlers(q)' = Handlers(q)
  BY <1>1, <1>2, <1>3 DEF Handlers
<1>4. P(t)' = P(t)
  BY <1>2
<1>5. ASSUME l # "idle" PROVE {u \in Tasks : coPc'[u] # "idle" /\ P(u)' = P(t)} = Handlers(P(t))
  BY <1>1, <1>2, <1>5 DEF Handlers
<1>6. ASSUME l = "idle" PROVE {u \in Tasks : coPc'[u] # "idle" /\ P(u)' = P(t)} = Handlers(P(t)) \ {t}
  BY <1>1, <1>2, <1>6 DEF Handlers
<1>7. Handlers(P(t))' = {u \in Tasks : coPc'[u] # "idle" /\ P(u)' = P(t)}
  BY <1>4 DEF Handlers
<1> QED BY <1>1, <1>2, <1>3, <1>5, <1>6, <1>7

\* A project that the step leaves alone keeps its way back.
LEMMA WayKeptElsewhere ==
  ASSUME NEW q \in Projects, WayKept(q), Handlers(q)' = Handlers(q),
         dir'[q] = dir[q], bak'[q] = bak[q], last'[q] = last[q], failed'[q] = failed[q],
         \A u \in Handlers(q) : coPc'[u] = coPc[u]
  PROVE  WayKept(q)'
<1>1. ASSUME NEW u \in Tasks, Handlers(q) = {u}, SafeAt(u, q) PROVE SafeAt(u, q)'
  BY <1>1 DEF SafeAt
<1> QED BY <1>1 DEF WayKept, DirExists

\* A handler goes on to its next place.
LEMMA StepInPlace ==
  ASSUME ComposeInv, NEW t \in Tasks, coPc[t] # "idle", NEW l \in CoPcs \ {"idle"}, CoGo(t, l),
         UNCHANGED <<cmd, last, failed, coSaid, sent>>,
         dir' \in [Projects -> DirType], bak' \in [Projects -> DirType], running' \in [Projects -> Nat],
         Elsewhere(P(t)),
         DirExists(last[P(t)]) /\ SafeAt(t, P(t)) => SafeAt(t, P(t))',
         l \in {"forcemore", "rmdir"} /\ cmd[t].alone => running'[P(t)] = 0
  PROVE  ComposeInv'
<1> DEFINE p == P(t)
<1>1. /\ \A u \in Tasks : coPc'[u] = IF u = t THEN l ELSE coPc[u]
      /\ p \in Projects /\ t \in Handlers(p)
      /\ \A q : q # p => Handlers(q)' = Handlers(q)
      /\ Handlers(p)' = Handlers(p) /\ \A u \in Tasks : P(u)' = P(u)
  BY HandlersAfter DEF ComposeInv
<1>2. \A q : {u \in Tasks : coPc'[u] # "idle" /\ P(u)' = q} = Handlers(q)
  BY <1>1 DEF Handlers
<1>3. ComposeType'
  BY <1>1 DEF ComposeInv, ComposeType, CoGo
<1>4. ASSUME NEW q \in Projects PROVE WayKept(q)'
  <2>1. CASE q # p
    <3>1. \A u \in Handlers(q) : coPc'[u] = coPc[u]
      BY <1>1, <2>1 DEF Handlers
    <3> QED BY <1>1, <2>1, <3>1, WayKeptElsewhere DEF ComposeInv, Elsewhere
  <2>2. CASE q = p
    <3>1. SafeAt(t, p)' => SafeAt(t, q)'
      BY <1>1, <2>2 DEF SafeAt
    <3>2. WayKept(p) /\ last' = last /\ failed' = failed
      BY <1>1 DEF ComposeInv
    <3>3. ASSUME DirExists(last[p]), NEW u \in Tasks, Handlers(p) = {u}, failed[p] = 0 PROVE SafeAt(u, q)'
      <4>1. u = t
        BY <1>1, <3>3
      <4> QED BY <3>1, <3>2, <3>3, <4>1 DEF WayKept
    <3>4. Handlers(q)' = Handlers(q)
      BY <1>2 DEF Handlers
    <3> QED BY <1>1, <2>2, <3>2, <3>3, <3>4 DEF WayKept, DirExists
  <2> QED BY <2>1, <2>2
<1>5. AloneIs'
  <2> SUFFICES ASSUME NEW u \in Tasks, coPc'[u] # "idle", cmd[u].alone
               PROVE  /\ Handlers(P(u)) = {u}
                      /\ coPc'[u] \in {"forcemore", "rmdir"} => running'[P(u)] = 0
    BY <1>1, <1>2 DEF AloneIs, Handlers
  <2>1. Handlers(P(u)) = {u} /\ coPc[u] # "idle" /\ P(u) \in Projects
    BY <1>1 DEF ComposeInv, AloneIs, ComposeType
  <2>2. CASE u = t
    BY <1>1, <2>1, <2>2
  <2>3. CASE u # t
    <3>1. P(u) # p
      BY <1>1, <2>1, <2>3
    <3> QED BY <1>1, <2>1, <2>3, <3>1 DEF ComposeInv, AloneIs, Elsewhere
  <2> QED BY <2>2, <2>3
<1>6. StoppedIsGone'
  <2> SUFFICES ASSUME coSaid.op = "stopped", coSaid.alone, Handlers(coSaid.project) = {}
               PROVE  running'[coSaid.project] = 0 /\ ~DirExists(dir'[coSaid.project])
    BY <1>2 DEF StoppedIsGone, DirExists, Handlers
  <2>1. coSaid.project \in Projects /\ coSaid.project # p
    BY <1>1 DEF ComposeInv, ComposeType
  <2> QED BY <2>1 DEF ComposeInv, StoppedIsGone, Elsewhere, DirExists
<1> QED BY <1>3, <1>4, <1>5, <1>6 DEF ComposeInv

\* What every end of a handler keeps: types, the other projects, and that the
\* handlers left were not alone or are those of other projects.
LEMMA EndKeeps ==
  ASSUME ComposeInv, NEW t \in Tasks, coPc[t] # "idle", NEW verdict \in Verdicts, Report(t, verdict),
         UNCHANGED <<cmd, sent>>,
         dir' \in [Projects -> DirType], bak' \in [Projects -> DirType], running' \in [Projects -> Nat],
         last' \in [Projects -> DirType], failed' \in [Projects -> Nat], Elsewhere(P(t)),
         cmd[t].alone /\ verdict = "stopped" => running'[P(t)] = 0 /\ dir'[P(t)] = NoDir
  PROVE  /\ ComposeType' /\ AloneIs' /\ StoppedIsGone'
         /\ P(t) \in Projects /\ Handlers(P(t))' = Handlers(P(t)) \ {t} /\ t \in Handlers(P(t))
         /\ \A q \in Projects \ {P(t)} : WayKept(q)'
         /\ \A q : Handlers(q)' = Handlers(q) \ {t}
<1> DEFINE p == P(t)
<1>0. "idle" \in CoPcs /\ CoGo(t, "idle") /\ ComposeType
  BY DEF CoPcs, Report, ComposeInv
<1>1. /\ \A u \in Tasks : coPc'[u] = IF u = t THEN "idle" ELSE coPc[u]
      /\ p \in Projects /\ t \in Handlers(p)
      /\ \A q : q # p => Handlers(q)' = Handlers(q)
      /\ Handlers(p)' = Handlers(p) \ {t} /\ \A u \in Tasks : P(u)' = P(u)
  BY <1>0, HandlersAfter
<1>2. \A q : {u \in Tasks : coPc'[u] # "idle" /\ P(u)' = q} = Handlers(q) \ {t}
  BY <1>1 DEF Handlers
<1>3. \A q : Handlers(q)' = Handlers(q) \ {t}
  BY <1>2 DEF Handlers
<1>4. coSaid' = [cmd[t] EXCEPT !.op = verdict] /\ cmd[t] \in CmdType
  BY <1>0 DEF Report, ComposeType
<1>5. coSaid' \in CmdType /\ coSaid'.project = p /\ coSaid'.op = verdict /\ coSaid'.alone = cmd[t].alone
  BY <1>4 DEF CmdType, CoOps, P
<1>6. ComposeType'
  <2>1. coPc' \in [Tasks -> CoPcs]
    BY <1>0 DEF ComposeType, CoGo
  <2>2. \A u \in Tasks : coPc'[u] # "idle" => P(u)' \in Projects
    BY <1>0, <1>1 DEF ComposeType
  <2> QED BY <1>0, <1>1, <1>5, <2>1, <2>2 DEF ComposeType
<1>7. ASSUME NEW q \in Projects \ {p} PROVE WayKept(q)'
  <2>1. \A u \in Handlers(q) : coPc'[u] = coPc[u]
    BY <1>1 DEF Handlers
  <2> QED BY <1>1, <2>1, WayKeptElsewhere DEF ComposeInv, Elsewhere
<1>8. AloneIs'
  <2> SUFFICES ASSUME NEW u \in Tasks, coPc'[u] # "idle", cmd[u].alone
               PROVE  /\ Handlers(P(u)) \ {t} = {u}
                      /\ coPc'[u] \in {"forcemore", "rmdir"} => running'[P(u)] = 0
    BY <1>1, <1>2 DEF AloneIs, Handlers
  <2>1. u # t /\ coPc'[u] = coPc[u] /\ P(u) \in Projects
    BY <1>0, <1>1 DEF ComposeType
  <2>2. Handlers(P(u)) = {u}
    BY <2>1 DEF ComposeInv, AloneIs
  <2>3. P(u) # p
    BY <1>1, <2>1, <2>2
  <2> QED BY <2>1, <2>2, <2>3 DEF ComposeInv, AloneIs, Elsewhere
<1>9. StoppedIsGone'
  BY <1>5 DEF StoppedIsGone, DirExists
<1> QED BY <1>1, <1>3, <1>6, <1>7, <1>8, <1>9

\* The way back of the project itself when nobody else is at work on it.
LEMMA WayKeptAtEnd ==
  ASSUME NEW p \in Projects, DirExists(last'[p]) => last'[p] \in {dir'[p], bak'[p]},
         DirExists(last'[p]) => failed'[p] # 0 \/ (Handlers(p)' = {} /\ dir'[p] = last'[p])
  PROVE  WayKept(p)'
BY DEF WayKept, DirExists

\* A handler fails, or is interrupted.
LEMMA StepFails ==
  ASSUME ComposeInv, NEW t \in Tasks, coPc[t] # "idle", Failed(t), UNCHANGED <<cmd, sent>>,
         dir' \in [Projects -> DirType], bak' \in [Projects -> DirType], running' \in [Projects -> Nat],
         \A q \in Projects \ {P(t)} : dir'[q] = dir[q] /\ bak'[q] = bak[q] /\ running'[q] = running[q],
         DirExists(last[P(t)]) /\ SafeAt(t, P(t)) => last[P(t)] \in {dir'[P(t)], bak'[P(t)]}
  PROVE  ComposeInv'
<1> DEFINE p == P(t)
<1>1. p \in Projects /\ failed \in [Projects -> Nat] /\ last \in [Projects -> DirType]
  BY DEF ComposeInv, ComposeType
<1>2. /\ last' = last /\ failed' = [failed EXCEPT ![p] = @ + 1] /\ Report(t, "failed")
      /\ failed'[p] = failed[p] + 1 /\ failed' \in [Projects -> Nat]
  BY <1>1 DEF Failed
<1>3. Elsewhere(p)
  BY <1>1, <1>2 DEF Elsewhere
<1>4. /\ ComposeType' /\ AloneIs' /\ StoppedIsGone'
      /\ Handlers(p)' = Handlers(p) \ {t} /\ t \in Handlers(p)
      /\ \A q \in Projects \ {p} : WayKept(q)'
      /\ \A q : Handlers(q)' = Handlers(q) \ {t}
  BY <1>1, <1>2, <1>3, EndKeeps DEF Verdicts
<1>5. WayKept(p) /\ failed[p] \in Nat
  BY <1>1 DEF ComposeInv
<1>6. ASSUME NEW q \in Projects PROVE WayKept(q)'
  <2>1. CASE q = p
    <3>1. Handlers(q)' = Handlers(p) \ {t} /\ failed'[q] = failed[p] + 1 /\ last'[q] = last[p]
      BY <1>2, <1>4, <2>1
    <3>2. ASSUME DirExists(last[p]), failed'[q] \in {0, 1}, Handlers(q)' = {}
          PROVE  last[p] \in {dir'[p], bak'[p]}
      <4>1. failed[p] = 0 /\ Handlers(p) = {t}
        BY <1>4, <1>5, <3>1, <3>2
      <4> QED BY <1>5, <3>2, <4>1 DEF WayKept
    <3>3. failed'[q] # 0
      BY <1>5, <3>1
    <3> QED BY <2>1, <3>1, <3>2, <3>3 DEF WayKept, DirExists
  <2> QED BY <1>4, <2>1
<1> QED BY <1>4, <1>6 DEF ComposeInv

\* A deployment is started.
LEMMA StepCompletes ==
  ASSUME ComposeInv, NEW t \in Tasks, coPc[t] # "idle", Completed(t), UNCHANGED <<cmd, sent, dir, bak>>,
         running' \in [Projects -> Nat], \A q \in Projects \ {P(t)} : running'[q] = running[q]
  PROVE  ComposeInv'
<1> DEFINE p == P(t)
           H == Handlers(p) \ {t}
<1>1. p \in Projects /\ failed \in [Projects -> Nat] /\ last \in [Projects -> DirType]
      /\ dir \in [Projects -> DirType] /\ bak \in [Projects -> DirType]
  BY DEF ComposeInv, ComposeType
<1>2. IsFiniteSet(H) /\ Cardinality(H) \in Nat /\ (Cardinality(H) = 0 => H = {})
  <2>1. H \subseteq Tasks
    BY DEF Handlers
  <2>2. IsFiniteSet(H)
    BY <2>1, ComposeAssumption, FS_Subset
  <2> QED BY <2>2, FS_CardinalityType, FS_EmptySet
<1>3. /\ last' = [last EXCEPT ![p] = dir[p]] /\ failed' = [failed EXCEPT ![p] = Cardinality(H)]
      /\ Report(t, "started")
  BY DEF Completed
<1>4. /\ last'[p] = dir[p] /\ failed'[p] = Cardinality(H) /\ failed' \in [Projects -> Nat]
      /\ last' \in [Projects -> DirType]
      /\ \A q \in Projects \ {p} : last'[q] = last[q] /\ failed'[q] = failed[q]
  <2> HIDE DEF H, p
  <2> QED BY <1>1, <1>2, <1>3
<1>5. Elsewhere(p)
  BY <1>4 DEF Elsewhere
<1>6. /\ ComposeType' /\ AloneIs' /\ StoppedIsGone' /\ Handlers(p)' = H
      /\ \A q \in Projects \ {p} : WayKept(q)'
      /\ \A q : Handlers(q)' = Handlers(q) \ {t}
  BY <1>1, <1>3, <1>4, <1>5, EndKeeps DEF Verdicts
<1>7. ASSUME NEW q \in Projects PROVE WayKept(q)'
  <2>1. CASE q = p
    <3>1. Handlers(q)' = H
      BY <1>6, <2>1
    <3>2. last'[q] = dir'[q] /\ failed'[q] = Cardinality(H)
      BY <1>4, <2>1
    <3> HIDE DEF H
    <3> QED BY <1>2, <3>1, <3>2, WayKeptAtEnd
  <2> QED BY <1>6, <2>1
<1> QED BY <1>6, <1>7 DEF ComposeInv

\* The directory of a stopped project is removed.
LEMMA StepCeases ==
  ASSUME ComposeInv, NEW t \in Tasks, cleanup_deployment_dir(t)
  PROVE  ComposeInv'
<1> DEFINE p == P(t)
<1>1. p \in Projects /\ failed \in [Projects -> Nat] /\ last \in [Projects -> DirType]
      /\ dir \in [Projects -> DirType] /\ bak \in [Projects -> DirType] /\ running \in [Projects -> Nat]
      /\ NoDir \in DirType /\ coPc[t] # "idle"
  BY DEF ComposeInv, ComposeType, cleanup_deployment_dir, NoDir, DirType
<1>2. /\ last' = [last EXCEPT ![p] = NoDir] /\ failed' = [failed EXCEPT ![p] = 0]
      /\ dir' = [dir EXCEPT ![p] = NoDir] /\ UNCHANGED <<bak, running, cmd, sent>>
      /\ Report(t, "stopped")
  BY DEF cleanup_deployment_dir, Ceased
<1>3. /\ dir' \in [Projects -> DirType] /\ last' \in [Projects -> DirType] /\ failed' \in [Projects -> Nat]
      /\ last'[p] = NoDir /\ dir'[p] = NoDir /\ Elsewhere(p)
  BY <1>1, <1>2 DEF Elsewhere
<1>4. cmd[t].alone => running'[p] = 0
  BY <1>2 DEF ComposeInv, AloneIs, cleanup_deployment_dir
<1>5. /\ ComposeType' /\ AloneIs' /\ StoppedIsGone'
      /\ \A q \in Projects \ {p} : WayKept(q)'
      /\ \A q : Handlers(q)' = Handlers(q) \ {t}
  BY <1>1, <1>2, <1>3, <1>4, EndKeeps DEF Verdicts
<1>6. ASSUME NEW q \in Projects PROVE WayKept(q)'
  BY <1>3, <1>5 DEF WayKept, DirExists
<1> QED BY <1>5, <1>6 DEF ComposeInv

\* A handler begins.
LEMMA StepBegins ==
  ASSUME ComposeInv, NEW t \in Tasks, NEW p \in Projects, NEW op \in CoOps, NEW v \in Nat,
         coPc[t] = "idle", Begin(t, p, op, v), NEW l \in CoPcs \ {"idle"}, CoGo(t, l),
         UNCHANGED <<dir, bak, failed, coSaid>>, sent' \in Nat,
         running' \in [Projects -> Nat], last' \in [Projects -> DirType], Elsewhere(p),
         Handlers(p) = {} /\ failed[p] = 0 /\ DirExists(last'[p]) => SafeAt(t, p)',
         l \in {"forcemore", "rmdir"} => running'[p] = 0
  PROVE  ComposeInv'
<1> DEFINE al == Handlers(p) = {}
<1>1. coPc \in [Tasks -> CoPcs] /\ cmd \in [Tasks -> CmdType] /\ \A u \in Tasks : coPc[u] # "idle" => P(u) \in Projects
  BY DEF ComposeInv, ComposeType
<1>2. coPc' \in [Tasks -> CoPcs] /\ \A u \in Tasks : coPc'[u] = IF u = t THEN l ELSE coPc[u]
  BY <1>1 DEF CoGo
<1>3. \A u \in Tasks : cmd'[u] = IF u = t THEN [project |-> p, op |-> op, v |-> v, alone |-> al]
                                ELSE IF u \in Handlers(p) THEN [cmd[u] EXCEPT !.alone = FALSE] ELSE cmd[u]
  BY DEF Begin
<1>4. \A u \in Tasks : /\ cmd'[u] \in CmdType /\ cmd'[u].project = (IF u = t THEN p ELSE P(u))
                       /\ cmd'[u].alone = IF u = t THEN al ELSE (u \notin Handlers(p) /\ cmd[u].alone)
  <2> SUFFICES ASSUME NEW u \in Tasks
               PROVE  /\ cmd'[u] \in CmdType /\ cmd'[u].project = (IF u = t THEN p ELSE P(u))
                      /\ cmd'[u].alone = IF u = t THEN al ELSE (u \notin Handlers(p) /\ cmd[u].alone)
    OBVIOUS
  <2>1. al \in BOOLEAN
    OBVIOUS
  <2> HIDE DEF al
  <2>2. CASE u = t
    <3>1. cmd'[u] = [project |-> p, op |-> op, v |-> v, alone |-> al]
      BY <1>3, <2>2
    <3>2. cmd'[u] \in CmdType
      BY <2>1, <3>1 DEF CmdType
    <3>3. cmd'[u].project = p /\ cmd'[u].alone = al
      BY <3>1
    <3> QED BY <2>2, <3>2, <3>3
  <2>3. CASE u # t /\ u \in Handlers(p)
    <3>1. cmd[u] \in CmdType /\ cmd'[u] = [cmd[u] EXCEPT !.alone = FALSE]
      BY <1>1, <1>3, <2>3
    <3> QED BY <2>3, <3>1 DEF CmdType, P
  <2>4. CASE u # t /\ u \notin Handlers(p)
    <3>1. cmd[u] \in CmdType /\ cmd'[u] = cmd[u]
      BY <1>1, <1>3, <2>4
    <3>2. cmd[u].alone \in BOOLEAN
      BY <3>1 DEF CmdType
    <3> QED BY <2>4, <3>1, <3>2 DEF P
  <2> QED BY <2>2, <2>3, <2>4
<1>5. cmd' \in [Tasks -> CmdType]
  BY <1>4 DEF Begin
<1>6. \A q : Handlers(q)' = IF q = p THEN Handlers(p) \cup {t} ELSE Handlers(q)
  <2>1. \A u \in Tasks : P(u)' = IF u = t THEN p ELSE P(u)
    BY <1>4 DEF P
  <2>2. t \notin Handlers(p)
    BY DEF Handlers
  <2> QED BY <1>2, <2>1, <2>2 DEF Handlers
<1>7. ComposeType'
  <2>1. \A u \in Tasks : coPc'[u] # "idle" => P(u)' \in Projects
    BY <1>1, <1>2, <1>4 DEF P
  <2> QED BY <1>2, <1>5, <2>1 DEF ComposeInv, ComposeType
<1>8. t \notin Handlers(p) /\ \A q : t \notin Handlers(q)
  BY DEF Handlers
<1>9. ASSUME NEW q \in Projects PROVE WayKept(q)'
  <2>1. CASE q # p
    <3>1. \A u \in Handlers(q) : coPc'[u] = coPc[u]
      BY <1>2, <1>8 DEF Handlers
    <3> QED BY <1>6, <2>1, <3>1, WayKeptElsewhere DEF ComposeInv, Elsewhere
  <2>2. CASE q = p
    <3>1. ASSUME NEW u \in Tasks, Handlers(p)' = {u}, failed[p] = 0, DirExists(last'[p]) PROVE SafeAt(u, p)'
      <4>1. u = t /\ Handlers(p) = {}
        BY <1>6, <1>8, <3>1
      <4> QED BY <3>1, <4>1
    <3>2. Handlers(p)' # {}
      BY <1>6
    <3> QED BY <2>2, <3>1, <3>2 DEF WayKept, DirExists
  <2> QED BY <2>1, <2>2
<1>10. AloneIs'
  <2> SUFFICES ASSUME NEW u \in Tasks, coPc'[u] # "idle", cmd'[u].alone
               PROVE  Handlers(P(u))' = {u} /\ (coPc'[u] \in {"forcemore", "rmdir"} => running'[P(u)'] = 0)
    BY DEF AloneIs
  <2>1. CASE u = t
    <3>1. P(u)' = p /\ Handlers(p) = {} /\ Handlers(p)' = {t}
      BY <1>4, <1>6, <2>1 DEF P
    <3>2. Handlers(P(u))' = {t}
      BY <1>6, <3>1 DEF Handlers
    <3> QED BY <1>2, <2>1, <3>1, <3>2
  <2>2. CASE u # t
    <3>1. /\ u \notin Handlers(p) /\ cmd[u].alone /\ coPc[u] # "idle" /\ coPc'[u] = coPc[u] /\ P(u)' = P(u)
          /\ P(u) \in Projects
      BY <1>1, <1>2, <1>4, <2>2 DEF P
    <3>2. P(u) # p
      BY <3>1 DEF Handlers
    <3>3. Handlers(P(u)) = {u} /\ (coPc[u] \in {"forcemore", "rmdir"} => running[P(u)] = 0)
      BY <3>1 DEF ComposeInv, AloneIs
    <3>4. Handlers(P(u))' = Handlers(P(u))
      BY <1>6, <3>1, <3>2 DEF Handlers
    <3> QED BY <3>1, <3>2, <3>3, <3>4 DEF Elsewhere
  <2> QED BY <2>1, <2>2
<1>11. StoppedIsGone'
  <2>1. Handlers(coSaid.project)' = IF coSaid.project = p THEN Handlers(p) \cup {t} ELSE Handlers(coSaid.project)
    BY <1>6 DEF Handlers
  <2> SUFFICES ASSUME coSaid.op = "stopped", coSaid.alone, Handlers(coSaid.project)' = {}
               PROVE  running'[coSaid.project] = 0 /\ ~DirExists(dir[coSaid.project])
    BY <2>1 DEF StoppedIsGone, DirExists, Handlers
  <2>2. coSaid.project # p /\ Handlers(coSaid.project) = {} /\ coSaid.project \in Projects
    BY <2>1 DEF ComposeInv, ComposeType
  <2> QED BY <2>2 DEF ComposeInv, StoppedIsGone, Elsewhere
<1> QED BY <1>7, <1>9, <1>10, <1>11 DEF ComposeInv

----------------------------------------------------------------------------
(* Compose projects: one action at a time.                                 *)

\* COMPOSE_UP arrives.
LEMMA UpKeeps ==
  ASSUME ComposeInv, NEW t \in Tasks, NEW p \in Projects, NEW op \in {"content", "restore", "start"},
         handle_compose_up(t, p, op)
  PROVE  ComposeInv'
<1> DEFINE v == IF op = "content" THEN sent + 1 ELSE 0
<1>1. /\ dir \in [Projects -> DirType] /\ bak \in [Projects -> DirType] /\ last \in [Projects -> DirType]
      /\ running \in [Projects -> Nat] /\ sent \in Nat /\ v \in Nat /\ op \in CoOps /\ NoDir \in DirType
      /\ coPc \in [Tasks -> CoPcs]
  <2>1. NoDir \in DirType /\ op \in CoOps
    BY DEF CoOps, DirType, NoDir
  <2>2. ComposeType
    BY DEF ComposeInv
  <2> QED BY <2>1, <2>2 DEF ComposeType
<1>2. coPc[t] = "idle" /\ Begin(t, p, op, v) /\ UNCHANGED <<dir, bak, running>>
  BY DEF handle_compose_up, coHost
<1>3. Handlers(p) = {} /\ failed[p] = 0 /\ DirExists(last[p]) => dir[p] = last[p]
  BY DEF ComposeInv, WayKept
<1> HIDE DEF v
<1>4. CASE op = "content"
  <2> DEFINE l == IF DirExists(dir[p]) THEN "unback" ELSE "validate"
  <2>1. CoGo(t, l) /\ UNCHANGED <<last, failed, coSaid>> /\ sent' \in Nat
    BY <1>1, <1>4 DEF handle_compose_up, book
  <2>2. l \in CoPcs \ {"idle"} /\ coPc'[t] = l
    BY <1>1, <2>1 DEF CoPcs, CoGo
  <2>3. Handlers(p) = {} /\ failed[p] = 0 /\ DirExists(last'[p]) => SafeAt(t, p)'
    BY <1>2, <1>3, <2>1, <2>2 DEF SafeAt, DirExists
  <2>4. Elsewhere(p)
    BY <1>2, <2>1 DEF Elsewhere
  <2>5. l \notin {"forcemore", "rmdir"}
    OBVIOUS
  <2> HIDE DEF l
  <2> QED BY <1>1, <1>2, <2>1, <2>2, <2>3, <2>4, <2>5, StepBegins
<1>5. CASE op = "restore"
  <2>1. /\ CoGo(t, "unlink") /\ UNCHANGED <<sent, failed, coSaid>>
        /\ last' = [last EXCEPT ![p] = IF bak[p] \in good[p] THEN bak[p] ELSE NoDir]
    BY <1>5 DEF handle_compose_up
  <2>2. "unlink" \in CoPcs \ {"idle"} /\ coPc'[t] = "unlink"
    BY <1>1, <2>1 DEF CoPcs, CoGo
  <2>3. last' \in [Projects -> DirType] /\ Elsewhere(p) /\ last'[p] \in {bak[p], NoDir}
    BY <1>1, <1>2, <2>1 DEF Elsewhere
  <2>4. DirExists(last'[p]) => SafeAt(t, p)'
    BY <1>2, <2>2, <2>3 DEF SafeAt, DirExists
  <2> QED BY <1>1, <1>2, <2>1, <2>2, <2>3, <2>4, StepBegins
<1>6. CASE op = "start"
  <2>1. CoGo(t, "up") /\ UNCHANGED <<sent, last, failed, coSaid>>
    BY <1>6 DEF handle_compose_up, book
  <2>2. "up" \in CoPcs \ {"idle"} /\ coPc'[t] = "up"
    BY <1>1, <2>1 DEF CoPcs, CoGo
  <2>3. Handlers(p) = {} /\ failed[p] = 0 /\ DirExists(last'[p]) => SafeAt(t, p)'
    BY <1>2, <1>3, <2>1, <2>2 DEF SafeAt, DirExists
  <2>4. Elsewhere(p)
    BY <1>2, <2>1 DEF Elsewhere
  <2> QED BY <1>1, <1>2, <2>1, <2>2, <2>3, <2>4, StepBegins
<1> QED BY <1>4, <1>5, <1>6

\* COMPOSE_DOWN arrives.
LEMMA DownKeeps ==
  ASSUME ComposeInv, NEW t \in Tasks, NEW p \in Projects, NEW op \in {"down", "down -v"},
         handle_compose_down(t, p, op)
  PROVE  ComposeInv'
<1>1. /\ running \in [Projects -> Nat] /\ last \in [Projects -> DirType] /\ sent \in Nat /\ op \in CoOps /\ 0 \in Nat
      /\ coPc \in [Tasks -> CoPcs]
  BY DEF ComposeInv, ComposeType, CoOps
<1>2. coPc[t] = "idle" /\ Begin(t, p, op, 0) /\ UNCHANGED <<dir, bak, sent, last, failed, coSaid>>
  BY DEF handle_compose_down, book
<1>3. Handlers(p) = {} /\ failed[p] = 0 /\ DirExists(last[p]) => dir[p] = last[p]
  BY DEF ComposeInv, WayKept
<1>4. CASE running' = [running EXCEPT ![p] = 0] /\ CoGo(t, "rmdir")
  <2>1. running' \in [Projects -> Nat] /\ running'[p] = 0 /\ Elsewhere(p)
    BY <1>1, <1>2, <1>4 DEF Elsewhere
  <2>2. "rmdir" \in CoPcs \ {"idle"} /\ coPc'[t] = "rmdir"
    BY <1>1, <1>4 DEF CoPcs, CoGo
  <2>3. Handlers(p) = {} /\ failed[p] = 0 /\ DirExists(last'[p]) => SafeAt(t, p)'
    BY <1>2, <1>3, <2>2 DEF SafeAt, DirExists
  <2> QED BY <1>1, <1>2, <1>4, <2>1, <2>2, <2>3, StepBegins
<1>5. CASE CoGo(t, "force") /\ UNCHANGED running
  <2>1. Elsewhere(p)
    BY <1>2, <1>5 DEF Elsewhere
  <2>2. "force" \in CoPcs \ {"idle"} /\ coPc'[t] = "force"
    BY <1>1, <1>5 DEF CoPcs, CoGo
  <2>3. Handlers(p) = {} /\ failed[p] = 0 /\ DirExists(last'[p]) => SafeAt(t, p)'
    BY <1>2, <1>3, <2>2 DEF SafeAt, DirExists
  <2> QED BY <1>1, <1>2, <1>5, <2>1, <2>2, <2>3, StepBegins
<1> QED BY <1>4, <1>5 DEF handle_compose_down

\* The backup is removed and made, and the new content written.
LEMMA ContentKeeps ==
  ASSUME ComposeInv, NEW t \in Tasks,
         remove_backup(t) \/ copy_dir(t) \/ validate_compose_up_content(t) \/ write_compose_file(t)
  PROVE  ComposeInv'
<1> DEFINE p == P(t)
<1>1. coPc[t] # "idle"
  BY DEF remove_backup, copy_dir, validate_compose_up_content, write_compose_file
<1>2. /\ dir \in [Projects -> DirType] /\ bak \in [Projects -> DirType] /\ last \in [Projects -> DirType]
      /\ running \in [Projects -> Nat] /\ p \in Projects /\ coPc \in [Tasks -> CoPcs] /\ cmd[t].v \in Nat
      /\ NoDir \in DirType /\ NoDir.extra = 0 /\ NoDir.compose = 0
      /\ \A l \in CoPcs : CoGo(t, l) => coPc'[t] = l
  BY <1>1 DEF ComposeInv, ComposeType, CmdType, DirType, NoDir, CoGo
<1>3. UNCHANGED <<running, cmd, sent>>
  BY DEF remove_backup, copy_dir, validate_compose_up_content, write_compose_file, coHost
<1>4. CASE Failed(t) /\ UNCHANGED <<dir, bak>>
  <2>1. SafeAt(t, p) => last[p] \in {dir'[p], bak'[p]}
    BY <1>4 DEF SafeAt
  <2> QED BY <1>1, <1>2, <1>3, <1>4, <2>1, StepFails
<1>5. CASE remove_backup(t)
  <2>1. /\ bak' = [bak EXCEPT ![p] = NoDir] /\ CoGo(t, "copy") /\ UNCHANGED <<dir, last, failed, coSaid>>
        /\ coPc[t] = "unback"
    BY <1>5 DEF remove_backup, book
  <2>2. bak' \in [Projects -> DirType] /\ bak'[p] = NoDir /\ Elsewhere(p) /\ "copy" \in CoPcs \ {"idle"}
    BY <1>2, <1>3, <2>1 DEF Elsewhere, CoPcs
  <2>3. SafeAt(t, p) => SafeAt(t, p)'
    BY <1>2, <1>3, <2>1, <2>2 DEF SafeAt, P
  <2> QED BY <1>1, <1>2, <1>3, <2>1, <2>2, <2>3, StepInPlace
<1>6. CASE copy_dir(t) /\ Copy(t) /\ UNCHANGED book /\ coPc[t] = "copy"
  <2>1. /\ bak' = [bak EXCEPT ![p].compose = dir[p].compose] /\ CoGo(t, "copymore")
        /\ UNCHANGED <<dir, last, failed, coSaid>>
    BY <1>6 DEF copy_dir, Copy, book
  <2>2. bak' \in [Projects -> DirType] /\ Elsewhere(p) /\ "copymore" \in CoPcs \ {"idle"}
        /\ bak'[p] = [compose |-> dir[p].compose, extra |-> bak[p].extra]
    BY <1>2, <1>3, <2>1 DEF Elsewhere, CoPcs, DirType
  <2>3. SafeAt(t, p) => SafeAt(t, p)'
    BY <1>2, <1>3, <1>6, <2>1, <2>2 DEF SafeAt, P
  <2> QED BY <1>1, <1>2, <1>3, <2>1, <2>2, <2>3, StepInPlace
<1>7. CASE copy_dir(t) /\ Copy(t) /\ UNCHANGED book /\ coPc[t] = "copymore"
  <2>1. /\ bak' = [bak EXCEPT ![p].extra = dir[p].extra] /\ CoGo(t, "validate")
        /\ UNCHANGED <<dir, last, failed, coSaid>>
    BY <1>7 DEF copy_dir, Copy, book
  <2>2. bak' \in [Projects -> DirType] /\ Elsewhere(p) /\ "validate" \in CoPcs \ {"idle"}
        /\ bak'[p] = [compose |-> bak[p].compose, extra |-> dir[p].extra]
    BY <1>2, <1>3, <2>1 DEF Elsewhere, CoPcs, DirType
  <2>3. SafeAt(t, p) => bak'[p] = dir[p]
    BY <1>2, <1>7, <2>2 DEF SafeAt, DirType
  <2>4. SafeAt(t, p) => SafeAt(t, p)'
    BY <1>2, <1>3, <1>7, <2>1, <2>2, <2>3 DEF SafeAt, P
  <2> QED BY <1>1, <1>2, <1>3, <2>1, <2>2, <2>4, StepInPlace
<1>8. CASE validate_compose_up_content(t) /\ CoGo(t, "write") /\ UNCHANGED book
  <2>1. UNCHANGED <<dir, bak, last, failed, coSaid>> /\ coPc[t] = "validate" /\ "write" \in CoPcs \ {"idle"}
    BY <1>8 DEF validate_compose_up_content, book, coHost, CoPcs
  <2>2. Elsewhere(p)
    BY <1>3, <2>1 DEF Elsewhere
  <2>3. SafeAt(t, p) => SafeAt(t, p)'
    BY <1>2, <1>3, <1>8, <2>1 DEF SafeAt, P
  <2> QED BY <1>1, <1>2, <1>3, <1>8, <2>1, <2>2, <2>3, StepInPlace
<1>9. CASE write_compose_file(t) /\ Write(t) /\ UNCHANGED book
  <2> DEFINE l == IF coPc[t] = "write" THEN "extra" ELSE "up"
  <2>1. /\ \/ dir' = [dir EXCEPT ![p].compose = cmd[t].v]
           \/ dir' = [dir EXCEPT ![p].extra = cmd[t].v]
        /\ CoGo(t, l) /\ UNCHANGED <<bak, last, failed, coSaid>> /\ coPc[t] \in {"write", "extra"}
    BY <1>9 DEF write_compose_file, Write, book
  <2>2. dir' \in [Projects -> DirType] /\ Elsewhere(p) /\ l \in CoPcs \ {"idle"} /\ l \notin {"forcemore", "rmdir"}
    <3>1. [dir[p] EXCEPT !.compose = cmd[t].v] \in DirType /\ [dir[p] EXCEPT !.extra = cmd[t].v] \in DirType
      BY <1>2 DEF DirType
    <3>2. dir' \in [Projects -> DirType] /\ \A q \in Projects \ {p} : dir'[q] = dir[q]
      BY <1>2, <2>1, <3>1
    <3>3. l \in CoPcs \ {"idle"} /\ l \notin {"forcemore", "rmdir"}
      BY DEF CoPcs
    <3> QED BY <1>3, <2>1, <3>2, <3>3 DEF Elsewhere
  <2>3. SafeAt(t, p) => SafeAt(t, p)'
    BY <1>2, <1>3, <2>1, <2>2 DEF SafeAt, P
  <2> HIDE DEF l
  <2> QED BY <1>1, <1>2, <1>3, <2>1, <2>2, <2>3, StepInPlace
<1>10. copy_dir(t) => \/ Copy(t) /\ UNCHANGED book /\ coPc[t] \in {"copy", "copymore"}
                      \/ Failed(t) /\ UNCHANGED <<dir, bak>>
  BY DEF copy_dir
<1>11. validate_compose_up_content(t) => \/ CoGo(t, "write") /\ UNCHANGED book
                                         \/ Failed(t) /\ UNCHANGED <<dir, bak>>
  BY DEF validate_compose_up_content, coHost
<1>12. write_compose_file(t) => \/ Write(t) /\ UNCHANGED book
                                \/ Failed(t) /\ UNCHANGED <<dir, bak>>
  BY DEF write_compose_file
<1> QED BY <1>4, <1>5, <1>6, <1>7, <1>8, <1>9, <1>10, <1>11, <1>12

\* The backup takes the place of the directory.
LEMMA RestoreKeeps ==
  ASSUME ComposeInv, NEW t \in Tasks, remove_project_dir(t) \/ restore_project_backup(t)
  PROVE  ComposeInv'
<1> DEFINE p == P(t)
<1>1. coPc[t] # "idle"
  BY DEF remove_project_dir, restore_project_backup
<1>2. /\ dir \in [Projects -> DirType] /\ bak \in [Projects -> DirType] /\ last \in [Projects -> DirType]
      /\ running \in [Projects -> Nat] /\ p \in Projects /\ coPc \in [Tasks -> CoPcs] /\ NoDir \in DirType
      /\ \A l \in CoPcs : CoGo(t, l) => coPc'[t] = l
  BY <1>1 DEF ComposeInv, ComposeType, DirType, NoDir, CoGo
<1>3. UNCHANGED <<running, cmd, sent>>
  BY DEF remove_project_dir, restore_project_backup
<1>4. CASE Failed(t) /\ UNCHANGED <<dir, bak>>
  <2>1. SafeAt(t, p) => last[p] \in {dir'[p], bak'[p]}
    BY <1>4 DEF SafeAt
  <2> QED BY <1>1, <1>2, <1>3, <1>4, <2>1, StepFails
<1>5. CASE remove_project_dir(t)
  <2>1. /\ dir' = [dir EXCEPT ![p] = NoDir] /\ CoGo(t, "rename") /\ UNCHANGED <<bak, last, failed, coSaid>>
        /\ coPc[t] = "unlink"
    BY <1>5 DEF remove_project_dir, book
  <2>2. dir' \in [Projects -> DirType] /\ Elsewhere(p) /\ "rename" \in CoPcs \ {"idle"}
    BY <1>2, <1>3, <2>1 DEF Elsewhere, CoPcs
  <2>3. SafeAt(t, p) => SafeAt(t, p)'
    BY <1>2, <1>3, <2>1, <2>2 DEF SafeAt, P
  <2> QED BY <1>1, <1>2, <1>3, <2>1, <2>2, <2>3, StepInPlace
<1>6. CASE restore_project_backup(t) /\ dir' = [dir EXCEPT ![p] = bak[p]] /\ bak' = [bak EXCEPT ![p] = NoDir]
           /\ ((CoGo(t, "up") /\ UNCHANGED book) \/ Failed(t))
  <2>1. /\ dir' \in [Projects -> DirType] /\ bak' \in [Projects -> DirType] /\ dir'[p] = bak[p]
        /\ \A q \in Projects \ {p} : dir'[q] = dir[q] /\ bak'[q] = bak[q]
        /\ coPc[t] = "rename"
    BY <1>2, <1>6 DEF restore_project_backup
  <2>2. CASE Failed(t)
    <3>1. SafeAt(t, p) => last[p] \in {dir'[p], bak'[p]}
      BY <2>1 DEF SafeAt
    <3> QED BY <1>1, <1>2, <1>3, <2>1, <2>2, <3>1, StepFails
  <2>3. CASE CoGo(t, "up") /\ UNCHANGED book
    <3>1. UNCHANGED <<last, failed, coSaid>> /\ "up" \in CoPcs \ {"idle"}
      BY <2>3 DEF book, CoPcs
    <3>2. Elsewhere(p)
      BY <1>3, <2>1, <3>1 DEF Elsewhere
    <3>3. SafeAt(t, p) => SafeAt(t, p)'
      BY <1>2, <1>3, <2>1, <2>3, <3>1 DEF SafeAt, P
    <3> QED BY <1>1, <1>2, <1>3, <2>1, <2>3, <3>1, <3>2, <3>3, StepInPlace
  <2> QED BY <1>6, <2>2, <2>3
<1> QED BY <1>4, <1>5, <1>6 DEF restore_project_backup

\* The services are started, or not.
LEMMA ComposeUpKeeps ==
  ASSUME ComposeInv, NEW t \in Tasks, compose_up(t)
  PROVE  ComposeInv'
<1> DEFINE p == P(t)
<1>1. coPc[t] = "up" /\ UNCHANGED <<dir, bak, sent, cmd>>
  BY DEF compose_up
<1>2. /\ dir \in [Projects -> DirType] /\ bak \in [Projects -> DirType] /\ running \in [Projects -> Nat]
      /\ p \in Projects /\ coPc \in [Tasks -> CoPcs]
  BY <1>1 DEF ComposeInv, ComposeType
<1>3. \A n \in Nat : running' = [running EXCEPT ![p] = n] =>
        running' \in [Projects -> Nat] /\ \A q \in Projects \ {p} : running'[q] = running[q]
  BY <1>2
<1>4. SafeAt(t, p) => last[p] \in {dir'[p], bak'[p]}
  BY <1>1 DEF SafeAt
<1>5. CASE running' = [running EXCEPT ![p] = dir[p].compose] /\ Completed(t)
  <2>1. dir[p].compose \in Nat
    BY <1>2 DEF DirType
  <2> QED BY <1>1, <1>3, <1>5, <2>1, StepCompletes
<1>6. CASE UNCHANGED running /\ Failed(t)
  BY <1>1, <1>2, <1>4, <1>6, StepFails
<1>7. CASE UNCHANGED <<running, coPc, book>>
  <2>1. CoGo(t, "up") /\ "up" \in CoPcs \ {"idle"} /\ UNCHANGED <<last, failed, coSaid>>
    BY <1>1, <1>2, <1>7 DEF CoGo, CoPcs, book
  <2>2. Elsewhere(p)
    BY <1>1, <1>7, <2>1 DEF Elsewhere
  <2>3. SafeAt(t, p) => SafeAt(t, p)'
    BY <1>1, <1>7, <2>1 DEF SafeAt, P
  <2> QED BY <1>1, <1>2, <1>7, <2>1, <2>2, <2>3, StepInPlace
<1>8. CASE (\E left \in {0, running[p]} : running' = [running EXCEPT ![p] = left]) /\ Failed(t)
  <2>1. running' \in [Projects -> Nat] /\ \A q \in Projects \ {p} : running'[q] = running[q]
    BY <1>2, <1>3, <1>8
  <2> QED BY <1>1, <1>2, <1>4, <1>8, <2>1, StepFails
<1> QED BY <1>5, <1>6, <1>7, <1>8 DEF compose_up

\* The forced clean-up.
LEMMA ForceKeeps ==
  ASSUME ComposeInv, NEW t \in Tasks, force_cleanup_by_project(t) \/ remove_project_volumes(t)
  PROVE  ComposeInv'
<1> DEFINE p == P(t)
           l == IF remove_project_volumes(t) THEN "rmdir"
                ELSE IF cmd[t].op = "down" THEN "rmdir" ELSE "forcemore"
<1>1. /\ coPc[t] \in {"force", "forcemore"} /\ CoGo(t, l)
      /\ UNCHANGED <<dir, bak, sent, cmd, last, failed, coSaid>>
      /\ remove_project_volumes(t) => UNCHANGED running /\ coPc[t] = "forcemore"
      /\ ~remove_project_volumes(t) => running' = [running EXCEPT ![p] = 0]
  BY DEF force_cleanup_by_project, remove_project_volumes, book
<1>2. /\ dir \in [Projects -> DirType] /\ bak \in [Projects -> DirType] /\ running \in [Projects -> Nat]
      /\ p \in Projects /\ coPc \in [Tasks -> CoPcs] /\ l \in CoPcs \ {"idle"} /\ l \in {"rmdir", "forcemore"}
  BY <1>1 DEF ComposeInv, ComposeType, CoPcs
<1> HIDE DEF l
<1>3. /\ running' \in [Projects -> Nat] /\ Elsewhere(p) /\ (cmd[t].alone => running'[p] = 0)
      /\ coPc'[t] = l
  <2>1. cmd[t].alone /\ coPc[t] = "forcemore" => running[p] = 0
    BY <1>1 DEF ComposeInv, AloneIs
  <2> QED BY <1>1, <1>2, <2>1 DEF Elsewhere, CoGo
<1>4. SafeAt(t, p) => SafeAt(t, p)'
  BY <1>1, <1>2, <1>3 DEF SafeAt, P
<1> QED BY <1>1, <1>2, <1>3, <1>4, StepInPlace

\* A handler is ended where it is.
LEMMA InterruptKeeps ==
  ASSUME ComposeInv, NEW t \in Tasks, interrupted(t)
  PROVE  ComposeInv'
<1>1. coPc[t] # "idle" /\ Failed(t) /\ UNCHANGED <<dir, bak, running, sent, cmd>>
  BY DEF interrupted, coHost
<1>2. dir \in [Projects -> DirType] /\ bak \in [Projects -> DirType] /\ running \in [Projects -> Nat]
  BY DEF ComposeInv, ComposeType
<1>3. SafeAt(t, P(t)) => last[P(t)] \in {dir'[P(t)], bak'[P(t)]}
  BY <1>1 DEF SafeAt
<1> QED BY <1>1, <1>2, <1>3, StepFails

\* Nothing is deployed at first.
LEMMA ComposeStarts == ASSUME CoInit PROVE ComposeInv
<1>1. NoDir \in DirType /\ NoCmd \in CmdType /\ "idle" \in CoPcs /\ NoCmd.alone
  BY DEF NoDir, DirType, NoCmd, CmdType, CoOps, CoPcs
<1>2. coSaid \in CmdType /\ coSaid.op = "nothing"
  BY DEF CoInit, NoCmd, CmdType, CoOps
<1>3. (\A p \in Projects : last[p] = NoDir) /\ (\A t \in Tasks : coPc[t] = "idle")
  BY DEF CoInit
<1>4. ComposeType
  BY <1>1, <1>2, <1>3 DEF CoInit, ComposeType
<1> QED BY <1>2, <1>3, <1>4 DEF ComposeInv, WayKept, DirExists, AloneIs, StoppedIsGone

\* Every step of a handler keeps the invariant.
LEMMA ComposeKeeps == ASSUME ComposeInv, CoNext PROVE ComposeInv'
<1>1. PICK t \in Tasks :
        \/ \E p \in Projects :
              \/ \E op \in {"content", "restore", "start"} : handle_compose_up(t, p, op)
              \/ \E op \in {"down", "down -v"} : handle_compose_down(t, p, op)
        \/ remove_backup(t) \/ copy_dir(t) \/ validate_compose_up_content(t)
        \/ write_compose_file(t) \/ remove_project_dir(t) \/ restore_project_backup(t) \/ compose_up(t)
        \/ force_cleanup_by_project(t) \/ remove_project_volumes(t) \/ cleanup_deployment_dir(t)
        \/ interrupted(t)
  BY DEF CoNext
<1> QED BY <1>1, UpKeeps, DownKeeps, ContentKeeps, RestoreKeeps, ComposeUpKeeps, ForceKeeps,
           StepCeases, InterruptKeeps

----------------------------------------------------------------------------
(* Compose projects: the theorem.                                          *)

\* What the invariant says of every state of a behaviour of compose projects.
ComposePart == part = "compose" => ComposeInv

\* The way back in the terms of the handlers that are counted.
LEMMA WayIsBack == ASSUME ComposeInv PROVE WayBack
<1> SUFFICES ASSUME NEW p \in Projects, DirExists(last[p]), ~(failed[p] + Cardinality(Handlers(p)) > 1)
             PROVE  last[p] \in {dir[p], bak[p]}
  BY DEF WayBack
<1>1. failed[p] \in Nat /\ WayKept(p)
  BY DEF ComposeInv, ComposeType
<1>2. IsFiniteSet(Handlers(p)) /\ Handlers(p) \subseteq Tasks
  BY ComposeAssumption, FS_Subset DEF Handlers
<1>3. Cardinality(Handlers(p)) \in Nat
  BY <1>2, FS_CardinalityType
<1>4. CASE Cardinality(Handlers(p)) = 0
  <2>1. Handlers(p) = {}
    BY <1>2, <1>4, FS_EmptySet
  <2>2. failed[p] \in {0, 1}
    BY <1>1, <1>4
  <2> QED BY <1>1, <2>1, <2>2 DEF WayKept
<1>5. CASE Cardinality(Handlers(p)) = 1
  <2>1. PICK t : Handlers(p) = {t}
    BY <1>2, <1>5, FS_Singleton
  <2>2. failed[p] = 0 /\ t \in Tasks
    BY <1>1, <1>2, <1>5, <2>1
  <2> QED BY <1>1, <2>1, <2>2 DEF WayKept, SafeAt
<1> QED BY <1>1, <1>3, <1>4, <1>5

\* However the handlers of compose projects fail, are interrupted and overlap:
\* after one failed up the last deployment that ran is still in the directory or
\* in its backup, and a project that was stopped is gone (handle_compose_up,
\* handle_compose_down).
THEOREM ComposeWayBack == Spec => []ComposeHolds
<1>1. MCInit => ComposePart
  BY ComposeStarts DEF MCInit, ComposePart
<1>2. ComposePart /\ [MCNext]_allVars => ComposePart'
  <2> SUFFICES ASSUME ComposePart, [MCNext]_allVars, part' = "compose" PROVE ComposeInv'
    BY DEF ComposePart
  <2>1. CASE MCNext
    <3>1. part = "compose" /\ CoNext
      BY <2>1 DEF MCNext
    <3> QED BY <3>1, ComposeKeeps DEF ComposePart
  <2>2. CASE UNCHANGED allVars
    <3>1. UNCHANGED <<part, coVars>>
      BY <2>2 DEF allVars
    <3>2. ComposeInv
      BY <3>1 DEF ComposePart
    <3>3. UNCHANGED <<dir, bak, running, sent, coPc, cmd, last, failed, coSaid>>
      BY <3>1 DEF coVars, coHost, book
    <3> QED BY <3>2, <3>3 DEF ComposeInv, ComposeType, WayKept, SafeAt, AloneIs, StoppedIsGone, Handlers, P
  <2> QED BY <2>1, <2>2
<1>3. ComposePart => ComposeHolds
  BY WayIsBack DEF ComposePart, ComposeHolds, ComposeInv
<1> QED BY <1>1, <1>2, <1>3, PTL DEF Spec

----------------------------------------------------------------------------
(* The CI cache: the inductive invariant.                                  *)

Resting == {"idle", "looked", "done", "erred"}
Saving == {"key", "copy", "quota"}
CachePcs == Resting \cup Saving \cup {"restore", "steps", "save", "evict"}
EntryType == [key : BOOLEAN, paths : SUBSET (1..Paths), made : Nat]
AllPaths == Keys \X (1..Paths)

CacheType ==
  /\ cacheLoad \in Load /\ clock \in Nat
  /\ entry \in [Keys -> EntryType] /\ \A k \in Keys : ~Exists(k) => entry[k] = NoEntry
  /\ cachePc \in [Uses -> CachePcs] /\ matched \in [Uses -> Keys \cup {NoKey}]
  /\ restored \in [Uses -> SUBSET (1..Paths)] /\ next \in [Uses -> 1..Paths]
  /\ victims \in [Uses -> SUBSET [key : Keys, made : Nat]] /\ used \in [Uses -> SUBSET AllPaths]
  /\ \A u \in Uses : cachePc[u] = "restore" => matched[u] \in Keys

\* When the jobs take turns and copying works: an entry is complete but for the
\* one that is being filled, and who restores has what it has passed.
Alone(u) ==
  /\ \A v \in Uses : cachePc[u] \notin Resting /\ cachePc[v] \notin Resting => u = v
  /\ cachePc[u] \in {"idle", "looked", "steps", "save", "key"} => next[u] = 1
  /\ cachePc[u] = "idle" => restored[u] = {}
  /\ cachePc[u] = "restore" => Exists(matched[u]) /\ restored[u] = 1..(next[u] - 1)
  /\ cachePc[u] \in {"steps", "done"} /\ matched[u] = KeyOf[u] => restored[u] = 1..Paths
  /\ cachePc[u] \in Saving \cup {"save", "evict", "erred"} => matched[u] # KeyOf[u]
  /\ cachePc[u] \in {"key", "copy"} => Exists(KeyOf[u]) /\ entry[KeyOf[u]].paths = 1..(next[u] - 1)
Complete(k) == entry[k].paths = 1..Paths \/ \E u \in Uses : KeyOf[u] = k /\ cachePc[u] \in {"key", "copy"}
TurnsInv ==
  ~cacheLoad.overlap /\ ~cacheLoad.fails =>
    (\A u \in Uses : Alone(u)) /\ \A k \in Keys : Exists(k) => Complete(k)

\* What is stored but for the entries that somebody is still saving is within
\* the quota, or an eviction has all of it before it.
Growing == {KeyOf[u] : u \in {v \in Uses : cachePc[v] \in Saving}}
Settled == {x \in StoredPaths : x[1] \notin Growing}
Own(u) == {x \in used[u] : x[1] = KeyOf[u]}
Evicts(u) ==
  /\ cachePc[u] = "evict" /\ Settled \subseteq used[u]
  /\ \A x \in used[u] : x[1] = KeyOf[u] \/ \E e \in victims[u] : e.key = x[1]
QuotaInv ==
  /\ \A u \in Uses : cachePc[u] = "evict" => Cardinality(Own(u)) <= Limit
  /\ Limit # 0 /\ ~cacheLoad.fails /\ (\A u \in Uses : cachePc[u] # "erred") =>
       Cardinality(Settled) <= Limit \/ \E u \in Uses : Evicts(u)

CacheInv == CacheType /\ TurnsInv /\ QuotaInv

----------------------------------------------------------------------------
(* The CI cache: what the steps have in common.                            *)

\* The keys and paths are intervals, and a use's key is one of the keys.
LEMMA CacheConstants ==
  /\ NumKeys \in Nat \ {0} /\ Paths \in Nat \ {0} /\ Limit \in Nat /\ NoKey \notin Keys
  /\ \A u \in Uses : KeyOf[u] \in Keys
  /\ NoEntry \in EntryType /\ NoEntry.paths = {} /\ NoEntry.made = 0
  /\ IsFiniteSet(AllPaths)
<1>1. NumKeys \in Nat /\ Paths \in Nat
  BY CacheAssumption
<1>2. IsFiniteSet(1..NumKeys) /\ IsFiniteSet(1..Paths)
  BY <1>1, FS_Interval
<1>3. IsFiniteSet(AllPaths)
  BY <1>2, FS_Product DEF AllPaths, Keys
<1> QED BY <1>3, CacheAssumption DEF Keys, NoKey, NoEntry, EntryType

\* A use goes to another place.
LEMMA PlaceAfter ==
  ASSUME CacheType, NEW u \in Uses, NEW l \in CachePcs, CacheGo(u, l)
  PROVE  cachePc' \in [Uses -> CachePcs] /\ \A v \in Uses : cachePc'[v] = IF v = u THEN l ELSE cachePc[v]
BY DEF CacheType, CacheGo

\* What is stored is part of what may be; a part of it is no larger.
LEMMA StoredIs ==
  ASSUME CacheType
  PROVE  /\ StoredPaths = {x \in AllPaths : x[2] \in entry[x[1]].paths}
         /\ IsFiniteSet(StoredPaths) /\ IsFiniteSet(Settled) /\ Settled \subseteq StoredPaths
         /\ \A S \in SUBSET AllPaths : IsFiniteSet(S) /\ Cardinality(S) \in Nat
         /\ \A S, T \in SUBSET AllPaths : S \subseteq T => Cardinality(S) <= Cardinality(T)
<1>1. StoredPaths = {x \in AllPaths : x[2] \in entry[x[1]].paths}
  BY DEF StoredPaths, AllPaths
<1>2. ASSUME NEW S \in SUBSET AllPaths PROVE IsFiniteSet(S) /\ Cardinality(S) \in Nat
  BY CacheConstants, FS_Subset, FS_CardinalityType
<1>3. StoredPaths \in SUBSET AllPaths /\ Settled \in SUBSET AllPaths /\ Settled \subseteq StoredPaths
  BY <1>1 DEF Settled
<1>4. ASSUME NEW S \in SUBSET AllPaths, NEW T \in SUBSET AllPaths, S \subseteq T
      PROVE  Cardinality(S) <= Cardinality(T)
  BY <1>2, <1>4, FS_Subset
<1> QED BY <1>1, <1>2, <1>3, <1>4

\* A use at rest beside the one that moves.
LEMMA AloneElsewhere ==
  ASSUME CacheType, NEW v \in Uses, Alone(v), cachePc[v] \in Resting, cachePc'[v] = cachePc[v],
         matched'[v] = matched[v], restored'[v] = restored[v], next'[v] = next[v]
  PROVE  Alone(v)'
<1>1. cachePc'[v] \notin Saving \cup {"restore", "save", "evict", "steps"}
  BY DEF Resting, Saving
<1> QED BY <1>1 DEF Alone, Resting, Saving

\* It is the turn of use u: the others rest, and only its own entry may be
\* incomplete; after its step the same is known again.
TurnOf(u) ==
  /\ ~cacheLoad.overlap /\ ~cacheLoad.fails /\ Alone(u) /\ \A v \in Uses \ {u} : cachePc[v] \in Resting
  /\ \A k \in Keys : Exists(k) => entry[k].paths = 1..Paths \/ (k = KeyOf[u] /\ cachePc[u] \in {"key", "copy"})
TurnKept(u) == Alone(u)' /\ \A k \in Keys : Exists(k)' => Complete(k)'

\* When the jobs take turns a step of u keeps them if it keeps u and the entries.
LEMMA TurnsKeep ==
  ASSUME CacheType, TurnsInv, NEW u \in Uses, cacheLoad' = cacheLoad,
         ~cacheLoad.overlap =>
            cachePc[u] \notin Resting \/ \A v \in Uses : cachePc[v] \in Resting,
         \A v \in Uses \ {u} : /\ cachePc'[v] = cachePc[v] /\ matched'[v] = matched[v]
                               /\ restored'[v] = restored[v] /\ next'[v] = next[v],
         TurnOf(u) => TurnKept(u)
  PROVE  TurnsInv'
<1> SUFFICES ASSUME ~cacheLoad.overlap, ~cacheLoad.fails
             PROVE  (\A v \in Uses : Alone(v)') /\ \A k \in Keys : Exists(k)' => Complete(k)'
  BY DEF TurnsInv
<1>1. (\A v \in Uses : Alone(v)) /\ \A k \in Keys : Exists(k) => Complete(k)
  BY DEF TurnsInv
<1>2. \A v \in Uses \ {u} : cachePc[v] \in Resting
  BY <1>1 DEF Alone
<1>3. \A k \in Keys : Exists(k) => entry[k].paths = 1..Paths \/ (k = KeyOf[u] /\ cachePc[u] \in {"key", "copy"})
  BY <1>1, <1>2 DEF Complete, Resting
<1>4. Alone(u)' /\ \A k \in Keys : Exists(k)' => Complete(k)'
  BY <1>1, <1>2, <1>3 DEF TurnOf, TurnKept
<1>5. \A v \in Uses \ {u} : Alone(v)'
  BY <1>1, <1>2, AloneElsewhere
<1> QED BY <1>4, <1>5

\* The quota is kept by a step that settles nothing more and leaves the evictions
\* alone.
LEMMA QuotaKeeps ==
  ASSUME CacheType, QuotaInv, cacheLoad' = cacheLoad, Settled' \subseteq Settled,
         \A v \in Uses : cachePc[v] = "erred" => cachePc'[v] = "erred",
         \A v \in Uses : cachePc[v] = "evict" <=> cachePc'[v] = "evict",
         UNCHANGED <<used, victims>>
  PROVE  QuotaInv'
<1>1. \A v \in Uses : Own(v)' = Own(v)
  BY DEF Own
<1>2. \A v \in Uses : Evicts(v) => Evicts(v)'
  BY DEF Evicts
<1>3. Cardinality(Settled') \in Nat /\ Cardinality(Settled) \in Nat /\ Cardinality(Settled') <= Cardinality(Settled)
      /\ Limit \in Nat
  BY StoredIs, CacheConstants
<1>4. Cardinality(Settled) <= Limit => Cardinality(Settled') <= Limit
  BY <1>3
<1> QED BY <1>1, <1>2, <1>4 DEF QuotaInv

\* What is settled does not grow when the entries stay and nobody stops saving.
LEMMA SettledStays ==
  ASSUME CacheType, UNCHANGED entry, \A v \in Uses : cachePc[v] \in Saving => cachePc'[v] \in Saving
  PROVE  Settled' \subseteq Settled
<1>1. Growing \subseteq Growing'
  BY DEF Growing
<1>2. StoredPaths' = StoredPaths
  BY DEF StoredPaths
<1> QED BY <1>1, <1>2 DEF Settled

\* Nor when the entries that somebody stops saving are empty and no other grows.
LEMMA SettledShrinks ==
  ASSUME CacheType, NEW u \in Uses,
         \A v \in Uses \ {u} : cachePc'[v] = cachePc[v],
         \A k \in Keys \ {KeyOf[u]} : entry'[k].paths \subseteq entry[k].paths,
         cachePc'[u] \in Saving \/ entry'[KeyOf[u]].paths = {}
  PROVE  Settled' \subseteq Settled
<1> SUFFICES ASSUME NEW x \in AllPaths, x[2] \in entry'[x[1]].paths, x[1] \notin Growing'
             PROVE  x[2] \in entry[x[1]].paths /\ x[1] \notin Growing
  BY DEF Settled, StoredPaths, AllPaths
<1>1. x[1] \in Keys
  BY DEF AllPaths
<1>2. x[1] # KeyOf[u]
  BY DEF Growing
<1>3. x[1] \notin Growing
  BY <1>2 DEF Growing
<1> QED BY <1>1, <1>2, <1>3

----------------------------------------------------------------------------
(* The CI cache: one action at a time.                                     *)

\* A lookup finds an entry that is there, or none.
LEMMA FoundIs ==
  ASSUME CacheType, NEW u \in Uses
  PROVE  \/ find_actions_cache_entry(u) = NoKey
         \/ find_actions_cache_entry(u) \in Keys /\ Exists(find_actions_cache_entry(u))
<1> DEFINE ms == {k \in StoredKeys : k \in PrefixOf[u]}
<1>1. CASE Exists(KeyOf[u])
  BY <1>1, CacheConstants DEF find_actions_cache_entry
<1>2. CASE ~Exists(KeyOf[u]) /\ (ms = {} \/ \E k \in StoredKeys : ~entry[k].key)
  BY <1>2 DEF find_actions_cache_entry
<1>3. CASE ~Exists(KeyOf[u]) /\ ~(ms = {} \/ \E k \in StoredKeys : ~entry[k].key)
  <2>1. find_actions_cache_entry(u) = Max(ms)
    BY <1>3 DEF find_actions_cache_entry
  <2> DEFINE T == {NumKeys - k : k \in ms}
  <2>2. ms \subseteq Keys /\ ms # {} /\ \A k \in ms : k \in 1..NumKeys /\ Exists(k)
    BY <1>3 DEF StoredKeys, Keys
  <2>3. NumKeys \in Nat
    BY CacheConstants
  <2> HIDE DEF ms
  <2>4. T \subseteq Nat /\ T # {}
    BY <2>2, <2>3
  <2>5. PICK d \in T : \A e \in T : d <= e
    <3> HIDE DEF T
    <3> QED BY <2>4, LeastOf
  <2>6. PICK k \in ms : d = NumKeys - k
    OBVIOUS
  <2>7. \A j \in ms : k >= j
    <3> TAKE j \in ms
    <3>1. d <= NumKeys - j /\ k \in Nat /\ j \in Nat
      BY <2>2, <2>5
    <3> QED BY <2>3, <2>6, <3>1
  <2>8. Max(ms) \in ms
    BY <2>6, <2>7 DEF Max
  <2> QED BY <2>1, <2>2, <2>8
<1> QED BY <1>1, <1>2, <1>3

\* The lookup.
LEMMA LookupKeeps == ASSUME CacheInv, NEW u \in Uses, actions_cache_action(u) PROVE CacheInv'
<1> DEFINE m == find_actions_cache_entry(u)
<1>1. CacheType /\ TurnsInv /\ QuotaInv
  BY DEF CacheInv
<1>2. m = NoKey \/ (m \in Keys /\ Exists(m))
  BY <1>1, FoundIs
<1>3. /\ cachePc[u] = "idle" /\ matched' = [matched EXCEPT ![u] = m]
      /\ UNCHANGED <<entry, clock, restored, next, victims, used, cacheLoad>>
      /\ cacheLoad.overlap \/ \A v \in Uses : cachePc[v] \in Resting
      /\ \/ m = NoKey /\ CacheGo(u, "steps")
         \/ m # NoKey /\ CacheGo(u, "restore")
         \/ CacheGo(u, "looked")
  BY DEF actions_cache_action, Resting
<1> HIDE DEF m
<1>4. PICK l \in {"steps", "restore", "looked"} : CacheGo(u, l) /\ (l = "steps" => m = NoKey) /\ (l = "restore" => m # NoKey)
  BY <1>3
<1>5. cachePc' \in [Uses -> CachePcs] /\ \A v \in Uses : cachePc'[v] = IF v = u THEN l ELSE cachePc[v]
  BY <1>1, <1>4, PlaceAfter DEF CachePcs, Resting
<1>6. matched' \in [Uses -> Keys \cup {NoKey}] /\ \A v \in Uses : matched'[v] = IF v = u THEN m ELSE matched[v]
  BY <1>1, <1>2, <1>3 DEF CacheType
<1>7. CacheType'
  BY <1>1, <1>2, <1>3, <1>4, <1>5, <1>6 DEF CacheType, Exists
<1>8. TurnsInv'
  <2>1. ASSUME TurnOf(u) PROVE TurnKept(u)
    <3>0. /\ ~cacheLoad.overlap /\ ~cacheLoad.fails /\ Alone(u) /\ \A v \in Uses \ {u} : cachePc[v] \in Resting
          /\ \A k \in Keys : Exists(k) => entry[k].paths = 1..Paths \/ (k = KeyOf[u] /\ cachePc[u] \in {"key", "copy"})
      BY <2>1 DEF TurnOf
    <3>1. \A v \in Uses : cachePc'[u] \notin Resting /\ cachePc'[v] \notin Resting => u = v
      BY <1>5, <3>0
    <3>2. next'[u] = 1 /\ restored'[u] = {} /\ 1..(next'[u] - 1) = {} /\ KeyOf[u] # NoKey
      BY <1>3, <3>0, CacheConstants DEF Alone
    <3>3. cachePc'[u] = l /\ l \notin Saving \cup {"idle", "save", "evict", "erred", "done", "key", "copy"}
      BY <1>4, <1>5 DEF Saving
    <3>4. l = "restore" => Exists(matched[u])'
      BY <1>2, <1>3, <1>4, <1>6 DEF Exists
    <3>5. Alone(u)'
      BY <1>4, <1>6, <3>1, <3>2, <3>3, <3>4 DEF Alone
    <3>6. \A k \in Keys : Exists(k)' => Complete(k)'
      BY <1>3, <3>0 DEF Complete, Exists
    <3> QED BY <3>5, <3>6 DEF TurnKept
  <2>2. ~cacheLoad.overlap => cachePc[u] \notin Resting \/ \A v \in Uses : cachePc[v] \in Resting
    BY <1>3
  <2> QED BY <1>1, <1>3, <1>5, <1>6, <2>1, <2>2, TurnsKeep
<1>9. QuotaInv'
  <2>1. Settled' \subseteq Settled
    BY <1>1, <1>3, <1>5, SettledStays DEF Saving
  <2> QED BY <1>1, <1>3, <1>4, <1>5, <2>1, QuotaKeeps
<1> QED BY <1>7, <1>8, <1>9 DEF CacheInv

\* A path is restored.
LEMMA RestorePathsKeeps == ASSUME CacheInv, NEW u \in Uses, restore_actions_cache_paths(u) PROVE CacheInv'
<1> DEFINE l == IF next[u] < Paths THEN "restore" ELSE "steps"
           n == IF next[u] < Paths THEN next[u] + 1 ELSE 1
           r == IF next[u] \in entry[matched[u]].paths THEN restored[u] \cup {next[u]} ELSE restored[u]
<1>1. CacheType /\ TurnsInv /\ QuotaInv /\ Paths \in Nat \ {0}
  BY CacheConstants DEF CacheInv
<1>2. /\ cachePc[u] = "restore" /\ UNCHANGED <<entry, clock, matched, victims, used, cacheLoad>>
      /\ next[u] \in 1..Paths /\ restored[u] \in SUBSET (1..Paths)
  BY <1>1 DEF restore_actions_cache_paths, CacheType
<1>3. CacheGo(u, l)
  <2>1. cachePc = [cachePc EXCEPT ![u] = "restore"]
    BY <1>1, <1>2 DEF CacheType
  <2> QED BY <2>1 DEF restore_actions_cache_paths, CacheGo
<1>4. next' = [next EXCEPT ![u] = n]
  BY DEF restore_actions_cache_paths
<1>5. restored' = [restored EXCEPT ![u] = r]
  BY <1>1 DEF restore_actions_cache_paths, CacheType
<1>6. n \in 1..Paths /\ r \in SUBSET (1..Paths) /\ l \in CachePcs
  BY <1>1, <1>2 DEF CachePcs
<1>7. cachePc' \in [Uses -> CachePcs] /\ \A v \in Uses : cachePc'[v] = IF v = u THEN l ELSE cachePc[v]
  BY <1>1, <1>3, <1>6, PlaceAfter
<1>8. /\ next' \in [Uses -> 1..Paths] /\ restored' \in [Uses -> SUBSET (1..Paths)]
      /\ next'[u] = n /\ restored'[u] = r
      /\ \A v \in Uses \ {u} : next'[v] = next[v] /\ restored'[v] = restored[v]
  <2> HIDE DEF n, r
  <2> QED BY <1>1, <1>4, <1>5, <1>6 DEF CacheType
<1>9. CacheType'
  BY <1>1, <1>2, <1>7, <1>8 DEF CacheType, Exists
<1>10. TurnsInv'
  <2>1. ASSUME TurnOf(u) PROVE TurnKept(u)
    <3>0. /\ ~cacheLoad.overlap /\ ~cacheLoad.fails /\ Alone(u) /\ \A v \in Uses \ {u} : cachePc[v] \in Resting
          /\ \A k \in Keys : Exists(k) => entry[k].paths = 1..Paths \/ (k = KeyOf[u] /\ cachePc[u] \in {"key", "copy"})
      BY <2>1 DEF TurnOf
    <3>1. \A v \in Uses : cachePc'[u] \notin Resting /\ cachePc'[v] \notin Resting => u = v
      BY <1>7, <3>0
    <3>2. Exists(matched[u]) /\ restored[u] = 1..(next[u] - 1) /\ matched[u] \in Keys
      BY <1>1, <1>2, <3>0 DEF Alone, CacheType
    <3>3. r = 1..next[u]
      <4>1. entry[matched[u]].paths = 1..Paths
        BY <1>2, <3>0, <3>2
      <4>2. r = 1..(next[u] - 1) \cup {next[u]}
        BY <1>2, <3>2, <4>1
      <4> HIDE DEF r
      <4> QED BY <1>1, <1>2, <4>2
    <3>4. \/ l = "restore" /\ n = next[u] + 1 /\ r = 1..(n - 1)
          \/ l = "steps" /\ n = 1 /\ r = 1..Paths
      BY <1>1, <1>2, <3>3
    <3> HIDE DEF r, n, l
    <3>5. Exists(matched[u])'
      BY <1>2, <3>2 DEF Exists
    <3>6. Alone(u)'
      <4>1. CASE l = "restore" /\ n = next[u] + 1 /\ r = 1..(n - 1)
        BY <1>7, <1>8, <3>1, <3>5, <4>1 DEF Alone, Saving
      <4>2. CASE l = "steps" /\ n = 1 /\ r = 1..Paths
        BY <1>7, <1>8, <3>1, <3>5, <4>2 DEF Alone, Saving
      <4> QED BY <3>4, <4>1, <4>2
    <3>7. \A k \in Keys : Exists(k)' => Complete(k)'
      BY <1>2, <3>0 DEF Complete, Exists
    <3> QED BY <3>6, <3>7 DEF TurnKept
  <2> HIDE DEF l
  <2>2. cachePc[u] \notin Resting
    BY <1>2 DEF Resting
  <2> QED BY <1>1, <1>2, <1>7, <1>8, <2>1, <2>2, TurnsKeep
<1>11. QuotaInv'
  <2>1. l \notin {"evict", "erred"}
    OBVIOUS
  <2> HIDE DEF l
  <2>2. Settled' \subseteq Settled
    BY <1>1, <1>2, <1>7, SettledStays DEF Saving
  <2> QED BY <1>1, <1>2, <1>7, <2>1, <2>2, QuotaKeeps
<1> QED BY <1>9, <1>10, <1>11 DEF CacheInv

\* The job's own steps.
LEMMA JobStepsKeeps == ASSUME CacheInv, NEW u \in Uses, job_steps(u) PROVE CacheInv'
<1>1. CacheType /\ TurnsInv /\ QuotaInv
  BY DEF CacheInv
<1>2. /\ cachePc[u] = "steps" /\ UNCHANGED <<entry, clock, matched, restored, next, victims, used, cacheLoad>>
      /\ \/ CacheGo(u, "done")
         \/ matched[u] # KeyOf[u] /\ CacheGo(u, "save")
  BY DEF job_steps
<1>3. PICK l \in {"done", "save"} : CacheGo(u, l) /\ (l = "save" => matched[u] # KeyOf[u])
  BY <1>2
<1>4. cachePc' \in [Uses -> CachePcs] /\ \A v \in Uses : cachePc'[v] = IF v = u THEN l ELSE cachePc[v]
  BY <1>1, <1>3, PlaceAfter DEF CachePcs, Resting
<1>5. CacheType'
  BY <1>1, <1>2, <1>3, <1>4 DEF CacheType, Exists
<1>6. TurnsInv'
  <2>1. ASSUME TurnOf(u) PROVE TurnKept(u)
    <3>0. /\ ~cacheLoad.overlap /\ ~cacheLoad.fails /\ Alone(u) /\ \A v \in Uses \ {u} : cachePc[v] \in Resting
          /\ \A k \in Keys : Exists(k) => entry[k].paths = 1..Paths \/ (k = KeyOf[u] /\ cachePc[u] \in {"key", "copy"})
      BY <2>1 DEF TurnOf
    <3>1. \A v \in Uses : cachePc'[u] \notin Resting /\ cachePc'[v] \notin Resting => u = v
      BY <1>4, <3>0
    <3>2. Alone(u)'
      BY <1>2, <1>3, <1>4, <3>0, <3>1 DEF Alone, Saving
    <3>3. \A k \in Keys : Exists(k)' => Complete(k)'
      BY <1>2, <3>0 DEF Complete, Exists
    <3> QED BY <3>2, <3>3 DEF TurnKept
  <2>2. cachePc[u] \notin Resting
    BY <1>2 DEF Resting
  <2> QED BY <1>1, <1>2, <1>4, <2>1, <2>2, TurnsKeep
<1>7. QuotaInv'
  <2>1. Settled' \subseteq Settled
    BY <1>1, <1>2, <1>4, SettledStays DEF Saving
  <2> QED BY <1>1, <1>2, <1>3, <1>4, <2>1, QuotaKeeps
<1> QED BY <1>5, <1>6, <1>7 DEF CacheInv

\* The directory of a new entry is made.
LEMMA SaveKeeps == ASSUME CacheInv, NEW u \in Uses, save_actions_cache_paths(u) PROVE CacheInv'
<1> DEFINE k0 == KeyOf[u]
           made == [key |-> FALSE, paths |-> {}, made |-> clock + 1]
<1>1. CacheType /\ TurnsInv /\ QuotaInv /\ k0 \in Keys /\ clock \in Nat /\ entry \in [Keys -> EntryType]
  BY CacheConstants DEF CacheInv, CacheType
<1>2. cachePc[u] = "save" /\ UNCHANGED <<matched, restored, next, victims, used, cacheLoad>>
  BY DEF save_actions_cache_paths
<1>3. made \in EntryType /\ made.paths = {} /\ made.made = clock + 1 /\ clock + 1 # 0 /\ clock + 1 \in Nat
  BY <1>1 DEF EntryType
<1> HIDE DEF made
<1>4. cachePc[u] \notin Resting /\ cachePc[u] \notin Saving /\ cachePc[u] \notin {"key", "copy"}
  BY <1>2 DEF Resting, Saving
<1>5. CASE Exists(k0)
  <2>1. CacheGo(u, "done") /\ UNCHANGED <<entry, clock>>
    BY <1>5 DEF save_actions_cache_paths
  <2>2. cachePc' \in [Uses -> CachePcs] /\ \A v \in Uses : cachePc'[v] = IF v = u THEN "done" ELSE cachePc[v]
    BY <1>1, <2>1, PlaceAfter DEF CachePcs, Resting
  <2>3. CacheType'
    BY <1>1, <1>2, <2>1, <2>2 DEF CacheType, Exists
  <2>4. ASSUME TurnOf(u) PROVE TurnKept(u)
    <3>0. Alone(u) /\ \A k \in Keys : Exists(k) => entry[k].paths = 1..Paths
      BY <1>4, <2>4 DEF TurnOf
    <3>1. Alone(u)'
      BY <1>2, <2>2, <3>0 DEF Alone, Saving, Resting
    <3>2. \A k \in Keys : Exists(k)' => Complete(k)'
      BY <2>1, <3>0 DEF Complete, Exists
    <3> QED BY <3>1, <3>2 DEF TurnKept
  <2>5. TurnsInv'
    BY <1>1, <1>2, <1>4, <2>2, <2>4, TurnsKeep
  <2>6. Settled' \subseteq Settled
    BY <1>1, <1>4, <2>1, <2>2, SettledStays
  <2>7. QuotaInv'
    BY <1>1, <1>2, <2>2, <2>6, QuotaKeeps
  <2> QED BY <2>3, <2>5, <2>7 DEF CacheInv
<1>6. CASE ~Exists(k0)
  <2>1. CacheGo(u, "key") /\ clock' = clock + 1 /\ entry' = [entry EXCEPT ![k0] = made]
    BY <1>6 DEF save_actions_cache_paths, made
  <2>2. cachePc' \in [Uses -> CachePcs] /\ \A v \in Uses : cachePc'[v] = IF v = u THEN "key" ELSE cachePc[v]
    BY <1>1, <2>1, PlaceAfter DEF CachePcs, Saving
  <2>3. entry' \in [Keys -> EntryType] /\ \A k \in Keys : entry'[k] = IF k = k0 THEN made ELSE entry[k]
    BY <1>1, <1>3, <2>1
  <2>4. CacheType'
    BY <1>1, <1>2, <1>3, <2>1, <2>2, <2>3 DEF CacheType, Exists
  <2>5. ASSUME TurnOf(u) PROVE TurnKept(u)
    <3>0. /\ Alone(u) /\ \A v \in Uses \ {u} : cachePc[v] \in Resting
          /\ \A k \in Keys : Exists(k) => entry[k].paths = 1..Paths
      BY <1>4, <2>5 DEF TurnOf
    <3>1. next'[u] = 1 /\ 1..(next'[u] - 1) = {} /\ matched'[u] # k0
      BY <1>2, <3>0 DEF Alone
    <3>2. Exists(k0)' /\ entry'[k0].paths = {}
      BY <1>1, <1>3, <2>3 DEF Exists
    <3>3. \A v \in Uses : cachePc'[v] \notin Resting => u = v
      BY <2>2, <3>0
    <3>4. Alone(u)'
      BY <2>2, <3>1, <3>2, <3>3 DEF Alone, Saving, Resting
    <3>5. \A k \in Keys : Exists(k)' => Complete(k)'
      BY <2>2, <2>3, <3>0 DEF Complete, Exists
    <3> QED BY <3>4, <3>5 DEF TurnKept
  <2>6. TurnsInv'
    BY <1>1, <1>2, <1>4, <2>2, <2>5, TurnsKeep
  <2>7. Settled' \subseteq Settled
    BY <1>1, <2>2, <2>3, SettledShrinks DEF Saving
  <2>8. QuotaInv'
    BY <1>1, <1>2, <2>2, <2>7, QuotaKeeps
  <2> QED BY <2>4, <2>6, <2>8 DEF CacheInv
<1> QED BY <1>5, <1>6

\* The key file is written.
LEMMA WriteKeyKeeps == ASSUME CacheInv, NEW u \in Uses, write_key(u) PROVE CacheInv'
<1> DEFINE k0 == KeyOf[u]
<1>1. CacheType /\ TurnsInv /\ QuotaInv /\ k0 \in Keys /\ entry \in [Keys -> EntryType]
      /\ \A k \in Keys : ~Exists(k) => entry[k] = NoEntry
  BY CacheConstants DEF CacheInv, CacheType
<1>2. cachePc[u] = "key" /\ UNCHANGED <<clock, matched, restored, next, victims, used, cacheLoad>>
  BY DEF write_key
<1>3. cachePc[u] \notin Resting
  BY <1>2 DEF Resting
<1>4. CASE Exists(k0)
  <2>1. CacheGo(u, "copy") /\ entry' = [entry EXCEPT ![k0].key = TRUE]
    BY <1>4 DEF write_key
  <2>2. cachePc' \in [Uses -> CachePcs] /\ \A v \in Uses : cachePc'[v] = IF v = u THEN "copy" ELSE cachePc[v]
    BY <1>1, <2>1, PlaceAfter DEF CachePcs, Saving
  <2>3. /\ entry' \in [Keys -> EntryType] /\ \A k \in Keys \ {k0} : entry'[k] = entry[k]
        /\ entry'[k0].paths = entry[k0].paths /\ entry'[k0].made = entry[k0].made
    BY <1>1, <2>1 DEF EntryType
  <2>4. \A k \in Keys : Exists(k)' <=> Exists(k)
    BY <2>3 DEF Exists
  <2>5. CacheType'
    <3>1. \A k \in Keys : ~Exists(k)' => entry'[k] = NoEntry
      BY <1>1, <1>4, <2>3, <2>4
    <3> QED BY <1>1, <1>2, <2>2, <2>3, <3>1 DEF CacheType
  <2>6. ASSUME TurnOf(u) PROVE TurnKept(u)
    <3>0. /\ Alone(u) /\ \A v \in Uses \ {u} : cachePc[v] \in Resting
          /\ \A k \in Keys : Exists(k) => entry[k].paths = 1..Paths \/ k = k0
      BY <2>6 DEF TurnOf
    <3>1. entry'[k0].paths = 1..(next'[u] - 1) /\ matched'[u] # k0 /\ Exists(k0)'
      BY <1>1, <1>2, <1>4, <2>3, <2>4, <3>0 DEF Alone, Saving
    <3>2. \A v \in Uses : cachePc'[v] \notin Resting => u = v
      BY <2>2, <3>0
    <3>3. Alone(u)'
      BY <2>2, <3>1, <3>2 DEF Alone, Saving, Resting
    <3>4. \A k \in Keys : Exists(k)' => Complete(k)'
      BY <2>2, <2>3, <2>4, <3>0 DEF Complete
    <3> QED BY <3>3, <3>4 DEF TurnKept
  <2>7. TurnsInv'
    BY <1>1, <1>2, <1>3, <2>2, <2>6, TurnsKeep
  <2>8. Settled' \subseteq Settled
    BY <1>1, <2>2, <2>3, SettledShrinks DEF Saving
  <2>9. QuotaInv'
    BY <1>1, <1>2, <2>2, <2>8, QuotaKeeps
  <2> QED BY <2>5, <2>7, <2>9 DEF CacheInv
<1>5. CASE ~Exists(k0)
  <2>1. CacheGo(u, "done") /\ UNCHANGED entry
    BY <1>5 DEF write_key
  <2>2. cachePc' \in [Uses -> CachePcs] /\ \A v \in Uses : cachePc'[v] = IF v = u THEN "done" ELSE cachePc[v]
    BY <1>1, <2>1, PlaceAfter DEF CachePcs, Resting
  <2>3. CacheType'
    BY <1>1, <1>2, <2>1, <2>2 DEF CacheType, Exists
  <2>4. ASSUME TurnOf(u) PROVE TurnKept(u)
    BY <1>2, <1>5, <2>4 DEF TurnOf, Alone
  <2>5. TurnsInv'
    BY <1>1, <1>2, <1>3, <2>2, <2>4, TurnsKeep
  <2>6. entry'[k0].paths = {}
    BY <1>1, <1>5, <2>1, CacheConstants
  <2>7. Settled' \subseteq Settled
    BY <1>1, <2>1, <2>2, <2>6, SettledShrinks
  <2>8. QuotaInv'
    BY <1>1, <1>2, <2>2, <2>7, QuotaKeeps
  <2> QED BY <2>3, <2>5, <2>8 DEF CacheInv
<1> QED BY <1>4, <1>5

\* A path is copied into the entry, or the save is given up.
LEMMA CopyKeeps == ASSUME CacheInv, NEW u \in Uses, copy_cache_path(u) PROVE CacheInv'
<1> DEFINE k0 == KeyOf[u]
<1>1. CacheType /\ TurnsInv /\ QuotaInv /\ k0 \in Keys /\ entry \in [Keys -> EntryType] /\ clock \in Nat
      /\ next \in [Uses -> 1..Paths] /\ Paths \in Nat \ {0} /\ Limit \in Nat
  BY CacheConstants DEF CacheInv, CacheType
<1>2. cachePc[u] = "copy" /\ UNCHANGED <<matched, restored, victims, used, cacheLoad>>
  BY DEF copy_cache_path
<1>3. cachePc[u] \notin Resting
  BY <1>2 DEF Resting
<1>4. CASE copied(u, Paths)
  <2> DEFINE l == IF next[u] < Paths THEN "copy" ELSE IF Limit = 0 THEN "done" ELSE "quota"
             n == IF next[u] < Paths THEN next[u] + 1 ELSE next[u]
             m == IF entry[k0].made = 0 THEN clock + 1 ELSE entry[k0].made
             e == [key |-> entry[k0].key, paths |-> entry[k0].paths \cup {next[u]}, made |-> m]
  <2>1. CacheGo(u, l)
    <3>1. cachePc = [cachePc EXCEPT ![u] = "copy"]
      BY <1>1, <1>2 DEF CacheType
    <3> QED BY <1>4, <3>1 DEF copied, CacheGo
  <2>2. next' = [next EXCEPT ![u] = n]
    BY <1>1, <1>4 DEF copied
  <2>3. entry' = [entry EXCEPT ![k0] = e]
    BY <1>1, <1>4 DEF copied
  <2>4. n \in 1..Paths /\ next[u] \in 1..Paths /\ m \in Nat /\ m # 0 /\ clock' \in Nat /\ entry[k0] \in EntryType
        /\ l \in CachePcs /\ l \notin {"evict", "erred"}
    BY <1>1, <1>4 DEF copied, EntryType, CachePcs, Resting, Saving
  <2>5. /\ entry' \in [Keys -> EntryType] /\ \A k \in Keys \ {k0} : entry'[k] = entry[k]
        /\ entry'[k0].paths = entry[k0].paths \cup {next[u]} /\ entry'[k0].made = m
    <3> HIDE DEF m
    <3>1. e \in EntryType /\ e.paths = entry[k0].paths \cup {next[u]} /\ e.made = m
      BY <2>4 DEF EntryType
    <3> HIDE DEF e
    <3> QED BY <1>1, <2>3, <3>1
  <2>6. next' \in [Uses -> 1..Paths] /\ next'[u] = n /\ \A v \in Uses \ {u} : next'[v] = next[v]
    <3> HIDE DEF n
    <3> QED BY <1>1, <2>2, <2>4
  <2>7. cachePc' \in [Uses -> CachePcs] /\ \A v \in Uses : cachePc'[v] = IF v = u THEN l ELSE cachePc[v]
    <3> HIDE DEF l
    <3> QED BY <1>1, <2>1, <2>4, PlaceAfter
  <2>8. Exists(k0)' /\ \A k \in Keys \ {k0} : Exists(k)' <=> Exists(k)
    <3> HIDE DEF m
    <3> QED BY <1>1, <2>4, <2>5 DEF Exists
  <2>9. CacheType'
    <3>1. \A k \in Keys : ~Exists(k)' => entry'[k] = NoEntry
      BY <1>1, <2>5, <2>8 DEF CacheType
    <3>2. \A v \in Uses : cachePc'[v] = "restore" => matched'[v] \in Keys
      BY <1>1, <1>2, <2>7 DEF CacheType
    <3> HIDE DEF l, m, n
    <3> QED BY <1>1, <1>2, <2>4, <2>5, <2>6, <2>7, <3>1, <3>2 DEF CacheType
  <2>10. ASSUME TurnOf(u) PROVE TurnKept(u)
    <3>0. /\ Alone(u) /\ \A v \in Uses \ {u} : cachePc[v] \in Resting
          /\ \A k \in Keys : Exists(k) => entry[k].paths = 1..Paths \/ k = k0
      BY <2>10 DEF TurnOf
    <3>1. entry[k0].paths = 1..(next[u] - 1) /\ matched[u] # k0
      BY <1>2, <3>0 DEF Alone, Saving
    <3>2. entry'[k0].paths = 1..next[u]
      BY <2>4, <2>5, <3>1
    <3>3. \A v \in Uses : cachePc'[v] \notin Resting => u = v
      BY <2>7, <3>0
    <3>4. CASE next[u] < Paths
      <4>1. l = "copy" /\ n = next[u] + 1 /\ 1..(n - 1) = 1..next[u]
        BY <1>1, <2>4, <3>4
      <4> HIDE DEF l, n
      <4>2. Alone(u)'
        BY <1>2, <2>6, <2>7, <2>8, <3>1, <3>2, <3>3, <4>1 DEF Alone, Saving, Resting
      <4>3. \A k \in Keys : Exists(k)' => Complete(k)'
        BY <2>5, <2>7, <2>8, <3>0, <4>1 DEF Complete
      <4> QED BY <4>2, <4>3 DEF TurnKept
    <3>5. CASE ~(next[u] < Paths)
      <4>1. l \in {"done", "quota"} /\ 1..next[u] = 1..Paths
        BY <1>1, <2>4, <3>5
      <4> HIDE DEF l, n
      <4>2. Alone(u)'
        BY <1>2, <2>6, <2>7, <2>8, <3>1, <3>2, <3>3, <4>1 DEF Alone, Saving, Resting
      <4>3. \A k \in Keys : Exists(k)' => Complete(k)'
        BY <2>5, <2>7, <2>8, <3>0, <3>2, <4>1 DEF Complete
      <4> QED BY <4>2, <4>3 DEF TurnKept
    <3> QED BY <3>4, <3>5
  <2>11. TurnsInv'
    <3> HIDE DEF l, n, m
    <3> QED BY <1>1, <1>2, <1>3, <2>6, <2>7, <2>10, TurnsKeep
  <2>12. QuotaInv'
    <3>1. CASE Limit # 0
      <4>1. l \in Saving
        BY <3>1 DEF Saving
      <4> HIDE DEF l, n, m
      <4>2. Settled' \subseteq Settled
        BY <1>1, <2>5, <2>7, <4>1, SettledShrinks
      <4> QED BY <1>1, <1>2, <2>4, <2>7, <4>2, QuotaKeeps
    <3>2. CASE Limit = 0
      <4>1. \A v \in Uses : Own(v)' = Own(v)
        BY <1>2 DEF Own
      <4> HIDE DEF l, n, m
      <4>2. \A v \in Uses : cachePc'[v] = "evict" => cachePc[v] = "evict"
        BY <2>4, <2>7
      <4> QED BY <1>1, <3>2, <4>1, <4>2 DEF QuotaInv
    <3> QED BY <3>1, <3>2
  <2> QED BY <2>9, <2>11, <2>12 DEF CacheInv
<1>5. CASE cacheLoad.fails /\ CacheGo(u, "done") /\ UNCHANGED <<entry, clock, next>>
  <2>1. cachePc' \in [Uses -> CachePcs] /\ \A v \in Uses : cachePc'[v] = IF v = u THEN "done" ELSE cachePc[v]
    BY <1>1, <1>5, PlaceAfter DEF CachePcs, Resting
  <2>2. CacheType'
    BY <1>1, <1>2, <1>5, <2>1 DEF CacheType, Exists
  <2>3. TurnsInv'
    BY <1>2, <1>5 DEF TurnsInv
  <2>4. \A v \in Uses : Own(v)' = Own(v)
    BY <1>2 DEF Own
  <2>5. QuotaInv'
    BY <1>1, <1>2, <1>5, <2>1, <2>4 DEF QuotaInv
  <2> QED BY <2>2, <2>3, <2>5 DEF CacheInv
<1> QED BY <1>4, <1>5 DEF copy_cache_path

\* An entry is removed by use u, which goes to l; what all removals keep.
LEMMA RemoveKeeps ==
  ASSUME CacheInv, NEW u \in Uses, NEW k0 \in Keys, RemoveEntry(k0), NEW l \in {"done", "evict"},
         cachePc[u] \in {"quota", "evict"}, CacheGo(u, l),
         UNCHANGED <<clock, matched, restored, next, cacheLoad>>,
         victims' \in [Uses -> SUBSET [key : Keys, made : Nat]], used' \in [Uses -> SUBSET AllPaths]
  PROVE  /\ CacheType' /\ TurnsInv'
         /\ \A v \in Uses : cachePc'[v] = IF v = u THEN l ELSE cachePc[v]
         /\ \A k \in Keys : entry'[k] = IF k = k0 THEN NoEntry ELSE entry[k]
<1>1. CacheType /\ TurnsInv /\ entry \in [Keys -> EntryType] /\ NoEntry \in EntryType /\ NoEntry.made = 0
  BY CacheConstants DEF CacheInv, CacheType
<1>2. cachePc' \in [Uses -> CachePcs] /\ \A v \in Uses : cachePc'[v] = IF v = u THEN l ELSE cachePc[v]
  BY <1>1, PlaceAfter DEF CachePcs, Resting
<1>3. entry' \in [Keys -> EntryType] /\ \A k \in Keys : entry'[k] = IF k = k0 THEN NoEntry ELSE entry[k]
  BY <1>1 DEF RemoveEntry
<1>4. \A k \in Keys : Exists(k)' => k # k0 /\ Exists(k)
  BY <1>1, <1>3 DEF Exists
<1>5. CacheType'
  <2>1. \A k \in Keys : ~Exists(k)' => entry'[k] = NoEntry
    BY <1>1, <1>3 DEF CacheType, Exists
  <2>2. \A v \in Uses : cachePc'[v] = "restore" => matched'[v] \in Keys
    BY <1>1, <1>2 DEF CacheType
  <2> QED BY <1>1, <1>2, <1>3, <2>1, <2>2 DEF CacheType
<1>6. ASSUME TurnOf(u) PROVE TurnKept(u)
  <2>0. /\ Alone(u) /\ \A v \in Uses \ {u} : cachePc[v] \in Resting
        /\ \A k \in Keys : Exists(k) => entry[k].paths = 1..Paths
    BY <1>6 DEF TurnOf
  <2>1. \A v \in Uses : cachePc'[v] \notin Resting => u = v
    BY <1>2, <2>0
  <2>2. Alone(u)'
    BY <1>2, <2>0, <2>1 DEF Alone, Saving, Resting
  <2>3. \A k \in Keys : Exists(k)' => Complete(k)'
    BY <1>3, <1>4, <2>0 DEF Complete
  <2> QED BY <2>2, <2>3 DEF TurnKept
<1>7. cachePc[u] \notin Resting
  BY DEF Resting
<1>8. TurnsInv'
  BY <1>1, <1>2, <1>6, <1>7, TurnsKeep
<1> QED BY <1>2, <1>3, <1>5, <1>8

\* A use ends or starts its scan, with the entries as they are.
LEMMA ScanMoves ==
  ASSUME CacheInv, NEW u \in Uses, NEW l \in {"done", "evict", "erred"},
         cachePc[u] \in {"quota", "evict"}, CacheGo(u, l),
         UNCHANGED <<entry, clock, matched, restored, next, cacheLoad>>,
         victims' \in [Uses -> SUBSET [key : Keys, made : Nat]], used' \in [Uses -> SUBSET AllPaths]
  PROVE  /\ CacheType' /\ TurnsInv'
         /\ \A v \in Uses : cachePc'[v] = IF v = u THEN l ELSE cachePc[v]
<1>1. CacheType /\ TurnsInv
  BY DEF CacheInv
<1>2. cachePc' \in [Uses -> CachePcs] /\ \A v \in Uses : cachePc'[v] = IF v = u THEN l ELSE cachePc[v]
  BY <1>1, PlaceAfter DEF CachePcs, Resting
<1>3. CacheType'
  <2>1. \A v \in Uses : cachePc'[v] = "restore" => matched'[v] \in Keys
    BY <1>1, <1>2 DEF CacheType
  <2> QED BY <1>1, <1>2, <2>1 DEF CacheType, Exists
<1>4. ASSUME TurnOf(u) PROVE TurnKept(u)
  <2>0. /\ Alone(u) /\ \A v \in Uses \ {u} : cachePc[v] \in Resting
        /\ \A k \in Keys : Exists(k) => entry[k].paths = 1..Paths
    BY <1>4 DEF TurnOf
  <2>1. \A v \in Uses : cachePc'[v] \notin Resting => u = v
    BY <1>2, <2>0
  <2>2. Alone(u)'
    BY <1>2, <2>0, <2>1 DEF Alone, Saving, Resting
  <2>3. \A k \in Keys : Exists(k)' => Complete(k)'
    BY <2>0 DEF Complete, Exists
  <2> QED BY <2>2, <2>3 DEF TurnKept
<1>5. cachePc[u] \notin Resting
  BY DEF Resting
<1>6. TurnsInv'
  BY <1>1, <1>2, <1>4, <1>5, TurnsKeep
<1> QED BY <1>2, <1>3, <1>6

\* The quota is applied: the entry is removed again, or the others are scanned.
LEMMA ApplyQuotaKeeps == ASSUME CacheInv, NEW u \in Uses, apply_actions_cache_quota(u) PROVE CacheInv'
<1> DEFINE k0 == KeyOf[u]
<1>1. CacheType /\ QuotaInv /\ k0 \in Keys /\ entry \in [Keys -> EntryType] /\ Limit \in Nat
      /\ victims \in [Uses -> SUBSET [key : Keys, made : Nat]] /\ used \in [Uses -> SUBSET AllPaths]
      /\ \A k \in Keys : ~Exists(k) => entry[k] = NoEntry
  BY CacheConstants DEF CacheInv, CacheType
<1>2. cachePc[u] = "quota" /\ UNCHANGED <<clock, matched, restored, next, cacheLoad>>
  BY DEF apply_actions_cache_quota
<1>3. CASE ~Exists(k0)
  <2>1. CacheGo(u, "done") /\ UNCHANGED <<entry, victims, used>>
    BY <1>3 DEF apply_actions_cache_quota
  <2>2. CacheType' /\ TurnsInv' /\ \A v \in Uses : cachePc'[v] = IF v = u THEN "done" ELSE cachePc[v]
    BY <1>1, <1>2, <2>1, ScanMoves
  <2>3. entry'[k0].paths = {}
    BY <1>1, <1>3, <2>1, CacheConstants
  <2>4. Settled' \subseteq Settled
    BY <1>1, <2>1, <2>2, <2>3, SettledShrinks
  <2>5. QuotaInv'
    BY <1>1, <1>2, <2>1, <2>2, <2>4, QuotaKeeps
  <2> QED BY <2>2, <2>5 DEF CacheInv
<1>4. CASE Exists(k0) /\ Size(k0) > Limit
  <2>1. RemoveEntry(k0) /\ CacheGo(u, "done") /\ UNCHANGED <<victims, used>>
    BY <1>4 DEF apply_actions_cache_quota
  <2>2. /\ CacheType' /\ TurnsInv' /\ \A v \in Uses : cachePc'[v] = IF v = u THEN "done" ELSE cachePc[v]
        /\ \A k \in Keys : entry'[k] = IF k = k0 THEN NoEntry ELSE entry[k]
    BY <1>1, <1>2, <2>1, RemoveKeeps
  <2>3. Settled' \subseteq Settled
    BY <1>1, <2>2, CacheConstants, SettledShrinks
  <2>4. QuotaInv'
    BY <1>1, <1>2, <2>1, <2>2, <2>3, QuotaKeeps
  <2> QED BY <2>2, <2>4 DEF CacheInv
<1>5. CASE Exists(k0) /\ ~(Size(k0) > Limit)
  <2>1. /\ victims' = [victims EXCEPT ![u] = actions_cache_quota_entries(u)]
        /\ used' = [used EXCEPT ![u] = StoredPaths] /\ CacheGo(u, "evict") /\ UNCHANGED entry
    BY <1>5 DEF apply_actions_cache_quota, scope_used
  <2>2. actions_cache_quota_entries(u) \in SUBSET [key : Keys, made : Nat]
    BY <1>1 DEF actions_cache_quota_entries, StoredKeys, EntryType
  <2>3. StoredPaths \in SUBSET AllPaths
    BY DEF StoredPaths, AllPaths
  <2>4. /\ victims' \in [Uses -> SUBSET [key : Keys, made : Nat]] /\ used' \in [Uses -> SUBSET AllPaths]
        /\ victims'[u] = actions_cache_quota_entries(u) /\ used'[u] = StoredPaths
        /\ \A v \in Uses \ {u} : victims'[v] = victims[v] /\ used'[v] = used[v]
    BY <1>1, <2>1, <2>2, <2>3
  <2>5. CacheType' /\ TurnsInv' /\ \A v \in Uses : cachePc'[v] = IF v = u THEN "evict" ELSE cachePc[v]
    BY <1>1, <1>2, <2>1, <2>4, ScanMoves
  <2>6. Cardinality({x \in StoredPaths : x[1] = k0}) <= Limit
    <3>1. {x \in StoredPaths : x[1] = k0} = {k0} \X entry[k0].paths
      BY <1>1 DEF StoredPaths, EntryType
    <3>2. IsFiniteSet(entry[k0].paths) /\ IsFiniteSet({k0}) /\ Cardinality({k0}) = 1
      <4>1. Paths \in Int /\ 1 \in Int
        BY CacheAssumption
      <4>2. IsFiniteSet(1..Paths)
        BY <4>1, FS_Interval
      <4>3. entry[k0].paths \subseteq 1..Paths
        BY <1>1 DEF EntryType
      <4> QED BY <4>2, <4>3, FS_Subset, FS_Singleton
    <3>3. Cardinality({k0} \X entry[k0].paths) = 1 * Cardinality(entry[k0].paths)
      BY <3>2, FS_Product
    <3>4. Cardinality(entry[k0].paths) \in Nat
      BY <3>2, FS_CardinalityType
    <3>5. Cardinality(entry[k0].paths) <= Limit
      BY <1>1, <1>5, <3>4 DEF Size
    <3>6. 1 * Cardinality(entry[k0].paths) = Cardinality(entry[k0].paths)
      BY <3>4
    <3> QED BY <3>1, <3>3, <3>5, <3>6
  <2>7. \A v \in Uses : cachePc'[v] = "evict" => Cardinality(Own(v)') <= Limit
    <3>1. Own(u)' = {x \in StoredPaths : x[1] = k0}
      BY <2>4 DEF Own
    <3>2. \A v \in Uses \ {u} : Own(v)' = Own(v)
      BY <2>4 DEF Own
    <3>3. \A v \in Uses \ {u} : cachePc[v] = "evict" => Cardinality(Own(v)) <= Limit
      BY <1>1 DEF QuotaInv
    <3> QED BY <2>5, <2>6, <3>1, <3>2, <3>3
  <2>8. Evicts(u)'
    <3>1. Settled' \subseteq StoredPaths
      BY <2>1 DEF Settled, StoredPaths
    <3>2. ASSUME NEW x \in StoredPaths, x[1] # k0 PROVE \E e \in actions_cache_quota_entries(u) : e.key = x[1]
      <4>1. x[1] \in Keys /\ x[2] \in entry[x[1]].paths
        BY DEF StoredPaths
      <4>2. Exists(x[1])
        BY <1>1, <4>1, CacheConstants
      <4>3. x[1] \in StoredKeys \ {k0}
        BY <3>2, <4>1, <4>2 DEF StoredKeys
      <4>4. [key |-> x[1], made |-> entry[x[1]].made] \in actions_cache_quota_entries(u)
        BY <4>3 DEF actions_cache_quota_entries
      <4> QED BY <4>4
    <3> QED BY <2>4, <2>5, <3>1, <3>2 DEF Evicts
  <2>9. QuotaInv'
    BY <2>7, <2>8 DEF QuotaInv
  <2> QED BY <2>5, <2>9 DEF CacheInv
<1> QED BY <1>3, <1>4, <1>5

\* The oldest of a scan is one of it.
LEMMA OldestIs ==
  ASSUME NEW es \in SUBSET [key : Keys, made : Nat], es # {}
  PROVE  Oldest(es) \in es
<1> DEFINE T == {e.made : e \in es}
<1>1. T \subseteq Nat /\ T # {}
  OBVIOUS
<1>2. PICK m \in T : \A k \in T : m <= k
  <2> HIDE DEF T
  <2> QED BY <1>1, LeastOf
<1>3. PICK e \in es : m = e.made
  OBVIOUS
<1>4. \A f \in es : e.made <= f.made
  BY <1>2, <1>3
<1> QED BY <1>3, <1>4 DEF Oldest

\* A step of an eviction.
LEMMA EvictKeeps == ASSUME CacheInv, NEW u \in Uses, enforce_actions_cache_scope_quota(u) PROVE CacheInv'
<1>1. CacheType /\ QuotaInv /\ KeyOf[u] \in Keys /\ entry \in [Keys -> EntryType] /\ Limit \in Nat
      /\ victims \in [Uses -> SUBSET [key : Keys, made : Nat]] /\ used \in [Uses -> SUBSET AllPaths]
  BY CacheConstants DEF CacheInv, CacheType
<1>2. cachePc[u] = "evict" /\ UNCHANGED <<clock, matched, restored, next, cacheLoad>>
  BY DEF enforce_actions_cache_scope_quota
<1>3. /\ Cardinality(Own(u)) <= Limit
      /\ \A S, T \in SUBSET AllPaths : S \subseteq T => Cardinality(S) <= Cardinality(T)
      /\ \A R \in SUBSET AllPaths : Cardinality(R) \in Nat
  BY <1>1, <1>2, StoredIs DEF QuotaInv
<1>4. Settled \in SUBSET AllPaths
  BY DEF Settled, StoredPaths, AllPaths
<1>5. CASE Cardinality(used[u]) <= Limit \/ victims[u] = {}
  <2>1. CacheGo(u, "done") /\ UNCHANGED <<entry, victims, used>>
    BY <1>5 DEF enforce_actions_cache_scope_quota
  <2>2. CacheType' /\ TurnsInv' /\ \A v \in Uses : cachePc'[v] = IF v = u THEN "done" ELSE cachePc[v]
    BY <1>1, <1>2, <2>1, ScanMoves
  <2>3. \A v \in Uses : cachePc[v] \in Saving <=> cachePc'[v] \in Saving
    BY <1>2, <2>2 DEF Saving
  <2>4. Settled' = Settled
    BY <2>1, <2>3 DEF Settled, StoredPaths, Growing
  <2>5. Evicts(u) => Cardinality(Settled) <= Limit
    <3> SUFFICES ASSUME Evicts(u) PROVE Cardinality(Settled) <= Limit
      OBVIOUS
    <3>1. Settled \subseteq used[u] /\ used[u] \in SUBSET AllPaths
      BY <1>1 DEF Evicts
    <3>2. CASE Cardinality(used[u]) <= Limit
      BY <1>1, <1>3, <1>4, <3>1, <3>2
    <3>3. CASE victims[u] = {}
      <4>1. used[u] = Own(u)
        BY <3>3 DEF Evicts, Own
      <4> QED BY <1>1, <1>3, <1>4, <3>1, <4>1
    <3> QED BY <1>5, <3>2, <3>3
  <2>6. \A v \in Uses \ {u} : Evicts(v) => Evicts(v)'
    BY <2>1, <2>2, <2>4 DEF Evicts
  <2>7. \A v \in Uses : Own(v)' = Own(v)
    BY <2>1 DEF Own
  <2>8. QuotaInv'
    BY <1>1, <1>2, <2>2, <2>4, <2>5, <2>6, <2>7 DEF QuotaInv
  <2> QED BY <2>2, <2>8 DEF CacheInv
<1>6. CASE ~(Cardinality(used[u]) <= Limit \/ victims[u] = {})
  <2> DEFINE e == Oldest(victims[u])
  <2>1. e \in victims[u] /\ e.key \in Keys
    BY <1>1, <1>6, OldestIs
  <2> HIDE DEF e
  <2>2. CASE Exists(e.key)
    <3>1. /\ RemoveEntry(e.key) /\ used' = [used EXCEPT ![u] = @ \ ({e.key} \X (1..Paths))]
          /\ victims' = [victims EXCEPT ![u] = @ \ {e}] /\ UNCHANGED cachePc
      BY <1>6, <2>2 DEF enforce_actions_cache_scope_quota, e
    <3>2. /\ victims' \in [Uses -> SUBSET [key : Keys, made : Nat]] /\ used' \in [Uses -> SUBSET AllPaths]
          /\ victims'[u] = victims[u] \ {e} /\ used'[u] = used[u] \ ({e.key} \X (1..Paths))
          /\ \A v \in Uses \ {u} : victims'[v] = victims[v] /\ used'[v] = used[v]
      BY <1>1, <3>1
    <3>3. CacheGo(u, "evict")
      BY <1>1, <1>2, <3>1 DEF CacheGo, CacheType
    <3>4. CacheType' /\ TurnsInv' /\ \A k \in Keys : entry'[k] = IF k = e.key THEN NoEntry ELSE entry[k]
      BY <1>2, <2>1, <3>1, <3>2, <3>3, RemoveKeeps
    <3>5. Settled' \subseteq Settled /\ \A x \in Settled' : x[1] # e.key
      <4>1. Growing' = Growing
        BY <3>1 DEF Growing
      <4>2. \A x \in StoredPaths' : x \in StoredPaths /\ x[1] # e.key
        BY <3>4, CacheConstants DEF StoredPaths
      <4> QED BY <4>1, <4>2 DEF Settled
    <3>6. Settled' \in SUBSET AllPaths
      BY <1>4, <3>5
    <3>7. ASSUME NEW v \in Uses, Evicts(v) PROVE Evicts(v)'
      <4>1. CASE v # u
        BY <3>1, <3>2, <3>5, <3>7, <4>1 DEF Evicts
      <4>2. CASE v = u
        <5>1. Settled' \subseteq used'[u]
          BY <3>2, <3>5, <3>7, <4>2 DEF Evicts
        <5>2. \A x \in used'[u] : x[1] # e.key /\ x \in used[u]
          BY <1>1, <3>2 DEF AllPaths
        <5>3. \A x \in used'[u] : x[1] = KeyOf[u] \/ \E f \in victims'[u] : f.key = x[1]
          BY <3>2, <3>7, <4>2, <5>2 DEF Evicts
        <5> QED BY <1>2, <3>1, <4>2, <5>1, <5>3 DEF Evicts
      <4> QED BY <4>1, <4>2
    <3>8. ASSUME NEW v \in Uses, cachePc'[v] = "evict" PROVE Cardinality(Own(v)') <= Limit
      <4>1. Own(v)' \subseteq Own(v) /\ Own(v) \in SUBSET AllPaths
        BY <1>1, <3>2 DEF Own
      <4>2. Cardinality(Own(v)) <= Limit
        BY <1>1, <3>1, <3>8 DEF QuotaInv
      <4>3. Cardinality(Own(v)') \in Nat /\ Cardinality(Own(v)) \in Nat /\ Cardinality(Own(v)') <= Cardinality(Own(v))
        BY <1>3, <4>1
      <4> QED BY <1>1, <4>2, <4>3
    <3>9. Cardinality(Settled) <= Limit => Cardinality(Settled') <= Limit
      <4>1. Cardinality(Settled') \in Nat /\ Cardinality(Settled) \in Nat /\ Cardinality(Settled') <= Cardinality(Settled)
        BY <1>3, <1>4, <3>5, <3>6
      <4> QED BY <1>1, <4>1
    <3>10. QuotaInv'
      BY <1>1, <1>2, <3>1, <3>7, <3>8, <3>9 DEF QuotaInv
    <3> QED BY <3>4, <3>10 DEF CacheInv
  <2>3. CASE ~Exists(e.key)
    <3>1. CacheGo(u, "erred") /\ UNCHANGED <<entry, victims, used>>
      BY <1>6, <2>3 DEF enforce_actions_cache_scope_quota, e
    <3>2. CacheType' /\ TurnsInv' /\ \A v \in Uses : cachePc'[v] = IF v = u THEN "erred" ELSE cachePc[v]
      BY <1>1, <1>2, <3>1, ScanMoves
    <3>3. \A v \in Uses : Own(v)' = Own(v)
      BY <3>1 DEF Own
    <3>4. QuotaInv'
      BY <1>1, <3>2, <3>3 DEF QuotaInv
    <3> QED BY <3>2, <3>4 DEF CacheInv
  <2> QED BY <2>2, <2>3
<1> QED BY <1>5, <1>6

\* The store is empty at first.
LEMMA CacheStarts == ASSUME CacheInit PROVE CacheInv
<1>1. /\ NoEntry \in EntryType /\ NoEntry.paths = {} /\ NoEntry.made = 0 /\ Limit \in Nat /\ 1 \in 1..Paths
      /\ \A u \in Uses : KeyOf[u] \in Keys
  BY CacheConstants
<1>2. /\ \A k \in Keys : entry[k] = NoEntry
      /\ \A u \in Uses : cachePc[u] = "idle" /\ next[u] = 1 /\ restored[u] = {}
  BY DEF CacheInit
<1>3. "idle" \in CachePcs /\ "idle" \in Resting
  BY DEF CachePcs, Resting
<1>4. CacheType
  BY <1>1, <1>2, <1>3, CacheAssumption DEF CacheInit, CacheType, Exists
<1>5. TurnsInv
  BY <1>1, <1>2, <1>3 DEF TurnsInv, Alone, Saving, Exists
<1>6. Settled = {}
  BY <1>1, <1>2 DEF Settled, StoredPaths
<1>7. QuotaInv
  <2>1. Cardinality(Settled) <= Limit
    BY <1>1, <1>6, FS_EmptySet
  <2> QED BY <1>2, <2>1 DEF QuotaInv
<1> QED BY <1>4, <1>5, <1>7 DEF CacheInv

\* Every step of a use keeps the invariant.
LEMMA CacheKeeps == ASSUME CacheInv, CacheNext PROVE CacheInv'
BY LookupKeeps, RestorePathsKeeps, JobStepsKeeps, SaveKeeps, WriteKeyKeeps, CopyKeeps, ApplyQuotaKeeps,
   EvictKeeps DEF CacheNext

----------------------------------------------------------------------------
(* The CI cache: the theorem.                                              *)

\* What the invariant says of every state of a behaviour of the cache.
CachePart == part = "cache" => CacheInv

\* A job that was told cache-hit has every path when jobs take turns, and the
\* store is within its quota when nobody saves, whatever saves and evictions
\* overlapped, unless a save failed or two evictions met
\* (enforce_actions_cache_scope_quota).
THEOREM CacheWithinQuota == Spec => []CacheHolds
<1>1. MCInit => CachePart
  BY CacheStarts DEF MCInit, CachePart
<1>2. CachePart /\ [MCNext]_allVars => CachePart'
  <2> SUFFICES ASSUME CachePart, [MCNext]_allVars, part' = "cache" PROVE CacheInv'
    BY DEF CachePart
  <2>1. CASE MCNext
    <3>1. part = "cache" /\ CacheNext
      BY <2>1 DEF MCNext
    <3> QED BY <3>1, CacheKeeps DEF CachePart
  <2>2. CASE UNCHANGED allVars
    <3>1. UNCHANGED <<part, cacheVars>>
      BY <2>2 DEF allVars
    <3>2. CacheInv
      BY <3>1 DEF CachePart
    <3>3. UNCHANGED <<entry, clock, cachePc, matched, restored, next, victims, used, cacheLoad>>
      BY <3>1 DEF cacheVars
    <3>4. UNCHANGED <<StoredPaths, Growing>>
      BY <3>3 DEF StoredPaths, Growing
    <3>5. UNCHANGED Settled
      BY <3>4 DEF Settled
    <3>6. CacheType' /\ TurnsInv'
      BY <3>2, <3>3 DEF CacheInv, CacheType, TurnsInv, Alone, Complete, Exists
    <3>7. QuotaInv'
      BY <3>2, <3>3, <3>5 DEF CacheInv, QuotaInv, Own, Evicts
    <3> QED BY <3>6, <3>7 DEF CacheInv
  <2> QED BY <2>1, <2>2
<1>3. CachePart => CacheHolds
  <2> SUFFICES ASSUME CacheInv PROVE HitIsComplete /\ QuotaHolds
    BY DEF CachePart, CacheHolds
  <2>1. HitIsComplete
    BY DEF CacheInv, TurnsInv, Alone, HitIsComplete
  <2>2. QuotaHolds
    <3> SUFFICES ASSUME Limit # 0, ~cacheLoad.fails,
                        \A u \in Uses : cachePc[u] \notin {"key", "copy", "quota", "evict", "erred"}
                 PROVE  Cardinality(StoredPaths) <= Limit
      BY DEF QuotaHolds
    <3>1. Settled = StoredPaths
      BY DEF Settled, StoredPaths, Growing, Saving
    <3> QED BY <3>1 DEF CacheInv, QuotaInv, Evicts
  <2> QED BY <2>1, <2>2
<1> QED BY <1>1, <1>2, <1>3, PTL DEF Spec

----------------------------------------------------------------------------
(* Apps and services: the inductive invariant.                             *)

CtrFields == {"slug", "running", "restart", "vols", "nets", "healthy", "checked", "secret"}
AppShape ==
  /\ appLoad \in AppLoads /\ DOMAIN appPc = Jobs /\ DOMAIN appAns = Jobs /\ DOMAIN rmList = Jobs
  /\ \A n \in Containers : DOMAIN ctr[n] = CtrFields

\* A clone that has not begun has nothing, one that goes on has not answered.
ClonesInv ==
  \A j \in Jobs : AppCmd(j).kind = "clone" =>
    /\ appPc[j] = "idle" => j \notin askpass /\ j \notin workdir
    /\ appPc[j] # "done" => appAns[j] = "none"
    /\ appAns[j] \in {"completed", "failed"} => j \notin askpass
    /\ appAns[j] = "failed" => j \notin workdir

\* The secret file of an app is in the directory of its slug, and it is written
\* before the container that mounts it is created.
SecretsInv ==
  /\ \A d \in DOMAIN secretFile : secretFile[d] = d
  /\ \A j \in Jobs : AppCmd(j).secret /\ appPc[j] = "create" => AppCmd(j).slug \in DOMAIN secretFile
  /\ \A n \in Containers : ctr[n].secret # NoName =>
       ctr[n].secret \in DOMAIN secretFile /\ ctr[n].slug = ctr[n].secret

\* A cleanup lists containers that its app's name begins.
ListsInv == \A j \in Jobs : \A n \in rmList[j] : Matches(j, n)

AppInv == AppShape /\ BuildsExclusive /\ ClonesInv /\ SecretsInv /\ ListsInv

----------------------------------------------------------------------------
(* The slug that a container's name tells.                                 *)

\* deploy-app-<slug>-<n> tells <slug>, whatever dashes the slug has.
LEMMA SlugOf ==
  ASSUME NEW S, NEW slug \in Seq(S), slug # <<>>, NEW x, NEW name, name = <<Prefix>> \o slug \o <<x>>
  PROVE  extract_slug_from_container(name) = slug
<1> DEFINE T == S \cup {Prefix, x}
<1>1. <<Prefix>> \in Seq(T) /\ slug \in Seq(T) /\ <<x>> \in Seq(T) /\ Len(slug) \in Nat \ {0}
  <2>1. slug \in Seq(T)
    <3>1. slug \in [1..Len(slug) -> S] /\ Len(slug) \in Nat
      OBVIOUS
    <3>2. slug \in [1..Len(slug) -> T]
      BY <3>1
    <3> HIDE DEF T
    <3> QED BY <3>1, <3>2, FunctionIsSeq
  <2> QED BY <2>1
<1> HIDE DEF T
<1> DEFINE front == <<Prefix>> \o slug
<1>2. /\ front \in Seq(T) /\ Len(front) = Len(slug) + 1 /\ front[1] = Prefix
      /\ \A i \in 1..Len(slug) : front[i + 1] = slug[i]
  BY <1>1
<1> HIDE DEF front
<1>3. name = front \o <<x>>
  BY DEF front
<1>4. /\ name \in Seq(T) /\ Len(name) = Len(slug) + 2 /\ name[1] = Prefix
      /\ \A i \in 1..Len(slug) : name[i + 1] = slug[i]
  BY <1>1, <1>2, <1>3
<1> DEFINE told == SubSeq(name, 2, Len(name) - 1)
<1>5. told \in Seq(T) /\ Len(told) = Len(slug) /\ \A i \in 1..Len(slug) : told[i] = name[i + 1]
  BY <1>1, <1>4
<1> HIDE DEF told
<1>6. told = slug
  BY <1>1, <1>4, <1>5
<1>7. extract_slug_from_container(name) = told
  BY <1>1, <1>4 DEF extract_slug_from_container, told
<1> QED BY <1>6, <1>7

\* So every deploy with a secret has its directory of its own slug.
LEMMA SecretDir ==
  ASSUME AppShape, NEW j \in Jobs, AppCmd(j).secret
  PROVE  AppCmd(j).kind = "deploy" /\ extract_slug_from_container(AppCmd(j).name) = AppCmd(j).slug
<1> DEFINE c == AppCmd(j)
<1>1. /\ c.kind = "deploy" /\ c.slug \in Seq(STRING) /\ c.slug # <<>>
      /\ c.name = <<Prefix>> \o c.slug \o <<c.name[Len(c.name)]>>
  BY AppAssumption DEF AppShape, Jobs, AppCmd
<1> HIDE DEF c
<1>2. extract_slug_from_container(c.name) = c.slug
  BY <1>1, SlugOf
<1> QED BY <1>1, <1>2 DEF c

----------------------------------------------------------------------------
(* A step of one command.                                                  *)

\* Command j moves, the others stay where they are.
OneMoves(j) ==
  /\ appLoad' = appLoad /\ DOMAIN appPc' = Jobs /\ DOMAIN appAns' = Jobs
  /\ \A i \in Jobs : i # j => appPc'[i] = appPc[i] /\ appAns'[i] = appAns[i]

\* The containers lose or keep their names, and keep app and secret.
SameMounts ==
  \A n \in Containers' :
    /\ n \in Containers /\ DOMAIN ctr'[n] = CtrFields
    /\ ctr'[n].secret = ctr[n].secret /\ ctr'[n].slug = ctr[n].slug

\* One build in a directory, said of the commands, where they are and the locks.
Building(ld, p, i) == ld.cmds[i].kind = "build" /\ p[i] = "docker_build"
BuildersIs(ld, p, lk) ==
  /\ \A i, k \in DOMAIN ld.cmds :
       Building(ld, p, i) /\ Building(ld, p, k) /\ ld.cmds[i].dir = ld.cmds[k].dir => i = k
  /\ \A d : d \in lk <=> \E i \in DOMAIN ld.cmds : Building(ld, p, i) /\ ld.cmds[i].dir = d
\* Which is what BuildsExclusive says.
LEMMA BuildersSet ==
  ASSUME NEW ld, NEW p, NEW lk
  PROVE  BuildersIs(ld, p, lk) <=>
           /\ \A i, k \in {x \in DOMAIN ld.cmds : Building(ld, p, x)} :
                ld.cmds[i].dir = ld.cmds[k].dir => i = k
           /\ lk = {ld.cmds[x].dir : x \in {y \in DOMAIN ld.cmds : Building(ld, p, y)}}
<1> DEFINE B == {x \in DOMAIN ld.cmds : Building(ld, p, x)}
           D == {ld.cmds[x].dir : x \in B}
<1>1. \A x : x \in B <=> x \in DOMAIN ld.cmds /\ Building(ld, p, x)
  OBVIOUS
<1>2. \A d : d \in D <=> \E x \in B : ld.cmds[x].dir = d
  OBVIOUS
<1> HIDE DEF B, D
<1>3. lk = D <=> \A d : d \in lk <=> d \in D
  OBVIOUS
<1>4. (\A d : d \in lk <=> d \in D)
      <=> (\A d : d \in lk <=> \E x \in DOMAIN ld.cmds : Building(ld, p, x) /\ ld.cmds[x].dir = d)
  BY <1>1, <1>2
<1>5. (\A i, k \in B : ld.cmds[i].dir = ld.cmds[k].dir => i = k)
      <=> (\A i, k \in DOMAIN ld.cmds :
             Building(ld, p, i) /\ Building(ld, p, k) /\ ld.cmds[i].dir = ld.cmds[k].dir => i = k)
  BY <1>1
<1>6. BuildersIs(ld, p, lk) <=> (\A i, k \in B : ld.cmds[i].dir = ld.cmds[k].dir => i = k) /\ lk = D
  BY <1>3, <1>4, <1>5 DEF BuildersIs
<1> QED BY <1>6 DEF B, D

\* In this state and in the next.
LEMMA BuildersAre ==
  /\ BuildsExclusive <=> BuildersIs(appLoad, appPc, appLocks)
  /\ BuildsExclusive' <=> BuildersIs(appLoad', appPc', appLocks')
<1>1. BuildsExclusive <=> BuildersIs(appLoad, appPc, appLocks)
  <2> DEFINE ld == appLoad  p == appPc  lk == appLocks
  <2>1. BuildersIs(ld, p, lk) <=>
           /\ \A i, k \in {x \in DOMAIN ld.cmds : Building(ld, p, x)} :
                ld.cmds[i].dir = ld.cmds[k].dir => i = k
           /\ lk = {ld.cmds[x].dir : x \in {y \in DOMAIN ld.cmds : Building(ld, p, y)}}
    BY BuildersSet
  <2> QED BY <2>1 DEF BuildsExclusive, Building, Jobs, AppCmd, AppAt
<1>2. BuildsExclusive' <=> BuildersIs(appLoad', appPc', appLocks')
  <2> DEFINE ld == appLoad'  p == appPc'  lk == appLocks'
  <2>1. BuildersIs(ld, p, lk) <=>
           /\ \A i, k \in {x \in DOMAIN ld.cmds : Building(ld, p, x)} :
                ld.cmds[i].dir = ld.cmds[k].dir => i = k
           /\ lk = {ld.cmds[x].dir : x \in {y \in DOMAIN ld.cmds : Building(ld, p, y)}}
    BY BuildersSet
  <2> QED BY <2>1 DEF BuildsExclusive, Building, Jobs, AppCmd, AppAt
<1> QED BY <1>1, <1>2

\* Every handler waits or answers.
LEMMA GoMoves ==
  ASSUME AppShape, NEW j \in Jobs, appLoad' = appLoad,
         (\E l : AppGo(j, l)) \/ (\E a : Answer(j, a)) \/ UNCHANGED <<appPc, appAns>>
  PROVE  OneMoves(j)
BY DEF AppShape, OneMoves, AppGo, Answer

\* A step that neither clones, builds, deploys nor lists.
LEMMA QuietKeeps ==
  ASSUME AppInv, NEW j, OneMoves(j), SameMounts,
         AppCmd(j).kind \in {"clone", "build"} => UNCHANGED <<appPc, appAns>>,
         AppCmd(j).secret /\ appPc'[j] = "create" => appPc[j] = "create",
         UNCHANGED <<workdir, askpass, appLocks, secretFile>>,
         DOMAIN rmList' = Jobs, \A i \in Jobs : \A n \in rmList'[i] : Matches(i, n)
  PROVE  AppInv'
<1>1. Jobs' = Jobs /\ \A i : AppCmd(i)' = AppCmd(i)
  BY DEF Jobs, AppCmd, OneMoves
<1>2. AppShape'
  BY <1>1 DEF AppInv, AppShape, OneMoves, SameMounts
<1>4. BuildsExclusive'
  <2>1. BuildersIs(appLoad, appPc, appLocks)
    BY BuildersAre DEF AppInv
  <2>2. ASSUME NEW i \in DOMAIN appLoad.cmds
        PROVE  Building(appLoad, appPc', i) <=> Building(appLoad, appPc, i)
    <3>1. CASE i = j
      <4>1. appLoad.cmds[i].kind = "build" => appPc' = appPc
        BY <3>1 DEF AppCmd
      <4> QED BY <4>1 DEF Building
    <3>2. CASE i # j
      <4>1. appPc'[i] = appPc[i]
        BY <3>2 DEF OneMoves, Jobs
      <4> QED BY <4>1 DEF Building
    <3> QED BY <3>1, <3>2
  <2>3. BuildersIs(appLoad, appPc', appLocks)
    BY <2>1, <2>2 DEF BuildersIs
  <2> QED BY <2>3, BuildersAre DEF OneMoves
<1>5. ClonesInv'
  BY <1>1 DEF AppInv, ClonesInv, OneMoves
<1>6. SecretsInv'
  <2>1. \A n \in Containers' : ctr'[n].secret # NoName =>
          ctr'[n].secret \in DOMAIN secretFile' /\ ctr'[n].slug = ctr'[n].secret
    BY DEF AppInv, SecretsInv, SameMounts
  <2>2. \A i \in Jobs : AppCmd(i).secret /\ appPc'[i] = "create" => AppCmd(i).slug \in DOMAIN secretFile'
    BY DEF AppInv, SecretsInv, OneMoves
  <2> QED BY <1>1, <2>1, <2>2 DEF AppInv, SecretsInv
<1>7. ListsInv'
  BY <1>1 DEF ListsInv, Matches
<1> QED BY <1>2, <1>4, <1>5, <1>6, <1>7 DEF AppInv

\* What docker does to a container there is keeps its app and its secret.
LEMMA MountsKept ==
  ASSUME AppShape, NEW m, NEW x,
         \/ ctr' = ctr
         \/ /\ m \in Containers
            /\ \/ ctr' = [ctr EXCEPT ![m].running = x] \/ ctr' = [ctr EXCEPT ![m].restart = x]
               \/ ctr' = [ctr EXCEPT ![m].nets = x] \/ ctr' = [ctr EXCEPT ![m].healthy = x]
         \/ Gone(x)
  PROVE  SameMounts
<1>1. CASE ctr' = ctr
  BY <1>1 DEF SameMounts, AppShape, Containers
<1>2. CASE m \in Containers /\ ctr' = [ctr EXCEPT ![m].running = x]
  BY <1>2 DEF SameMounts, AppShape, Containers, CtrFields
<1>3. CASE m \in Containers /\ ctr' = [ctr EXCEPT ![m].restart = x]
  BY <1>3 DEF SameMounts, AppShape, Containers, CtrFields
<1>4. CASE m \in Containers /\ ctr' = [ctr EXCEPT ![m].nets = x]
  BY <1>4 DEF SameMounts, AppShape, Containers, CtrFields
<1>5. CASE m \in Containers /\ ctr' = [ctr EXCEPT ![m].healthy = x]
  BY <1>5 DEF SameMounts, AppShape, Containers, CtrFields
<1>6. CASE Gone(x)
  BY <1>6 DEF SameMounts, AppShape, Containers, Gone
<1> QED BY <1>1, <1>2, <1>3, <1>4, <1>5, <1>6

\* A command that is neither a clone nor a build and does not come to create a
\* container, with what it does to docker's containers.
LEMMA DockerKeeps ==
  ASSUME AppInv, NEW j \in Jobs, AppCmd(j).kind \notin {"clone", "build"}, appLoad' = appLoad,
         \/ \E l : AppGo(j, l) /\ (AppCmd(j).secret => l # "create")
         \/ \E a : Answer(j, a)
         \/ UNCHANGED <<appPc, appAns>>,
         SameMounts, UNCHANGED <<appHost, secretFile>>,
         DOMAIN rmList' = Jobs, \A i \in Jobs : \A n \in rmList'[i] : Matches(i, n)
  PROVE  AppInv'
<1>1. AppShape
  BY DEF AppInv
<1>2. OneMoves(j)
  BY <1>1, GoMoves
<1>3. AppCmd(j).secret /\ appPc'[j] = "create" => appPc[j] = "create"
  BY <1>1 DEF AppGo, Answer, AppShape
<1>4. UNCHANGED <<workdir, askpass, appLocks, secretFile>>
  BY DEF appHost
<1> QED BY <1>2, <1>3, <1>4, QuietKeeps

\* The lists as they are.
LEMMA ListsAre == ASSUME AppInv PROVE DOMAIN rmList = Jobs /\ \A i \in Jobs : \A n \in rmList[i] : Matches(i, n)
BY DEF AppInv, AppShape, ListsInv

\* The network and the pull of a deploy.
LEMMA DeployKeeps == ASSUME AppInv, NEW j \in Jobs, handle_app_deploy(j) \/ pull_image(j) PROVE AppInv'
<1>0. AppShape
  BY DEF AppInv
<1>1. AppCmd(j).kind = "deploy" /\ UNCHANGED <<ctr, appHost, secretFile, rmList, appLoad>>
  BY DEF handle_app_deploy, pull_image, AppAt, daemon, scan
<1>2. (\E l : AppGo(j, l) /\ l # "create") \/ (\E a : Answer(j, a))
  <2>1. CASE handle_app_deploy(j)
    BY <2>1 DEF handle_app_deploy
  <2>2. CASE pull_image(j)
    BY <2>2 DEF pull_image
  <2> QED BY <2>1, <2>2
<1>3. SameMounts
  BY <1>0, <1>1, MountsKept
<1> QED BY <1>1, <1>2, <1>3, ListsAre, DockerKeeps

\* Networks joined and containers started.
LEMMA ConnectKeeps ==
  ASSUME AppInv, NEW j \in Jobs, connect_app_to_service_networks(j) \/ docker_start(j) \/ service_started(j)
  PROVE  AppInv'
<1>0. AppShape
  BY DEF AppInv
<1>1. /\ AppCmd(j).kind \in {"deploy", "rollback", "service"}
      /\ UNCHANGED <<appHost, secretFile, rmList, appLoad>>
  BY DEF connect_app_to_service_networks, docker_start, service_started, AppAt, scan
<1>2. (\E l : AppGo(j, l) /\ l # "create") \/ (\E a : Answer(j, a))
  <2>1. CASE connect_app_to_service_networks(j)
    BY <2>1 DEF connect_app_to_service_networks
  <2>2. CASE docker_start(j)
    BY <2>2 DEF docker_start
  <2>3. CASE service_started(j)
    BY <2>3 DEF service_started
  <2> QED BY <2>1, <2>2, <2>3
<1>3. SameMounts
  <2>1. CASE connect_app_to_service_networks(j)
    BY <1>0, <2>1, MountsKept DEF connect_app_to_service_networks, Absent
  <2>2. CASE docker_start(j)
    BY <1>0, <2>2, MountsKept DEF docker_start, Start
  <2>3. CASE service_started(j)
    BY <1>0, <2>3, MountsKept DEF service_started, Start
  <2> QED BY <2>1, <2>2, <2>3
<1> QED BY <1>1, <1>2, <1>3, ListsAre, DockerKeeps

\* Inspections.
LEMMA LookKeeps ==
  ASSUME AppInv, NEW j \in Jobs,
         probe_container_health(j) \/ wait_for_container_healthy(j) \/ handle_wait_for_healthy(j)
  PROVE  AppInv'
<1>0. AppShape
  BY DEF AppInv
<1>1. /\ AppCmd(j).kind \in {"probe", "service", "wait"}
      /\ UNCHANGED <<ctr, appHost, secretFile, rmList, appLoad>>
  BY DEF probe_container_health, wait_for_container_healthy, handle_wait_for_healthy, AppAt, scan, daemon
<1>2. \E a : Answer(j, a)
  BY DEF probe_container_health, wait_for_container_healthy, handle_wait_for_healthy
<1>3. SameMounts
  BY <1>0, <1>1, MountsKept
<1> QED BY <1>1, <1>2, <1>3, ListsAre, DockerKeeps

\* Stop and rollback.
LEMMA StopKeeps ==
  ASSUME AppInv, NEW j \in Jobs,
         handle_app_stop(j) \/ docker_stop(j) \/ docker_rm(j) \/ handle_app_rollback(j)
  PROVE  AppInv'
<1>0. AppShape
  BY DEF AppInv
<1>1. /\ AppCmd(j).kind \in {"stop", "rollback"}
      /\ UNCHANGED <<appHost, secretFile, rmList, appLoad>>
  BY DEF handle_app_stop, docker_stop, docker_rm, handle_app_rollback, AppAt, scan
<1>2. (\E l : AppGo(j, l) /\ l # "create") \/ (\E a : Answer(j, a))
  <2>1. CASE handle_app_stop(j)
    BY <2>1 DEF handle_app_stop
  <2>2. CASE docker_stop(j)
    BY <2>2 DEF docker_stop
  <2>3. CASE docker_rm(j)
    BY <2>3 DEF docker_rm
  <2>4. CASE handle_app_rollback(j)
    <3>1. Answer(j, "failed") \/ Answer(j, "completed") \/ AppGo(j, "start")
      BY <2>4 DEF handle_app_rollback
    <3> QED BY <3>1
  <2> QED BY <2>1, <2>2, <2>3, <2>4
<1>3. SameMounts
  <2>1. CASE handle_app_stop(j)
    BY <1>0, <2>1, MountsKept DEF handle_app_stop, Set_restart
  <2>2. CASE docker_stop(j)
    BY <1>0, <2>2, MountsKept DEF docker_stop, Absent
  <2>3. CASE docker_rm(j)
    BY <1>0, <2>3, MountsKept DEF docker_rm
  <2>4. CASE handle_app_rollback(j)
    BY <1>0, <2>4, MountsKept DEF handle_app_rollback, Set_restart
  <2> QED BY <2>1, <2>2, <2>3, <2>4
<1> QED BY <1>1, <1>2, <1>3, ListsAre, DockerKeeps

\* A cleanup lists what its app's name begins.
LEMMA ListKeeps == ASSUME AppInv, NEW j \in Jobs, handle_app_cleanup(j) PROVE AppInv'
<1>0. AppShape
  BY DEF AppInv
<1>1. AppCmd(j).kind = "cleanup" /\ UNCHANGED <<ctr, appHost, secretFile, appLoad>> /\ AppGo(j, "containers")
  BY DEF handle_app_cleanup, AppAt, daemon
<1>2. SameMounts
  BY <1>0, <1>1, MountsKept
<1>3. DOMAIN rmList' = Jobs /\ \A i \in Jobs : i # j => rmList'[i] = rmList[i]
  BY <1>0 DEF handle_app_cleanup, AppShape
<1>4. rmList'[j] \subseteq {n \in Containers : Matches(j, n)}
  BY <1>0 DEF handle_app_cleanup, AppShape
<1>5. \A i \in Jobs : \A n \in rmList'[i] : Matches(i, n)
  BY <1>3, <1>4, ListsAre
<1> QED BY <1>1, <1>2, <1>3, <1>5, DockerKeeps

\* What a cleanup removes.
LEMMA AppRemoveKeeps ==
  ASSUME AppInv, NEW j \in Jobs, remove_container(j) \/ remove_images(j) \/ remove_volumes(j)
  PROVE  AppInv'
<1>0. AppShape
  BY DEF AppInv
<1>1. AppCmd(j).kind = "cleanup" /\ UNCHANGED <<appHost, secretFile, appLoad>>
  BY DEF remove_container, remove_images, remove_volumes, AppAt
<1>2. \/ \E l : AppGo(j, l) /\ l # "create"
      \/ \E a : Answer(j, a)
      \/ UNCHANGED <<appPc, appAns>>
  <2>1. CASE remove_container(j)
    BY <2>1 DEF remove_container
  <2>2. CASE remove_images(j)
    BY <2>2 DEF remove_images
  <2>3. CASE remove_volumes(j)
    BY <2>3 DEF remove_volumes
  <2> QED BY <2>1, <2>2, <2>3
<1>3. SameMounts
  <2>1. CASE remove_container(j)
    <3>1. ctr' = ctr \/ \E n : Gone({n})
      BY <2>1 DEF remove_container
    <3> QED BY <1>0, <3>1, MountsKept
  <2>2. CASE remove_images(j) \/ remove_volumes(j)
    <3>1. ctr' = ctr
      BY <2>2 DEF remove_images, remove_volumes
    <3> QED BY <1>0, <3>1, MountsKept
  <2> QED BY <2>1, <2>2
<1>4. DOMAIN rmList' = Jobs /\ \A i \in Jobs : rmList'[i] \subseteq rmList[i]
  <2>1. CASE remove_container(j)
    <3>1. \E n : rmList' = [rmList EXCEPT ![j] = @ \ {n}]
      BY <2>1 DEF remove_container
    <3> QED BY <1>0, <3>1 DEF AppShape
  <2>2. CASE remove_images(j) \/ remove_volumes(j)
    BY <1>0, <2>2 DEF remove_images, remove_volumes, AppShape
  <2> QED BY <2>1, <2>2
<1>5. \A i \in Jobs : \A n \in rmList'[i] : Matches(i, n)
  BY <1>4, ListsAre
<1> QED BY <1>1, <1>2, <1>3, <1>4, <1>5, DockerKeeps

\* A service is never given a secret.
LEMMA ServiceKeeps == ASSUME AppInv, NEW j \in Jobs, handle_service_create(j) PROVE AppInv'
<1>0. AppShape
  BY DEF AppInv
<1>1. AppCmd(j).kind = "service" /\ UNCHANGED <<ctr, appHost, secretFile, rmList, appLoad>>
  BY DEF handle_service_create, AppAt, scan
<1>2. ~AppCmd(j).secret
  BY <1>0, <1>1, SecretDir
<1>3. (\E l : AppGo(j, l)) \/ (\E a : Answer(j, a))
  BY DEF handle_service_create
<1>4. SameMounts
  BY <1>0, <1>1, MountsKept
<1> QED BY <1>1, <1>2, <1>3, <1>4, ListsAre, DockerKeeps

\* One call about a service.
LEMMA ServiceOpKeeps == ASSUME AppInv, NEW j \in Jobs, handle_service_op(j) PROVE AppInv'
<1>0. AppShape
  BY DEF AppInv
<1>1. AppCmd(j).kind \in ServiceOps /\ UNCHANGED <<appHost, secretFile, rmList, appLoad>>
  BY DEF handle_service_op, scan
<1>2. \E a : Answer(j, a)
  BY DEF handle_service_op
<1>3. SameMounts
  <2> DEFINE m == AppCmd(j).name
  <2>1. \/ ctr' = ctr \/ Gone({m})
        \/ m \in Containers /\ \E x, y : ctr' = [ctr EXCEPT ![m].running = x, ![m].restart = y]
    <3>1. PICK r \in Calls, update \in Calls :
            LET n == AppCmd(j).name
                ok == r[1] = "ok" /\ ~Absent(j)
                runs == IF r[2] THEN AppCmd(j).kind # "sv_stop" ELSE ctr[n].running
                restarts == CASE AppCmd(j).kind = "sv_stop" /\ update[2] -> FALSE
                              [] AppCmd(j).kind = "sv_start" /\ ok /\ update[2] -> TRUE
                              [] OTHER -> ctr[n].restart
            IN \/ ctr' = ctr \/ Gone({n})
               \/ n \in Containers /\ ctr' = [ctr EXCEPT ![n].running = runs, ![n].restart = restarts]
      BY DEF handle_service_op, Absent
    <3> QED BY <3>1
  <2> HIDE DEF m
  <2>2. CASE ctr' = ctr \/ Gone({m})
    BY <1>0, <2>2, MountsKept
  <2>3. CASE m \in Containers /\ \E x, y : ctr' = [ctr EXCEPT ![m].running = x, ![m].restart = y]
    <3>1. PICK x, y : ctr' = [ctr EXCEPT ![m].running = x, ![m].restart = y]
      BY <2>3
    <3> QED BY <1>0, <2>3, <3>1 DEF SameMounts, AppShape, Containers, CtrFields
  <2> QED BY <2>1, <2>2, <2>3
<1> QED BY <1>1, <1>2, <1>3, ListsAre, DockerKeeps DEF ServiceOps

----------------------------------------------------------------------------
(* Directories, scripts and locks.                                         *)

\* What a clone has, said of where it is and what it has answered.
CloneIs(p, a, scripted, there) ==
  /\ p = "idle" => ~scripted /\ ~there
  /\ p # "done" => a = "none"
  /\ a \in {"completed", "failed"} => ~scripted
  /\ a = "failed" => ~there

\* A step that leaves containers, secrets and lists alone, gives nobody else a
\* script or a directory and keeps its own clone and the locks in order.
LEMMA FilesKeep ==
  ASSUME AppInv, NEW j \in Jobs, OneMoves(j), UNCHANGED <<ctr, secretFile, rmList>>,
         AppCmd(j).secret => appPc'[j] # "create",
         \A i \in Jobs : i # j => (i \in askpass' => i \in askpass) /\ (i \in workdir' => i \in workdir),
         AppCmd(j).kind = "clone" => CloneIs(appPc'[j], appAns'[j], j \in askpass', j \in workdir'),
         BuildersIs(appLoad, appPc', appLocks')
  PROVE  AppInv'
<1>1. Jobs' = Jobs /\ (\A i : AppCmd(i)' = AppCmd(i)) /\ Containers' = Containers
  BY DEF Jobs, AppCmd, OneMoves, Containers
<1>2. AppShape'
  BY <1>1 DEF AppInv, AppShape, OneMoves
<1>3. BuildsExclusive'
  BY BuildersAre DEF OneMoves
<1>4. ClonesInv'
  <2> SUFFICES ASSUME NEW i \in Jobs, AppCmd(i).kind = "clone"
               PROVE  CloneIs(appPc'[i], appAns'[i], i \in askpass', i \in workdir')
    BY <1>1 DEF ClonesInv, CloneIs
  <2>1. CASE i = j
    BY <2>1
  <2>2. CASE i # j
    BY <2>2 DEF AppInv, ClonesInv, CloneIs, OneMoves
  <2> QED BY <2>1, <2>2
<1>5. SecretsInv'
  <2>1. \A i \in Jobs : AppCmd(i).secret /\ appPc'[i] = "create" => AppCmd(i).slug \in DOMAIN secretFile
    BY DEF AppInv, SecretsInv, OneMoves
  <2> QED BY <1>1, <2>1 DEF AppInv, SecretsInv
<1>6. ListsInv'
  BY <1>1 DEF AppInv, ListsInv, Matches
<1> QED BY <1>2, <1>3, <1>4, <1>5, <1>6 DEF AppInv

\* The locks are in order when nobody comes to build or leaves a build.
LEMMA LocksStay ==
  ASSUME AppInv, NEW j \in Jobs, OneMoves(j), appLocks' = appLocks,
         ~AppAt(j, "build", "docker_build"), AppCmd(j).kind # "build" \/ appPc'[j] # "docker_build"
  PROVE  BuildersIs(appLoad, appPc', appLocks')
<1>1. BuildersIs(appLoad, appPc, appLocks)
  BY BuildersAre DEF AppInv
<1>2. \A i \in DOMAIN appLoad.cmds : Building(appLoad, appPc', i) <=> Building(appLoad, appPc, i)
  BY DEF Building, OneMoves, Jobs, AppCmd, AppAt
<1> QED BY <1>1, <1>2 DEF BuildersIs

\* A build that ends releases its directory, and no other.
LEMMA LocksDropped ==
  ASSUME AppInv, NEW j \in Jobs, OneMoves(j), Drop_guard(j), appPc'[j] = "done"
  PROVE  BuildersIs(appLoad, appPc', appLocks')
<1>1. BuildersIs(appLoad, appPc, appLocks)
  BY BuildersAre DEF AppInv
<1>2. \A i \in DOMAIN appLoad.cmds : Building(appLoad, appPc', i) <=> i # j /\ Building(appLoad, appPc, i)
  BY DEF Building, OneMoves, Jobs, AppCmd
<1>3. CASE AppAt(j, "build", "docker_build")
  <2>1. Building(appLoad, appPc, j) /\ j \in DOMAIN appLoad.cmds
    BY <1>3 DEF Building, AppAt, AppCmd, Jobs
  <2>2. appLocks' = appLocks \ {appLoad.cmds[j].dir}
    BY <1>3 DEF Drop_guard, AppCmd
  <2> QED BY <1>1, <1>2, <2>1, <2>2 DEF BuildersIs
<1>4. CASE ~AppAt(j, "build", "docker_build")
  BY <1>4, LocksStay DEF Drop_guard
<1> QED BY <1>3, <1>4

\* A clone begins with its directory and, given a token, its script.
LEMMA CloneKeeps == ASSUME AppInv, NEW j \in Jobs, handle_app_clone(j) PROVE AppInv'
<1>0. AppShape
  BY DEF AppInv
<1>1. /\ AppCmd(j).kind = "clone" /\ appPc[j] = "idle" /\ UNCHANGED <<appLocks, ctr, secretFile, rmList, appLoad>>
      /\ (\E l : AppGo(j, l)) \/ (\E a : Answer(j, a))
  BY DEF handle_app_clone, AppAt, daemon, scan
<1>2. OneMoves(j)
  BY <1>0, <1>1, GoMoves
<1>3. j \notin askpass /\ j \notin workdir /\ appAns[j] = "none"
  BY <1>1 DEF AppInv, ClonesInv
<1>4. /\ \A i \in Jobs : i # j => (i \in askpass' => i \in askpass) /\ (i \in workdir' => i \in workdir)
      /\ appPc'[j] # "create" /\ CloneIs(appPc'[j], appAns'[j], j \in askpass', j \in workdir')
  <2>1. CASE /\ workdir' = workdir \cup {j}
             /\ askpass' = IF AppCmd(j).token THEN askpass \cup {j} ELSE askpass
             /\ AppGo(j, "git_clone")
    BY <1>0, <1>3, <2>1 DEF AppShape, AppGo, CloneIs
  <2>2. CASE Answer(j, "failed") /\ UNCHANGED <<workdir, askpass>>
    BY <1>0, <1>3, <2>2 DEF AppShape, Answer, CloneIs
  <2> QED BY <2>1, <2>2 DEF handle_app_clone
<1>5. BuildersIs(appLoad, appPc', appLocks')
  BY <1>1, <1>2, LocksStay DEF AppAt
<1> QED BY <1>1, <1>2, <1>4, <1>5, FilesKeep

\* git: a clone that answers has taken its script away, one that fails its directory.
LEMMA GitKeeps == ASSUME AppInv, NEW j \in Jobs, git_step(j) PROVE AppInv'
<1>0. AppShape
  BY DEF AppInv
<1>1. /\ AppCmd(j).kind = "clone" /\ appPc[j] \in {"git_clone", "git_fetch", "git_checkout"}
      /\ UNCHANGED <<appLocks, ctr, secretFile, rmList, appLoad>>
  BY DEF git_step, daemon, scan
<1>2. \/ (AppGo(j, "git_fetch") \/ AppGo(j, "git_checkout")) /\ UNCHANGED <<askpass, workdir>>
      \/ Answer(j, "completed") /\ askpass' = askpass \ {j} /\ workdir' = workdir
      \/ Answer(j, "failed") /\ askpass' = askpass \ {j} /\ workdir' = workdir \ {j}
  BY DEF git_step, Clone_failed
<1>3. OneMoves(j)
  BY <1>0, <1>1, <1>2, GoMoves
<1>4. appAns[j] = "none"
  BY <1>1 DEF AppInv, ClonesInv
<1>5. /\ \A i \in Jobs : i # j => (i \in askpass' => i \in askpass) /\ (i \in workdir' => i \in workdir)
      /\ appPc'[j] # "create" /\ CloneIs(appPc'[j], appAns'[j], j \in askpass', j \in workdir')
  BY <1>0, <1>2, <1>4 DEF AppShape, AppGo, Answer, CloneIs
<1>6. BuildersIs(appLoad, appPc', appLocks')
  BY <1>1, <1>3, LocksStay DEF AppAt
<1> QED BY <1>1, <1>3, <1>5, <1>6, FilesKeep

\* A build takes a directory that nobody builds in.
LEMMA BuildKeeps == ASSUME AppInv, NEW j \in Jobs, handle_app_build(j) PROVE AppInv'
<1>0. AppShape
  BY DEF AppInv
<1>1. /\ AppCmd(j).kind = "build" /\ appPc[j] = "idle"
      /\ UNCHANGED <<workdir, askpass, ctr, secretFile, rmList, appLoad>>
      /\ \/ acquire(AppCmd(j).dir) /\ appLocks' = appLocks \cup {AppCmd(j).dir} /\ AppGo(j, "docker_build")
         \/ Answer(j, "failed") /\ UNCHANGED appLocks
  BY DEF handle_app_build, AppAt, daemon, scan
<1>2. OneMoves(j)
  BY <1>0, <1>1, GoMoves
<1>3. appPc'[j] # "create"
  BY <1>0, <1>1 DEF AppShape, AppGo, Answer
<1>4. BuildersIs(appLoad, appPc', appLocks')
  <2>1. CASE acquire(AppCmd(j).dir) /\ appLocks' = appLocks \cup {AppCmd(j).dir} /\ AppGo(j, "docker_build")
    <3>1. BuildersIs(appLoad, appPc, appLocks)
      BY BuildersAre DEF AppInv
    <3>2. appPc'[j] = "docker_build"
      BY <1>0, <2>1 DEF AppShape, AppGo
    <3>3. \A i \in DOMAIN appLoad.cmds : Building(appLoad, appPc', i) <=> i = j \/ Building(appLoad, appPc, i)
      BY <1>1, <1>2, <3>2 DEF Building, OneMoves, Jobs, AppCmd
    <3>4. j \in DOMAIN appLoad.cmds /\ appLocks' = appLocks \cup {appLoad.cmds[j].dir}
          /\ appLoad.cmds[j].dir \notin appLocks
      BY <2>1 DEF Jobs, AppCmd, acquire
    <3> QED BY <3>1, <3>3, <3>4 DEF BuildersIs
  <2>2. CASE Answer(j, "failed") /\ UNCHANGED appLocks
    <3>1. appPc'[j] = "done"
      BY <1>0, <2>2 DEF AppShape, Answer
    <3> QED BY <1>1, <1>2, <2>2, <3>1, LocksStay DEF AppAt
  <2> QED BY <1>1, <2>1, <2>2
<1> QED BY <1>1, <1>2, <1>3, <1>4, FilesKeep

\* A build ends, whether its directory is still there or not.
LEMMA BuiltKeeps == ASSUME AppInv, NEW j \in Jobs, docker_build(j) PROVE AppInv'
<1>0. AppShape
  BY DEF AppInv
<1>1. /\ AppCmd(j).kind = "build" /\ Drop_guard(j) /\ (\E a : Answer(j, a))
      /\ UNCHANGED <<workdir, askpass, ctr, secretFile, rmList, appLoad>>
  BY DEF docker_build, AppAt, scan
<1>2. OneMoves(j)
  BY <1>0, <1>1, GoMoves
<1>3. appPc'[j] = "done"
  BY <1>0, <1>1 DEF AppShape, Answer
<1>4. BuildersIs(appLoad, appPc', appLocks')
  BY <1>1, <1>2, <1>3, LocksDropped
<1> QED BY <1>1, <1>2, <1>3, <1>4, FilesKeep

\* A directory is removed, also under a build.
LEMMA RmdirKeeps == ASSUME AppInv, NEW j \in Jobs, cleanup_build_dir(j) PROVE AppInv'
<1>0. AppShape
  BY DEF AppInv
<1>1. /\ AppCmd(j).kind = "rmdir" /\ (\E a : Answer(j, a)) /\ workdir' \subseteq workdir
      /\ UNCHANGED <<askpass, appLocks, ctr, secretFile, rmList, appLoad>>
  BY DEF cleanup_build_dir, AppAt, scan, daemon
<1>2. OneMoves(j)
  BY <1>0, <1>1, GoMoves
<1>3. appPc'[j] = "done"
  BY <1>0, <1>1 DEF AppShape, Answer
<1>4. BuildersIs(appLoad, appPc', appLocks')
  BY <1>1, <1>2, LocksStay DEF AppAt
<1> QED BY <1>1, <1>2, <1>3, <1>4, FilesKeep

\* A cancelled command leaves what it made, but never the lock of its build.
LEMMA CancelKeeps == ASSUME AppInv, NEW j \in Jobs, app_cancelled(j) PROVE AppInv'
<1>0. AppShape
  BY DEF AppInv
<1>1. /\ appPc[j] # "idle" /\ Drop_guard(j) /\ Answer(j, "cancelled")
      /\ UNCHANGED <<workdir, askpass, ctr, secretFile, rmList, appLoad>>
  BY DEF app_cancelled, daemon, scan
<1>2. OneMoves(j)
  BY <1>0, <1>1, GoMoves
<1>3. appPc'[j] = "done" /\ appAns'[j] = "cancelled"
  BY <1>0, <1>1 DEF AppShape, Answer
<1>4. BuildersIs(appLoad, appPc', appLocks')
  BY <1>1, <1>2, <1>3, LocksDropped
<1>5. CloneIs(appPc'[j], appAns'[j], j \in askpass', j \in workdir')
  BY <1>3 DEF CloneIs
<1> QED BY <1>1, <1>2, <1>3, <1>4, <1>5, FilesKeep

----------------------------------------------------------------------------
(* Secrets and new containers.                                             *)

\* A deploy writes the secret into the directory of its app, also where another
\* deploy's file of the same app was.
LEMMA SecretKeeps == ASSUME AppInv, NEW j \in Jobs, write_secret_files(j) PROVE AppInv'
<1>0. AppShape
  BY DEF AppInv
<1>1. /\ AppCmd(j).kind = "deploy" /\ UNCHANGED <<workdir, askpass, appLocks, ctr, rmList, appLoad>>
      /\ (\E l : AppGo(j, l)) \/ (\E a : Answer(j, a))
  BY DEF write_secret_files, AppAt, daemon, scan, appHost
<1>2. OneMoves(j)
  BY <1>0, <1>1, GoMoves
<1>3. Jobs' = Jobs /\ (\A i : AppCmd(i)' = AppCmd(i)) /\ Containers' = Containers
  BY <1>1 DEF Jobs, AppCmd, Containers
<1>4. AppShape'
  BY <1>0, <1>1, <1>2, <1>3 DEF AppShape, OneMoves
<1>5. BuildsExclusive'
  <2>1. BuildersIs(appLoad, appPc', appLocks')
    BY <1>1, <1>2, LocksStay DEF AppAt
  <2> QED BY <1>1, <2>1, BuildersAre
<1>6. ClonesInv'
  BY <1>1, <1>2, <1>3 DEF AppInv, ClonesInv, OneMoves
<1>7. SecretsInv'
  <2>1. CASE ~AppCmd(j).secret
    <3>1. secretFile' = secretFile
      BY <2>1 DEF write_secret_files
    <3>2. \A i \in Jobs : AppCmd(i).secret /\ appPc'[i] = "create" => AppCmd(i).slug \in DOMAIN secretFile
      BY <1>2, <2>1 DEF AppInv, SecretsInv, OneMoves
    <3> QED BY <1>1, <1>3, <3>1, <3>2 DEF AppInv, SecretsInv
  <2>2. CASE AppCmd(j).secret
    <3> DEFINE s == AppCmd(j).slug
    <3>1. secretFile' = [d \in DOMAIN secretFile \cup {s} |-> IF d = s THEN s ELSE secretFile[d]]
      BY <1>0, <2>2, SecretDir DEF write_secret_files
    <3> HIDE DEF s
    <3>2. /\ DOMAIN secretFile' = DOMAIN secretFile \cup {s}
          /\ \A d \in DOMAIN secretFile' : secretFile'[d] = d
      BY <3>1 DEF AppInv, SecretsInv
    <3>3. \A i \in Jobs : AppCmd(i).secret /\ appPc'[i] = "create" => AppCmd(i).slug \in DOMAIN secretFile'
      BY <1>2, <3>2 DEF AppInv, SecretsInv, OneMoves, s
    <3> QED BY <1>1, <1>3, <3>2, <3>3 DEF AppInv, SecretsInv
  <2> QED BY <2>1, <2>2
<1>8. ListsInv'
  BY <1>1, <1>3 DEF AppInv, ListsInv, Matches
<1> QED BY <1>4, <1>5, <1>6, <1>7, <1>8 DEF AppInv

\* A container that is created mounts a file that is there and is its own app's.
LEMMA CreateKeeps ==
  ASSUME AppInv, NEW j \in Jobs, docker_create(j) \/ service_created(j)
  PROVE  AppInv'
<1>0. AppShape
  BY DEF AppInv
<1>1. /\ AppCmd(j).kind \in {"deploy", "service"} /\ appPc[j] = "create"
      /\ UNCHANGED <<workdir, askpass, appLocks, secretFile, rmList, appLoad>>
      /\ AppGo(j, "connect") \/ AppGo(j, "start") \/ Answer(j, "failed")
      /\ Create(j) \/ ctr' = ctr
  <2>1. CASE docker_create(j)
    BY <2>1 DEF docker_create, AppAt, scan, appHost
  <2>2. CASE service_created(j)
    BY <2>2 DEF service_created, AppAt, scan, appHost
  <2> QED BY <2>1, <2>2
<1>2. OneMoves(j) /\ appPc'[j] # "create"
  <2>1. OneMoves(j)
    BY <1>0, <1>1, GoMoves
  <2>2. appPc'[j] # "create"
    BY <1>0, <1>1 DEF AppShape, AppGo, Answer
  <2> QED BY <2>1, <2>2
<1>3. Jobs' = Jobs /\ (\A i : AppCmd(i)' = AppCmd(i))
  BY <1>1 DEF Jobs, AppCmd
<1>4. /\ DOMAIN Container(j) = CtrFields
      /\ Container(j).secret # NoName =>
           Container(j).secret \in DOMAIN secretFile /\ Container(j).slug = Container(j).secret
  <2>1. DOMAIN Container(j) = CtrFields
    BY DEF Container, CtrFields
  <2>2. CASE AppCmd(j).secret
    <3>1. extract_slug_from_container(AppCmd(j).name) = AppCmd(j).slug
      BY <1>0, <2>2, SecretDir
    <3>2. AppCmd(j).slug \in DOMAIN secretFile
      BY <1>1, <2>2 DEF AppInv, SecretsInv
    <3> QED BY <2>1, <2>2, <3>1, <3>2 DEF Container
  <2>3. CASE ~AppCmd(j).secret
    BY <2>1, <2>3 DEF Container
  <2> QED BY <2>2, <2>3
<1>5. \A n \in Containers' :
        \/ n \in Containers /\ ctr'[n] = ctr[n]
        \/ ctr'[n] = Container(j)
  <2>1. CASE Create(j)
    BY <2>1 DEF Create, Containers
  <2>2. CASE ctr' = ctr
    BY <2>2 DEF Containers
  <2> QED BY <1>1, <2>1, <2>2
<1>6. AppShape'
  BY <1>0, <1>1, <1>2, <1>3, <1>4, <1>5 DEF AppShape, OneMoves
<1>7. BuildsExclusive'
  <2>1. BuildersIs(appLoad, appPc', appLocks')
    BY <1>1, <1>2, LocksStay DEF AppAt
  <2> QED BY <1>1, <2>1, BuildersAre
<1>8. ClonesInv'
  BY <1>1, <1>2, <1>3 DEF AppInv, ClonesInv, OneMoves
<1>9. SecretsInv'
  <2>1. \A i \in Jobs : AppCmd(i).secret /\ appPc'[i] = "create" => AppCmd(i).slug \in DOMAIN secretFile
    BY <1>2 DEF AppInv, SecretsInv, OneMoves
  <2>2. \A n \in Containers' : ctr'[n].secret # NoName =>
          ctr'[n].secret \in DOMAIN secretFile /\ ctr'[n].slug = ctr'[n].secret
    BY <1>4, <1>5 DEF AppInv, SecretsInv
  <2> QED BY <1>1, <1>3, <2>1, <2>2 DEF AppInv, SecretsInv
<1>10. ListsInv'
  BY <1>1, <1>3 DEF AppInv, ListsInv, Matches
<1> QED BY <1>6, <1>7, <1>8, <1>9, <1>10 DEF AppInv

\* A container's own health.
LEMMA HealthKeeps == ASSUME AppInv, NEW n \in Containers, container_healthy(n) PROVE AppInv'
<1>0. AppShape
  BY DEF AppInv
<1>1. UNCHANGED <<appPc, appAns, workdir, askpass, appLocks, secretFile, rmList, appLoad>>
  BY DEF container_healthy, appHost, scan
<1>2. SameMounts
  BY <1>0, MountsKept DEF container_healthy
<1>3. OneMoves(n)
  BY <1>0, <1>1 DEF OneMoves, AppShape
<1> QED BY <1>1, <1>2, <1>3, ListsAre, QuietKeeps

----------------------------------------------------------------------------
(* Apps and services: the theorems.                                        *)

\* Before any command there are no files and the containers mount none.
LEMMA AppStarts == AppInit => AppInv
<1> SUFFICES ASSUME AppInit PROVE AppInv
  OBVIOUS
<1>1. AppShape
  BY AppAssumption DEF AppInit, AppShape, Jobs, Containers, CtrFields
<1>2. BuildsExclusive
  <2>1. \A i \in DOMAIN appLoad.cmds : ~Building(appLoad, appPc, i)
    BY DEF AppInit, Building
  <2>2. BuildersIs(appLoad, appPc, appLocks)
    BY <2>1 DEF BuildersIs, AppInit
  <2> QED BY <2>2, BuildersAre
<1>3. ClonesInv
  BY DEF AppInit, ClonesInv, Jobs
<1>4. SecretsInv
  <2>1. \A j \in Jobs : appPc[j] = "idle"
    BY DEF AppInit, Jobs
  <2>2. DOMAIN secretFile = {}
    BY DEF AppInit
  <2>3. \A n \in Containers : ctr[n].secret = NoName
    BY AppAssumption DEF AppInit, Containers
  <2> QED BY <2>1, <2>2, <2>3 DEF SecretsInv
<1>5. ListsInv
  BY DEF AppInit, ListsInv, Jobs
<1> QED BY <1>1, <1>2, <1>3, <1>4, <1>5 DEF AppInv

\* Every step of every command.
LEMMA AppsKeep == AppInv /\ AppNext => AppInv'
<1> SUFFICES ASSUME AppInv, AppNext PROVE AppInv'
  OBVIOUS
<1>1. ASSUME NEW j \in Jobs, AppStep(j) PROVE AppInv'
  BY <1>1, CloneKeeps, GitKeeps, BuildKeeps, BuiltKeeps, RmdirKeeps, DeployKeeps, SecretKeeps, CreateKeeps,
     ConnectKeeps, LookKeeps, StopKeeps, ListKeeps, AppRemoveKeeps, ServiceKeeps, ServiceOpKeeps DEF AppStep
<1> QED BY <1>1, CancelKeeps, HealthKeeps DEF AppNext

\* What the invariant says of every state of a behaviour of the apps.
AppPart == part = "apps" => AppInv

\* It is kept by every step.
LEMMA AppPartKeeps == AppPart /\ [MCNext]_allVars => AppPart'
<1> SUFFICES ASSUME AppPart, [MCNext]_allVars, part' = "apps" PROVE AppInv'
  BY DEF AppPart
<1>1. CASE MCNext
  <2>1. part = "apps" /\ AppNext
    BY <1>1 DEF MCNext
  <2> QED BY <2>1, AppsKeep DEF AppPart
<1>2. CASE UNCHANGED allVars
  <2>1. UNCHANGED <<part, appVars>>
    BY <1>2 DEF allVars
  <2>2. AppInv
    BY <2>1 DEF AppPart
  <2>3. UNCHANGED <<appPc, appAns, workdir, askpass, appLocks, ctr, secretFile, rmList, appLoad>>
    BY <2>1 DEF appVars
  <2>4. AppShape
    BY <2>2 DEF AppInv
  <2>5. SameMounts
    BY <2>3, <2>4, MountsKept
  <2>6. ASSUME NEW j PROVE OneMoves(j)
    BY <2>3, <2>4 DEF OneMoves, AppShape
  <2> QED BY <2>2, <2>3, <2>5, <2>6, ListsAre, QuietKeeps
<1> QED BY <1>1, <1>2

\* Builds never share a directory and a directory is locked exactly while a build
\* is at work in it; an answered clone leaves no script and a failed one no
\* directory; a container mounts only the secret of its own app: for any set of
\* commands in flight together, any failures of docker and any cancellations
\* (app_lifecycle.rs).
THEOREM AppFilesInOrder == Spec => []AppFilesHold
<1>1. MCInit => AppPart
  BY AppStarts DEF MCInit, AppPart
<1>2. AppPart => AppFilesHold
  <2> SUFFICES ASSUME AppInv PROVE FilesInOrder
    BY DEF AppPart, AppFilesHold
  <2>1. CloneLeavesNothing
    BY DEF AppInv, ClonesInv, CloneLeavesNothing
  <2>2. SecretsAreOwn
    BY DEF AppInv, SecretsInv, SecretsAreOwn
  <2> QED BY <2>1, <2>2 DEF AppInv, FilesInOrder
<1> QED BY <1>1, <1>2, AppPartKeeps, PTL DEF Spec

\* A container whose name is changed in nothing but its record stays.
LEMMA NamesStay ==
  ASSUME NEW m, NEW x,
         \/ ctr' = ctr \/ ctr' = [ctr EXCEPT ![m].running = x] \/ ctr' = [ctr EXCEPT ![m].restart = x]
         \/ ctr' = [ctr EXCEPT ![m].nets = x] \/ ctr' = [ctr EXCEPT ![m].healthy = x]
  PROVE  Containers' = Containers
BY DEF Containers

\* What every command but a stop, a destroy and a cleanup leaves there.
LEMMA NamesKept ==
  ASSUME NEW j \in Jobs, AppStep(j), ~docker_rm(j), ~remove_container(j), ~handle_service_op(j)
  PROVE  Containers \subseteq Containers'
<1>1. CASE \/ handle_app_clone(j) \/ git_step(j) \/ handle_app_build(j) \/ docker_build(j)
           \/ cleanup_build_dir(j) \/ handle_app_deploy(j) \/ pull_image(j) \/ write_secret_files(j)
           \/ probe_container_health(j) \/ handle_app_cleanup(j) \/ remove_images(j) \/ remove_volumes(j)
           \/ handle_service_create(j) \/ wait_for_container_healthy(j) \/ handle_wait_for_healthy(j)
  <2>1. ctr' = ctr
    BY <1>1 DEF handle_app_clone, git_step, handle_app_build, docker_build, cleanup_build_dir,
       handle_app_deploy, pull_image, write_secret_files, probe_container_health, handle_app_cleanup,
       remove_images, remove_volumes, handle_service_create, wait_for_container_healthy,
       handle_wait_for_healthy, daemon
  <2> QED BY <2>1 DEF Containers
<1>2. CASE docker_create(j) \/ service_created(j)
  <2>1. Create(j) \/ ctr' = ctr
    BY <1>2 DEF docker_create, service_created
  <2> QED BY <2>1 DEF Create, Containers
<1>3. CASE connect_app_to_service_networks(j)
  BY <1>3, NamesStay DEF connect_app_to_service_networks
<1>4. CASE docker_start(j) \/ service_started(j)
  BY <1>4, NamesStay DEF docker_start, service_started, Start
<1>5. CASE handle_app_stop(j) \/ docker_stop(j)
  BY <1>5, NamesStay DEF handle_app_stop, docker_stop, Set_restart
<1>6. CASE handle_app_rollback(j)
  BY <1>6, NamesStay DEF handle_app_rollback, Set_restart
<1> QED BY <1>1, <1>2, <1>3, <1>4, <1>5, <1>6 DEF AppStep

\* Every removal was asked for.
LEMMA RemovalsAsked == AppInv /\ AppNext => RemovesOnPurpose
<1> SUFFICES ASSUME AppInv, AppNext, NEW n \in Containers, n \notin Containers' PROVE Condemned(n)
  BY DEF RemovesOnPurpose
<1>1. ASSUME NEW j \in Jobs, app_cancelled(j) PROVE FALSE
  BY <1>1 DEF app_cancelled, daemon, Containers
<1>2. ASSUME NEW m \in Containers, container_healthy(m) PROVE FALSE
  BY <1>2, NamesStay DEF container_healthy
<1>3. PICK j \in Jobs : AppStep(j)
  BY <1>1, <1>2 DEF AppNext
<1>4. CASE docker_rm(j)
  <2>1. AppCmd(j).kind = "stop" /\ appPc[j] # "done"
    BY <1>4 DEF docker_rm, AppAt
  <2>2. Gone({AppCmd(j).name}) \/ ctr' = ctr
    BY <1>4 DEF docker_rm
  <2>3. n = AppCmd(j).name
    BY <2>2 DEF Gone, Containers
  <2> QED BY <2>1, <2>3 DEF Condemned
<1>5. CASE remove_container(j)
  <2>1. AppCmd(j).kind = "cleanup" /\ appPc[j] # "done"
    BY <1>5 DEF remove_container, AppAt
  <2>2. PICK m \in rmList[j] : ctr' = ctr \/ (~Spared(j, m) /\ Gone({m}))
    BY <1>5 DEF remove_container
  <2>3. n = m /\ ~Spared(j, m)
    BY <2>2 DEF Gone, Containers
  <2>4. Matches(j, n)
    BY <2>2, <2>3, ListsAre
  <2> QED BY <2>1, <2>3, <2>4 DEF Condemned, Spared
<1>6. CASE handle_service_op(j)
  <2>1. appPc[j] # "done"
    BY <1>6 DEF handle_service_op
  <2>2. \/ AppCmd(j).kind = "sv_destroy" /\ Gone({AppCmd(j).name})
        \/ Containers' = Containers
    BY <1>6 DEF handle_service_op, Containers
  <2>3. AppCmd(j).kind = "sv_destroy" /\ n = AppCmd(j).name
    BY <2>2 DEF Gone, Containers
  <2> QED BY <2>1, <2>3 DEF Condemned
<1> QED BY <1>3, <1>4, <1>5, <1>6, NamesKept

\* A container goes only by a command in flight that names it, or by a cleanup
\* whose app its name continues and which does not keep it (handle_app_stop,
\* handle_app_cleanup, handle_service_destroy).
THEOREM RemovedOnPurpose == Spec => AppsRemovedOnPurpose
<1>1. MCInit => AppPart
  BY AppStarts DEF MCInit, AppPart
<1>2. AppPart /\ [MCNext]_allVars
      => [part = "apps" /\ appVars' # appVars => RemovesOnPurpose]_allVars
  <2> SUFFICES ASSUME AppPart, MCNext, part = "apps" PROVE RemovesOnPurpose
    OBVIOUS
  <2>1. AppNext
    BY DEF MCNext
  <2> QED BY <2>1, RemovalsAsked DEF AppPart
<1> QED BY <1>1, <1>2, AppPartKeeps, PTL DEF Spec, AppsRemovedOnPurpose

----------------------------------------------------------------------------
(* Backups: the inductive invariant.                                       *)

\* Where a command of an operation and an engine can be.
Dumps == {"postgres", "mysql", "mongo"}
Calling(engine, p) ==
  \/ p \in {"stop", "cp", "start"} /\ engine \in {"postgres", "mysql", "redis"}
  \/ p = "replace" /\ engine \in Dumps
  \/ p = "cp" /\ engine = "mongo"
  \/ p = "restart" /\ engine = "postgres"
PlaceIs(c, p, a) ==
  /\ \/ p \in {"idle", "done"}
     \/ c.op = "create" /\ c.engine \in Dumps /\ p = "exec"
     \/ c.op = "create" /\ c.engine = "redis" /\ p \in {"lastsave", "cp_dump", "rename"}
     \/ c.op \in {"restore", "verify"} /\ Calling(c.engine, p)
     \/ c.op \in {"restore", "verify"} /\ p = "undo"
     \/ c.op = "verify" /\ p \in {"volume", "validate", "rm", "volume_rm"}
     \/ c.op = "verify" /\ p \in {"run", "running"} /\ c.engine \in Dumps \cup {"redis"}
     \/ c.op = "download" /\ p = "stream"
  /\ p # "done" => a = "none"

BkShape ==
  /\ bkLoad \in BkLoads /\ DOMAIN bkPc = BkJobs /\ DOMAIN bkAns = BkJobs /\ DOMAIN bkErr = BkJobs
  /\ \A c \in DOMAIN box : DOMAIN box[c] = {"run", "data"}
  /\ \A j \in BkJobs : PlaceIs(Bk(j), bkPc[j], bkAns[j])

\* Files.  Who streams has its file to itself; redis commands of one id take
\* turns, and theirs has no file until the copy is renamed.
Turns ==
  \A j, k \in BkJobs :
    Bk(j).op = "create" /\ Bk(j).engine = "redis" /\ bkPc[j] # "idle"
    /\ Bk(k).op = "create" /\ Bk(k).id = Bk(j).id /\ k < j => bkPc[k] = "done"
FileOf(c, p, a, f, t) ==
  c.op = "create" =>
    /\ p = "exec" => c.id \in DOMAIN f /\ f[c.id] = "partial"
    /\ p \in {"cp_dump", "rename"} => c.id \notin DOMAIN f
    /\ p = "rename" => c.id \in DOMAIN t /\ t[c.id] = "whole"
    /\ a = "completed" =>
         c.id \in DOMAIN f /\ (f[c.id] = "whole" \/ (f[c.id] = "cut" /\ c.engine = "mysql"))
FileInv ==
  /\ StoredStays /\ Turns
  /\ \A j \in BkJobs : FileOf(Bk(j), bkPc[j], bkAns[j], bkFile, bkTmp)
  /\ \A j, k \in BkJobs : BkAt(j, "create", "exec") /\ BkAt(k, "create", "exec") /\ Bk(j).id = Bk(k).id => j = k

\* Services.  One that is stopped is about to be started, or something went wrong
\* that the property allows for; one whose data changed was restored.
Starter(c, p, a, e) ==
  \/ c.op = "restore" /\ c.engine # "mongo" /\ p \in {"cp", "start", "undo"}
  \/ e \cap {"start", "undo", "restart", "timed_out", "replace"} # {} \/ a = "cancelled"
Changer(c, p, e) ==
  c.op = "restore" /\ p \in {"start", "replace", "restart", "undo", "done"}
  /\ "stop" \notin e /\ ("cp" \notin e \/ "timed_out" \in e)
ErrIs(c, p, e) ==
  c.op = "restore" =>
    /\ p \in {"idle", "stop", "cp", "start", "replace", "restart", "undo"} => "stop" \notin e
    /\ p \in {"idle", "stop", "cp", "start", "replace", "restart"} => "cp" \notin e
ServiceInv ==
  /\ \A j \in BkJobs : ErrIs(Bk(j), bkPc[j], bkErr[j])
  /\ \A s \in bkLoad.services :
       /\ s \in DOMAIN box
       /\ box[s].run
          \/ \E k \in BkJobs : BkTarget(k) = s /\ Starter(Bk(k), bkPc[k], bkAns[k], bkErr[k])
       /\ box[s].data = "live"
          \/ \E k \in BkJobs : Bk(k).svc = s /\ Changer(Bk(k), bkPc[k], bkErr[k])

\* What a verification made goes with it: somebody will remove the container and
\* then the volume, unless it was cancelled.
Holding(c, p, a) == c.op = "verify" /\ (p \notin {"idle", "volume", "run", "volume_rm", "done"} \/ a = "cancelled")
Keeping(c, p, a) == c.op = "verify" /\ (p \notin {"idle", "volume", "done"} \/ a = "cancelled")
ZipIs(c, p, a, z) == z => c.op = "download" /\ (p = "stream" \/ a = "cancelled")
LeftInv ==
  ~bkLoad.fails =>
    /\ \A c \in DOMAIN box : c \in bkLoad.services
         \/ \E k \in BkJobs : BkTarget(k) = c /\ Holding(Bk(k), bkPc[k], bkAns[k])
    /\ \A v \in bkVol : \E k \in BkJobs : backup_short_id(Bk(k).id) = v /\ Keeping(Bk(k), bkPc[k], bkAns[k])
    /\ \A j \in BkJobs : ZipIs(Bk(j), bkPc[j], bkAns[j], j \in zips)

BkInv == BkShape /\ FileInv /\ ServiceInv /\ LeftInv

----------------------------------------------------------------------------
(* Backups: a step of one command.                                         *)

\* Command j moves and nobody else does; what failed it is never forgotten.
BkMoves(j) ==
  /\ bkLoad' = bkLoad /\ DOMAIN bkPc' = BkJobs /\ DOMAIN bkAns' = BkJobs /\ DOMAIN bkErr' = BkJobs
  /\ \A i \in BkJobs : i # j => bkPc'[i] = bkPc[i] /\ bkAns'[i] = bkAns[i] /\ bkErr'[i] = bkErr[i]
  /\ bkErr[j] \subseteq bkErr'[j] /\ bkPc[j] # "done"

\* What stays of the commands.
LEMMA SameCmds ==
  ASSUME bkLoad' = bkLoad
  PROVE  BkJobs' = BkJobs /\ \A i : Bk(i)' = Bk(i) /\ BkTarget(i)' = BkTarget(i)
BY DEF BkJobs, Bk, BkTarget

\* The name of a verification is nobody's service, and tells its id.
LEMMA TargetsApart ==
  ASSUME BkShape, NEW j \in BkJobs, Bk(j).op = "verify"
  PROVE  /\ BkTarget(j) \notin bkLoad.services
         /\ \A k \in BkJobs : BkTarget(k) = BkTarget(j) =>
              Bk(k).op = "verify" /\ backup_short_id(Bk(k).id) = backup_short_id(Bk(j).id)
<1> DEFINE v(x) == <<"verify", backup_short_id(Bk(x).id)>>
<1>1. \A s \in bkLoad.services \cup {bkLoad.cmds[k].svc : k \in BkJobs} : s # v(j)
  BY BkAssumption DEF BkShape, BkJobs, Bk
<1>2. BkTarget(j) = v(j)
  BY DEF BkTarget
<1>3. ASSUME NEW k \in BkJobs, BkTarget(k) = BkTarget(j)
      PROVE  Bk(k).op = "verify" /\ backup_short_id(Bk(k).id) = backup_short_id(Bk(j).id)
  <2>1. Bk(k).svc # v(j)
    BY <1>1 DEF Bk
  <2>2. Bk(k).op = "verify"
    BY <1>2, <1>3, <2>1 DEF BkTarget
  <2>3. BkTarget(k) = v(k)
    BY <2>2 DEF BkTarget
  <2>4. v(k) = v(j)
    BY <1>2, <1>3, <2>3
  <2> QED BY <2>2, <2>4
<1> QED BY <1>1, <1>2, <1>3

\* Every handler waits or answers.
LEMMA BkGoMoves ==
  ASSUME BkShape, NEW j \in BkJobs, bkLoad' = bkLoad, bkPc[j] # "done",
         (\E l : BkGo(j, l)) \/ (\E a : BkAnswer(j, a)),
         bkErr' = bkErr \/ \E x : bkErr' = [bkErr EXCEPT ![j] = @ \cup x]
  PROVE  BkMoves(j)
BY DEF BkShape, BkMoves, BkGo, BkAnswer

\* What a docker call leaves in the errors.
LEMMA ErrMoves ==
  ASSUME BkShape, NEW j \in BkJobs, NEW r, NEW step, run_docker_success(j, r, step)
  PROVE  /\ bkErr' = bkErr \/ \E x : bkErr' = [bkErr EXCEPT ![j] = @ \cup x]
         /\ r[1] = "ok" => bkErr'[j] = bkErr[j]
         /\ r[1] # "ok" => bkErr'[j] = bkErr[j] \cup {step, r[1]}
BY DEF BkShape, run_docker_success

\* The shape is kept by a command that comes to a place of its own.
LEMMA ShapeStep ==
  ASSUME BkShape, NEW j \in BkJobs, BkMoves(j), PlaceIs(Bk(j), bkPc'[j], bkAns'[j]),
         \A c \in DOMAIN box' : DOMAIN box'[c] = {"run", "data"}
  PROVE  BkShape'
<1>1. BkJobs' = BkJobs /\ \A i : Bk(i)' = Bk(i)
  BY SameCmds DEF BkMoves
<1>2. \A i \in BkJobs : PlaceIs(Bk(i), bkPc'[i], bkAns'[i])
  BY DEF BkShape, BkMoves
<1> QED BY <1>1, <1>2 DEF BkShape, BkMoves

\* Files are kept in order by a command that leaves everyone's file as it is needed.
LEMMA FileStep ==
  ASSUME BkInv, NEW j \in BkJobs, BkMoves(j),
         Bk(j).op = "create" /\ Bk(j).engine = "redis" /\ bkPc[j] = "idle" /\ bkPc'[j] # "idle" => SentAgain(j),
         \A i \in BkJobs : i # j => FileOf(Bk(i), bkPc[i], bkAns[i], bkFile', bkTmp'),
         FileOf(Bk(j), bkPc'[j], bkAns'[j], bkFile', bkTmp'),
         Bk(j).op = "create" /\ bkPc'[j] = "exec" =>
           \A i \in BkJobs : i # j /\ BkAt(i, "create", "exec") => Bk(i).id # Bk(j).id,
         \A i \in bkLoad.stored : i \in DOMAIN bkFile' /\ bkFile'[i] = "whole"
  PROVE  FileInv'
<1>1. BkJobs' = BkJobs /\ \A i : Bk(i)' = Bk(i)
  BY SameCmds DEF BkMoves
<1>2. Turns'
  <2> SUFFICES ASSUME NEW i \in BkJobs, NEW k \in BkJobs, Bk(i).op = "create", Bk(i).engine = "redis",
                      bkPc'[i] # "idle", Bk(k).op = "create", Bk(k).id = Bk(i).id, k < i
               PROVE  bkPc'[k] = "done"
    BY <1>1 DEF Turns
  <2>1. bkPc[k] = "done"
    <3>1. CASE i = j /\ bkPc[i] = "idle"
      BY <3>1 DEF SentAgain
    <3>2. CASE ~(i = j /\ bkPc[i] = "idle")
      <4>1. bkPc[i] # "idle"
        BY <3>2 DEF BkMoves
      <4> QED BY <4>1 DEF BkInv, FileInv, Turns
    <3> QED BY <3>1, <3>2
  <2> QED BY <2>1 DEF BkMoves
<1>3. StoredStays'
  BY DEF StoredStays, BkMoves
<1>4. \A i \in BkJobs : FileOf(Bk(i), bkPc'[i], bkAns'[i], bkFile', bkTmp')
  BY DEF BkMoves
<1>5. ASSUME NEW i \in BkJobs, NEW k \in BkJobs, BkAt(i, "create", "exec")', BkAt(k, "create", "exec")', Bk(i).id = Bk(k).id
      PROVE  i = k
  <2>1. /\ Bk(i).op = "create" /\ bkPc'[i] = "exec" /\ Bk(k).op = "create" /\ bkPc'[k] = "exec"
    BY <1>1, <1>5 DEF BkAt
  <2>2. CASE i # j /\ k # j
    BY <1>5, <2>1, <2>2 DEF BkMoves, BkAt, BkInv, FileInv
  <2>3. CASE i = j \/ k = j
    BY <1>5, <2>1, <2>3 DEF BkMoves, BkAt
  <2> QED BY <2>2, <2>3
<1> QED BY <1>1, <1>2, <1>3, <1>4, <1>5 DEF FileInv

\* A command that creates no backup leaves the files alone.
LEMMA FilesStay ==
  ASSUME BkInv, NEW j \in BkJobs, BkMoves(j), Bk(j).op # "create", UNCHANGED <<bkFile, bkTmp>>
  PROVE  FileInv'
<1>1. \A i \in BkJobs : FileOf(Bk(i), bkPc[i], bkAns[i], bkFile', bkTmp')
  BY DEF BkInv, FileInv
<1>2. FileOf(Bk(j), bkPc'[j], bkAns'[j], bkFile', bkTmp')
  BY DEF FileOf
<1>3. \A i \in bkLoad.stored : i \in DOMAIN bkFile' /\ bkFile'[i] = "whole"
  BY DEF BkInv, FileInv, StoredStays
<1> QED BY <1>1, <1>2, <1>3, FileStep

\* Services are kept in order by a command that changes its own only and answers
\* for it.
LEMMA ServiceStep ==
  ASSUME BkInv, NEW j \in BkJobs, BkMoves(j), ErrIs(Bk(j), bkPc'[j], bkErr'[j]),
         Changer(Bk(j), bkPc[j], bkErr[j]) => Changer(Bk(j), bkPc'[j], bkErr'[j]),
         \A s \in bkLoad.services :
           /\ s \in DOMAIN box' /\ (s # BkTarget(j) => box'[s] = box[s])
           /\ s = BkTarget(j) =>
                /\ \/ box'[s].run \/ Starter(Bk(j), bkPc'[j], bkAns'[j], bkErr'[j])
                   \/ box'[s].run = box[s].run /\ ~Starter(Bk(j), bkPc[j], bkAns[j], bkErr[j])
                /\ \/ box'[s].data = box[s].data
                   \/ Bk(j).svc = s /\ Changer(Bk(j), bkPc'[j], bkErr'[j])
  PROVE  ServiceInv'
<1>1. BkJobs' = BkJobs /\ \A i : Bk(i)' = Bk(i) /\ BkTarget(i)' = BkTarget(i)
  BY SameCmds DEF BkMoves
<1>2. \A i \in BkJobs : ErrIs(Bk(i), bkPc'[i], bkErr'[i])
  BY DEF BkMoves, BkInv, ServiceInv
<1>3. ASSUME NEW s \in bkLoad.services
      PROVE  box'[s].run
             \/ \E k \in BkJobs : BkTarget(k) = s /\ Starter(Bk(k), bkPc'[k], bkAns'[k], bkErr'[k])
  <2>1. CASE s = BkTarget(j) /\ (box'[s].run \/ Starter(Bk(j), bkPc'[j], bkAns'[j], bkErr'[j]))
    BY <2>1
  <2>2. CASE /\ box'[s].run = box[s].run
             /\ s = BkTarget(j) => ~Starter(Bk(j), bkPc[j], bkAns[j], bkErr[j])
    <3>1. CASE ~box[s].run
      <4>1. PICK k \in BkJobs : BkTarget(k) = s /\ Starter(Bk(k), bkPc[k], bkAns[k], bkErr[k])
        BY <3>1 DEF BkInv, ServiceInv
      <4>2. k # j
        BY <2>2, <4>1
      <4> QED BY <4>1, <4>2 DEF BkMoves
    <3> QED BY <2>2, <3>1
  <2> QED BY <2>1, <2>2
<1>4. ASSUME NEW s \in bkLoad.services
      PROVE  box'[s].data = "live" \/ \E k \in BkJobs : Bk(k).svc = s /\ Changer(Bk(k), bkPc'[k], bkErr'[k])
  <2>1. CASE Bk(j).svc = s /\ Changer(Bk(j), bkPc'[j], bkErr'[j])
    BY <2>1
  <2>2. CASE box'[s].data = box[s].data
    <3>1. CASE box[s].data # "live"
      <4>1. PICK k \in BkJobs : Bk(k).svc = s /\ Changer(Bk(k), bkPc[k], bkErr[k])
        BY <3>1 DEF BkInv, ServiceInv
      <4>2. CASE k = j
        BY <4>1, <4>2
      <4>3. CASE k # j
        BY <4>1, <4>3 DEF BkMoves
      <4> QED BY <4>2, <4>3
    <3> QED BY <2>2, <3>1
  <2> QED BY <2>1, <2>2
<1> QED BY <1>1, <1>2, <1>3, <1>4 DEF ServiceInv, BkMoves

\* A command other than a restore leaves the services alone.
LEMMA ServicesStay ==
  ASSUME BkInv, NEW j \in BkJobs, BkMoves(j), Bk(j).op # "restore",
         \A s \in bkLoad.services : s \in DOMAIN box' /\ box'[s] = box[s]
  PROVE  ServiceInv'
<1>1. ErrIs(Bk(j), bkPc'[j], bkErr'[j]) /\ ~Changer(Bk(j), bkPc[j], bkErr[j])
  BY DEF ErrIs, Changer
<1>2. Starter(Bk(j), bkPc[j], bkAns[j], bkErr[j]) => Starter(Bk(j), bkPc'[j], bkAns'[j], bkErr'[j])
  <2>1. bkAns[j] # "cancelled"
    BY DEF BkInv, BkShape, PlaceIs, BkMoves
  <2> QED BY <2>1 DEF Starter, BkMoves
<1> QED BY <1>1, <1>2, ServiceStep

\* Nothing is left behind by a command that holds what it made until it removes it.
LEMMA LeftStep ==
  ASSUME BkInv, NEW j \in BkJobs, BkMoves(j),
         ~bkLoad.fails =>
           /\ \A c \in DOMAIN box' :
                c \in DOMAIN box \/ (c = BkTarget(j) /\ Holding(Bk(j), bkPc'[j], bkAns'[j]))
           /\ Holding(Bk(j), bkPc[j], bkAns[j]) =>
                Holding(Bk(j), bkPc'[j], bkAns'[j]) \/ BkTarget(j) \notin DOMAIN box'
           /\ \A v \in bkVol' :
                v \in bkVol \/ (v = backup_short_id(Bk(j).id) /\ Keeping(Bk(j), bkPc'[j], bkAns'[j]))
           /\ Keeping(Bk(j), bkPc[j], bkAns[j]) =>
                \/ Keeping(Bk(j), bkPc'[j], bkAns'[j]) \/ backup_short_id(Bk(j).id) \notin bkVol'
                \/ \E k \in BkJobs : /\ k # j /\ backup_short_id(Bk(k).id) = backup_short_id(Bk(j).id)
                                     /\ Keeping(Bk(k), bkPc[k], bkAns[k])
           /\ ZipIs(Bk(j), bkPc'[j], bkAns'[j], j \in zips')
           /\ \A i \in BkJobs : i # j /\ i \in zips' => i \in zips
  PROVE  LeftInv'
<1>1. BkJobs' = BkJobs /\ \A i : Bk(i)' = Bk(i) /\ BkTarget(i)' = BkTarget(i)
  BY SameCmds DEF BkMoves
<1> SUFFICES ASSUME ~bkLoad.fails
             PROVE  /\ \A c \in DOMAIN box' : c \in bkLoad.services
                         \/ \E k \in BkJobs : BkTarget(k) = c /\ Holding(Bk(k), bkPc'[k], bkAns'[k])
                    /\ \A v \in bkVol' : \E k \in BkJobs :
                         backup_short_id(Bk(k).id) = v /\ Keeping(Bk(k), bkPc'[k], bkAns'[k])
                    /\ \A i \in BkJobs : ZipIs(Bk(i), bkPc'[i], bkAns'[i], i \in zips')
  BY <1>1 DEF LeftInv, BkMoves
<1>2. ASSUME NEW c \in DOMAIN box', c \notin bkLoad.services
      PROVE  \E k \in BkJobs : BkTarget(k) = c /\ Holding(Bk(k), bkPc'[k], bkAns'[k])
  <2>1. CASE c \in DOMAIN box
    <3>1. PICK k \in BkJobs : BkTarget(k) = c /\ Holding(Bk(k), bkPc[k], bkAns[k])
      BY <1>2, <2>1 DEF BkInv, LeftInv
    <3>2. CASE k = j
      BY <1>2, <3>1, <3>2
    <3>3. CASE k # j
      BY <3>1, <3>3 DEF BkMoves
    <3> QED BY <3>2, <3>3
  <2> QED BY <1>2, <2>1
<1>3. ASSUME NEW v \in bkVol'
      PROVE  \E k \in BkJobs : backup_short_id(Bk(k).id) = v /\ Keeping(Bk(k), bkPc'[k], bkAns'[k])
  <2>1. CASE v \in bkVol
    <3>1. PICK k \in BkJobs : backup_short_id(Bk(k).id) = v /\ Keeping(Bk(k), bkPc[k], bkAns[k])
      BY <2>1 DEF BkInv, LeftInv
    <3>2. CASE k = j
      BY <1>3, <3>1, <3>2 DEF BkMoves
    <3>3. CASE k # j
      BY <3>1, <3>3 DEF BkMoves
    <3> QED BY <3>2, <3>3
  <2> QED BY <1>3, <2>1
<1>4. \A i \in BkJobs : ZipIs(Bk(i), bkPc'[i], bkAns'[i], i \in zips')
  <2>1. \A i \in BkJobs : i # j => ZipIs(Bk(i), bkPc[i], bkAns[i], i \in zips)
    BY DEF BkInv, LeftInv
  <2> QED BY <2>1 DEF BkMoves, ZipIs
<1> QED BY <1>2, <1>3, <1>4

\* A command that neither verifies nor downloads makes none of it.
LEMMA LeftStays ==
  ASSUME BkInv, NEW j \in BkJobs, BkMoves(j), Bk(j).op \notin {"verify", "download"},
         DOMAIN box' = DOMAIN box, UNCHANGED <<bkVol, zips>>
  PROVE  LeftInv'
<1>1. ~Holding(Bk(j), bkPc[j], bkAns[j]) /\ ~Keeping(Bk(j), bkPc[j], bkAns[j])
  BY DEF Holding, Keeping
<1>2. ~bkLoad.fails => j \notin zips
  BY DEF BkInv, LeftInv, ZipIs
<1>3. ~bkLoad.fails => ZipIs(Bk(j), bkPc'[j], bkAns'[j], j \in zips')
  BY <1>2 DEF ZipIs
<1> QED BY <1>1, <1>3, LeftStep

----------------------------------------------------------------------------
(* Backups: create.                                                        *)

\* A command that creates touches no service and no verification.
LEMMA CreateStep ==
  ASSUME BkInv, NEW j \in BkJobs, BkMoves(j), Bk(j).op = "create", UNCHANGED <<box, bkVol, zips>>,
         PlaceIs(Bk(j), bkPc'[j], bkAns'[j]), FileInv'
  PROVE  BkInv'
<1>1. BkShape'
  BY ShapeStep DEF BkInv, BkShape
<1>2. ServiceInv'
  BY ServicesStay DEF BkInv, ServiceInv
<1>3. LeftInv'
  BY LeftStays
<1> QED BY <1>1, <1>2, <1>3 DEF BkInv

\* Only the file of one id changes, and the others of that id do not need it.
Touches(id, f, g) ==
  \A d : d # id => (d \in DOMAIN g <=> d \in DOMAIN f) /\ (d \in DOMAIN f => g[d] = f[d])
\* Then everybody else's file is as it was.
LEMMA OtherFiles ==
  ASSUME BkInv, NEW j \in BkJobs, Touches(Bk(j).id, bkFile, bkFile'), Touches(Bk(j).id, bkTmp, bkTmp'),
         \A i \in BkJobs : i # j /\ Bk(i).op = "create" /\ Bk(i).id = Bk(j).id =>
             FileOf(Bk(i), bkPc[i], bkAns[i], bkFile', bkTmp')
  PROVE  \A i \in BkJobs : i # j => FileOf(Bk(i), bkPc[i], bkAns[i], bkFile', bkTmp')
<1> SUFFICES ASSUME NEW i \in BkJobs, i # j, Bk(i).op = "create", Bk(i).id # Bk(j).id
             PROVE  FileOf(Bk(i), bkPc[i], bkAns[i], bkFile', bkTmp')
  BY DEF FileOf
<1>1. FileOf(Bk(i), bkPc[i], bkAns[i], bkFile, bkTmp)
  BY DEF BkInv, FileInv
<1> QED BY <1>1 DEF FileOf, Touches

\* Commands of one id are of one engine, and those of redis take turns.
LEMMA SameEngine ==
  ASSUME BkShape, NEW i \in BkJobs, NEW j \in BkJobs, Bk(i).op = "create", Bk(j).op = "create", Bk(i).id = Bk(j).id
  PROVE  Bk(i).engine = Bk(j).engine
BY BkAssumption DEF BkShape, BkJobs, Bk

\* Nobody else of its id is at work while redis saves.
LEMMA RedisAlone ==
  ASSUME BkInv, NEW j \in BkJobs, Bk(j).op = "create", Bk(j).engine = "redis", bkPc[j] \notin {"idle", "done"},
         NEW i \in BkJobs, i # j, Bk(i).op = "create", Bk(i).id = Bk(j).id
  PROVE  bkPc[i] \in {"idle", "done"}
<1>1. Bk(i).engine = "redis"
  BY SameEngine DEF BkInv
<1>2. i \in Nat /\ j \in Nat
  BY BkAssumption DEF BkInv, BkShape, BkJobs
<1>3. CASE i < j
  BY <1>3 DEF BkInv, FileInv, Turns
<1>4. CASE j < i
  BY <1>1, <1>4 DEF BkInv, FileInv, Turns
<1> QED BY <1>2, <1>3, <1>4

\* A file is opened where there was none.
LEMMA OpenKeeps == ASSUME BkInv, NEW j \in BkJobs, create_exec_stream_backup(j) PROVE BkInv'
<1>0. BkShape
  BY DEF BkInv
<1>1. /\ Bk(j).op = "create" /\ bkPc[j] = "idle" /\ Bk(j).engine \in Dumps
      /\ UNCHANGED <<bkErr, bkTmp, box, bkVol, zips, bkLoad>>
      /\ \/ opened(j) /\ bkFile' = BkPut(bkFile, Bk(j).id, "partial") /\ BkGo(j, "exec")
         \/ bkFile' = bkFile /\ BkAnswer(j, "failed")
  BY DEF create_exec_stream_backup, BkAt, Dumps
<1>2. BkMoves(j)
  BY <1>0, <1>1, BkGoMoves
<1>3. PlaceIs(Bk(j), bkPc'[j], bkAns'[j]) /\ bkAns[j] = "none"
  BY <1>0, <1>1 DEF BkShape, PlaceIs, BkGo, BkAnswer
<1>4. CASE opened(j) /\ bkFile' = BkPut(bkFile, Bk(j).id, "partial") /\ BkGo(j, "exec")
  <2>1. Touches(Bk(j).id, bkFile, bkFile') /\ Touches(Bk(j).id, bkTmp, bkTmp')
    BY <1>1, <1>4 DEF Touches, BkPut, Drop
  <2>2. ASSUME NEW i \in BkJobs, i # j, Bk(i).op = "create", Bk(i).id = Bk(j).id
        PROVE  FileOf(Bk(i), bkPc[i], bkAns[i], bkFile', bkTmp') /\ bkPc[i] # "exec"
    <3>1. Bk(i).engine \in Dumps
      BY <1>0, <1>1, <2>2, SameEngine
    <3>2. bkPc[i] \notin {"cp_dump", "rename"}
      BY <1>0, <3>1 DEF BkShape, PlaceIs, Calling, Dumps
    <3>3. FileOf(Bk(i), bkPc[i], bkAns[i], bkFile, bkTmp) /\ Bk(j).id \notin DOMAIN bkFile
      BY <1>4 DEF BkInv, FileInv, opened
    <3>4. bkPc[i] # "exec" /\ bkAns[i] # "completed"
      BY <2>2, <3>3 DEF FileOf
    <3> QED BY <3>2, <3>4 DEF FileOf
  <2>3. \A i \in BkJobs : i # j => FileOf(Bk(i), bkPc[i], bkAns[i], bkFile', bkTmp')
    BY <2>1, <2>2, OtherFiles
  <2>4. Bk(j).id \in DOMAIN bkFile' /\ bkFile'[Bk(j).id] = "partial" /\ bkPc'[j] = "exec" /\ bkAns'[j] = "none"
    BY <1>0, <1>3, <1>4 DEF BkShape, BkGo, BkPut, Drop
  <2>5. FileOf(Bk(j), bkPc'[j], bkAns'[j], bkFile', bkTmp')
    BY <2>4 DEF FileOf
  <2>6. \A d \in bkLoad.stored : d \in DOMAIN bkFile' /\ bkFile'[d] = "whole"
    BY <1>4, <2>1 DEF BkInv, FileInv, StoredStays, Touches, opened
  <2>7. FileInv'
    BY <1>1, <1>2, <2>2, <2>3, <2>5, <2>6, FileStep DEF BkAt, Dumps
  <2> QED BY <1>1, <1>2, <1>3, <2>7, CreateStep
<1>5. CASE bkFile' = bkFile /\ BkAnswer(j, "failed")
  <2>1. bkPc'[j] = "done" /\ bkAns'[j] = "failed"
    BY <1>0, <1>5 DEF BkShape, BkAnswer
  <2>2. FileOf(Bk(j), bkPc'[j], bkAns'[j], bkFile', bkTmp')
    BY <2>1 DEF FileOf
  <2>3. FileInv'
    BY <1>1, <1>2, <1>5, <2>1, <2>2, FileStep DEF BkInv, FileInv, StoredStays, Dumps
  <2> QED BY <1>1, <1>2, <1>3, <2>3, CreateStep
<1> QED BY <1>1, <1>4, <1>5

\* A stream ends: its file is whole, cut short, or gone; it was its own.
LEMMA StreamKeeps == ASSUME BkInv, NEW j \in BkJobs, exec_stream_to_file(j) PROVE BkInv'
<1>0. BkShape
  BY DEF BkInv
<1>1. Bk(j).op = "create" /\ bkPc[j] = "exec" /\ UNCHANGED <<bkTmp, box, bkVol, zips, bkLoad>>
  BY DEF exec_stream_to_file, BkAt
<1>2. \/ bkFile' = BkPut(bkFile, Bk(j).id, "whole") /\ BkAnswer(j, "completed") /\ bkErr' = bkErr
      \/ /\ bkFile' = BkPut(bkFile, Bk(j).id, "cut") /\ Bk(j).engine = "mysql"
         /\ BkAnswer(j, "completed") /\ bkErr' = bkErr
      \/ bkFile' = Drop(bkFile, Bk(j).id) /\ BkAnswer(j, "failed") /\ \E r : run_docker_success(j, r, "exec")
  BY DEF exec_stream_to_file
<1>3. BkMoves(j)
  <2>1. bkErr' = bkErr \/ \E x : bkErr' = [bkErr EXCEPT ![j] = @ \cup x]
    BY <1>0, <1>2, ErrMoves
  <2>2. \E a : BkAnswer(j, a)
    BY <1>2
  <2> QED BY <1>0, <1>1, <2>1, <2>2, BkGoMoves
<1>4. bkPc'[j] = "done" /\ PlaceIs(Bk(j), bkPc'[j], bkAns'[j])
  BY <1>0, <1>2 DEF BkShape, BkAnswer, PlaceIs
<1>5. Touches(Bk(j).id, bkFile, bkFile') /\ Touches(Bk(j).id, bkTmp, bkTmp')
  BY <1>1, <1>2 DEF Touches, BkPut, Drop
<1>6. Bk(j).id \in DOMAIN bkFile /\ bkFile[Bk(j).id] = "partial"
  BY <1>1 DEF BkInv, FileInv, FileOf
<1>7. ASSUME NEW i \in BkJobs, i # j, Bk(i).op = "create", Bk(i).id = Bk(j).id
      PROVE  FileOf(Bk(i), bkPc[i], bkAns[i], bkFile', bkTmp')
  <2>1. FileOf(Bk(i), bkPc[i], bkAns[i], bkFile, bkTmp)
    BY DEF BkInv, FileInv
  <2>2. bkPc[i] \notin {"cp_dump", "rename"} /\ bkAns[i] # "completed"
    BY <1>6, <1>7, <2>1 DEF FileOf
  <2>3. bkPc[i] # "exec"
    BY <1>1, <1>7 DEF BkInv, FileInv, BkAt
  <2> QED BY <2>2, <2>3 DEF FileOf
<1>8. \A i \in BkJobs : i # j => FileOf(Bk(i), bkPc[i], bkAns[i], bkFile', bkTmp')
  BY <1>5, <1>7, OtherFiles
<1>9. FileOf(Bk(j), bkPc'[j], bkAns'[j], bkFile', bkTmp')
  <2>1. CASE BkAnswer(j, "failed")
    BY <1>0, <1>4, <2>1 DEF FileOf, BkShape, BkAnswer
  <2>2. CASE bkFile' = BkPut(bkFile, Bk(j).id, "whole")
    BY <1>4, <2>2 DEF FileOf, BkPut, Drop
  <2>3. CASE bkFile' = BkPut(bkFile, Bk(j).id, "cut") /\ Bk(j).engine = "mysql"
    BY <1>4, <2>3 DEF FileOf, BkPut, Drop
  <2> QED BY <1>2, <2>1, <2>2, <2>3
<1>10. \A d \in bkLoad.stored : d \in DOMAIN bkFile' /\ bkFile'[d] = "whole"
  BY <1>5, <1>6 DEF BkInv, FileInv, StoredStays, Touches
<1>11. FileInv'
  BY <1>1, <1>3, <1>4, <1>8, <1>9, <1>10, FileStep
<1> QED BY <1>1, <1>3, <1>4, <1>11, CreateStep

\* A command that leaves the files alone and answers other than completed, or
\* only begins.
LEMMA PlainCreate ==
  ASSUME BkInv, NEW j \in BkJobs, BkMoves(j), Bk(j).op = "create", UNCHANGED <<bkFile, bkTmp, box, bkVol, zips>>,
         PlaceIs(Bk(j), bkPc'[j], bkAns'[j]),
         Bk(j).engine = "redis" /\ bkPc[j] = "idle" => SentAgain(j),
         bkPc'[j] \notin {"exec", "cp_dump", "rename"}, bkAns'[j] # "completed"
  PROVE  BkInv'
<1>1. FileOf(Bk(j), bkPc'[j], bkAns'[j], bkFile', bkTmp')
  BY DEF FileOf
<1>2. FileInv'
  BY <1>1, FileStep DEF BkInv, FileInv, StoredStays
<1> QED BY <1>2, CreateStep

\* redis: the save is asked for, in turn.
LEMMA BgsaveKeeps == ASSUME BkInv, NEW j \in BkJobs, create_redis_backup(j) PROVE BkInv'
<1>0. BkShape
  BY DEF BkInv
<1>1. /\ Bk(j).op = "create" /\ bkPc[j] = "idle" /\ Bk(j).engine = "redis" /\ SentAgain(j)
      /\ UNCHANGED <<bkFile, bkTmp, box, bkVol, zips, bkLoad>>
      /\ BkGo(j, "lastsave") \/ BkAnswer(j, "failed")
      /\ \E r : run_docker_success(j, r, "bgsave")
  BY DEF create_redis_backup, BkAt
<1>2. BkMoves(j)
  <2>1. bkErr' = bkErr \/ \E x : bkErr' = [bkErr EXCEPT ![j] = @ \cup x]
    BY <1>0, <1>1, ErrMoves
  <2> QED BY <1>0, <1>1, <2>1, BkGoMoves
<1>3. (bkPc'[j] = "lastsave" /\ bkAns'[j] = "none") \/ (bkPc'[j] = "done" /\ bkAns'[j] = "failed")
  BY <1>0, <1>1 DEF BkShape, PlaceIs, BkGo, BkAnswer
<1>4. PlaceIs(Bk(j), bkPc'[j], bkAns'[j])
  BY <1>1, <1>3 DEF PlaceIs
<1> QED BY <1>1, <1>2, <1>3, <1>4, PlainCreate

\* redis: a temporary copy in place of a leftover.
LEMMA TmpKeeps == ASSUME BkInv, NEW j \in BkJobs, wait_redis_bgsave(j) \/ copy_dump(j) PROVE BkInv'
<1>0. BkShape
  BY DEF BkInv
<1>1. /\ Bk(j).op = "create" /\ bkPc[j] \in {"lastsave", "cp_dump"}
      /\ UNCHANGED <<bkFile, box, bkVol, zips, bkLoad>> /\ \E r, step : run_docker_success(j, r, step)
  BY DEF wait_redis_bgsave, copy_dump, BkAt
<1>2. Bk(j).engine = "redis" /\ bkAns[j] = "none"
  BY <1>0, <1>1 DEF BkShape, PlaceIs, Calling, Dumps
<1>3. \/ BkAnswer(j, "failed") /\ bkTmp' = bkTmp
      \/ BkGo(j, "cp_dump") /\ bkTmp' = BkPut(bkTmp, Bk(j).id, "partial") /\ Bk(j).id \notin DOMAIN bkFile
      \/ BkGo(j, "rename") /\ bkTmp' = BkPut(bkTmp, Bk(j).id, "whole") /\ bkPc[j] = "cp_dump"
  <2>1. CASE wait_redis_bgsave(j)
    BY <2>1 DEF wait_redis_bgsave, opened
  <2>2. CASE copy_dump(j)
    BY <2>2 DEF copy_dump, BkAt
  <2> QED BY <2>1, <2>2
<1>4. BkMoves(j)
  <2>1. bkErr' = bkErr \/ \E x : bkErr' = [bkErr EXCEPT ![j] = @ \cup x]
    BY <1>0, <1>1, ErrMoves
  <2>2. (\E l : BkGo(j, l)) \/ (\E a : BkAnswer(j, a))
    BY <1>3
  <2> QED BY <1>0, <1>1, <2>1, <2>2, BkGoMoves
<1>5. CASE BkAnswer(j, "failed") /\ bkTmp' = bkTmp
  <2>1. bkPc'[j] = "done" /\ bkAns'[j] = "failed" /\ PlaceIs(Bk(j), bkPc'[j], bkAns'[j])
    BY <1>0, <1>5 DEF BkShape, BkAnswer, PlaceIs
  <2> QED BY <1>1, <1>4, <1>5, <2>1, PlainCreate
<1>6. CASE ~(BkAnswer(j, "failed") /\ bkTmp' = bkTmp)
  <2>1. /\ bkPc'[j] \in {"cp_dump", "rename"} /\ bkAns'[j] = "none"
        /\ bkPc'[j] = "rename" => bkTmp' = BkPut(bkTmp, Bk(j).id, "whole")
        /\ Bk(j).id \notin DOMAIN bkFile
    <3>1. bkPc[j] = "cp_dump" => Bk(j).id \notin DOMAIN bkFile
      BY <1>1 DEF BkInv, FileInv, FileOf
    <3> QED BY <1>0, <1>2, <1>3, <1>6, <3>1 DEF BkShape, BkGo
  <2>2. PlaceIs(Bk(j), bkPc'[j], bkAns'[j])
    BY <1>1, <1>2, <2>1 DEF PlaceIs
  <2>3. Touches(Bk(j).id, bkFile, bkFile') /\ Touches(Bk(j).id, bkTmp, bkTmp')
    BY <1>1, <1>3, <1>6 DEF Touches, BkPut, Drop
  <2>4. ASSUME NEW i \in BkJobs, i # j, Bk(i).op = "create", Bk(i).id = Bk(j).id
        PROVE  FileOf(Bk(i), bkPc[i], bkAns[i], bkFile', bkTmp')
    <3>1. bkPc[i] \in {"idle", "done"}
      BY <1>1, <1>2, <2>4, RedisAlone
    <3>2. FileOf(Bk(i), bkPc[i], bkAns[i], bkFile, bkTmp)
      BY DEF BkInv, FileInv
    <3> QED BY <1>1, <3>1, <3>2 DEF FileOf
  <2>5. \A i \in BkJobs : i # j => FileOf(Bk(i), bkPc[i], bkAns[i], bkFile', bkTmp')
    BY <2>3, <2>4, OtherFiles
  <2>6. FileOf(Bk(j), bkPc'[j], bkAns'[j], bkFile', bkTmp')
    BY <1>1, <2>1 DEF FileOf, BkPut, Drop
  <2>7. FileInv'
    BY <1>1, <1>4, <2>1, <2>5, <2>6, FileStep DEF BkInv, FileInv, StoredStays
  <2> QED BY <1>1, <1>4, <2>2, <2>7, CreateStep
<1> QED BY <1>3, <1>5, <1>6

\* redis: the copy becomes the backup, of which there was none.
LEMMA RenameKeeps == ASSUME BkInv, NEW j \in BkJobs, rename_dump(j) PROVE BkInv'
<1>0. BkShape
  BY DEF BkInv
<1>1. Bk(j).op = "create" /\ bkPc[j] = "rename" /\ UNCHANGED <<bkErr, box, bkVol, zips, bkLoad>>
  BY DEF rename_dump, BkAt
<1>2. Bk(j).engine = "redis" /\ bkAns[j] = "none"
  BY <1>0, <1>1 DEF BkShape, PlaceIs, Calling, Dumps
<1>3. Bk(j).id \notin DOMAIN bkFile /\ Bk(j).id \in DOMAIN bkTmp /\ bkTmp[Bk(j).id] = "whole"
  BY <1>1 DEF BkInv, FileInv, FileOf
<1>4. bkFile' = BkPut(bkFile, Bk(j).id, "whole") /\ bkTmp' = Drop(bkTmp, Bk(j).id) /\ BkAnswer(j, "completed")
  BY <1>3 DEF rename_dump
<1>5. BkMoves(j)
  BY <1>0, <1>1, <1>4, BkGoMoves
<1>6. bkPc'[j] = "done" /\ PlaceIs(Bk(j), bkPc'[j], bkAns'[j])
  BY <1>0, <1>4 DEF BkShape, BkAnswer, PlaceIs
<1>7. Touches(Bk(j).id, bkFile, bkFile') /\ Touches(Bk(j).id, bkTmp, bkTmp')
  BY <1>4 DEF Touches, BkPut, Drop
<1>8. ASSUME NEW i \in BkJobs, i # j, Bk(i).op = "create", Bk(i).id = Bk(j).id
      PROVE  FileOf(Bk(i), bkPc[i], bkAns[i], bkFile', bkTmp')
  <2>1. bkPc[i] \in {"idle", "done"}
    BY <1>1, <1>2, <1>8, RedisAlone
  <2>2. bkAns[i] # "completed"
    BY <1>3, <1>8 DEF BkInv, FileInv, FileOf
  <2> QED BY <2>1, <2>2 DEF FileOf
<1>9. \A i \in BkJobs : i # j => FileOf(Bk(i), bkPc[i], bkAns[i], bkFile', bkTmp')
  BY <1>7, <1>8, OtherFiles
<1>10. FileOf(Bk(j), bkPc'[j], bkAns'[j], bkFile', bkTmp')
  BY <1>4, <1>6 DEF FileOf, BkPut, Drop
<1>11. \A d \in bkLoad.stored : d \in DOMAIN bkFile' /\ bkFile'[d] = "whole"
  BY <1>3, <1>7 DEF BkInv, FileInv, StoredStays, Touches
<1>12. FileInv'
  BY <1>1, <1>5, <1>6, <1>9, <1>10, <1>11, FileStep
<1> QED BY <1>1, <1>5, <1>6, <1>12, CreateStep

\* An engine that is not known.
LEMMA UnsupportedKeeps == ASSUME BkInv, NEW j \in BkJobs, unsupported_engine(j) PROVE BkInv'
<1>0. BkShape
  BY DEF BkInv
<1>1. /\ Bk(j).op = "create" /\ bkPc[j] = "idle" /\ Bk(j).engine # "redis" /\ BkAnswer(j, "failed")
      /\ UNCHANGED <<bkErr, bkFile, bkTmp, box, bkVol, zips, bkLoad>>
  BY DEF unsupported_engine, BkAt
<1>2. BkMoves(j)
  BY <1>0, <1>1, BkGoMoves
<1>3. bkPc'[j] = "done" /\ bkAns'[j] = "failed" /\ PlaceIs(Bk(j), bkPc'[j], bkAns'[j])
  BY <1>0, <1>1 DEF BkShape, BkAnswer, PlaceIs
<1> QED BY <1>1, <1>2, <1>3, PlainCreate

----------------------------------------------------------------------------
(* Backups: the calls of a restore.                                        *)

\* A docker call acts, is refused, or is given up; without failures it acts.
LEMMA Outcomes ==
  ASSUME NEW r \in run_docker_output
  PROVE  /\ (r[1] = "ok" /\ r[2]) \/ r[1] = "timed_out" \/ (r[1] = "exit" /\ ~r[2])
         /\ ~bkLoad.fails => r[1] = "ok" /\ r[2]
<1> DEFINE ok == <<"ok", TRUE>>  refused == <<"exit", FALSE>>  late == <<"timed_out", FALSE>>  done == <<"timed_out", TRUE>>
<1>1. /\ r = ok \/ r = refused \/ r = late \/ r = done
      /\ ~bkLoad.fails => r = ok
  BY Zenon DEF run_docker_output
<1>2. ok[1] = "ok" /\ ok[2] /\ refused[1] = "exit" /\ ~refused[2] /\ late[1] = "timed_out" /\ done[1] = "timed_out"
  OBVIOUS
<1> HIDE DEF ok, refused, late, done
<1> QED BY <1>1, <1>2

\* The first call of an engine that can be restored.
LEMMA FirstCall ==
  ASSUME NEW e, Restores(e) # <<>>
  PROVE  e \in Dumps \cup {"redis"} /\ Restores(e)[1] \in {"stop", "cp"} /\ Calling(e, Restores(e)[1])
BY DEF Restores, Dumps, Calling

\* Where a restore ends, and where it fails.
RestoreEnds(j) == IF Bk(j).op = "verify" THEN BkGo(j, "validate") ELSE BkAnswer(j, "completed")
\* The order of the calls, per engine.
LEMMA AfterGoes ==
  ASSUME NEW j, NEW step, Calling(Bk(j).engine, step), After(j, step)
  PROVE  /\ step = "stop" => BkGo(j, "cp")
         /\ step = "cp" => BkGo(j, IF Bk(j).engine = "mongo" THEN "replace" ELSE "start")
         /\ step = "start" => IF Bk(j).engine = "redis" THEN RestoreEnds(j) ELSE BkGo(j, "replace")
         /\ step = "replace" => IF Bk(j).engine = "postgres" THEN BkGo(j, "restart") ELSE RestoreEnds(j)
         /\ step = "restart" => RestoreEnds(j)
<1> DEFINE calls == Restores(Bk(j).engine)
           n == CHOOSE k \in DOMAIN calls : calls[k] = step
<1>1. IF n + 1 \in DOMAIN calls THEN BkGo(j, calls[n + 1]) ELSE RestoreEnds(j)
  BY DEF After, RestoreEnds
<1>2. (\E k \in DOMAIN calls : calls[k] = step) => n \in DOMAIN calls /\ calls[n] = step
  OBVIOUS
<1> HIDE DEF n
<1>3. CASE Bk(j).engine = "postgres"
  <2>1. calls = <<"stop", "cp", "start", "replace", "restart">>
    BY <1>3 DEF Restores
  <2> HIDE DEF calls
  <2>2. DOMAIN calls = 1..5 /\ calls[1] = "stop" /\ calls[2] = "cp" /\ calls[3] = "start" /\ calls[4] = "replace"
        /\ calls[5] = "restart"
    BY <2>1
  <2>3. step \in {"stop", "cp", "start", "replace", "restart"}
    BY <1>3 DEF Calling, Dumps
  <2>4. n \in 1..5 /\ calls[n] = step
    BY <1>2, <2>2, <2>3
  <2> QED BY <1>1, <1>3, <2>2, <2>3, <2>4
<1>4. CASE Bk(j).engine = "mysql"
  <2>1. calls = <<"stop", "cp", "start", "replace">>
    BY <1>4 DEF Restores
  <2> HIDE DEF calls
  <2>2. DOMAIN calls = 1..4 /\ calls[1] = "stop" /\ calls[2] = "cp" /\ calls[3] = "start" /\ calls[4] = "replace"
    BY <2>1
  <2>3. step \in {"stop", "cp", "start", "replace"}
    BY <1>4 DEF Calling, Dumps
  <2>4. n \in 1..4 /\ calls[n] = step
    BY <1>2, <2>2, <2>3
  <2> QED BY <1>1, <1>4, <2>2, <2>3, <2>4
<1>5. CASE Bk(j).engine = "mongo"
  <2>1. calls = <<"cp", "replace">>
    BY <1>5 DEF Restores
  <2> HIDE DEF calls
  <2>2. DOMAIN calls = 1..2 /\ calls[1] = "cp" /\ calls[2] = "replace"
    BY <2>1
  <2>3. step \in {"cp", "replace"}
    BY <1>5 DEF Calling, Dumps
  <2>4. n \in 1..2 /\ calls[n] = step
    BY <1>2, <2>2, <2>3
  <2> QED BY <1>1, <1>5, <2>2, <2>3, <2>4
<1>6. CASE Bk(j).engine = "redis"
  <2>1. calls = <<"stop", "cp", "start">>
    BY <1>6 DEF Restores
  <2> HIDE DEF calls
  <2>2. DOMAIN calls = 1..3 /\ calls[1] = "stop" /\ calls[2] = "cp" /\ calls[3] = "start"
    BY <2>1
  <2>3. step \in {"stop", "cp", "start"}
    BY <1>6 DEF Calling, Dumps
  <2>4. n \in 1..3 /\ calls[n] = step
    BY <1>2, <2>2, <2>3
  <2> QED BY <1>1, <1>6, <2>2, <2>3, <2>4
<1>7. Bk(j).engine \in {"postgres", "mysql", "mongo", "redis"}
  BY DEF Calling, Dumps
<1> QED BY <1>3, <1>4, <1>5, <1>6, <1>7

\* What docker does to a container, done or half done.
BoxIs(b) == DOMAIN b = {"run", "data"}
\* A call that acted.
LEMMA ActedIs ==
  ASSUME NEW j, NEW step \in {"stop", "cp", "start", "replace", "restart"}, NEW b0, BoxIs(b0),
         NEW b \in Acted(j, step, b0)
  PROVE  /\ BoxIs(b)
         /\ step = "stop" => b.data = b0.data
         /\ step \in {"start", "restart"} => b.run /\ b.data = b0.data
         /\ step = "cp" => b.run = b0.run /\ (b.data # b0.data => Bk(j).engine = "redis")
         /\ step = "replace" => b.run = b0.run
<1>1. CASE step = "stop"
  BY <1>1 DEF Acted, BoxIs
<1>2. CASE step \in {"start", "restart"}
  BY <1>2 DEF Acted, BoxIs, Ran
<1>3. CASE step = "cp"
  BY <1>3 DEF Acted, BoxIs
<1>4. CASE step = "replace"
  BY <1>4 DEF Acted, BoxIs
<1> QED BY <1>1, <1>2, <1>3, <1>4

\* A call that did not act may have done half of a replacement.
LEMMA HalfIs ==
  ASSUME NEW j, NEW step, NEW b0, BoxIs(b0), NEW b \in HalfDone(j, step, b0)
  PROVE  BoxIs(b) /\ (step # "replace" => b = b0)
<1>1. CASE step # "replace"
  BY <1>1 DEF HalfDone
<1>2. CASE step = "replace"
  <2>1. PICK up \in (IF Bk(j).engine = "postgres" THEN BOOLEAN ELSE {b0.run}) :
          b = [b0 EXCEPT !.data = "lost", !.run = up]
    BY <1>2, Zenon DEF HalfDone
  <2> QED BY <1>2, <2>1 DEF BoxIs
<1> QED BY <1>1, <1>2

\* A call of a restore: it succeeded and the next one follows, or it failed and
\* its failure is noted.
CallDone(j, step, c) ==
  /\ bkErr'[j] = bkErr[j] /\ After(j, step) /\ c \in DOMAIN box
  /\ box'[c] \in Acted(j, step, box[c])
CallFailed(j, step, c) ==
  \E x \in {"exit", "timed_out"} :
    /\ bkErr'[j] = bkErr[j] \cup {step, x} /\ Undo(j, step)
    /\ c \in DOMAIN box =>
         \/ box'[c] = box[c] \/ box'[c] \in HalfDone(j, step, box[c])
         \/ x = "timed_out" /\ box'[c] \in Acted(j, step, box[c])
\* Every call is one of the two, and changes its own container only.
LEMMA CallGoes ==
  ASSUME BkShape, NEW j \in BkJobs, restore_step(j)
  PROVE  LET step == bkPc[j]
             c == BkTarget(j)
         IN  /\ Bk(j).op \in {"restore", "verify"} /\ step \in {"stop", "cp", "start", "replace", "restart"}
             /\ UNCHANGED <<bkFile, bkTmp, bkVol, zips, bkLoad>>
             /\ bkErr' = bkErr \/ \E x : bkErr' = [bkErr EXCEPT ![j] = @ \cup x]
             /\ DOMAIN box' = DOMAIN box /\ \A d \in DOMAIN box : d # c => box'[d] = box[d]
             /\ CallDone(j, step, c) \/ CallFailed(j, step, c)
<1> DEFINE step == bkPc[j]
           c == BkTarget(j)
<1>1. /\ Bk(j).op \in {"restore", "verify"} /\ step \in {"stop", "cp", "start", "replace", "restart"}
      /\ UNCHANGED <<bkFile, bkTmp, bkVol, zips, bkLoad>>
  BY DEF restore_step
<1>2. \/ Undo(j, step) /\ run_docker_success(j, <<"exit", FALSE>>, step) /\ box' = box
      \/ c \in DOMAIN box /\ \E r \in run_docker_output :
           /\ run_docker_success(j, r, step)
           /\ \E b \in IF r[2] THEN Acted(j, step, box[c]) ELSE HalfDone(j, step, box[c]) :
                box' = [box EXCEPT ![c] = b]
           /\ IF r[1] = "ok" THEN After(j, step) ELSE Undo(j, step)
  BY DEF restore_step
<1> HIDE DEF step, c
<1>3. CASE Undo(j, step) /\ run_docker_success(j, <<"exit", FALSE>>, step) /\ box' = box
  <2> DEFINE r == <<"exit", FALSE>>
  <2>1. r[1] = "exit" /\ run_docker_success(j, r, step)
    BY <1>3
  <2> HIDE DEF r
  <2>2. /\ bkErr' = bkErr \/ \E x : bkErr' = [bkErr EXCEPT ![j] = @ \cup x]
        /\ bkErr'[j] = bkErr[j] \cup {step, "exit"}
    BY <2>1, ErrMoves
  <2>3. CallFailed(j, step, c)
    BY <1>3, <2>2 DEF CallFailed
  <2> QED BY <1>1, <1>3, <2>2, <2>3 DEF step, c
<1>4. CASE c \in DOMAIN box /\ \E r \in run_docker_output :
             /\ run_docker_success(j, r, step)
             /\ \E b \in IF r[2] THEN Acted(j, step, box[c]) ELSE HalfDone(j, step, box[c]) :
                  box' = [box EXCEPT ![c] = b]
             /\ IF r[1] = "ok" THEN After(j, step) ELSE Undo(j, step)
  <2>1. PICK r \in run_docker_output :
             /\ run_docker_success(j, r, step)
             /\ \E b \in IF r[2] THEN Acted(j, step, box[c]) ELSE HalfDone(j, step, box[c]) :
                  box' = [box EXCEPT ![c] = b]
             /\ IF r[1] = "ok" THEN After(j, step) ELSE Undo(j, step)
    BY <1>4
  <2>2. PICK b \in IF r[2] THEN Acted(j, step, box[c]) ELSE HalfDone(j, step, box[c]) :
             box' = [box EXCEPT ![c] = b]
    BY <2>1
  <2>3. DOMAIN box' = DOMAIN box /\ box'[c] = b /\ \A d \in DOMAIN box : d # c => box'[d] = box[d]
    BY <1>4, <2>2
  <2>4. (r[1] = "ok" /\ r[2]) \/ r[1] = "timed_out" \/ (r[1] = "exit" /\ ~r[2])
    BY Outcomes
  <2>5. /\ bkErr' = bkErr \/ \E x : bkErr' = [bkErr EXCEPT ![j] = @ \cup x]
        /\ r[1] = "ok" => bkErr'[j] = bkErr[j]
        /\ r[1] # "ok" => bkErr'[j] = bkErr[j] \cup {step, r[1]}
    BY <2>1, ErrMoves
  <2>6. CASE r[1] = "ok"
    <3>1. CallDone(j, step, c)
      BY <1>4, <2>1, <2>2, <2>3, <2>4, <2>5, <2>6 DEF CallDone
    <3> QED BY <1>1, <2>3, <2>5, <3>1 DEF step, c
  <2>7. CASE r[1] # "ok"
    <3>1. CallFailed(j, step, c)
      BY <2>1, <2>2, <2>3, <2>4, <2>5, <2>7 DEF CallFailed
    <3> QED BY <1>1, <2>3, <2>5, <3>1 DEF step, c
  <2> QED BY <2>6, <2>7
<1> QED BY <1>2, <1>3, <1>4

\* A restore touches no file and no verification.
LEMMA RestoreStep ==
  ASSUME BkInv, NEW j \in BkJobs, BkMoves(j), Bk(j).op = "restore", UNCHANGED <<bkFile, bkTmp, bkVol, zips>>,
         PlaceIs(Bk(j), bkPc'[j], bkAns'[j]),
         DOMAIN box' = DOMAIN box, \A c \in DOMAIN box' : BoxIs(box'[c]), ServiceInv'
  PROVE  BkInv'
<1>1. BkShape'
  BY ShapeStep DEF BkInv, BoxIs
<1>2. FileInv' /\ LeftInv'
  BY FilesStay, LeftStays
<1> QED BY <1>1, <1>2 DEF BkInv

\* A restore begins.
LEMMA RestoreBegins == ASSUME BkInv, NEW j \in BkJobs, restore_backup(j) PROVE BkInv'
<1>0. BkShape
  BY DEF BkInv
<1>1. /\ Bk(j).op = "restore" /\ bkPc[j] = "idle" /\ UNCHANGED <<bkErr, bkFile, bkTmp, box, bkVol, zips, bkLoad>>
      /\ \/ Restores(Bk(j).engine) # <<>> /\ BkGo(j, Restores(Bk(j).engine)[1])
         \/ BkAnswer(j, "failed")
  BY DEF restore_backup, BkAt
<1>2. BkMoves(j)
  BY <1>0, <1>1, BkGoMoves
<1>3. PlaceIs(Bk(j), bkPc'[j], bkAns'[j]) /\ bkPc'[j] \in {"stop", "cp", "done"} /\ bkAns[j] = "none"
  <2>1. CASE Restores(Bk(j).engine) # <<>> /\ BkGo(j, Restores(Bk(j).engine)[1])
    <3>1. bkPc'[j] = Restores(Bk(j).engine)[1] /\ bkAns'[j] = bkAns[j] /\ bkAns[j] = "none"
      BY <1>0, <1>1, <2>1 DEF BkShape, BkGo, PlaceIs
    <3> QED BY <1>1, <2>1, <3>1, FirstCall DEF PlaceIs
  <2>2. CASE BkAnswer(j, "failed")
    BY <1>0, <1>1, <2>2 DEF BkShape, BkAnswer, PlaceIs
  <2> QED BY <1>1, <2>1, <2>2
<1>4. ErrIs(Bk(j), bkPc'[j], bkErr'[j])
  BY <1>1, <1>3 DEF BkInv, ServiceInv, ErrIs
<1>5. ~Changer(Bk(j), bkPc[j], bkErr[j])
  BY <1>1 DEF Changer
<1>6. Starter(Bk(j), bkPc[j], bkAns[j], bkErr[j]) => Starter(Bk(j), bkPc'[j], bkAns'[j], bkErr'[j])
  BY <1>1, <1>3 DEF Starter
<1>7. ServiceInv'
  BY <1>1, <1>2, <1>4, <1>5, <1>6, ServiceStep DEF BkInv, ServiceInv
<1> QED BY <1>0, <1>1, <1>2, <1>3, <1>7, RestoreStep DEF BkShape, BoxIs

\* Where a call leads a restore.
LEMMA CallLeads ==
  ASSUME BkShape, NEW j \in BkJobs, Bk(j).op = "restore", NEW step, step = bkPc[j], Calling(Bk(j).engine, step),
         NEW went, IF went THEN After(j, step) ELSE Undo(j, step)
  PROVE  /\ went /\ step = "stop" => bkPc'[j] = "cp"
         /\ went /\ step = "cp" => bkPc'[j] = IF Bk(j).engine = "mongo" THEN "replace" ELSE "start"
         /\ went /\ step = "start" => bkPc'[j] \in {"replace", "done"}
         /\ went /\ step = "replace" => bkPc'[j] \in {"restart", "done"}
         /\ went /\ step = "restart" => bkPc'[j] = "done"
         /\ ~went => bkPc'[j] = IF step = "cp" /\ Bk(j).engine # "mongo" THEN "undo" ELSE "done"
         /\ PlaceIs(Bk(j), bkPc'[j], bkAns'[j]) /\ ((\E l : BkGo(j, l)) \/ (\E a : BkAnswer(j, a)))
<1>0. bkAns[j] = "none" /\ step \in {"stop", "cp", "start", "replace", "restart"}
  BY DEF BkShape, PlaceIs, Calling
<1>1. CASE went
  <2>1. /\ step = "stop" => BkGo(j, "cp")
        /\ step = "cp" => BkGo(j, IF Bk(j).engine = "mongo" THEN "replace" ELSE "start")
        /\ step = "start" => IF Bk(j).engine = "redis" THEN BkAnswer(j, "completed") ELSE BkGo(j, "replace")
        /\ step = "replace" => IF Bk(j).engine = "postgres" THEN BkGo(j, "restart") ELSE BkAnswer(j, "completed")
        /\ step = "restart" => BkAnswer(j, "completed")
    BY <1>1, AfterGoes DEF RestoreEnds
  <2>2. (\E l : BkGo(j, l)) \/ (\E a : BkAnswer(j, a))
    BY <1>0, <2>1
  <2>3. /\ step = "stop" => bkPc'[j] = "cp" /\ bkAns'[j] = "none"
        /\ step = "cp" => /\ bkPc'[j] = IF Bk(j).engine = "mongo" THEN "replace" ELSE "start"
                          /\ bkAns'[j] = "none"
        /\ step = "start" => bkPc'[j] = "done" \/ (bkPc'[j] = "replace" /\ bkAns'[j] = "none" /\ Bk(j).engine # "redis")
        /\ step = "replace" => bkPc'[j] = "done" \/ (bkPc'[j] = "restart" /\ bkAns'[j] = "none" /\ Bk(j).engine = "postgres")
        /\ step = "restart" => bkPc'[j] = "done"
    BY <1>0, <2>1 DEF BkShape, BkGo, BkAnswer
  <2>4. PlaceIs(Bk(j), bkPc'[j], bkAns'[j])
    BY <1>0, <2>3 DEF PlaceIs, Calling, Dumps
  <2> QED BY <1>1, <2>2, <2>3, <2>4
<1>2. CASE ~went
  <2>1. IF step = "cp" /\ Bk(j).engine # "mongo" THEN BkGo(j, "undo") ELSE BkAnswer(j, "failed")
    BY <1>2 DEF Undo, FailAt
  <2>2. /\ bkPc'[j] = IF step = "cp" /\ Bk(j).engine # "mongo" THEN "undo" ELSE "done"
        /\ bkPc'[j] = "undo" => bkAns'[j] = "none"
    BY <1>0, <2>1 DEF BkShape, BkGo, BkAnswer
  <2>3. PlaceIs(Bk(j), bkPc'[j], bkAns'[j])
    BY <2>2 DEF PlaceIs
  <2> QED BY <1>2, <2>1, <2>2, <2>3
<1> QED BY <1>1, <1>2

\* The five calls of a restore.
LEMMA CallKeeps ==
  ASSUME BkInv, NEW j \in BkJobs, restore_step(j), Bk(j).op = "restore"
  PROVE  BkInv'
<1>0. BkShape
  BY DEF BkInv
<1> DEFINE step == bkPc[j]
           c == BkTarget(j)
           e == bkErr[j]
<1>1. /\ step \in {"stop", "cp", "start", "replace", "restart"}
      /\ UNCHANGED <<bkFile, bkTmp, bkVol, zips, bkLoad>>
      /\ bkErr' = bkErr \/ \E x : bkErr' = [bkErr EXCEPT ![j] = @ \cup x]
      /\ DOMAIN box' = DOMAIN box /\ \A d \in DOMAIN box : d # c => box'[d] = box[d]
      /\ CallDone(j, step, c) \/ CallFailed(j, step, c)
  BY <1>0, CallGoes
<1>2. Calling(Bk(j).engine, step) /\ bkAns[j] = "none"
  BY <1>0, <1>1 DEF BkShape, PlaceIs
<1>3. c = Bk(j).svc
  BY DEF BkTarget
<1>4. /\ "stop" \notin e /\ "cp" \notin e
  BY <1>1 DEF BkInv, ServiceInv, ErrIs
<1> HIDE DEF step, c, e
<1>5. CASE CallDone(j, step, c)
  <2>1. /\ step = "stop" => bkPc'[j] = "cp"
        /\ step = "cp" => bkPc'[j] = IF Bk(j).engine = "mongo" THEN "replace" ELSE "start"
        /\ step = "start" => bkPc'[j] \in {"replace", "done"}
        /\ step = "replace" => bkPc'[j] \in {"restart", "done"}
        /\ step = "restart" => bkPc'[j] = "done"
        /\ PlaceIs(Bk(j), bkPc'[j], bkAns'[j]) /\ ((\E l : BkGo(j, l)) \/ (\E a : BkAnswer(j, a)))
    <3>1. After(j, step) /\ step = bkPc[j]
      BY <1>5 DEF CallDone, step
    <3> QED BY <1>0, <1>2, <3>1, CallLeads
  <2>2. BkMoves(j)
    BY <1>0, <1>1, <2>1, BkGoMoves DEF step
  <2>3. c \in DOMAIN box /\ BoxIs(box[c]) /\ box'[c] \in Acted(j, step, box[c]) /\ bkErr'[j] = e
    BY <1>0, <1>5 DEF CallDone, BkShape, BoxIs, e
  <2>4. /\ BoxIs(box'[c])
        /\ step = "stop" => box'[c].data = box[c].data
        /\ step \in {"start", "restart"} => box'[c].run /\ box'[c].data = box[c].data
        /\ step = "cp" => box'[c].run = box[c].run /\ (box'[c].data # box[c].data => Bk(j).engine = "redis")
        /\ step = "replace" => box'[c].run = box[c].run
    BY <1>1, <2>3, ActedIs
  <2>5. ErrIs(Bk(j), bkPc'[j], bkErr'[j])
    BY <1>4, <2>3 DEF ErrIs
  <2>6. step # "stop" => Changer(Bk(j), bkPc'[j], bkErr'[j])
    BY <1>1, <1>4, <2>1, <2>3 DEF Changer
  <2>7. Changer(Bk(j), bkPc[j], bkErr[j]) => Changer(Bk(j), bkPc'[j], bkErr'[j])
    BY <2>6 DEF Changer, step
  <2>8. \/ box'[c].run \/ Starter(Bk(j), bkPc'[j], bkAns'[j], bkErr'[j])
        \/ box'[c].run = box[c].run /\ ~Starter(Bk(j), bkPc[j], bkAns[j], bkErr[j])
    <3>1. CASE step = "stop"
      BY <1>2, <2>1, <3>1 DEF Starter, Calling
    <3>2. CASE step = "cp" /\ Bk(j).engine # "mongo"
      BY <2>1, <3>2 DEF Starter
    <3>3. CASE (step = "cp" /\ Bk(j).engine = "mongo") \/ step = "replace"
      <4>1. Starter(Bk(j), bkPc[j], bkAns[j], bkErr[j]) => Starter(Bk(j), bkPc'[j], bkAns'[j], bkErr'[j])
        BY <1>2, <2>3, <3>3 DEF Starter, step, e
      <4> QED BY <2>4, <3>3, <4>1
    <3>4. CASE step \in {"start", "restart"}
      BY <2>4, <3>4
    <3> QED BY <1>1, <3>1, <3>2, <3>3, <3>4
  <2>9. box'[c].data = box[c].data \/ (Bk(j).svc = c /\ Changer(Bk(j), bkPc'[j], bkErr'[j]))
    BY <1>3, <2>4, <2>6
  <2>10. \A s \in bkLoad.services : s \in DOMAIN box' /\ (s # c => box'[s] = box[s])
    BY <1>1 DEF BkInv, ServiceInv
  <2>11. ServiceInv'
    BY <2>2, <2>5, <2>7, <2>8, <2>9, <2>10, ServiceStep DEF c
  <2>12. \A d \in DOMAIN box' : BoxIs(box'[d])
    BY <1>0, <1>1, <2>4 DEF BkShape, BoxIs
  <2> QED BY <1>1, <2>1, <2>2, <2>11, <2>12, RestoreStep
<1>6. CASE CallFailed(j, step, c)
  <2>0. PICK x \in {"exit", "timed_out"} :
          /\ bkErr'[j] = e \cup {step, x} /\ Undo(j, step)
          /\ c \in DOMAIN box =>
               \/ box'[c] = box[c] \/ box'[c] \in HalfDone(j, step, box[c])
               \/ x = "timed_out" /\ box'[c] \in Acted(j, step, box[c])
    BY <1>6 DEF CallFailed, e
  <2>1. /\ bkPc'[j] = IF step = "cp" /\ Bk(j).engine # "mongo" THEN "undo" ELSE "done"
        /\ PlaceIs(Bk(j), bkPc'[j], bkAns'[j]) /\ ((\E l : BkGo(j, l)) \/ (\E a : BkAnswer(j, a)))
    <3>1. step = bkPc[j]
      BY DEF step
    <3> QED BY <1>0, <1>2, <2>0, <3>1, CallLeads
  <2>2. BkMoves(j)
    BY <1>0, <1>1, <2>1, BkGoMoves DEF step
  <2>3. ErrIs(Bk(j), bkPc'[j], bkErr'[j])
    BY <1>4, <2>0, <2>1 DEF ErrIs
  <2>4. step \in {"start", "replace", "restart"} => Changer(Bk(j), bkPc'[j], bkErr'[j])
    BY <1>4, <2>0, <2>1 DEF Changer
  <2>5. Changer(Bk(j), bkPc[j], bkErr[j]) => Changer(Bk(j), bkPc'[j], bkErr'[j])
    BY <1>1, <2>4 DEF Changer, step
  <2>6. step = "cp" /\ x = "timed_out" /\ Bk(j).engine # "mongo" => Changer(Bk(j), bkPc'[j], bkErr'[j])
    BY <1>4, <2>0, <2>1 DEF Changer
  <2>7. ASSUME c \in DOMAIN box
        PROVE  /\ BoxIs(box'[c])
               /\ \/ box'[c].run \/ Starter(Bk(j), bkPc'[j], bkAns'[j], bkErr'[j])
                  \/ box'[c].run = box[c].run /\ ~Starter(Bk(j), bkPc[j], bkAns[j], bkErr[j])
               /\ box'[c].data = box[c].data \/ (Bk(j).svc = c /\ Changer(Bk(j), bkPc'[j], bkErr'[j]))
    <3>1. BoxIs(box[c])
      BY <1>0, <2>7 DEF BkShape, BoxIs
    <3>2. x = "timed_out" \/ step \in {"start", "replace", "restart"} => Starter(Bk(j), bkPc'[j], bkAns'[j], bkErr'[j])
      BY <2>0 DEF Starter
    <3>3. Starter(Bk(j), bkPc[j], bkAns[j], bkErr[j]) => Starter(Bk(j), bkPc'[j], bkAns'[j], bkErr'[j])
      <4>1. CASE step = "cp" /\ Bk(j).engine # "mongo"
        BY <2>1, <4>1 DEF Starter
      <4>2. CASE step \in {"start", "replace", "restart"}
        BY <3>2, <4>2
      <4>3. CASE step = "stop" \/ (step = "cp" /\ Bk(j).engine = "mongo")
        BY <1>2, <2>0, <4>3 DEF Starter, step, e
      <4> QED BY <1>1, <4>1, <4>2, <4>3
    <3>4. CASE box'[c] = box[c]
      BY <3>1, <3>3, <3>4
    <3>5. CASE box'[c] \in HalfDone(j, step, box[c])
      <4>1. BoxIs(box'[c]) /\ (step # "replace" => box'[c] = box[c])
        BY <3>1, <3>5, HalfIs
      <4> QED BY <1>3, <2>4, <3>2, <3>3, <4>1
    <3>6. CASE x = "timed_out" /\ box'[c] \in Acted(j, step, box[c])
      <4>1. /\ BoxIs(box'[c])
            /\ step = "stop" => box'[c].data = box[c].data
            /\ step = "cp" => (box'[c].data # box[c].data => Bk(j).engine = "redis")
        BY <1>1, <3>1, <3>6, ActedIs
      <4> QED BY <1>1, <1>3, <2>4, <2>6, <3>2, <3>6, <4>1
    <3> QED BY <2>0, <2>7, <3>4, <3>5, <3>6
  <2>8. \A s \in bkLoad.services : s \in DOMAIN box' /\ (s # c => box'[s] = box[s]) /\ s \in DOMAIN box
    BY <1>1 DEF BkInv, ServiceInv
  <2>9. ServiceInv'
    BY <2>2, <2>3, <2>5, <2>7, <2>8, ServiceStep DEF c
  <2>10. \A d \in DOMAIN box' : BoxIs(box'[d])
    BY <1>0, <1>1, <2>7 DEF BkShape, BoxIs
  <2> QED BY <1>1, <2>1, <2>2, <2>9, <2>10, RestoreStep
<1> QED BY <1>1, <1>5, <1>6

\* The start that undoes a stop.
LEMMA UndoKeeps ==
  ASSUME BkInv, NEW j \in BkJobs, undo_start(j), Bk(j).op = "restore"
  PROVE  BkInv'
<1>0. BkShape
  BY DEF BkInv
<1> DEFINE c == BkTarget(j)
<1>1. bkPc[j] = "undo" /\ BkAnswer(j, "failed") /\ UNCHANGED <<bkFile, bkTmp, bkVol, zips, bkLoad>> /\ c = Bk(j).svc
  BY DEF undo_start, FailAt, BkTarget
<1>2. PICK r \in run_docker_output :
        /\ run_docker_success(j, r, "undo")
        /\ box' = IF r[2] /\ c \in DOMAIN box THEN [box EXCEPT ![c].run = TRUE] ELSE box
  BY DEF undo_start
<1>3. /\ bkErr' = bkErr \/ \E x : bkErr' = [bkErr EXCEPT ![j] = @ \cup x]
      /\ r[1] = "ok" => bkErr'[j] = bkErr[j]
      /\ r[1] # "ok" => bkErr'[j] = bkErr[j] \cup {"undo", r[1]}
  BY <1>0, <1>2, ErrMoves
<1>4. BkMoves(j)
  BY <1>0, <1>1, <1>3, BkGoMoves
<1>5. bkPc'[j] = "done" /\ PlaceIs(Bk(j), bkPc'[j], bkAns'[j])
  BY <1>0, <1>1 DEF BkShape, BkAnswer, PlaceIs
<1>6. ErrIs(Bk(j), bkPc'[j], bkErr'[j])
  BY <1>5 DEF ErrIs
<1>7. Changer(Bk(j), bkPc[j], bkErr[j]) => Changer(Bk(j), bkPc'[j], bkErr'[j])
  <2>1. (r[1] = "ok" /\ r[2]) \/ r[1] = "timed_out" \/ (r[1] = "exit" /\ ~r[2])
    BY Outcomes
  <2> QED BY <1>3, <1>5, <2>1 DEF Changer
<1>8. /\ DOMAIN box' = DOMAIN box /\ \A d \in DOMAIN box : d # c => box'[d] = box[d]
      /\ c \in DOMAIN box => /\ BoxIs(box'[c]) /\ box'[c].data = box[c].data
                             /\ box'[c].run \/ ~r[2]
  BY <1>0, <1>2 DEF BkShape, BoxIs
<1>9. ~r[2] => Starter(Bk(j), bkPc'[j], bkAns'[j], bkErr'[j])
  <2>1. (r[1] = "ok" /\ r[2]) \/ r[1] = "timed_out" \/ (r[1] = "exit" /\ ~r[2])
    BY Outcomes
  <2> QED BY <1>3, <2>1 DEF Starter
<1>10. \A s \in bkLoad.services : s \in DOMAIN box
  BY DEF BkInv, ServiceInv
<1>11. ServiceInv'
  BY <1>4, <1>6, <1>7, <1>8, <1>9, <1>10, ServiceStep
<1>12. \A d \in DOMAIN box' : BoxIs(box'[d])
  BY <1>0, <1>8 DEF BkShape, BoxIs
<1> QED BY <1>1, <1>4, <1>5, <1>8, <1>11, <1>12, RestoreStep

----------------------------------------------------------------------------
(* Backups: verify.                                                        *)

\* A verification touches no file and no service, and holds what it made.
LEMMA VerifyStep ==
  ASSUME BkInv, NEW j \in BkJobs, BkMoves(j), Bk(j).op = "verify", UNCHANGED <<bkFile, bkTmp, zips>>,
         PlaceIs(Bk(j), bkPc'[j], bkAns'[j]),
         \A d \in DOMAIN box : d # BkTarget(j) => d \in DOMAIN box' /\ box'[d] = box[d],
         \A d \in DOMAIN box' : BoxIs(box'[d]) /\ (d \in DOMAIN box \/ d = BkTarget(j)),
         ~bkLoad.fails =>
           /\ BkTarget(j) \in DOMAIN box' /\ BkTarget(j) \notin DOMAIN box => Holding(Bk(j), bkPc'[j], bkAns'[j])
           /\ Holding(Bk(j), bkPc[j], bkAns[j]) =>
                Holding(Bk(j), bkPc'[j], bkAns'[j]) \/ BkTarget(j) \notin DOMAIN box'
           /\ \A v \in bkVol' :
                v \in bkVol \/ (v = backup_short_id(Bk(j).id) /\ Keeping(Bk(j), bkPc'[j], bkAns'[j]))
           /\ Keeping(Bk(j), bkPc[j], bkAns[j]) =>
                \/ Keeping(Bk(j), bkPc'[j], bkAns'[j]) \/ backup_short_id(Bk(j).id) \notin bkVol'
                \/ \E k \in BkJobs : /\ k # j /\ backup_short_id(Bk(k).id) = backup_short_id(Bk(j).id)
                                     /\ Keeping(Bk(k), bkPc[k], bkAns[k])
  PROVE  BkInv'
<1>1. BkShape'
  BY ShapeStep DEF BkInv, BoxIs
<1>2. FileInv'
  BY FilesStay
<1>3. ServiceInv'
  <2>1. BkTarget(j) \notin bkLoad.services
    BY TargetsApart DEF BkInv
  <2>2. \A s \in bkLoad.services : s \in DOMAIN box' /\ box'[s] = box[s]
    BY <2>1 DEF BkInv, ServiceInv
  <2> QED BY <2>2, ServicesStay
<1>4. LeftInv'
  <2>1. ~bkLoad.fails => ZipIs(Bk(j), bkPc'[j], bkAns'[j], j \in zips')
    BY DEF BkInv, LeftInv, ZipIs
  <2>2. ~bkLoad.fails => \A d \in DOMAIN box' :
           d \in DOMAIN box \/ (d = BkTarget(j) /\ Holding(Bk(j), bkPc'[j], bkAns'[j]))
    OBVIOUS
  <2> QED BY <2>1, <2>2, LeftStep
<1> QED BY <1>1, <1>2, <1>3, <1>4 DEF BkInv

\* Most steps of one go on to where it holds what it made.
LEMMA HoldsOn ==
  ASSUME BkInv, NEW j \in BkJobs, BkMoves(j), Bk(j).op = "verify", UNCHANGED <<bkFile, bkTmp, zips, bkVol>>,
         PlaceIs(Bk(j), bkPc'[j], bkAns'[j]),
         \A d \in DOMAIN box : d # BkTarget(j) => d \in DOMAIN box' /\ box'[d] = box[d],
         \A d \in DOMAIN box' : BoxIs(box'[d]) /\ (d \in DOMAIN box \/ d = BkTarget(j)),
         bkPc'[j] \notin {"idle", "volume", "run", "volume_rm", "done"}
  PROVE  BkInv'
<1>1. Holding(Bk(j), bkPc'[j], bkAns'[j]) /\ Keeping(Bk(j), bkPc'[j], bkAns'[j])
  BY DEF Holding, Keeping
<1> QED BY <1>1, VerifyStep

\* It begins.
LEMMA VerifyBegins == ASSUME BkInv, NEW j \in BkJobs, verify_backup(j) PROVE BkInv'
<1>0. BkShape
  BY DEF BkInv
<1>1. /\ Bk(j).op = "verify" /\ bkPc[j] = "idle" /\ UNCHANGED <<bkErr, bkFile, bkTmp, box, bkVol, zips, bkLoad>>
      /\ BkGo(j, "volume") \/ BkAnswer(j, "failed")
  BY DEF verify_backup, BkAt
<1>2. BkMoves(j)
  BY <1>0, <1>1, BkGoMoves
<1>3. PlaceIs(Bk(j), bkPc'[j], bkAns'[j])
  BY <1>0, <1>1 DEF BkShape, BkGo, BkAnswer, PlaceIs
<1>4. ~Holding(Bk(j), bkPc[j], bkAns[j]) /\ ~Keeping(Bk(j), bkPc[j], bkAns[j])
  BY <1>0, <1>1 DEF BkShape, PlaceIs, Holding, Keeping
<1>5. \A d \in DOMAIN box : BoxIs(box[d])
  BY <1>0 DEF BkShape, BoxIs
<1> QED BY <1>1, <1>2, <1>3, <1>4, <1>5, VerifyStep

\* Its volume.
LEMMA VolumeKeeps == ASSUME BkInv, NEW j \in BkJobs, create_verify_volume(j) PROVE BkInv'
<1>0. BkShape
  BY DEF BkInv
<1>1. Bk(j).op = "verify" /\ bkPc[j] = "volume" /\ UNCHANGED <<bkFile, bkTmp, box, zips, bkLoad>>
  BY DEF create_verify_volume, BkAt
<1>2. PICK r \in run_docker_output :
        /\ run_docker_success(j, r, "volume")
        /\ bkVol' = IF r[2] THEN bkVol \cup {backup_short_id(Bk(j).id)} ELSE bkVol
        /\ (Restores(Bk(j).engine) # <<>> /\ BkGo(j, "run")) \/ BkGo(j, "rm")
  BY DEF create_verify_volume
<1>3. bkErr' = bkErr \/ \E x : bkErr' = [bkErr EXCEPT ![j] = @ \cup x]
  BY <1>0, <1>2, ErrMoves
<1>4. BkMoves(j)
  BY <1>0, <1>1, <1>2, <1>3, BkGoMoves
<1>5. /\ (bkPc'[j] = "run" /\ Restores(Bk(j).engine) # <<>>) \/ bkPc'[j] = "rm"
      /\ bkAns'[j] = "none" /\ bkAns[j] = "none"
  BY <1>0, <1>1, <1>2 DEF BkShape, BkGo, PlaceIs
<1>6. PlaceIs(Bk(j), bkPc'[j], bkAns'[j])
  BY <1>1, <1>5, FirstCall DEF PlaceIs
<1>7. Keeping(Bk(j), bkPc'[j], bkAns'[j]) /\ ~Holding(Bk(j), bkPc[j], bkAns[j])
  BY <1>1, <1>5 DEF Holding, Keeping
<1>8. \A d \in DOMAIN box : BoxIs(box[d])
  BY <1>0 DEF BkShape, BoxIs
<1> QED BY <1>1, <1>2, <1>4, <1>6, <1>7, <1>8, VerifyStep

\* Its container.
LEMMA ContainerKeeps == ASSUME BkInv, NEW j \in BkJobs, create_verify_container(j) PROVE BkInv'
<1>0. BkShape
  BY DEF BkInv
<1> DEFINE c == BkTarget(j)
           fresh == [run |-> TRUE, data |-> "fresh"]
<1>1. Bk(j).op = "verify" /\ bkPc[j] = "run" /\ UNCHANGED <<bkFile, bkTmp, bkVol, zips, bkLoad>>
  BY DEF create_verify_container, BkAt
<1>2. /\ \E x : \E r : run_docker_success(j, r, x)
      /\ box' = box \/ box' = BkPut(box, c, fresh)
      /\ BkGo(j, "running") \/ BkGo(j, "rm")
  <2>1. PICK r \in run_docker_output :
         LET acts == r[2] /\ BkTarget(j) \notin DOMAIN box IN
         /\ run_docker_success(j, IF acts THEN r ELSE <<"exit", FALSE>>, "run")
         /\ box' = IF acts THEN BkPut(box, BkTarget(j), [run |-> TRUE, data |-> "fresh"]) ELSE box
         /\ IF acts /\ r[1] = "ok" THEN BkGo(j, "running") ELSE BkGo(j, "rm")
    BY DEF create_verify_container
  <2> DEFINE acts == r[2] /\ c \notin DOMAIN box
             r0 == IF acts THEN r ELSE <<"exit", FALSE>>
  <2>2. run_docker_success(j, r0, "run")
    BY <2>1
  <2>3. box' = box \/ box' = BkPut(box, c, fresh)
    BY <2>1
  <2>4. BkGo(j, "running") \/ BkGo(j, "rm")
    BY <2>1
  <2> HIDE DEF r0
  <2> QED BY <2>2, <2>3, <2>4
<1> HIDE DEF fresh
<1>3. bkErr' = bkErr \/ \E x : bkErr' = [bkErr EXCEPT ![j] = @ \cup x]
  BY <1>0, <1>2, ErrMoves
<1>4. BkMoves(j)
  BY <1>0, <1>1, <1>2, <1>3, BkGoMoves
<1>5. bkPc'[j] \in {"running", "rm"} /\ bkAns'[j] = "none"
  BY <1>0, <1>1, <1>2 DEF BkShape, BkGo, PlaceIs
<1>6. PlaceIs(Bk(j), bkPc'[j], bkAns'[j])
  BY <1>0, <1>1, <1>5 DEF BkShape, PlaceIs, Calling
<1>7. \A d \in DOMAIN box : BoxIs(box[d])
  BY <1>0 DEF BkShape, BoxIs
<1>8. BoxIs(fresh)
  BY DEF fresh, BoxIs
<1>9. /\ \A d \in DOMAIN box : d # c => d \in DOMAIN box' /\ box'[d] = box[d]
      /\ \A d \in DOMAIN box' : BoxIs(box'[d]) /\ (d \in DOMAIN box \/ d = c)
  BY <1>2, <1>7, <1>8 DEF BkPut
<1> QED BY <1>1, <1>4, <1>5, <1>6, <1>9, HoldsOn

\* A step that leaves everything on the host and goes on to where it holds it.
LEMMA PlainVerify ==
  ASSUME BkInv, NEW j \in BkJobs, Bk(j).op = "verify", bkPc[j] # "done",
         UNCHANGED <<bkFile, bkTmp, zips, bkVol, box, bkLoad>>,
         bkErr' = bkErr \/ \E x : bkErr' = [bkErr EXCEPT ![j] = @ \cup x],
         NEW l, BkGo(j, l), l \notin {"idle", "volume", "run", "volume_rm", "done"}, PlaceIs(Bk(j), l, "none")
  PROVE  BkInv'
<1>0. BkShape
  BY DEF BkInv
<1>1. BkMoves(j)
  BY <1>0, BkGoMoves
<1>2. bkPc'[j] = l /\ bkAns'[j] = "none"
  BY <1>0 DEF BkShape, BkGo, PlaceIs
<1>3. \A d \in DOMAIN box : BoxIs(box[d])
  BY <1>0 DEF BkShape, BoxIs
<1> QED BY <1>1, <1>2, <1>3, HoldsOn

\* The wait for the container.
LEMMA RunningKeeps == ASSUME BkInv, NEW j \in BkJobs, wait_container_running(j) PROVE BkInv'
<1>0. BkShape
  BY DEF BkInv
<1>1. Bk(j).op = "verify" /\ bkPc[j] = "running" /\ UNCHANGED <<bkFile, bkTmp, box, bkVol, zips, bkLoad>>
  BY DEF wait_container_running, BkAt
<1>2. bkErr' = bkErr \/ \E x : bkErr' = [bkErr EXCEPT ![j] = @ \cup x]
  <2> DEFINE late == <<"timed_out", FALSE>>
  <2>1. bkErr' = bkErr \/ run_docker_success(j, late, "running")
    BY DEF wait_container_running
  <2> HIDE DEF late
  <2> QED BY <1>0, <2>1, ErrMoves
<1>3. BkGo(j, Restores(Bk(j).engine)[1]) \/ BkGo(j, "rm")
  BY DEF wait_container_running
<1>4. Bk(j).engine \in Dumps \cup {"redis"}
  BY <1>0, <1>1 DEF BkShape, PlaceIs, Calling
<1>5. Restores(Bk(j).engine) # <<>>
  BY <1>4 DEF Restores, Dumps
<1>6. Restores(Bk(j).engine)[1] \in {"stop", "cp"} /\ Calling(Bk(j).engine, Restores(Bk(j).engine)[1])
  BY <1>5, FirstCall
<1>7. PlaceIs(Bk(j), "rm", "none") /\ PlaceIs(Bk(j), Restores(Bk(j).engine)[1], "none")
  BY <1>1, <1>6 DEF PlaceIs
<1> QED BY <1>1, <1>2, <1>3, <1>6, <1>7, PlainVerify

\* Where a call leads a verification.
LEMMA VerifyLeads ==
  ASSUME NEW j, Bk(j).op = "verify", NEW step, Calling(Bk(j).engine, step), After(j, step) \/ Undo(j, step)
  PROVE  \E l \in {"cp", "start", "replace", "restart", "validate", "undo", "rm"} :
            BkGo(j, l) /\ PlaceIs(Bk(j), l, "none")
<1>1. CASE After(j, step)
  <2>1. /\ step = "stop" => BkGo(j, "cp")
        /\ step = "cp" => BkGo(j, IF Bk(j).engine = "mongo" THEN "replace" ELSE "start")
        /\ step = "start" => IF Bk(j).engine = "redis" THEN BkGo(j, "validate") ELSE BkGo(j, "replace")
        /\ step = "replace" => IF Bk(j).engine = "postgres" THEN BkGo(j, "restart") ELSE BkGo(j, "validate")
        /\ step = "restart" => BkGo(j, "validate")
    BY <1>1, AfterGoes DEF RestoreEnds
  <2>2. PICK l : /\ BkGo(j, l)
                 /\ \/ l = "validate"
                    \/ step = "stop" /\ l = "cp"
                    \/ step = "cp" /\ l = (IF Bk(j).engine = "mongo" THEN "replace" ELSE "start")
                    \/ step = "start" /\ l = "replace" /\ Bk(j).engine # "redis"
                    \/ step = "replace" /\ l = "restart" /\ Bk(j).engine = "postgres"
    BY <2>1 DEF Calling
  <2>3. PlaceIs(Bk(j), l, "none") /\ l \in {"cp", "start", "replace", "restart", "validate"}
    BY <2>2 DEF PlaceIs, Calling, Dumps
  <2> QED BY <2>2, <2>3
<1>2. CASE Undo(j, step)
  <2>1. BkGo(j, "undo") \/ BkGo(j, "rm")
    BY <1>2 DEF Undo, FailAt
  <2> QED BY <2>1 DEF PlaceIs
<1> QED BY <1>1, <1>2

\* The five calls, on the container of a verification.
LEMMA VerifyCallKeeps ==
  ASSUME BkInv, NEW j \in BkJobs, restore_step(j), Bk(j).op = "verify"
  PROVE  BkInv'
<1>0. BkShape
  BY DEF BkInv
<1> DEFINE step == bkPc[j]
           c == BkTarget(j)
<1>1. /\ step \in {"stop", "cp", "start", "replace", "restart"}
      /\ UNCHANGED <<bkFile, bkTmp, bkVol, zips, bkLoad>>
      /\ bkErr' = bkErr \/ \E x : bkErr' = [bkErr EXCEPT ![j] = @ \cup x]
      /\ DOMAIN box' = DOMAIN box /\ \A d \in DOMAIN box : d # c => box'[d] = box[d]
      /\ CallDone(j, step, c) \/ CallFailed(j, step, c)
  BY <1>0, CallGoes
<1>2. Calling(Bk(j).engine, step) /\ bkAns[j] = "none"
  BY <1>0, <1>1 DEF BkShape, PlaceIs
<1>3. After(j, step) \/ Undo(j, step)
  BY <1>1 DEF CallDone, CallFailed
<1>4. c \in DOMAIN box => BoxIs(box'[c])
  <2> SUFFICES ASSUME c \in DOMAIN box PROVE BoxIs(box'[c])
    OBVIOUS
  <2>1. BoxIs(box[c])
    BY <1>0 DEF BkShape, BoxIs
  <2>2. box'[c] = box[c] \/ box'[c] \in HalfDone(j, step, box[c]) \/ box'[c] \in Acted(j, step, box[c])
    BY <1>1 DEF CallDone, CallFailed
  <2> HIDE DEF step, c
  <2> QED BY <1>1, <2>1, <2>2, HalfIs, ActedIs
<1>5. \A d \in DOMAIN box' : BoxIs(box'[d])
  BY <1>0, <1>1, <1>4 DEF BkShape, BoxIs
<1>6. PICK l \in {"cp", "start", "replace", "restart", "validate", "undo", "rm"} :
        BkGo(j, l) /\ PlaceIs(Bk(j), l, "none")
  BY <1>2, <1>3, VerifyLeads
<1>7. BkMoves(j)
  BY <1>0, <1>1, <1>6, BkGoMoves
<1>8. bkPc'[j] = l /\ bkAns'[j] = "none"
  BY <1>0, <1>2, <1>6 DEF BkShape, BkGo
<1> QED BY <1>1, <1>5, <1>6, <1>7, <1>8, HoldsOn

\* The start after a copy that failed, on the container of a verification.
LEMMA VerifyUndoKeeps ==
  ASSUME BkInv, NEW j \in BkJobs, undo_start(j), Bk(j).op = "verify"
  PROVE  BkInv'
<1>0. BkShape
  BY DEF BkInv
<1> DEFINE c == BkTarget(j)
<1>1. bkPc[j] = "undo" /\ BkGo(j, "rm") /\ UNCHANGED <<bkFile, bkTmp, bkVol, zips, bkLoad>>
  BY DEF undo_start, FailAt
<1>2. PICK r \in run_docker_output :
        /\ run_docker_success(j, r, "undo")
        /\ box' = IF r[2] /\ c \in DOMAIN box THEN [box EXCEPT ![c].run = TRUE] ELSE box
  BY DEF undo_start
<1>3. bkErr' = bkErr \/ \E x : bkErr' = [bkErr EXCEPT ![j] = @ \cup x]
  BY <1>0, <1>2, ErrMoves
<1>4. BkMoves(j)
  BY <1>0, <1>1, <1>3, BkGoMoves
<1>5. bkPc'[j] = "rm" /\ PlaceIs(Bk(j), bkPc'[j], bkAns'[j])
  BY <1>0, <1>1 DEF BkShape, BkGo, PlaceIs
<1>6. /\ DOMAIN box' = DOMAIN box /\ \A d \in DOMAIN box : d # c => box'[d] = box[d]
      /\ \A d \in DOMAIN box' : BoxIs(box'[d])
  BY <1>0, <1>2 DEF BkShape, BoxIs
<1> QED BY <1>1, <1>4, <1>5, <1>6, HoldsOn

\* The look at the result.
LEMMA ValidateKeeps == ASSUME BkInv, NEW j \in BkJobs, validate_service(j) PROVE BkInv'
<1>0. BkShape
  BY DEF BkInv
<1>1. /\ Bk(j).op = "verify" /\ bkPc[j] = "validate" /\ BkGo(j, "rm")
      /\ UNCHANGED <<bkFile, bkTmp, box, bkVol, zips, bkLoad>>
  BY DEF validate_service, BkAt
<1>2. bkErr' = bkErr \/ \E r : run_docker_success(j, r, "validate")
  BY Zenon DEF validate_service
<1>3. bkErr' = bkErr \/ \E x : bkErr' = [bkErr EXCEPT ![j] = @ \cup x]
  BY <1>0, <1>2, ErrMoves
<1>4. PlaceIs(Bk(j), "rm", "none")
  BY <1>1 DEF PlaceIs
<1> QED BY <1>1, <1>3, <1>4, PlainVerify

\* The limit on all of it.
LEMMA TimedOutKeeps == ASSUME BkInv, NEW j \in BkJobs, verify_timed_out(j) PROVE BkInv'
<1>1. /\ Bk(j).op = "verify" /\ bkPc[j] # "done" /\ BkGo(j, "rm")
      /\ UNCHANGED <<bkFile, bkTmp, box, bkVol, zips, bkLoad>>
      /\ \E x : bkErr' = [bkErr EXCEPT ![j] = @ \cup x]
  BY DEF verify_timed_out
<1>2. PlaceIs(Bk(j), "rm", "none")
  BY <1>1 DEF PlaceIs
<1> QED BY <1>1, <1>2, PlainVerify

\* The removal of the container.
LEMMA RmKeeps == ASSUME BkInv, NEW j \in BkJobs, remove_verify_container(j) PROVE BkInv'
<1>0. BkShape
  BY DEF BkInv
<1> DEFINE c == BkTarget(j)
<1>1. /\ Bk(j).op = "verify" /\ bkPc[j] = "rm" /\ BkGo(j, "volume_rm")
      /\ UNCHANGED <<bkErr, bkFile, bkTmp, bkVol, zips, bkLoad>>
  BY DEF remove_verify_container, BkAt
<1>2. PICK r \in run_docker_output : box' = IF r[2] THEN Drop(box, c) ELSE box
  BY DEF remove_verify_container
<1>3. ~bkLoad.fails => r[2]
  BY Outcomes
<1>4. BkMoves(j)
  BY <1>0, <1>1, BkGoMoves
<1>5. bkPc'[j] = "volume_rm" /\ PlaceIs(Bk(j), bkPc'[j], bkAns'[j])
  BY <1>0, <1>1 DEF BkShape, BkGo, PlaceIs
<1>6. /\ \A d \in DOMAIN box : d # c => d \in DOMAIN box' /\ box'[d] = box[d]
      /\ \A d \in DOMAIN box' : BoxIs(box'[d]) /\ d \in DOMAIN box
  BY <1>0, <1>2 DEF BkShape, BoxIs, Drop
<1>7. ~bkLoad.fails => c \notin DOMAIN box'
  BY <1>2, <1>3 DEF Drop
<1>8. Keeping(Bk(j), bkPc'[j], bkAns'[j])
  BY <1>1, <1>5 DEF Keeping
<1> QED BY <1>1, <1>4, <1>5, <1>6, <1>7, <1>8, VerifyStep

\* The removal of the volume: docker keeps one that another verification's
\* container uses, and that verification has it to remove.
LEMMA VolumeRmKeeps == ASSUME BkInv, NEW j \in BkJobs, remove_verify_volume(j) PROVE BkInv'
<1>0. BkShape
  BY DEF BkInv
<1> DEFINE v == backup_short_id(Bk(j).id)
           c == BkTarget(j)
<1>1. /\ Bk(j).op = "verify" /\ bkPc[j] = "volume_rm" /\ (\E a : BkAnswer(j, a))
      /\ UNCHANGED <<bkErr, bkFile, bkTmp, box, zips, bkLoad>>
  BY DEF remove_verify_volume, BkAt
<1>2. PICK r \in run_docker_output : bkVol' = IF r[2] /\ c \notin DOMAIN box THEN bkVol \ {v} ELSE bkVol
  BY DEF remove_verify_volume
<1>3. ~bkLoad.fails => r[2]
  BY Outcomes
<1>4. BkMoves(j)
  BY <1>0, <1>1, BkGoMoves
<1>5. bkPc'[j] = "done" /\ PlaceIs(Bk(j), bkPc'[j], bkAns'[j])
  BY <1>0, <1>1 DEF BkShape, BkAnswer, PlaceIs
<1>6. ~Holding(Bk(j), bkPc[j], bkAns[j])
  BY <1>0, <1>1 DEF BkShape, PlaceIs, Holding
<1>7. ASSUME ~bkLoad.fails, c \in DOMAIN box
      PROVE  \E k \in BkJobs : k # j /\ backup_short_id(Bk(k).id) = v /\ Keeping(Bk(k), bkPc[k], bkAns[k])
  <2>1. c \notin bkLoad.services /\ \A k \in BkJobs : BkTarget(k) = c => backup_short_id(Bk(k).id) = v
    BY <1>0, <1>1, TargetsApart
  <2>2. PICK k \in BkJobs : BkTarget(k) = c /\ Holding(Bk(k), bkPc[k], bkAns[k])
    BY <1>7, <2>1 DEF BkInv, LeftInv
  <2>3. Keeping(Bk(k), bkPc[k], bkAns[k]) /\ k # j
    BY <1>6, <2>2 DEF Holding, Keeping
  <2> QED BY <2>1, <2>2, <2>3
<1>8. ~bkLoad.fails /\ c \notin DOMAIN box => v \notin bkVol'
  BY <1>2, <1>3
<1>9. \A w \in bkVol' : w \in bkVol
  BY <1>2
<1>10. \A d \in DOMAIN box : BoxIs(box[d])
  BY <1>0 DEF BkShape, BoxIs
<1> QED BY <1>1, <1>4, <1>5, <1>6, <1>7, <1>8, <1>9, <1>10, VerifyStep

----------------------------------------------------------------------------
(* Backups: downloads, what is answered at once, and cancellation.         *)

\* Only an archive of its own changes.
LEMMA SideStep ==
  ASSUME BkInv, NEW j \in BkJobs, BkMoves(j), Bk(j).op \notin {"create", "restore", "verify"},
         UNCHANGED <<bkFile, bkTmp, box, bkVol>>, PlaceIs(Bk(j), bkPc'[j], bkAns'[j]),
         ~bkLoad.fails => ZipIs(Bk(j), bkPc'[j], bkAns'[j], j \in zips') /\ \A i \in BkJobs : i # j /\ i \in zips' => i \in zips
  PROVE  BkInv'
<1>1. BkShape'
  BY ShapeStep DEF BkInv, BkShape
<1>2. FileInv'
  BY FilesStay
<1>3. ServiceInv'
  BY ServicesStay DEF BkInv, ServiceInv
<1>4. ~Holding(Bk(j), bkPc[j], bkAns[j]) /\ ~Keeping(Bk(j), bkPc[j], bkAns[j])
  BY DEF Holding, Keeping
<1>5. LeftInv'
  BY <1>4, LeftStep
<1> QED BY <1>1, <1>2, <1>3, <1>5 DEF BkInv

\* upload and cleanup.
LEMMA UploadKeeps == ASSUME BkInv, NEW j \in BkJobs, handle_backup_upload(j) PROVE BkInv'
<1>0. BkShape
  BY DEF BkInv
<1>1. /\ Bk(j).op \in {"upload", "cleanup"} /\ bkPc[j] = "idle" /\ BkAnswer(j, "completed")
      /\ UNCHANGED <<bkErr, bkFile, bkTmp, box, bkVol, zips, bkLoad>>
  BY DEF handle_backup_upload
<1>2. BkMoves(j)
  BY <1>0, <1>1, BkGoMoves
<1>3. PlaceIs(Bk(j), bkPc'[j], bkAns'[j])
  BY <1>0, <1>1 DEF BkShape, BkAnswer, PlaceIs
<1>4. ~bkLoad.fails => j \notin zips'
  BY <1>1 DEF BkInv, LeftInv, ZipIs
<1>5. ~bkLoad.fails => ZipIs(Bk(j), bkPc'[j], bkAns'[j], j \in zips')
  BY <1>4 DEF ZipIs
<1> QED BY <1>1, <1>2, <1>3, <1>5, SideStep

\* A download of a file.
LEMMA PrepareKeeps == ASSUME BkInv, NEW j \in BkJobs, prepare_download(j) PROVE BkInv'
<1>0. BkShape
  BY DEF BkInv
<1>1. /\ Bk(j).op = "download" /\ bkPc[j] = "idle"
      /\ BkGo(j, "stream") \/ BkAnswer(j, "failed")
      /\ UNCHANGED <<bkErr, bkFile, bkTmp, box, bkVol, zips, bkLoad>>
  BY DEF prepare_download, BkAt
<1>2. BkMoves(j)
  BY <1>0, <1>1, BkGoMoves
<1>3. PlaceIs(Bk(j), bkPc'[j], bkAns'[j]) /\ bkAns[j] = "none"
  BY <1>0, <1>1 DEF BkShape, BkAnswer, BkGo, PlaceIs
<1>4. ~bkLoad.fails => j \notin zips'
  BY <1>1, <1>3 DEF BkInv, LeftInv, ZipIs
<1>5. ~bkLoad.fails => ZipIs(Bk(j), bkPc'[j], bkAns'[j], j \in zips')
  BY <1>4 DEF ZipIs
<1> QED BY <1>1, <1>2, <1>3, <1>5, SideStep

\* The archive of a directory.
LEMMA ZipKeeps == ASSUME BkInv, NEW j \in BkJobs, zip_directory_artifact(j) PROVE BkInv'
<1>0. BkShape
  BY DEF BkInv
<1>1. /\ Bk(j).op = "download" /\ bkPc[j] = "idle" /\ UNCHANGED <<bkFile, bkTmp, box, bkVol, bkLoad>>
      /\ BkGo(j, "stream") \/ (bkLoad.fails /\ BkAnswer(j, "failed"))
      /\ bkErr' = bkErr \/ \E x : bkErr' = [bkErr EXCEPT ![j] = @ \cup x]
      /\ \A i \in zips' : i = j \/ i \in zips
  BY DEF zip_directory_artifact, BkAt
<1>2. BkMoves(j)
  BY <1>0, <1>1, BkGoMoves
<1>3. PlaceIs(Bk(j), bkPc'[j], bkAns'[j]) /\ (~bkLoad.fails => bkPc'[j] = "stream")
  BY <1>0, <1>1 DEF BkShape, BkAnswer, BkGo, PlaceIs
<1>4. ~bkLoad.fails => ZipIs(Bk(j), bkPc'[j], bkAns'[j], j \in zips')
  BY <1>1, <1>3 DEF ZipIs
<1> QED BY <1>1, <1>2, <1>3, <1>4, SideStep

\* The file goes out, and the archive with it.
LEMMA SendKeeps == ASSUME BkInv, NEW j \in BkJobs, stream_download_file(j) PROVE BkInv'
<1>0. BkShape
  BY DEF BkInv
<1>1. /\ Bk(j).op = "download" /\ bkPc[j] = "stream" /\ UNCHANGED <<bkFile, bkTmp, box, bkVol, bkLoad>>
      /\ BkAnswer(j, "completed") \/ BkAnswer(j, "failed")
      /\ bkErr' = bkErr \/ \E x : bkErr' = [bkErr EXCEPT ![j] = @ \cup x]
      /\ zips' = zips \ {j}
  BY DEF stream_download_file, BkAt, Cleanup_path
<1>2. BkMoves(j)
  BY <1>0, <1>1, BkGoMoves
<1>3. PlaceIs(Bk(j), bkPc'[j], bkAns'[j])
  BY <1>0, <1>1 DEF BkShape, BkAnswer, PlaceIs
<1>4. ZipIs(Bk(j), bkPc'[j], bkAns'[j], j \in zips')
  BY <1>1 DEF ZipIs
<1> QED BY <1>1, <1>2, <1>3, <1>4, SideStep

\* A command dropped where it waits.
LEMMA BkCancelKeeps == ASSUME BkInv, NEW j \in BkJobs, bk_cancelled(j) PROVE BkInv'
<1>0. BkShape
  BY DEF BkInv
<1>1. /\ bkPc[j] \notin {"idle", "done"} /\ BkAnswer(j, "cancelled")
      /\ UNCHANGED <<bkErr, bkFile, bkTmp, box, bkVol, zips, bkLoad>>
  BY DEF bk_cancelled
<1>2. BkMoves(j)
  BY <1>0, <1>1, BkGoMoves
<1>3. bkPc'[j] = "done" /\ bkAns'[j] = "cancelled" /\ PlaceIs(Bk(j), bkPc'[j], bkAns'[j])
  BY <1>0, <1>1 DEF BkShape, BkAnswer, PlaceIs
<1>4. \A d \in DOMAIN box : BoxIs(box[d])
  BY <1>0 DEF BkShape, BoxIs
<1>5. CASE Bk(j).op = "create"
  BY <1>1, <1>2, <1>3, <1>5, PlainCreate
<1>6. CASE Bk(j).op = "restore"
  <2>1. ErrIs(Bk(j), bkPc'[j], bkErr'[j])
    BY <1>3 DEF ErrIs
  <2>2. Changer(Bk(j), bkPc[j], bkErr[j]) => Changer(Bk(j), bkPc'[j], bkErr'[j])
    BY <1>1, <1>3 DEF Changer
  <2>3. Starter(Bk(j), bkPc'[j], bkAns'[j], bkErr'[j])
    BY <1>3 DEF Starter
  <2>4. ServiceInv'
    BY <1>1, <1>2, <2>1, <2>2, <2>3, ServiceStep DEF BkInv, ServiceInv
  <2> QED BY <1>1, <1>2, <1>3, <1>4, <1>6, <2>4, RestoreStep
<1>7. CASE Bk(j).op = "verify"
  <2>1. Holding(Bk(j), bkPc'[j], bkAns'[j]) /\ Keeping(Bk(j), bkPc'[j], bkAns'[j])
    BY <1>3, <1>7 DEF Holding, Keeping
  <2> QED BY <1>1, <1>2, <1>3, <1>4, <1>7, <2>1, VerifyStep
<1>8. CASE Bk(j).op \notin {"create", "restore", "verify"}
  <2>1. ~bkLoad.fails => ZipIs(Bk(j), bkPc'[j], bkAns'[j], j \in zips')
    BY <1>1, <1>3 DEF BkInv, LeftInv, ZipIs
  <2> QED BY <1>1, <1>2, <1>3, <1>8, <2>1, SideStep
<1> QED BY <1>5, <1>6, <1>7, <1>8

----------------------------------------------------------------------------
(* Backups: the theorem.                                                   *)

\* It holds at the start.
LEMMA BkStarts == BkInit => BkInv
<1> SUFFICES ASSUME BkInit PROVE BkInv
  OBVIOUS
<1>1. \A j \in BkJobs : bkPc[j] = "idle" /\ bkAns[j] = "none" /\ bkErr[j] = {}
  BY DEF BkInit, BkJobs
<1>2. BkShape
  <2>1. bkLoad \in BkLoads /\ DOMAIN bkPc = BkJobs /\ DOMAIN bkAns = BkJobs /\ DOMAIN bkErr = BkJobs
    BY DEF BkInit, BkJobs
  <2>2. \A c \in DOMAIN box : DOMAIN box[c] = {"run", "data"}
    BY DEF BkInit
  <2> QED BY <1>1, <2>1, <2>2 DEF BkShape, PlaceIs
<1>3. FileInv
  <2>1. StoredStays
    BY DEF BkInit, StoredStays
  <2>2. \A j \in BkJobs : FileOf(Bk(j), bkPc[j], bkAns[j], bkFile, bkTmp)
    BY <1>1 DEF FileOf
  <2> QED BY <1>1, <2>1, <2>2 DEF FileInv, Turns, BkAt
<1>4. ServiceInv
  <2>1. \A j \in BkJobs : ErrIs(Bk(j), bkPc[j], bkErr[j])
    BY <1>1 DEF ErrIs
  <2>2. \A s \in bkLoad.services : s \in DOMAIN box /\ box[s].run /\ box[s].data = "live"
    BY DEF BkInit
  <2> QED BY <2>1, <2>2 DEF ServiceInv
<1>5. LeftInv
  BY DEF BkInit, LeftInv, ZipIs
<1> QED BY <1>2, <1>3, <1>4, <1>5 DEF BkInv

\* Every step of every command.
LEMMA BackupsKeep == BkInv /\ BkNext => BkInv'
<1> SUFFICES ASSUME BkInv, NEW j \in BkJobs, BkStep(j) PROVE BkInv'
  BY DEF BkNext
<1>1. CASE restore_step(j)
  <2>1. Bk(j).op \in {"restore", "verify"}
    BY <1>1 DEF restore_step
  <2> QED BY <1>1, <2>1, CallKeeps, VerifyCallKeeps
<1>2. CASE undo_start(j)
  <2>1. Bk(j).op \in {"restore", "verify"}
    BY <1>2 DEF undo_start, BkInv, BkShape, PlaceIs, Calling
  <2> QED BY <1>2, <2>1, UndoKeeps, VerifyUndoKeeps
<1> QED BY <1>1, <1>2, OpenKeeps, StreamKeeps, BgsaveKeeps, TmpKeeps, RenameKeeps, UnsupportedKeeps, UploadKeeps,
        RestoreBegins, VerifyBegins, VolumeKeeps, ContainerKeeps, RunningKeeps, ValidateKeeps, TimedOutKeeps, RmKeeps,
        VolumeRmKeeps, PrepareKeeps, ZipKeeps, SendKeeps, BkCancelKeeps DEF BkStep

\* What the invariant says of every state of a behaviour of the backups.
BkPart == part = "backups" => BkInv

\* It is kept by every step.
LEMMA BkPartKeeps == BkPart /\ [MCNext]_allVars => BkPart'
<1> SUFFICES ASSUME BkPart, [MCNext]_allVars, part' = "backups" PROVE BkInv'
  BY DEF BkPart
<1>1. CASE MCNext
  <2>1. part = "backups" /\ BkNext
    BY <1>1 DEF MCNext
  <2> QED BY <2>1, BackupsKeep DEF BkPart
<1>2. CASE UNCHANGED allVars
  <2>1. UNCHANGED <<part, bkVars>>
    BY <1>2 DEF allVars
  <2>2. BkInv
    BY <2>1 DEF BkPart
  <2>3. UNCHANGED <<bkPc, bkAns, bkErr, bkFile, bkTmp, box, bkVol, zips, bkLoad>>
    BY <2>1 DEF bkVars
  <2> QED BY <2>2, <2>3 DEF BkInv, BkShape, FileInv, StoredStays, Turns, ServiceInv, LeftInv, BkJobs, Bk, BkTarget, BkAt
<1> QED BY <1>1, <1>2

\* A backup that was reported is there and whole (but for mysql's pipe) and what
\* was stored stays so; a restore brings its service back and leaves its data
\* alone when it fails before the replacement; an answered verification leaves
\* neither container nor volume and an answered download no archive: for any set
\* of commands in flight together, any failures of docker and any cancellations
\* (backup_lifecycle.rs).
THEOREM BackupsInOrder == Spec => []HostedBackupsHold
<1>1. MCInit => BkPart
  BY BkStarts DEF MCInit, BkPart
<1>2. BkPart => HostedBackupsHold
  <2> SUFFICES ASSUME BkInv PROVE BackupsHold /\ RestoresInOrder
    BY DEF BkPart, HostedBackupsHold
  <2>1. ReportedIsWhole /\ StoredStays
    BY DEF BkInv, FileInv, FileOf, ReportedIsWhole
  <2>2. ServiceComesBack
    <3> SUFFICES ASSUME NEW j \in BkJobs, Bk(j).op = "restore", Bk(j).svc \in bkLoad.services,
                        bkAns[j] \in {"completed", "failed"}, ~BkBusy(Bk(j).svc),
                        bkErr[j] \cap {"start", "undo", "restart", "timed_out", "replace"} = {},
                        \A k \in BkJobs : BkTarget(k) = Bk(j).svc /\ k # j => bkErr[k] = {} /\ bkAns[k] # "cancelled",
                        ~box[Bk(j).svc].run
                 PROVE  FALSE
      BY DEF ServiceComesBack
    <3>1. PICK k \in BkJobs : BkTarget(k) = Bk(j).svc /\ Starter(Bk(k), bkPc[k], bkAns[k], bkErr[k])
      BY DEF BkInv, ServiceInv
    <3>2. bkPc[k] \in {"idle", "done"}
      BY <3>1 DEF BkBusy
    <3> QED BY <3>1, <3>2 DEF Starter
  <2>3. DataKept
    <3> SUFFICES ASSUME NEW s \in bkLoad.services, box[s].data # "live",
                        \A j \in BkJobs : Bk(j).op = "restore" /\ Bk(j).svc = s /\ bkPc[j] # "idle" =>
                          bkErr[j] \cap {"stop"} # {} \/ (bkErr[j] \cap {"cp"} # {} /\ "timed_out" \notin bkErr[j])
                 PROVE  FALSE
      BY DEF DataKept
    <3>1. PICK k \in BkJobs : Bk(k).svc = s /\ Changer(Bk(k), bkPc[k], bkErr[k])
      BY DEF BkInv, ServiceInv
    <3> QED BY <3>1 DEF Changer
  <2>4. NothingLeft
    <3> SUFFICES ASSUME ~bkLoad.fails, NEW j \in BkJobs, bkAns[j] \in {"completed", "failed"}
                 PROVE  /\ /\ Bk(j).op = "verify" /\ ~BkBusy(BkTarget(j))
                           /\ \A k \in BkJobs : BkTarget(k) = BkTarget(j) => bkAns[k] # "cancelled"
                           => BkTarget(j) \notin DOMAIN box /\ backup_short_id(Bk(j).id) \notin bkVol
                        /\ Bk(j).op = "download" => j \notin zips
      BY DEF NothingLeft
    <3>1. ASSUME Bk(j).op = "verify", ~BkBusy(BkTarget(j)),
                 \A k \in BkJobs : BkTarget(k) = BkTarget(j) => bkAns[k] # "cancelled"
          PROVE  BkTarget(j) \notin DOMAIN box /\ backup_short_id(Bk(j).id) \notin bkVol
      <4>1. \A k \in BkJobs : BkTarget(k) = BkTarget(j) => ~Keeping(Bk(k), bkPc[k], bkAns[k]) \/ bkPc[k] \in {"idle", "done"}
        BY <3>1 DEF BkBusy
      <4>2. \A k \in BkJobs : BkTarget(k) = BkTarget(j) => ~Keeping(Bk(k), bkPc[k], bkAns[k])
        BY <3>1, <4>1 DEF Keeping
      <4>3. BkTarget(j) \notin DOMAIN box
        <5>1. BkTarget(j) \notin bkLoad.services
          BY <3>1, TargetsApart DEF BkInv
        <5>2. \A k \in BkJobs : Holding(Bk(k), bkPc[k], bkAns[k]) => Keeping(Bk(k), bkPc[k], bkAns[k])
          BY DEF Holding, Keeping
        <5> QED BY <4>2, <5>1, <5>2 DEF BkInv, LeftInv
      <4>4. \A k \in BkJobs : Bk(k).op = "verify" /\ backup_short_id(Bk(k).id) = backup_short_id(Bk(j).id)
                                 => BkTarget(k) = BkTarget(j)
        BY <3>1 DEF BkTarget
      <4>5. \A k \in BkJobs : Keeping(Bk(k), bkPc[k], bkAns[k]) => Bk(k).op = "verify"
        BY DEF Keeping
      <4> QED BY <4>2, <4>3, <4>4, <4>5 DEF BkInv, LeftInv
    <3>2. ASSUME Bk(j).op = "download" PROVE j \notin zips
      BY <3>2 DEF BkInv, BkShape, PlaceIs, LeftInv, ZipIs
    <3> QED BY <3>1, <3>2
  <2> QED BY <2>1, <2>2, <2>3, <2>4 DEF BackupsHold, RestoresInOrder
<1> QED BY <1>1, <1>2, BkPartKeeps, PTL DEF Spec

----------------------------------------------------------------------------
(* The agent itself: the lines of its environment file.                    *)

\* What a line adds to the lines kept before it.
Added(env, i, kept) == IF env[i][1] \in Secrets \cup {""} THEN kept ELSE Append(kept, env[i])

\* The lines that are kept are well defined: one pass over the file.
LEMMA OthersSteps ==
  ASSUME NEW X, NEW env \in Seq(X)
  PROVE  /\ OthersOf(env)[0] = <<>>
         /\ \A i \in 1..Len(env) : OthersOf(env)[i] = Added(env, i, OthersOf(env)[i - 1])
<1> DEFINE Is(g, n) == g = [i \in 0..n |-> IF i = 0 THEN <<>> ELSE Added(env, i, g[i - 1])]
           S == {n \in Nat : \E g : Is(g, n)}
<1>1. 0 \in S
  <2> DEFINE h == [i \in 0..0 |-> <<>>]
  <2>1. Is(h, 0)
    OBVIOUS
  <2> QED BY <2>1
<1>2. ASSUME NEW n \in Nat, n \in S PROVE n + 1 \in S
  <2>1. PICK g : Is(g, n)
    BY <1>2
  <2> DEFINE h == [i \in 0..(n + 1) |-> IF i = n + 1 THEN Added(env, i, g[n]) ELSE g[i]]
  <2>2. ASSUME NEW i \in 0..(n + 1)
        PROVE  h[i] = IF i = 0 THEN <<>> ELSE Added(env, i, h[i - 1])
    <3>1. CASE i = n + 1
      <4>1. h[i] = Added(env, i, g[n]) /\ h[i - 1] = g[n] /\ i # 0
        BY <3>1
      <4> QED BY <4>1
    <3>2. CASE i \in 1..n
      <4>1. h[i] = g[i] /\ h[i - 1] = g[i - 1] /\ i # 0
        BY <3>2
      <4>2. g[i] = Added(env, i, g[i - 1])
        BY <2>1, <3>2
      <4> QED BY <4>1, <4>2
    <3>3. CASE i = 0
      <4>1. h[i] = g[0]
        BY <3>3
      <4> QED BY <2>1, <3>3, <4>1
    <3> QED BY <3>1, <3>2, <3>3
  <2>3. Is(h, n + 1)
    <3> DEFINE t(i) == IF i = 0 THEN <<>> ELSE Added(env, i, h[i - 1])
    <3>1. \A i \in 0..(n + 1) : h[i] = t(i)
      BY <2>2
    <3>2. h = [i \in 0..(n + 1) |-> h[i]]
      OBVIOUS
    <3> HIDE DEF h
    <3>3. h = [i \in 0..(n + 1) |-> t(i)]
      <4> HIDE DEF t
      <4> QED BY <3>1, <3>2
    <3> QED BY <3>3
  <2>4. \E hh : Is(hh, n + 1)
    <3> HIDE DEF Is, h
    <3> QED BY <2>3
  <2> QED BY <2>4
<1>3. Len(env) \in Nat
  OBVIOUS
<1>4. Len(env) \in S
  <2>1. \A n \in Nat : n \in S
    <3> HIDE DEF S
    <3> QED BY <1>1, <1>2, SetInduction
  <2> QED BY <1>3, <2>1
<1>5. Is(OthersOf(env), Len(env))
  <2>1. OthersOf(env) = CHOOSE g : Is(g, Len(env))
    BY DEF OthersOf, Added
  <2>2. \E g : Is(g, Len(env))
    BY <1>4
  <2> HIDE DEF Is
  <2> QED BY <2>1, <2>2
<1> DEFINE c == OthersOf(env)
<1>6. c = [i \in 0..Len(env) |-> IF i = 0 THEN <<>> ELSE Added(env, i, c[i - 1])]
  BY <1>5
<1> HIDE DEF c
<1>7. c[0] = <<>>
  BY <1>3, <1>6
<1>8. ASSUME NEW i \in 1..Len(env) PROVE c[i] = Added(env, i, c[i - 1])
  <2>1. i \in 0..Len(env) /\ i # 0
    BY <1>3
  <2> QED BY <1>6, <2>1
<1> QED BY <1>7, <1>8 DEF c

\* A line of the pair, or without a key.
PairLine(l) == l[1] \in Secrets \cup {""}

\* The lines that are kept are lines, and none is half of the pair.
LEMMA OthersAreOthers ==
  ASSUME NEW X, NEW env \in Seq(X)
  PROVE  /\ Others(env) \in Seq(X) /\ Len(Others(env)) \in Nat
         /\ \A j \in 1..Len(Others(env)) : ~PairLine(Others(env)[j])
<1> DEFINE c == OthersOf(env)
           m == Len(env)
           Fine(s) == s \in Seq(X) /\ \A j \in 1..Len(s) : ~PairLine(s[j])
           S == {n \in Nat : n <= m => Fine(c[n])}
<1>1. m \in Nat /\ (\A i \in 1..m : env[i] \in X)
  BY LenProperties, ElementOfSeq
<1>2. c[0] = <<>> /\ \A i \in 1..m : c[i] = IF PairLine(env[i]) THEN c[i - 1] ELSE Append(c[i - 1], env[i])
  BY OthersSteps DEF Added, PairLine
<1>3. Fine(<<>>)
  BY EmptySeq
<1> HIDE DEF c, m, Fine
<1>4. 0 \in S
  BY <1>2, <1>3
<1>5. ASSUME NEW n \in Nat, n \in S PROVE n + 1 \in S
  <2> SUFFICES ASSUME n + 1 <= m PROVE Fine(c[n + 1])
    OBVIOUS
  <2>1. Fine(c[n])
    BY <1>1, <1>5
  <2>2. n + 1 \in 1..m /\ (n + 1) - 1 = n
    BY <1>1
  <2>3. CASE PairLine(env[n + 1])
    <3>1. c[n + 1] = c[n]
      BY <1>2, <2>2, <2>3
    <3> QED BY <2>1, <3>1
  <2>4. CASE ~PairLine(env[n + 1])
    <3> DEFINE s == c[n]
               e == env[n + 1]
    <3>1. c[n + 1] = Append(s, e)
      BY <1>2, <2>2, <2>4
    <3>2. s \in Seq(X) /\ e \in X
      BY <1>1, <2>1, <2>2 DEF Fine
    <3>3. ~PairLine(e) /\ \A j \in 1..Len(s) : ~PairLine(s[j])
      BY <2>1, <2>4 DEF Fine
    <3> HIDE DEF s, e
    <3>4. /\ Append(s, e) \in Seq(X) /\ Len(Append(s, e)) = Len(s) + 1 /\ Len(s) \in Nat
          /\ \A i \in 1..Len(s) : Append(s, e)[i] = s[i]
          /\ Append(s, e)[Len(s) + 1] = e
      BY <3>2, AppendProperties, LenProperties
    <3>5. ASSUME NEW j \in 1..Len(Append(s, e)) PROVE ~PairLine(Append(s, e)[j])
      <4>1. j \in 1..Len(s) \/ j = Len(s) + 1
        BY <3>4
      <4> QED BY <3>3, <3>4, <4>1
    <3> QED BY <3>1, <3>4, <3>5 DEF Fine
  <2> QED BY <2>3, <2>4
<1>6. \A n \in Nat : n \in S
  <2> HIDE DEF S
  <2> QED BY <1>4, <1>5, SetInduction
<1>7. Fine(c[m])
  BY <1>1, <1>6
<1>8. Others(env) = c[m]
  BY DEF Others, c, m
<1> QED BY <1>7, <1>8, LenProperties DEF Fine

\* What rewrite_agent_env_file writes: the other lines stay, and the last two
\* lines are the pair and the only ones of it.
LEMMA Rewritten ==
  ASSUME NEW X, NEW env \in Seq(X), NEW id, NEW secret,
         NEW new, new = rewrite_agent_env_file(env, id, secret)
  PROVE  LET n == Len(Others(env)) IN
         /\ (\E Y : new \in Seq(Y)) /\ Len(new) = n + 2 /\ n \in Nat
         /\ new[n + 1] = <<"SERVER_ID", id>> /\ new[n + 2] = <<"AGENT_SECRET", secret>>
         /\ \A j \in 1..n : new[j] = Others(env)[j] /\ ~PairLine(new[j])
<1> DEFINE o == Others(env)
           n == Len(o)
           a == <<"SERVER_ID", id>>
           b == <<"AGENT_SECRET", secret>>
           Y == X \cup {a, b}
           two == <<a, b>>
<1>1. o \in Seq(X) /\ n \in Nat /\ \A j \in 1..n : ~PairLine(o[j])
  BY OthersAreOthers
<1>2. new = o \o two
  BY DEF rewrite_agent_env_file
<1>3. a \in Y /\ b \in Y /\ X \subseteq Y
  OBVIOUS
<1> HIDE DEF o, Y, a, b, n
<1>4. two \in Seq(Y) /\ Len(two) = 2 /\ two[1] = a /\ two[2] = b
  BY <1>3
<1>5. o \in Seq(Y)
  BY <1>1, <1>3, SeqMonotonic
<1> HIDE DEF two
<1>6. /\ new \in Seq(Y) /\ Len(new) = n + 2
      /\ \A i \in 1..(n + 2) : new[i] = IF i <= n THEN o[i] ELSE two[i - n]
  <2>1. Len(o) = n
    BY DEF n
  <2>2. /\ o \o two \in Seq(Y) /\ Len(o \o two) = Len(o) + Len(two)
        /\ \A i \in 1..(Len(o) + Len(two)) : (o \o two)[i] = IF i <= Len(o) THEN o[i] ELSE two[i - Len(o)]
    BY <1>4, <1>5, ConcatProperties
  <2> QED BY <1>2, <1>4, <2>1, <2>2
<1>7. new[n + 1] = a /\ new[n + 2] = b
  <2>1. n + 1 \in 1..(n + 2) /\ n + 2 \in 1..(n + 2) /\ ~(n + 1 <= n) /\ ~(n + 2 <= n) /\ (n + 1) - n = 1 /\ (n + 2) - n = 2
    BY <1>1
  <2> QED BY <1>4, <1>6, <2>1
<1>8. \A j \in 1..n : new[j] = o[j]
  <2>1. \A j \in 1..n : j \in 1..(n + 2) /\ j <= n
    BY <1>1
  <2> QED BY <1>6, <2>1
<1>9. \E Z : new \in Seq(Z)
  BY <1>6
<1> QED BY <1>1, <1>6, <1>7, <1>8, <1>9 DEF o, a, b, n

\* A file that was rewritten keeps the other lines once more.
LEMMA RewrittenOthers ==
  ASSUME NEW X, NEW env \in Seq(X), NEW id, NEW secret
  PROVE  Others(rewrite_agent_env_file(env, id, secret)) = Others(env)
<1> DEFINE o == Others(env)
           r == rewrite_agent_env_file(env, id, secret)
           n == Len(o)
           c == OthersOf(r)
           Upto(k) == [j \in 1..k |-> o[j]]
           S == {k \in Nat : k <= n => c[k] = Upto(k)}
           a == <<"SERVER_ID", id>>
           b == <<"AGENT_SECRET", secret>>
<1>0. /\ (\E Z : r \in Seq(Z)) /\ Len(r) = n + 2 /\ n \in Nat
      /\ r[n + 1] = a /\ r[n + 2] = b
      /\ \A j \in 1..n : r[j] = o[j] /\ ~PairLine(r[j])
  BY Rewritten
<1>1. PICK Y : r \in Seq(Y) /\ Len(r) = n + 2 /\ n \in Nat
  BY <1>0
<1>2. \A j \in 1..n : r[j] = o[j] /\ ~PairLine(r[j])
  BY <1>0
<1>3. PairLine(r[n + 1]) /\ PairLine(r[n + 2])
  <2>1. r[n + 1] = <<"SERVER_ID", id>> /\ r[n + 2] = <<"AGENT_SECRET", secret>>
    BY <1>0
  <2>2. r[n + 1][1] = "SERVER_ID" /\ r[n + 2][1] = "AGENT_SECRET"
    BY <2>1
  <2> HIDE DEF r
  <2> QED BY <2>2 DEF PairLine, Secrets
<1>4. o \in Seq(X) /\ \A j \in 1..n : o[j] \in X
  BY OthersAreOthers, ElementOfSeq
<1>5. c[0] = <<>> /\ \A i \in 1..(n + 2) : c[i] = IF PairLine(r[i]) THEN c[i - 1] ELSE Append(c[i - 1], r[i])
  BY <1>1, OthersSteps DEF Added, PairLine
<1>6. Others(r) = c[n + 2]
  BY <1>1 DEF Others
<1>7. o = Upto(n)
  BY <1>4, LenProperties
<1> HIDE DEF o, r, c, n, a, b
<1>8. 0 \in S
  <2>1. Upto(0) = <<>>
    OBVIOUS
  <2> QED BY <1>5, <2>1
<1>9. ASSUME NEW k \in Nat, k \in S PROVE k + 1 \in S
  <2> SUFFICES ASSUME k + 1 <= n PROVE c[k + 1] = Upto(k + 1)
    OBVIOUS
  <2>1. c[k] = Upto(k)
    BY <1>1, <1>9
  <2>2. k + 1 \in 1..n /\ k + 1 \in 1..(n + 2) /\ (k + 1) - 1 = k /\ \A j \in 1..k : j \in 1..n
    BY <1>1
  <2>3. c[k + 1] = Append(c[k], o[k + 1])
    BY <1>2, <1>5, <2>2
  <2> DEFINE u == Upto(k)
             e == o[k + 1]
  <2>4. u \in Seq(X) /\ Len(u) = k /\ e \in X
    <3>1. u \in [1..k -> X]
      BY <1>4, <2>2
    <3> QED BY <1>4, <2>2, <3>1, FunctionIsSeq
  <2>5. \A j \in 1..k : u[j] = o[j]
    OBVIOUS
  <2> HIDE DEF u, e
  <2>6. /\ Append(u, e) \in Seq(X) /\ Len(Append(u, e)) = k + 1
        /\ \A i \in 1..k : Append(u, e)[i] = u[i]
        /\ Append(u, e)[k + 1] = e
    BY <2>4, AppendProperties
  <2> DEFINE v == Append(u, e)
  <2>7. v = [j \in 1..(k + 1) |-> v[j]]
    BY <2>6, LenProperties
  <2>8. \A j \in 1..(k + 1) : v[j] = o[j]
    <3> SUFFICES ASSUME NEW j \in 1..(k + 1) PROVE v[j] = o[j]
      OBVIOUS
    <3>1. j \in 1..k \/ j = k + 1
      OBVIOUS
    <3> QED BY <2>5, <2>6, <3>1 DEF e
  <2> HIDE DEF v
  <2>9. v = Upto(k + 1)
    BY <2>7, <2>8
  <2> QED BY <2>1, <2>3, <2>9 DEF v, u, e
<1>10. \A k \in Nat : k \in S
  <2> HIDE DEF S
  <2> QED BY <1>8, <1>9, SetInduction
<1>11. c[n] = o
  BY <1>1, <1>7, <1>10
<1>12. c[n + 1] = c[n] /\ c[n + 2] = c[n + 1]
  <2>1. n + 1 \in 1..(n + 2) /\ n + 2 \in 1..(n + 2) /\ (n + 1) - 1 = n /\ (n + 2) - 1 = n + 1
    BY <1>1
  <2> QED BY <1>3, <1>5, <2>1
<1> QED BY <1>6, <1>11, <1>12 DEF o, r

\* Both halves of the pair have one line.
OneEach(env) == \A k \in Secrets : \E i \in DOMAIN env : \A j \in DOMAIN env : env[j][1] = k <=> j = i
IsLines(env) == \E X : env \in Seq(X)

\* A file that was rewritten has the new pair, once.
LEMMA RewrittenPair ==
  ASSUME NEW env, IsLines(env), NEW id, NEW secret
  PROVE  LET new == rewrite_agent_env_file(env, id, secret)
         IN  IsLines(new) /\ OneEach(new) /\ Pair(new) = <<id, secret>> /\ Others(new) = Others(env)
<1> DEFINE new == rewrite_agent_env_file(env, id, secret)
           n == Len(Others(env))
<1>1. PICK X : env \in Seq(X)
  BY DEF IsLines
<1>2. /\ (\E Y : new \in Seq(Y)) /\ Len(new) = n + 2 /\ n \in Nat
      /\ new[n + 1] = <<"SERVER_ID", id>> /\ new[n + 2] = <<"AGENT_SECRET", secret>>
      /\ \A j \in 1..n : ~PairLine(new[j])
  BY <1>1, Rewritten
<1>3. Others(new) = Others(env)
  BY <1>1, RewrittenOthers
<1> HIDE DEF new, n
<1>4. DOMAIN new = 1..(n + 2)
  BY <1>2, LenProperties
<1>5. new[n + 1][1] = "SERVER_ID" /\ new[n + 1][2] = id /\ new[n + 2][1] = "AGENT_SECRET" /\ new[n + 2][2] = secret
  BY <1>2
<1>6. \A j \in DOMAIN new : new[j][1] = "SERVER_ID" <=> j = n + 1
  <2> SUFFICES ASSUME NEW j \in DOMAIN new PROVE new[j][1] = "SERVER_ID" <=> j = n + 1
    OBVIOUS
  <2>1. j \in 1..n \/ j = n + 1 \/ j = n + 2
    BY <1>2, <1>4
  <2>2. ASSUME j \in 1..n PROVE new[j][1] # "SERVER_ID" /\ j # n + 1
    <3>1. ~PairLine(new[j])
      BY <1>2, <2>2
    <3>2. j # n + 1
      BY <1>2, <2>2
    <3> QED BY <3>1, <3>2 DEF PairLine, Secrets
  <2>3. n + 2 # n + 1
    BY <1>2
  <2> QED BY <1>5, <2>1, <2>2, <2>3
<1>7. \A j \in DOMAIN new : new[j][1] = "AGENT_SECRET" <=> j = n + 2
  <2> SUFFICES ASSUME NEW j \in DOMAIN new PROVE new[j][1] = "AGENT_SECRET" <=> j = n + 2
    OBVIOUS
  <2>1. j \in 1..n \/ j = n + 1 \/ j = n + 2
    BY <1>2, <1>4
  <2>2. ASSUME j \in 1..n PROVE new[j][1] # "AGENT_SECRET" /\ j # n + 2
    <3>1. ~PairLine(new[j])
      BY <1>2, <2>2
    <3>2. j # n + 2
      BY <1>2, <2>2
    <3> QED BY <3>1, <3>2 DEF PairLine, Secrets
  <2>3. n + 2 # n + 1
    BY <1>2
  <2> QED BY <1>5, <2>1, <2>2, <2>3
<1>8. n + 1 \in DOMAIN new /\ n + 2 \in DOMAIN new
  BY <1>2, <1>4
<1>9. OneEach(new)
  BY <1>6, <1>7, <1>8 DEF OneEach, Secrets
<1>10. ASSUME NEW k, NEW i \in DOMAIN new, i \in Nat, \A j \in DOMAIN new : new[j][1] = k <=> j = i
       PROVE  required_env(new, k) = new[i][2]
  <2> DEFINE at == {j \in DOMAIN new : new[j][1] = k}
  <2>1. at = {i}
    BY <1>10
  <2>2. (CHOOSE x \in at : \A j \in at : j <= x) = i
    <3>1. \A x \in at : x = i
      BY <2>1
    <3>2. i \in at /\ \A j \in at : j <= i
      BY <1>10, <2>1
    <3> HIDE DEF at
    <3> QED BY <3>1, <3>2
  <2>3. at # {}
    BY <2>1
  <2> QED BY <2>2, <2>3 DEF required_env
<1>11. n + 1 \in Nat /\ n + 2 \in Nat
  BY <1>2
<1>12. required_env(new, "SERVER_ID") = id /\ required_env(new, "AGENT_SECRET") = secret
  BY <1>5, <1>6, <1>7, <1>8, <1>10, <1>11
<1> QED BY <1>2, <1>3, <1>9, <1>12 DEF IsLines, Pair, new

\* One line is what EnvWhole counts.
LEMMA OneIsCounted ==
  ASSUME NEW env, OneEach(env)
  PROVE  \A k \in Secrets : Cardinality({i \in DOMAIN env : env[i][1] = k}) = 1
<1> SUFFICES ASSUME NEW k \in Secrets PROVE Cardinality({i \in DOMAIN env : env[i][1] = k}) = 1
  OBVIOUS
<1>1. PICK i \in DOMAIN env : \A j \in DOMAIN env : env[j][1] = k <=> j = i
  BY DEF OneEach
<1>2. {j \in DOMAIN env : env[j][1] = k} = {i}
  BY <1>1
<1>3. Cardinality({i}) = 1
  BY FS_Singleton
<1> QED BY <1>2, <1>3

----------------------------------------------------------------------------
(* The agent itself: the inductive invariant.                              *)

TokenKinds == {"bootstrap", "rotate"}
\* What a handler of each kind has left to do.
Todos(k) ==
  CASE k = "update" -> {<<"temp", "fetch", "install">>, <<"fetch", "install">>, <<"install">>}
    [] k \in TokenKinds ->
         {<<"decrypt", "token", "readback", "dropin", "daemon_reload", "reload", "verify">>,
          <<"token", "readback", "dropin", "daemon_reload", "reload", "verify">>,
          <<"readback", "dropin", "daemon_reload", "reload", "verify">>,
          <<"dropin", "daemon_reload", "reload", "verify">>,
          <<"daemon_reload", "reload", "verify">>, <<"reload", "verify">>, <<"verify">>}
    [] k = "rotate_agent" -> {<<"read_env", "write_env">>, <<"write_env">>}
    [] k = "reenroll" -> {<<"persist", "download", "script", "run">>, <<"download", "script", "run">>,
                          <<"script", "run">>, <<"run">>}
    [] k = "uninstall" -> {<<"prune", "dwaar", "legacy", "stop", "files">>, <<"dwaar", "legacy", "stop", "files">>,
                           <<"legacy", "stop", "files">>, <<"stop", "files">>, <<"files">>}

IsWork(w) == w = [cmd |-> w.cmd, todo |-> w.todo, got |-> w.got, changed |-> w.changed]
IdRecords ==
  /\ agent = [up |-> agent.up, binary |-> agent.binary, id |-> agent.id, secret |-> agent.secret,
              key |-> agent.key, apex |-> agent.apex, leaving |-> agent.leaving]
  /\ hostFiles = [binary |-> hostFiles.binary, env |-> hostFiles.env, token |-> hostFiles.token,
                  dropIn |-> hostFiles.dropIn, prev |-> hostFiles.prev, key |-> hostFiles.key,
                  script |-> hostFiles.script, unit |-> hostFiles.unit]
  /\ gate = [up |-> gate.up, token |-> gate.token, env |-> gate.env]
\* The handlers are those of commands, at one of their steps, in a process that
\* runs.
IdShape ==
  /\ idLoad \in IdentityLoads /\ IdRecords
  /\ DOMAIN work \subseteq DOMAIN idLoad.commands
  /\ \A i \in DOMAIN work :
       IsWork(work[i]) /\ work[i].cmd = idLoad.commands[i] /\ work[i].todo \in Todos(work[i].cmd.kind)
  /\ DOMAIN work # {} => agent.up

\* Updates: the binary is that of the last one installed, and who is before the
\* installation has its own file.
KindOf(i) == idLoad.commands[i].kind
UpdatesInv ==
  /\ installs \in Seq(DOMAIN idLoad.commands)
  /\ BinaryWhole
  /\ \A i \in Range(installs) : KindOf(i) = "update"
  /\ \A i \in DOMAIN temps : KindOf(i) = "update" /\ (i \in DOMAIN work \/ i \in DOMAIN said)
  /\ \A i \in DOMAIN work : i \in DOMAIN said => KindOf(i) = "uninstall"

\* Until the agent is removed its file is whole, and so is what a rotation is
\* about to replace it with.
IdIds == {required_env(idLoad.env, "SERVER_ID")} \cup
         {d.gives[1] : d \in {e \in Range(idLoad.commands) : e.kind = "reenroll"}}
Whole(env) == IsLines(env) /\ OneEach(env) /\ Pair(env) \in Issued /\ Others(env) = Others(idLoad.env)
EnvInv ==
  hostFiles.unit =>
    /\ Whole(hostFiles.env)
    /\ \A i \in DOMAIN work : Head(work[i].todo) = "write_env" => Whole(work[i].got)
    /\ agent.up => agent.id \in IdIds
    /\ agent.up /\ <<agent.id, agent.secret>> # Pair(hostFiles.env) => agent.leaving \/ "installer" \in slips

\* A handler that still brings the token of the file to Dwaar: the last one to
\* change it.
Brings(i) ==
  /\ work[i].cmd.kind \in TokenKinds /\ work[i].changed
  /\ Head(work[i].todo) \in {"readback", "dropin", "daemon_reload", "reload"}
  /\ Head(work[i].todo) = "readback" => hostFiles.token = work[i].cmd.token
TokenInv ==
  gate.up /\ "token" \notin slips /\ gate.token # hostFiles.token => \E i \in DOMAIN work : Brings(i)

\* The key stays, and a handler about to ask for an installer has kept the name.
KeyInv ==
  /\ announced \in Nat /\ hostFiles.key \in Nat
  /\ announced = 0 => ~agent.up
  /\ announced # 0 /\ hostFiles.unit => hostFiles.key = announced
  /\ \A i \in DOMAIN work : Head(work[i].todo) = "download" => hostFiles.prev = agent.id \/ "previous" \in slips
  /\ KeyAndNameKept
IdInv == IdShape /\ UpdatesInv /\ EnvInv /\ TokenInv /\ KeyInv

\* What the assumption says of the load.
LEMMA IdConstants ==
  ASSUME idLoad \in IdentityLoads
  PROVE  /\ idLoad.key \in Nat /\ IsLines(idLoad.env) /\ OneEach(idLoad.env)
         /\ \A i \in DOMAIN idLoad.commands : KindOf(i) \in IdKinds
         /\ \A i \in DOMAIN idLoad.commands :
              KindOf(i) = "reenroll" =>
                idLoad.commands[i].gives = <<idLoad.commands[i].gives[1], idLoad.commands[i].gives[2]>>
<1>1. /\ idLoad.key \in Nat /\ idLoad.env \in Seq(STRING \X STRING)
      /\ \A i \in DOMAIN idLoad.commands :
           /\ idLoad.commands[i].kind \in IdKinds
           /\ idLoad.commands[i].kind = "reenroll" => idLoad.commands[i].gives \in STRING \X STRING
  BY IdentityAssumption
<1>2. OneEach(idLoad.env)
  BY IdentityAssumption DEF OneEach
<1>3. IsLines(idLoad.env)
  BY <1>1 DEF IsLines
<1>4. \A x \in STRING \X STRING : x = <<x[1], x[2]>>
  OBVIOUS
<1> QED BY <1>1, <1>2, <1>3, <1>4 DEF KindOf

\* What a handler has left after its step, by its first step.
LEMMA TodoSteps ==
  ASSUME NEW k \in IdKinds, NEW t \in Todos(k)
  PROVE  /\ Len(t) \in Nat \ {0} /\ (Len(t) = 1 \/ Tail(t) \in Todos(k))
         /\ Head(t) = "temp" => k = "update" /\ Head(Tail(t)) = "fetch" /\ Len(t) > 1
         /\ Head(t) = "fetch" => k = "update" /\ Head(Tail(t)) = "install" /\ Len(t) > 1
         /\ Head(t) = "install" => k = "update"
         /\ Head(t) = "decrypt" => k \in TokenKinds /\ Head(Tail(t)) = "token" /\ Len(t) > 1
         /\ Head(t) = "token" => k \in TokenKinds /\ Head(Tail(t)) = "readback" /\ Len(t) > 1
         /\ Head(t) = "readback" => k \in TokenKinds /\ Head(Tail(t)) = "dropin" /\ Len(t) > 1
         /\ Head(t) = "dropin" => k \in TokenKinds /\ Head(Tail(t)) = "daemon_reload" /\ Len(t) > 1
         /\ Head(t) = "daemon_reload" => k \in TokenKinds /\ Head(Tail(t)) = "reload" /\ Len(t) > 1
         /\ Head(t) = "reload" => k \in TokenKinds /\ Head(Tail(t)) = "verify" /\ Len(t) > 1
         /\ Head(t) = "verify" => k \in TokenKinds
         /\ Head(t) = "read_env" => k = "rotate_agent" /\ Head(Tail(t)) = "write_env" /\ Len(t) > 1
         /\ Head(t) = "write_env" => k = "rotate_agent"
         /\ Head(t) = "persist" => k = "reenroll" /\ Head(Tail(t)) = "download" /\ Len(t) > 1
         /\ Head(t) = "download" => k = "reenroll" /\ Head(Tail(t)) = "script" /\ Len(t) > 1
         /\ Head(t) = "script" => k = "reenroll" /\ Head(Tail(t)) = "run" /\ Len(t) > 1
         /\ Head(t) = "run" => k = "reenroll"
         /\ k = "uninstall" => /\ Head(t) \in {"prune", "dwaar", "legacy", "stop", "files"}
                               /\ Len(t) > 1 => Head(Tail(t)) \in {"prune", "dwaar", "legacy", "stop", "files"}
<1>1. CASE k = "update"
  <2>1. t \in {<<"temp", "fetch", "install">>, <<"fetch", "install">>, <<"install">>}
    BY <1>1 DEF Todos, TokenKinds
  <2>2. CASE t = <<"temp", "fetch", "install">>
    BY <1>1, <2>2 DEF Todos, TokenKinds
  <2>3. CASE t = <<"fetch", "install">>
    BY <1>1, <2>3 DEF Todos, TokenKinds
  <2>4. CASE t = <<"install">>
    BY <1>1, <2>4 DEF Todos, TokenKinds
  <2> QED BY <2>1, <2>2, <2>3, <2>4
<1>2. CASE k \in TokenKinds
  <2>1. Todos(k) = {<<"decrypt", "token", "readback", "dropin", "daemon_reload", "reload", "verify">>,
          <<"token", "readback", "dropin", "daemon_reload", "reload", "verify">>,
          <<"readback", "dropin", "daemon_reload", "reload", "verify">>,
          <<"dropin", "daemon_reload", "reload", "verify">>,
          <<"daemon_reload", "reload", "verify">>, <<"reload", "verify">>, <<"verify">>}
    BY <1>2 DEF Todos, TokenKinds
  <2>2. k # "uninstall"
    BY <1>2 DEF TokenKinds
  <2>3. CASE t = <<"decrypt", "token", "readback", "dropin", "daemon_reload", "reload", "verify">>
    BY <1>2, <2>1, <2>2, <2>3
  <2>4. CASE t = <<"token", "readback", "dropin", "daemon_reload", "reload", "verify">>
    BY <1>2, <2>1, <2>2, <2>4
  <2>5. CASE t = <<"readback", "dropin", "daemon_reload", "reload", "verify">>
    BY <1>2, <2>1, <2>2, <2>5
  <2>6. CASE t = <<"dropin", "daemon_reload", "reload", "verify">>
    BY <1>2, <2>1, <2>2, <2>6
  <2>7. CASE t = <<"daemon_reload", "reload", "verify">>
    BY <1>2, <2>1, <2>2, <2>7
  <2>8. CASE t = <<"reload", "verify">>
    BY <1>2, <2>1, <2>2, <2>8
  <2>9. CASE t = <<"verify">>
    BY <1>2, <2>1, <2>2, <2>9
  <2> QED BY <2>1, <2>3, <2>4, <2>5, <2>6, <2>7, <2>8, <2>9
<1>3. CASE k = "rotate_agent"
  <2>1. Todos(k) = {<<"read_env", "write_env">>, <<"write_env">>}
    BY <1>3 DEF Todos, TokenKinds
  <2>2. CASE t = <<"read_env", "write_env">>
    BY <1>3, <2>1, <2>2
  <2>3. CASE t = <<"write_env">>
    BY <1>3, <2>1, <2>3
  <2> QED BY <2>1, <2>2, <2>3
<1>4. CASE k = "reenroll"
  <2>1. Todos(k) = {<<"persist", "download", "script", "run">>, <<"download", "script", "run">>,
                    <<"script", "run">>, <<"run">>}
    BY <1>4 DEF Todos, TokenKinds
  <2>2. CASE t = <<"persist", "download", "script", "run">>
    BY <1>4, <2>1, <2>2
  <2>3. CASE t = <<"download", "script", "run">>
    BY <1>4, <2>1, <2>3
  <2>4. CASE t = <<"script", "run">>
    BY <1>4, <2>1, <2>4
  <2>5. CASE t = <<"run">>
    BY <1>4, <2>1, <2>5
  <2> QED BY <2>1, <2>2, <2>3, <2>4, <2>5
<1>5. CASE k = "uninstall"
  <2>1. Todos(k) = {<<"prune", "dwaar", "legacy", "stop", "files">>, <<"dwaar", "legacy", "stop", "files">>,
                    <<"legacy", "stop", "files">>, <<"stop", "files">>, <<"files">>}
    BY <1>5 DEF Todos, TokenKinds
  <2>2. CASE t = <<"prune", "dwaar", "legacy", "stop", "files">>
    BY <1>5, <2>1, <2>2
  <2>3. CASE t = <<"dwaar", "legacy", "stop", "files">>
    BY <1>5, <2>1, <2>3
  <2>4. CASE t = <<"legacy", "stop", "files">>
    BY <1>5, <2>1, <2>4
  <2>5. CASE t = <<"stop", "files">>
    BY <1>5, <2>1, <2>5
  <2>6. CASE t = <<"files">>
    BY <1>5, <2>1, <2>6
  <2> QED BY <2>1, <2>2, <2>3, <2>4, <2>5, <2>6
<1> QED BY <1>1, <1>2, <1>3, <1>4, <1>5 DEF IdKinds, TokenKinds

----------------------------------------------------------------------------
(* The agent itself: what a step of a handler leaves alone.                *)

\* Handler i went on, or it ended.
IdStepped(i) ==
  /\ DOMAIN work' = DOMAIN work /\ \A j \in DOMAIN work : j # i => work'[j] = work[j]
  /\ IsWork(work'[i]) /\ work'[i].cmd = work[i].cmd /\ work'[i].todo = Tail(work[i].todo)
  /\ said' = said
IdEnded(i) ==
  /\ DOMAIN work' = DOMAIN work \ {i} /\ \A j \in DOMAIN work' : work'[j] = work[j]
  /\ DOMAIN said' = DOMAIN said \cup {i} /\ \A j \in DOMAIN said : j # i => said'[j] = said[j]

\* The kinds and steps of the handlers.
LEMMA WorkKinds ==
  ASSUME IdShape, NEW i \in DOMAIN work
  PROVE  /\ i \in DOMAIN idLoad.commands /\ work[i].cmd = idLoad.commands[i] /\ work[i].cmd.kind = KindOf(i)
         /\ KindOf(i) \in IdKinds /\ work[i].todo \in Todos(KindOf(i)) /\ IsWork(work[i])
BY IdConstants DEF IdShape, KindOf

\* Step takes the first step away and leaves the rest.
LEMMA StepIs ==
  ASSUME IdShape, NEW i \in DOMAIN work
  PROVE  /\ Step(i) = [cmd |-> work[i].cmd, todo |-> Tail(work[i].todo), got |-> work[i].got,
                       changed |-> work[i].changed]
         /\ IsWork(Step(i)) /\ Step(i).cmd = work[i].cmd /\ Step(i).todo = Tail(work[i].todo)
         /\ Step(i).got = work[i].got /\ Step(i).changed = work[i].changed
<1>1. IsWork(work[i])
  BY WorkKinds
<1> DEFINE w == work[i]
<1>2. w = [cmd |-> w.cmd, todo |-> w.todo, got |-> w.got, changed |-> w.changed]
  BY <1>1 DEF IsWork
<1>3. ASSUME NEW v, NEW c, NEW t, NEW g, NEW h, NEW x, v = [cmd |-> c, todo |-> t, got |-> g, changed |-> h]
      PROVE  [v EXCEPT !.todo = x] = [cmd |-> c, todo |-> x, got |-> g, changed |-> h]
  BY <1>3
<1>4. Step(i) = [cmd |-> w.cmd, todo |-> Tail(w.todo), got |-> w.got, changed |-> w.changed]
  <2> DEFINE x == Tail(w.todo)
  <2>1. Step(i) = [w EXCEPT !.todo = x]
    BY DEF Step
  <2> HIDE DEF w, x
  <2>2. [w EXCEPT !.todo = x] = [cmd |-> w.cmd, todo |-> x, got |-> w.got, changed |-> w.changed]
    BY <1>2, <1>3
  <2> QED BY <2>1, <2>2 DEF x
<1> QED BY <1>4 DEF IsWork

\* So do Step and what it notes.
LEMMA StepWith ==
  ASSUME IdShape, NEW i \in DOMAIN work, NEW x
  PROVE  /\ LET w == [Step(i) EXCEPT !.changed = x]
            IN  IsWork(w) /\ w.cmd = work[i].cmd /\ w.todo = Tail(work[i].todo) /\ w.changed = x
         /\ LET w == [Step(i) EXCEPT !.got = x]
            IN  IsWork(w) /\ w.cmd = work[i].cmd /\ w.todo = Tail(work[i].todo) /\ w.got = x
<1>1. ASSUME NEW v, NEW c, NEW t, NEW g, NEW h, v = [cmd |-> c, todo |-> t, got |-> g, changed |-> h]
      PROVE  /\ [v EXCEPT !.changed = x] = [cmd |-> c, todo |-> t, got |-> g, changed |-> x]
             /\ [v EXCEPT !.got = x] = [cmd |-> c, todo |-> t, got |-> x, changed |-> h]
  BY <1>1
<1> DEFINE v == Step(i)
           t == Tail(work[i].todo)
<1>2. v = [cmd |-> work[i].cmd, todo |-> t, got |-> work[i].got, changed |-> work[i].changed]
  BY StepIs
<1> HIDE DEF v, t
<1>3. [v EXCEPT !.changed = x] = [cmd |-> work[i].cmd, todo |-> t, got |-> work[i].got, changed |-> x]
  BY <1>1, <1>2
<1>4. [v EXCEPT !.got = x] = [cmd |-> work[i].cmd, todo |-> t, got |-> x, changed |-> work[i].changed]
  BY <1>1, <1>2
<1> QED BY <1>3, <1>4 DEF IsWork, v, t

\* Moves in these terms.
LEMMA MovesIs ==
  ASSUME IdShape, NEW i \in DOMAIN work, NEW w, IsWork(w), w.cmd = work[i].cmd, w.todo = Tail(work[i].todo),
         Moves([work EXCEPT ![i] = w])
  PROVE  IdStepped(i) /\ work'[i] = w
BY DEF Moves, IdStepped

\* Finishes in these terms.
LEMMA FinishesIs ==
  ASSUME NEW i \in DOMAIN work, NEW r, Finishes(i, r)
  PROVE  IdEnded(i) /\ said'[i] = r
BY DEF Finishes, IdEnded, IdWith, IdWithout

\* A handler that goes on or ends keeps the shape of the state.
LEMMA ShapeKeeps ==
  ASSUME IdShape, NEW i \in DOMAIN work, UNCHANGED idLoad, IdRecords', agent'.up = agent.up,
         \/ IdStepped(i) /\ Len(work[i].todo) > 1
         \/ IdEnded(i)
  PROVE  IdShape'
<1>1. work[i].todo \in Todos(KindOf(i)) /\ KindOf(i) \in IdKinds /\ work[i].cmd = idLoad.commands[i]
      /\ work[i].cmd.kind = KindOf(i)
  BY WorkKinds
<1>2. Len(work[i].todo) > 1 => Tail(work[i].todo) \in Todos(KindOf(i))
  BY <1>1, TodoSteps
<1>3. CASE IdStepped(i) /\ Len(work[i].todo) > 1
  <2>1. ASSUME NEW j \in DOMAIN work'
        PROVE  IsWork(work'[j]) /\ work'[j].cmd = idLoad.commands[j] /\ work'[j].todo \in Todos(work'[j].cmd.kind)
    <3>1. CASE j = i
      BY <1>1, <1>2, <1>3, <3>1 DEF IdStepped
    <3>2. CASE j # i
      <4>1. j \in DOMAIN work /\ work'[j] = work[j]
        BY <1>3, <3>2 DEF IdStepped
      <4> QED BY <4>1 DEF IdShape
    <3> QED BY <3>1, <3>2
  <2> QED BY <1>3, <2>1 DEF IdShape, IdStepped, IsWork
<1>4. CASE IdEnded(i)
  <2>1. ASSUME NEW j \in DOMAIN work'
        PROVE  IsWork(work'[j]) /\ work'[j].cmd = idLoad.commands[j] /\ work'[j].todo \in Todos(work'[j].cmd.kind)
    <3>1. j \in DOMAIN work /\ work'[j] = work[j]
      BY <1>4 DEF IdEnded
    <3> QED BY <3>1 DEF IdShape
  <2> QED BY <1>4, <2>1 DEF IdShape, IdEnded, IsWork
<1> QED BY <1>3, <1>4

\* So does one that updates nothing, for the updates.
LEMMA UpdatesKeep ==
  ASSUME IdShape, UpdatesInv, NEW i \in DOMAIN work, UNCHANGED <<idLoad, temps, installs>>,
         hostFiles'.binary = hostFiles.binary,
         \/ IdStepped(i)
         \/ IdEnded(i) /\ KindOf(i) # "update"
  PROVE  UpdatesInv'
<1>1. /\ installs' = installs /\ temps' = temps /\ idLoad' = idLoad
      /\ \A j \in Range(installs) : KindOf(j) = "update" /\ j \in DOMAIN said /\ said[j] = "completed"
      /\ \A j \in DOMAIN temps : KindOf(j) = "update" /\ (j \in DOMAIN work \/ j \in DOMAIN said)
                                 /\ (j \in DOMAIN work \/ said[j] = "lost")
  BY DEF UpdatesInv, BinaryWhole
<1>2. \A j \in Range(installs) : j \in DOMAIN said' /\ said'[j] = "completed"
  BY <1>1 DEF IdStepped, IdEnded
<1>3. \A j \in DOMAIN temps : (j \in DOMAIN work' \/ j \in DOMAIN said') /\ (j \in DOMAIN work' \/ said'[j] = "lost")
  BY <1>1 DEF IdStepped, IdEnded
<1>4. \A j \in DOMAIN work' : j \in DOMAIN said' => KindOf(j) = "uninstall"
  BY DEF UpdatesInv, IdStepped, IdEnded
<1>5. BinaryWhole'
  BY <1>1, <1>2, <1>3 DEF UpdatesInv, BinaryWhole
<1> QED BY <1>1, <1>3, <1>4, <1>5 DEF UpdatesInv, KindOf

\* And one that leaves the environment file alone, for the file.
LEMMA EnvKeeps ==
  ASSUME EnvInv, UNCHANGED idLoad, hostFiles'.env = hostFiles.env, hostFiles'.unit = hostFiles.unit,
         agent'.up = agent.up, agent'.id = agent.id, agent'.secret = agent.secret,
         agent.leaving => agent'.leaving, slips \subseteq slips',
         \A j \in DOMAIN work' : Head(work'[j].todo) = "write_env" => j \in DOMAIN work /\ work'[j] = work[j]
  PROVE  EnvInv'
<1>1. UNCHANGED <<Issued, IdIds>>
  BY DEF Issued, IdIds
<1>2. Whole(hostFiles.env)' <=> Whole(hostFiles.env)
  BY <1>1 DEF Whole
<1>3. \A j \in DOMAIN work' : work'[j] = work[j] => (Whole(work[j].got)' <=> Whole(work[j].got))
  BY <1>1 DEF Whole
<1> QED BY <1>1, <1>2, <1>3 DEF EnvInv

\* For the token: who brings it still does.
LEMMA TokenKeeps ==
  ASSUME TokenInv, gate' = gate, hostFiles'.token = hostFiles.token, slips \subseteq slips',
         \A j \in DOMAIN work : Brings(j) => j \in DOMAIN work' /\ work'[j] = work[j]
  PROVE  TokenInv'
<1> SUFFICES ASSUME gate.up, "token" \notin slips, gate.token # hostFiles.token
             PROVE  \E j \in DOMAIN work' : Brings(j)'
  BY DEF TokenInv
<1>1. PICK j \in DOMAIN work : Brings(j)
  BY DEF TokenInv
<1>2. j \in DOMAIN work' /\ work'[j] = work[j]
  BY <1>1
<1>3. Brings(j)'
  BY <1>1, <1>2 DEF Brings
<1> QED BY <1>2, <1>3

\* For the key and the name.
LEMMA KeyKeeps ==
  ASSUME KeyInv, UNCHANGED <<announced, asked>>, hostFiles'.key = hostFiles.key, hostFiles'.unit = hostFiles.unit,
         hostFiles'.prev = hostFiles.prev, agent'.up = agent.up, agent'.id = agent.id, agent'.key = agent.key,
         slips \subseteq slips',
         \A j \in DOMAIN work' : Head(work'[j].todo) = "download" => j \in DOMAIN work /\ Head(work[j].todo) = "download"
  PROVE  KeyInv'
BY DEF KeyInv, KeyAndNameKept

----------------------------------------------------------------------------
(* The agent itself: every step keeps the invariant.                       *)

\* A step that changes none of the files, the keys or the gateway.
LEMMA PlainKeeps ==
  ASSUME IdInv, NEW i \in DOMAIN work, UNCHANGED <<idLoad, gate, installs, announced, asked>>, IdRecords', UpdatesInv',
         hostFiles'.env = hostFiles.env, hostFiles'.unit = hostFiles.unit, hostFiles'.token = hostFiles.token,
         hostFiles'.key = hostFiles.key, hostFiles'.prev = hostFiles.prev,
         agent'.up = agent.up, agent'.id = agent.id, agent'.secret = agent.secret, agent'.key = agent.key,
         agent.leaving => agent'.leaving, slips \subseteq slips',
         \/ IdStepped(i) /\ Len(work[i].todo) > 1 /\ Head(Tail(work[i].todo)) \notin {"write_env", "download"}
         \/ IdEnded(i),
         ~Brings(i)
  PROVE  IdInv'
<1>1. IdShape'
  BY ShapeKeeps DEF IdInv
<1>2. \A j \in DOMAIN work' : Head(work'[j].todo) \in {"write_env", "download"} => j \in DOMAIN work /\ work'[j] = work[j]
  <2> SUFFICES ASSUME NEW j \in DOMAIN work', Head(work'[j].todo) \in {"write_env", "download"}
               PROVE  j \in DOMAIN work /\ work'[j] = work[j]
    OBVIOUS
  <2>1. CASE j = i
    BY <2>1 DEF IdStepped, IdEnded
  <2>2. CASE j # i
    BY <2>2 DEF IdStepped, IdEnded
  <2> QED BY <2>1, <2>2
<1>3. EnvInv'
  BY <1>2, EnvKeeps DEF IdInv
<1>4. \A j \in DOMAIN work : Brings(j) => j \in DOMAIN work' /\ work'[j] = work[j]
  <2> SUFFICES ASSUME NEW j \in DOMAIN work, Brings(j) PROVE j \in DOMAIN work' /\ work'[j] = work[j]
    OBVIOUS
  <2>1. j # i
    OBVIOUS
  <2> QED BY <2>1 DEF IdStepped, IdEnded
<1>5. TokenInv'
  BY <1>4, TokenKeeps DEF IdInv
<1>6. KeyInv'
  BY <1>2, KeyKeeps DEF IdInv
<1> QED BY <1>1, <1>3, <1>5, <1>6 DEF IdInv

\* TempUpdate: the update has a file of its own.
LEMMA TempKeeps == ASSUME IdInv, TempUpdate PROVE IdInv'
<1>1. PICK i \in DOMAIN work : Does(i, "temp") /\ temps' = IdWith(temps, i, <<>>) /\ Moves([work EXCEPT ![i] = Step(i)])
  BY DEF TempUpdate
<1>2. UNCHANGED <<agent, hostFiles, gate, idFaults, installs, announced, asked, slips, idLoad>>
  BY DEF TempUpdate
<1>3. IdShape /\ UpdatesInv
  BY DEF IdInv
<1>4. KindOf(i) = "update" /\ Len(work[i].todo) > 1 /\ Head(Tail(work[i].todo)) = "fetch"
  BY <1>1, <1>3, WorkKinds, TodoSteps DEF Does
<1>5. IdStepped(i)
  BY <1>1, <1>3, StepIs, MovesIs
<1>6. ~Brings(i)
  BY <1>3, <1>4, WorkKinds DEF Brings, TokenKinds
<1>7. UpdatesInv'
  <2>1. DOMAIN temps' = DOMAIN temps \cup {i}
    BY <1>1 DEF IdWith
  <2>2. \A j \in DOMAIN temps' : KindOf(j) = "update" /\ (j \in DOMAIN work' \/ j \in DOMAIN said') /\ (j \in DOMAIN work' \/ said'[j] = "lost")
    BY <1>3, <1>4, <1>5, <2>1 DEF UpdatesInv, BinaryWhole, IdStepped
  <2>3. BinaryWhole'
    BY <1>2, <1>3, <1>5, <2>2 DEF UpdatesInv, BinaryWhole, IdStepped
  <2>4. \A j \in DOMAIN work' : j \in DOMAIN said' => KindOf(j) = "uninstall"
    BY <1>3, <1>5 DEF UpdatesInv, IdStepped
  <2> QED BY <1>2, <1>3, <2>2, <2>3, <2>4 DEF UpdatesInv, KindOf
<1>8. IdRecords'
  BY <1>2, <1>3 DEF IdShape, IdRecords
<1> QED BY <1>2, <1>4, <1>5, <1>6, <1>7, <1>8, PlainKeeps

\* An update that ends without an installation.
LEMMA UpdateEnds ==
  ASSUME IdShape, UpdatesInv, NEW i \in DOMAIN work, KindOf(i) = "update", IdEnded(i),
         DOMAIN temps' = DOMAIN temps \ {i}, UNCHANGED <<installs, idLoad>>, hostFiles'.binary = hostFiles.binary
  PROVE  UpdatesInv'
<1>1. i \notin DOMAIN said
  BY DEF UpdatesInv
<1>2. \A j \in Range(installs) : KindOf(j) = "update" /\ j \in DOMAIN said /\ said[j] = "completed"
  BY DEF UpdatesInv, BinaryWhole
<1>3. \A j \in Range(installs) : j \in DOMAIN said' /\ said'[j] = "completed"
  BY <1>1, <1>2 DEF IdEnded
<1>4. \A j \in DOMAIN temps' : /\ KindOf(j) = "update" /\ (j \in DOMAIN work' \/ j \in DOMAIN said')
                               /\ (j \in DOMAIN work' \/ said'[j] = "lost")
  BY DEF UpdatesInv, BinaryWhole, IdEnded
<1>5. \A j \in DOMAIN work' : j \in DOMAIN said' => KindOf(j) = "uninstall"
  BY DEF UpdatesInv, IdEnded
<1>6. BinaryWhole'
  BY <1>3, <1>4 DEF UpdatesInv, BinaryWhole
<1> QED BY <1>2, <1>4, <1>5, <1>6 DEF UpdatesInv, KindOf

\* The records stay records.
LEMMA RecordsStay ==
  ASSUME IdShape, NEW v
  PROVE  /\ UNCHANGED <<agent, hostFiles, gate>> => IdRecords'
         /\ agent' = [agent EXCEPT !.apex = v] /\ UNCHANGED <<hostFiles, gate>> =>
              /\ IdRecords' /\ agent'.up = agent.up /\ agent'.id = agent.id /\ agent'.secret = agent.secret
              /\ agent'.key = agent.key /\ agent'.leaving = agent.leaving
         /\ agent' = [agent EXCEPT !.leaving = TRUE] =>
              /\ agent'.up = agent.up /\ agent'.id = agent.id /\ agent'.secret = agent.secret
              /\ agent'.key = agent.key /\ agent'.leaving
<1>1. IdRecords
  BY DEF IdShape
<1>2. agent = [up |-> agent.up, binary |-> agent.binary, id |-> agent.id, secret |-> agent.secret,
               key |-> agent.key, apex |-> agent.apex, leaving |-> agent.leaving]
  BY <1>1 DEF IdRecords
<1>3. ASSUME UNCHANGED <<agent, hostFiles, gate>> PROVE IdRecords'
  BY <1>1, <1>3 DEF IdRecords
<1>4. ASSUME agent' = [agent EXCEPT !.apex = v]
      PROVE  agent' = [up |-> agent.up, binary |-> agent.binary, id |-> agent.id, secret |-> agent.secret,
                       key |-> agent.key, apex |-> v, leaving |-> agent.leaving]
  BY <1>2, <1>4
<1>5. ASSUME agent' = [agent EXCEPT !.leaving = TRUE]
      PROVE  agent' = [up |-> agent.up, binary |-> agent.binary, id |-> agent.id, secret |-> agent.secret,
                       key |-> agent.key, apex |-> agent.apex, leaving |-> TRUE]
  BY <1>2, <1>5
<1> QED BY <1>1, <1>3, <1>4, <1>5 DEF IdRecords

\* fetch_binary: what was fetched, or the end of the update.
LEMMA FetchKeeps == ASSUME IdInv, fetch_binary PROVE IdInv'
<1>1. PICK i \in DOMAIN work :
        /\ Does(i, "fetch")
        /\ \/ temps' = IdWithout(temps, {i}) /\ Finishes(i, "failed")
           \/ \E content : temps' = [temps EXCEPT ![i] = content] /\ Moves([work EXCEPT ![i] = Step(i)])
  BY DEF fetch_binary
<1>2. UNCHANGED <<agent, hostFiles, gate, installs, announced, asked, slips, idLoad>>
  BY DEF fetch_binary
<1>3. IdShape /\ UpdatesInv
  BY DEF IdInv
<1>4. KindOf(i) = "update" /\ Len(work[i].todo) > 1 /\ Head(Tail(work[i].todo)) = "install"
  BY <1>1, <1>3, WorkKinds, TodoSteps DEF Does
<1>5. ~Brings(i)
  BY <1>3, <1>4, WorkKinds DEF Brings, TokenKinds
<1>6. IdRecords'
  BY <1>2, <1>3, RecordsStay
<1>7. CASE temps' = IdWithout(temps, {i}) /\ Finishes(i, "failed")
  <2>1. IdEnded(i)
    BY <1>7, FinishesIs
  <2>2. DOMAIN temps' = DOMAIN temps \ {i}
    BY <1>7 DEF IdWithout
  <2>3. UpdatesInv'
    BY <1>2, <1>3, <1>4, <2>1, <2>2, UpdateEnds
  <2> QED BY <1>2, <1>5, <1>6, <2>1, <2>3, PlainKeeps
<1>8. CASE \E content : temps' = [temps EXCEPT ![i] = content] /\ Moves([work EXCEPT ![i] = Step(i)])
  <2>1. IdStepped(i)
    BY <1>3, <1>8, StepIs, MovesIs
  <2>2. DOMAIN temps' = DOMAIN temps
    BY <1>8
  <2>3. UpdatesInv'
    <3>1. \A j \in DOMAIN temps' : KindOf(j) = "update" /\ (j \in DOMAIN work' \/ j \in DOMAIN said') /\ (j \in DOMAIN work' \/ said'[j] = "lost")
      BY <1>3, <2>1, <2>2 DEF UpdatesInv, BinaryWhole, IdStepped
    <3>2. BinaryWhole'
      BY <1>2, <1>3, <2>1, <3>1 DEF UpdatesInv, BinaryWhole, IdStepped
    <3>3. \A j \in DOMAIN work' : j \in DOMAIN said' => KindOf(j) = "uninstall"
      BY <1>3, <2>1 DEF UpdatesInv, IdStepped
    <3> QED BY <1>2, <1>3, <3>1, <3>2, <3>3 DEF UpdatesInv, KindOf
  <2> QED BY <1>2, <1>4, <1>5, <1>6, <2>1, <2>3, PlainKeeps
<1> QED BY <1>1, <1>7, <1>8

\* install_tmp_binary: the whole of what was promised, or nothing.
LEMMA InstallKeeps == ASSUME IdInv, install_tmp_binary PROVE IdInv'
<1>1. PICK i \in DOMAIN work :
        /\ Does(i, "install")
        /\ \/ /\ temps[i] = work[i].cmd.expected
              /\ hostFiles' = [hostFiles EXCEPT !.binary = temps[i]] /\ installs' = Append(installs, i)
              /\ agent' = [agent EXCEPT !.leaving = TRUE] /\ temps' = IdWithout(temps, {i}) /\ Finishes(i, "completed")
           \/ temps' = IdWithout(temps, {i}) /\ Finishes(i, "failed") /\ UNCHANGED <<hostFiles, installs, agent>>
  BY DEF install_tmp_binary
<1>2. UNCHANGED <<gate, announced, asked, slips, idLoad>>
  BY DEF install_tmp_binary
<1>3. IdShape /\ UpdatesInv
  BY DEF IdInv
<1>4. KindOf(i) = "update" /\ i \in DOMAIN idLoad.commands /\ work[i].cmd = idLoad.commands[i]
  BY <1>1, <1>3, WorkKinds, TodoSteps DEF Does
<1>5. ~Brings(i)
  BY <1>3, <1>4, WorkKinds DEF Brings, TokenKinds
<1>6. IdEnded(i)
  BY <1>1, FinishesIs
<1>7. DOMAIN temps' = DOMAIN temps \ {i}
  BY <1>1 DEF IdWithout
<1>8. CASE UNCHANGED <<hostFiles, installs, agent>>
  <2>1. UpdatesInv' /\ IdRecords'
    BY <1>2, <1>3, <1>4, <1>6, <1>7, <1>8, UpdateEnds, RecordsStay
  <2> QED BY <1>2, <1>5, <1>6, <1>8, <2>1, PlainKeeps
<1>9. CASE /\ temps[i] = work[i].cmd.expected /\ hostFiles' = [hostFiles EXCEPT !.binary = temps[i]]
           /\ installs' = Append(installs, i) /\ agent' = [agent EXCEPT !.leaving = TRUE] /\ Finishes(i, "completed")
  <2>1. said'[i] = "completed"
    BY <1>9, FinishesIs
  <2>2. /\ hostFiles'.binary = idLoad.commands[i].expected /\ hostFiles'.env = hostFiles.env
        /\ hostFiles'.unit = hostFiles.unit /\ hostFiles'.token = hostFiles.token
        /\ hostFiles'.key = hostFiles.key /\ hostFiles'.prev = hostFiles.prev /\ IdRecords'
    BY <1>2, <1>3, <1>4, <1>9 DEF IdShape, IdRecords
  <2>3. /\ agent'.up = agent.up /\ agent'.id = agent.id /\ agent'.secret = agent.secret
        /\ agent'.key = agent.key /\ agent'.leaving
    BY <1>3, <1>9, RecordsStay
  <2>4. installs \in Seq(DOMAIN idLoad.commands)
    BY <1>3 DEF UpdatesInv
  <2>5. /\ installs' \in Seq(DOMAIN idLoad.commands) /\ installs' # <<>> /\ installs'[Len(installs')] = i
        /\ Range(installs') = Range(installs) \cup {i}
    <3>1. /\ installs' \in Seq(DOMAIN idLoad.commands) /\ Len(installs') = Len(installs) + 1
          /\ \A k \in 1..Len(installs) : installs'[k] = installs[k]
          /\ installs'[Len(installs) + 1] = i
      BY <1>4, <1>9, <2>4, AppendProperties
    <3>2. Len(installs) \in Nat /\ DOMAIN installs = 1..Len(installs) /\ DOMAIN installs' = 1..(Len(installs) + 1)
      BY <2>4, <3>1, LenProperties
    <3>3. Range(installs') = Range(installs) \cup {i}
      BY <3>1, <3>2 DEF Range
    <3>4. installs' # <<>>
      BY <3>1, <3>2, EmptySeq
    <3> QED BY <3>1, <3>3, <3>4
  <2>6. \A j \in Range(installs') : KindOf(j) = "update" /\ j \in DOMAIN said' /\ said'[j] = "completed"
    BY <1>3, <1>4, <1>6, <2>1, <2>5 DEF UpdatesInv, BinaryWhole, IdEnded
  <2>7. \A j \in DOMAIN temps' : /\ KindOf(j) = "update" /\ (j \in DOMAIN work' \/ j \in DOMAIN said')
                                 /\ (j \in DOMAIN work' \/ said'[j] = "lost")
    BY <1>3, <1>6, <1>7 DEF UpdatesInv, BinaryWhole, IdEnded
  <2>8. \A j \in DOMAIN work' : j \in DOMAIN said' => KindOf(j) = "uninstall"
    BY <1>3, <1>6 DEF UpdatesInv, IdEnded
  <2>9. UpdatesInv'
    BY <1>2, <2>2, <2>5, <2>6, <2>7, <2>8 DEF UpdatesInv, BinaryWhole, KindOf
  <2>10. IdShape'
    BY <1>2, <1>3, <1>6, <2>2, <2>3, ShapeKeeps
  <2>11. \A j \in DOMAIN work' : j \in DOMAIN work /\ work'[j] = work[j]
    BY <1>6 DEF IdEnded
  <2>12. EnvInv'
    BY <1>2, <2>2, <2>3, <2>11, EnvKeeps DEF IdInv
  <2>13. KeyInv'
    BY <1>2, <2>2, <2>3, <2>11, KeyKeeps DEF IdInv
  <2>14. \A j \in DOMAIN work : Brings(j) => j \in DOMAIN work' /\ work'[j] = work[j]
    BY <1>5, <1>6 DEF IdEnded
  <2>15. TokenInv'
    BY <1>2, <2>2, <2>14, TokenKeeps DEF IdInv
  <2> QED BY <2>9, <2>10, <2>12, <2>13, <2>15 DEF IdInv
<1> QED BY <1>1, <1>8, <1>9

\* A step of a handler that brings a token: what is left to show.
LEMMA TokenStepKeeps ==
  ASSUME IdInv, NEW i \in DOMAIN work, KindOf(i) \in TokenKinds, UNCHANGED <<idLoad, temps, installs, announced, asked>>,
         IdRecords', hostFiles'.binary = hostFiles.binary, hostFiles'.env = hostFiles.env,
         hostFiles'.unit = hostFiles.unit, hostFiles'.key = hostFiles.key, hostFiles'.prev = hostFiles.prev,
         agent'.up = agent.up, agent'.id = agent.id, agent'.secret = agent.secret, agent'.key = agent.key,
         agent'.leaving = agent.leaving, slips \subseteq slips',
         \/ IdStepped(i) /\ Len(work[i].todo) > 1
         \/ IdEnded(i),
         TokenInv'
  PROVE  IdInv'
<1>1. IdShape /\ UpdatesInv /\ EnvInv /\ KeyInv
  BY DEF IdInv
<1>2. IdShape'
  BY <1>1, ShapeKeeps
<1>3. KindOf(i) # "update" /\ KindOf(i) # "rotate_agent" /\ KindOf(i) # "reenroll"
  BY DEF TokenKinds
<1>4. UpdatesInv'
  BY <1>1, <1>3, UpdatesKeep
<1>5. IdStepped(i) /\ Len(work[i].todo) > 1 => Head(work'[i].todo) \notin {"write_env", "download"}
  <2>1. work[i].todo \in Todos(KindOf(i)) /\ KindOf(i) \in IdKinds
    BY <1>1, WorkKinds
  <2>2. Len(work[i].todo) > 1 => Tail(work[i].todo) \in Todos(KindOf(i))
    BY <2>1, TodoSteps
  <2>3. ASSUME NEW t \in Todos(KindOf(i)) PROVE Head(t) \notin {"write_env", "download"}
    BY <1>3, <2>1, TodoSteps
  <2> QED BY <2>2, <2>3 DEF IdStepped
<1>6. \A j \in DOMAIN work' : Head(work'[j].todo) \in {"write_env", "download"} => j \in DOMAIN work /\ work'[j] = work[j]
  <2> SUFFICES ASSUME NEW j \in DOMAIN work', Head(work'[j].todo) \in {"write_env", "download"}
               PROVE  j \in DOMAIN work /\ work'[j] = work[j]
    OBVIOUS
  <2>1. CASE j = i
    BY <1>5, <2>1 DEF IdEnded
  <2>2. CASE j # i
    BY <2>2 DEF IdStepped, IdEnded
  <2> QED BY <2>1, <2>2
<1>7. EnvInv'
  BY <1>1, <1>6, EnvKeeps
<1>8. KeyInv'
  BY <1>1, <1>6, KeyKeeps
<1> QED BY <1>2, <1>4, <1>7, <1>8 DEF IdInv

\* The end of a token's handler: the apex may be taken over.
LEMMA AppliedIs ==
  ASSUME IdShape, NEW i \in DOMAIN work, NEW r, Applied(i, r), UNCHANGED <<hostFiles, gate>>
  PROVE  /\ IdEnded(i) /\ IdRecords' /\ agent'.up = agent.up /\ agent'.id = agent.id
         /\ agent'.secret = agent.secret /\ agent'.key = agent.key /\ agent'.leaving = agent.leaving
<1>1. Finishes(i, r) /\ (agent' = agent \/ agent' = [agent EXCEPT !.apex = work[i].cmd.apex])
  BY DEF Applied
<1>2. IdEnded(i)
  BY <1>1, FinishesIs
<1> QED BY <1>1, <1>2, RecordsStay

\* decrypt_agent_text: nothing is changed yet.
LEMMA DecryptKeeps == ASSUME IdInv, decrypt_agent_text PROVE IdInv'
<1>1. PICK i \in DOMAIN work :
        /\ Does(i, "decrypt")
        /\ \/ \E r : Applied(i, r)
           \/ Finishes(i, "failed") /\ UNCHANGED agent
           \/ Moves([work EXCEPT ![i] = Step(i)]) /\ UNCHANGED agent
  BY DEF decrypt_agent_text
<1>2. UNCHANGED <<hostFiles, gate, temps, idFaults, installs, announced, asked, slips, idLoad>>
  BY DEF decrypt_agent_text
<1>3. IdShape /\ TokenInv
  BY DEF IdInv
<1>4. KindOf(i) \in TokenKinds /\ Len(work[i].todo) > 1 /\ Head(work[i].todo) = "decrypt"
  BY <1>1, <1>3, WorkKinds, TodoSteps DEF Does
<1>5. /\ IdStepped(i) \/ IdEnded(i)
      /\ IdRecords' /\ agent'.up = agent.up /\ agent'.id = agent.id
      /\ agent'.secret = agent.secret /\ agent'.key = agent.key /\ agent'.leaving = agent.leaving
  <2>1. CASE \E r : Applied(i, r)
    BY <1>2, <1>3, <2>1, AppliedIs
  <2>2. CASE Finishes(i, "failed") /\ UNCHANGED agent
    BY <1>2, <1>3, <2>2, FinishesIs, RecordsStay
  <2>3. CASE Moves([work EXCEPT ![i] = Step(i)]) /\ UNCHANGED agent
    BY <1>2, <1>3, <2>3, StepIs, MovesIs, RecordsStay
  <2> QED BY <1>1, <2>1, <2>2, <2>3
<1>6. \A j \in DOMAIN work : Brings(j) => j \in DOMAIN work' /\ work'[j] = work[j]
  BY <1>4, <1>5 DEF Brings, IdStepped, IdEnded
<1>7. TokenInv'
  BY <1>2, <1>3, <1>6, TokenKeeps
<1> QED BY <1>2, <1>4, <1>5, <1>7, TokenStepKeeps

\* write_token: who changes the token brings it.
LEMMA WriteTokenKeeps == ASSUME IdInv, write_token PROVE IdInv'
<1>1. PICK i \in DOMAIN work :
        /\ Does(i, "token") /\ hostFiles' = [hostFiles EXCEPT !.token = work[i].cmd.token]
        /\ Moves([work EXCEPT ![i] = [Step(i) EXCEPT !.changed = hostFiles.token # work[i].cmd.token]])
  BY DEF write_token
<1>2. UNCHANGED <<agent, gate, temps, idFaults, installs, announced, asked, slips, idLoad>>
  BY DEF write_token
<1>3. IdShape /\ TokenInv
  BY DEF IdInv
<1>4. /\ KindOf(i) \in TokenKinds /\ Len(work[i].todo) > 1 /\ Head(work[i].todo) = "token"
      /\ Head(Tail(work[i].todo)) = "readback" /\ work[i].cmd.kind = KindOf(i)
  BY <1>1, <1>3, WorkKinds, TodoSteps DEF Does
<1>5. /\ hostFiles'.binary = hostFiles.binary /\ hostFiles'.env = hostFiles.env /\ hostFiles'.unit = hostFiles.unit
      /\ hostFiles'.key = hostFiles.key /\ hostFiles'.prev = hostFiles.prev /\ IdRecords'
      /\ hostFiles'.token = work[i].cmd.token
  BY <1>1, <1>2, <1>3 DEF IdShape, IdRecords
<1> DEFINE w == [Step(i) EXCEPT !.changed = hostFiles.token # work[i].cmd.token]
<1>7. IsWork(w) /\ w.cmd = work[i].cmd /\ w.todo = Tail(work[i].todo) /\ w.changed = (hostFiles.token # work[i].cmd.token)
  <2> DEFINE x == hostFiles.token # work[i].cmd.token
             v == [Step(i) EXCEPT !.changed = x]
  <2>1. w = v
    OBVIOUS
  <2> HIDE DEF x
  <2>2. IsWork(v) /\ v.cmd = work[i].cmd /\ v.todo = Tail(work[i].todo) /\ v.changed = x
    BY <1>3, StepWith
  <2> HIDE DEF v, w
  <2> QED BY <2>1, <2>2 DEF x
<1>8. Moves([work EXCEPT ![i] = w])
  BY <1>1
<1> HIDE DEF w
<1>9. IdStepped(i) /\ work'[i] = w
  BY <1>3, <1>7, <1>8, MovesIs
<1>10. TokenInv'
  <2>1. CASE hostFiles.token # work[i].cmd.token
    <3>1. Brings(i)' /\ i \in DOMAIN work'
      BY <1>4, <1>5, <1>7, <1>9, <2>1 DEF Brings, IdStepped
    <3> QED BY <3>1 DEF TokenInv
  <2>2. CASE hostFiles.token = work[i].cmd.token
    <3>1. \A j \in DOMAIN work : Brings(j) => j \in DOMAIN work' /\ work'[j] = work[j]
      BY <1>4, <1>9 DEF Brings, IdStepped
    <3> QED BY <1>2, <1>3, <1>5, <2>2, <3>1, TokenKeeps
  <2> QED BY <2>1, <2>2
<1> QED BY <1>2, <1>4, <1>5, <1>9, <1>10, TokenStepKeeps

\* A handler that takes the token a step further.
LEMMA TokenCarries ==
  ASSUME TokenInv, gate' = gate, hostFiles'.token = hostFiles.token, slips \subseteq slips', NEW i \in DOMAIN work,
         IdStepped(i) \/ IdEnded(i), Brings(i) => i \in DOMAIN work' /\ Brings(i)'
  PROVE  TokenInv'
<1>1. CASE Brings(i)
  BY <1>1 DEF TokenInv
<1>2. CASE ~Brings(i)
  <2>1. \A j \in DOMAIN work : Brings(j) => j \in DOMAIN work' /\ work'[j] = work[j]
    BY <1>2 DEF IdStepped, IdEnded
  <2> QED BY <2>1, TokenKeeps
<1> QED BY <1>1, <1>2

\* read_back: who still brings the token finds it.
LEMMA ReadBackKeeps == ASSUME IdInv, read_back PROVE IdInv'
<1>1. PICK i \in DOMAIN work :
        /\ Does(i, "readback")
        /\ IF work[i].changed /\ hostFiles.token # work[i].cmd.token THEN Finishes(i, "failed")
           ELSE Moves([work EXCEPT ![i] = Step(i)])
  BY DEF read_back
<1>2. UNCHANGED <<agent, hostFiles, gate, temps, idFaults, installs, announced, asked, slips, idLoad>>
  BY DEF read_back
<1>3. IdShape /\ TokenInv
  BY DEF IdInv
<1>4. /\ KindOf(i) \in TokenKinds /\ Len(work[i].todo) > 1 /\ Head(work[i].todo) = "readback"
      /\ Head(Tail(work[i].todo)) = "dropin"
  BY <1>1, <1>3, WorkKinds, TodoSteps DEF Does
<1>5. IdRecords'
  BY <1>2, <1>3, RecordsStay
<1>6. /\ IdStepped(i) \/ IdEnded(i)
      /\ Brings(i) => i \in DOMAIN work' /\ Brings(i)'
  <2>1. CASE work[i].changed /\ hostFiles.token # work[i].cmd.token
    <3>1. Finishes(i, "failed") /\ ~Brings(i)
      BY <1>1, <1>4, <2>1 DEF Brings
    <3> QED BY <3>1, FinishesIs
  <2>2. CASE ~(work[i].changed /\ hostFiles.token # work[i].cmd.token)
    <3>1. Moves([work EXCEPT ![i] = Step(i)])
      BY <1>1, <2>2
    <3>2. IdStepped(i) /\ work'[i] = Step(i)
      BY <1>3, <3>1, StepIs, MovesIs
    <3>3. work'[i].cmd = work[i].cmd /\ work'[i].changed = work[i].changed /\ Head(work'[i].todo) = "dropin"
      BY <1>3, <1>4, <3>2, StepIs
    <3>4. Brings(i) => Brings(i)'
      BY <3>3 DEF Brings
    <3> QED BY <3>2, <3>4 DEF IdStepped
  <2> QED BY <2>1, <2>2
<1>7. TokenInv'
  BY <1>2, <1>3, <1>6, TokenCarries
<1> QED BY <1>2, <1>4, <1>5, <1>6, <1>7, TokenStepKeeps

\* What a half way failure leaves.
LEMMA SlipsIs ==
  ASSUME NEW i \in DOMAIN work, Slips(i)
  PROVE  IdEnded(i) /\ slips \subseteq slips' /\ TokenInv'
BY FinishesIs DEF Slips, TokenInv

\* ensure_dwaar_cf_token_drop_in: a drop-in that was written is a change too.
LEMMA DropInKeeps == ASSUME IdInv, ensure_dwaar_cf_token_drop_in PROVE IdInv'
<1>1. PICK i \in DOMAIN work :
        /\ Does(i, "dropin")
        /\ \/ /\ hostFiles' = [hostFiles EXCEPT !.dropIn = TRUE] /\ UNCHANGED <<idFaults, slips>>
              /\ Moves([work EXCEPT ![i] = [Step(i) EXCEPT !.changed = @ \/ ~hostFiles.dropIn]])
           \/ ~hostFiles.dropIn /\ Slips(i) /\ UNCHANGED hostFiles
  BY DEF ensure_dwaar_cf_token_drop_in
<1>2. UNCHANGED <<agent, gate, temps, installs, announced, asked, idLoad>>
  BY DEF ensure_dwaar_cf_token_drop_in
<1>3. IdShape /\ TokenInv
  BY DEF IdInv
<1>4. /\ KindOf(i) \in TokenKinds /\ Len(work[i].todo) > 1 /\ Head(work[i].todo) = "dropin"
      /\ Head(Tail(work[i].todo)) = "daemon_reload"
  BY <1>1, <1>3, WorkKinds, TodoSteps DEF Does
<1>5. CASE Slips(i) /\ UNCHANGED hostFiles
  <2>1. IdRecords'
    BY <1>2, <1>3, <1>5, RecordsStay
  <2> QED BY <1>2, <1>4, <1>5, <2>1, SlipsIs, TokenStepKeeps
<1>6. CASE /\ hostFiles' = [hostFiles EXCEPT !.dropIn = TRUE] /\ UNCHANGED slips
           /\ Moves([work EXCEPT ![i] = [Step(i) EXCEPT !.changed = @ \/ ~hostFiles.dropIn]])
  <2>1. /\ hostFiles'.binary = hostFiles.binary /\ hostFiles'.env = hostFiles.env /\ hostFiles'.unit = hostFiles.unit
        /\ hostFiles'.key = hostFiles.key /\ hostFiles'.prev = hostFiles.prev /\ IdRecords'
        /\ hostFiles'.token = hostFiles.token
    BY <1>2, <1>3, <1>6 DEF IdShape, IdRecords
  <2> DEFINE x == Step(i).changed \/ ~hostFiles.dropIn
             w == [Step(i) EXCEPT !.changed = x]
  <2>2. Moves([work EXCEPT ![i] = w])
    BY <1>6
  <2>3. work[i].changed => x
    BY <1>3, StepIs
  <2> HIDE DEF x
  <2>4. IsWork(w) /\ w.cmd = work[i].cmd /\ w.todo = Tail(work[i].todo) /\ w.changed = x
    BY <1>3, StepWith
  <2> HIDE DEF w
  <2>5. IdStepped(i) /\ work'[i] = w
    BY <1>3, <2>2, <2>4, MovesIs
  <2>6. Brings(i) => i \in DOMAIN work' /\ Brings(i)'
    BY <1>4, <2>1, <2>3, <2>4, <2>5 DEF Brings, IdStepped
  <2>7. TokenInv'
    BY <1>2, <1>3, <1>6, <2>1, <2>5, <2>6, TokenCarries
  <2> QED BY <1>2, <1>4, <1>6, <2>1, <2>5, <2>7, TokenStepKeeps
<1> QED BY <1>1, <1>5, <1>6

\* reload_for_token: after the reload Dwaar has the token of the file.
LEMMA ReloadKeeps == ASSUME IdInv, reload_for_token PROVE IdInv'
<1>1. PICK i \in DOMAIN work :
        /\ Does(i, "daemon_reload") \/ Does(i, "reload")
        /\ \/ /\ gate' = IF work[i].changed /\ Does(i, "reload") /\ gate.up THEN [gate EXCEPT !.token = hostFiles.token] ELSE gate
              /\ Moves([work EXCEPT ![i] = Step(i)]) /\ UNCHANGED <<idFaults, slips>>
           \/ work[i].changed /\ Slips(i) /\ UNCHANGED gate
  BY DEF reload_for_token
<1>2. UNCHANGED <<agent, hostFiles, temps, installs, announced, asked, idLoad>>
  BY DEF reload_for_token
<1>3. IdShape /\ TokenInv
  BY DEF IdInv
<1>4. /\ KindOf(i) \in TokenKinds /\ Len(work[i].todo) > 1
      /\ \/ Head(work[i].todo) = "daemon_reload" /\ Head(Tail(work[i].todo)) = "reload" /\ ~Does(i, "reload")
         \/ Head(work[i].todo) = "reload" /\ Does(i, "reload")
  <2>1. Does(i, "daemon_reload") => Head(work[i].todo) = "daemon_reload" /\ ~Does(i, "reload")
    BY DEF Does
  <2>2. Does(i, "reload") => Head(work[i].todo) = "reload"
    BY DEF Does
  <2>3. work[i].todo \in Todos(KindOf(i)) /\ KindOf(i) \in IdKinds
    BY <1>3, WorkKinds
  <2> QED BY <1>1, <2>1, <2>2, <2>3, TodoSteps
<1>5. CASE Slips(i) /\ UNCHANGED gate
  <2>1. IdRecords'
    BY <1>2, <1>3, <1>5, RecordsStay
  <2> QED BY <1>2, <1>4, <1>5, <2>1, SlipsIs, TokenStepKeeps
<1>6. CASE /\ gate' = IF work[i].changed /\ Does(i, "reload") /\ gate.up THEN [gate EXCEPT !.token = hostFiles.token] ELSE gate
           /\ Moves([work EXCEPT ![i] = Step(i)]) /\ UNCHANGED slips
  <2>1. IdStepped(i) /\ work'[i] = Step(i)
    BY <1>3, <1>6, StepIs, MovesIs
  <2>2. work'[i].cmd = work[i].cmd /\ work'[i].changed = work[i].changed /\ work'[i].todo = Tail(work[i].todo)
    BY <1>3, <2>1, StepIs
  <2>3. CASE work[i].changed /\ Does(i, "reload") /\ gate.up
    <3>1. gate' = [gate EXCEPT !.token = hostFiles.token]
      BY <1>6, <2>3
    <3>2. IdRecords' /\ gate'.token = hostFiles.token
      BY <1>2, <1>3, <3>1 DEF IdShape, IdRecords
    <3>3. TokenInv'
      BY <1>2, <3>2 DEF TokenInv
    <3> QED BY <1>2, <1>4, <1>6, <2>1, <3>2, <3>3, TokenStepKeeps
  <2>4. CASE ~(work[i].changed /\ Does(i, "reload") /\ gate.up)
    <3>1. gate' = gate
      BY <1>6, <2>4
    <3>2. IdRecords'
      BY <1>2, <1>3, <3>1, RecordsStay
    <3>3. CASE Does(i, "reload") /\ ~gate.up
      <4>1. TokenInv'
        BY <3>1, <3>3 DEF TokenInv
      <4> QED BY <1>2, <1>4, <1>6, <2>1, <3>2, <4>1, TokenStepKeeps
    <3>4. CASE ~work[i].changed \/ ~Does(i, "reload")
      <4>1. Brings(i) => i \in DOMAIN work' /\ Brings(i)'
        BY <1>2, <1>4, <2>1, <2>2, <3>4 DEF Brings, IdStepped
      <4>2. TokenInv'
        BY <1>2, <1>3, <1>6, <2>1, <3>1, <4>1, TokenCarries
      <4> QED BY <1>2, <1>4, <1>6, <2>1, <3>2, <4>2, TokenStepKeeps
    <3> QED BY <2>4, <3>3, <3>4
  <2> QED BY <2>3, <2>4
<1> QED BY <1>1, <1>5, <1>6

\* verify_dwaar_env: the end of the handler.
LEMMA VerifyKeeps == ASSUME IdInv, verify_dwaar_env PROVE IdInv'
<1>1. PICK i \in DOMAIN work :
        /\ Does(i, "verify")
        /\ (Finishes(i, "failed") /\ UNCHANGED agent) \/ Applied(i, "completed")
  BY DEF verify_dwaar_env
<1>2. UNCHANGED <<hostFiles, gate, temps, idFaults, installs, announced, asked, slips, idLoad>>
  BY DEF verify_dwaar_env
<1>3. IdShape /\ TokenInv
  BY DEF IdInv
<1>4. KindOf(i) \in TokenKinds /\ Head(work[i].todo) = "verify"
  BY <1>1, <1>3, WorkKinds, TodoSteps DEF Does
<1>5. /\ IdEnded(i) /\ IdRecords' /\ agent'.up = agent.up /\ agent'.id = agent.id
      /\ agent'.secret = agent.secret /\ agent'.key = agent.key /\ agent'.leaving = agent.leaving
  <2>1. CASE Finishes(i, "failed") /\ UNCHANGED agent
    BY <1>2, <1>3, <2>1, FinishesIs, RecordsStay
  <2>2. CASE Applied(i, "completed")
    BY <1>2, <1>3, <2>2, AppliedIs
  <2> QED BY <1>1, <2>1, <2>2
<1>6. ~Brings(i)
  BY <1>4 DEF Brings
<1>7. TokenInv'
  BY <1>2, <1>3, <1>5, <1>6, TokenCarries
<1> QED BY <1>2, <1>4, <1>5, <1>7, TokenStepKeeps

\* A step that leaves the updates and the token alone.
LEMMA OtherKeeps ==
  ASSUME IdInv, NEW i \in DOMAIN work, KindOf(i) \notin TokenKinds, KindOf(i) # "update",
         UNCHANGED <<idLoad, temps, installs, gate>>, IdRecords', hostFiles'.binary = hostFiles.binary,
         hostFiles'.token = hostFiles.token, agent'.up = agent.up, slips \subseteq slips',
         \/ IdStepped(i) /\ Len(work[i].todo) > 1
         \/ IdEnded(i)
  PROVE  IdShape' /\ UpdatesInv' /\ TokenInv'
<1>1. IdShape /\ UpdatesInv /\ TokenInv
  BY DEF IdInv
<1>2. IdShape'
  BY <1>1, ShapeKeeps
<1>3. UpdatesInv'
  BY <1>1, UpdatesKeep
<1>4. work[i].cmd.kind = KindOf(i)
  BY <1>1, WorkKinds
<1>5. ~Brings(i)
  BY <1>4 DEF Brings
<1>6. TokenInv'
  BY <1>1, <1>5, TokenCarries
<1> QED BY <1>2, <1>3, <1>6

\* A pair that was issued: the ids and the secrets that go together.
LEMMA IssuedIs ==
  ASSUME idLoad \in IdentityLoads
  PROVE  /\ Pair(idLoad.env) \in Issued
         /\ \A i \in DOMAIN idLoad.commands : KindOf(i) = "reenroll" =>
              /\ idLoad.commands[i].gives \in Issued
              /\ idLoad.commands[i].gives = <<idLoad.commands[i].gives[1], idLoad.commands[i].gives[2]>>
         /\ \A i \in DOMAIN idLoad.commands : KindOf(i) = "rotate_agent" =>
              \A id \in IdIds : <<id, idLoad.commands[i].secret>> \in Issued
         /\ \A p \in Issued : p[1] \in IdIds
<1> DEFINE given == {e \in Range(idLoad.commands) : e.kind = "reenroll"}
           Of(c) == CASE c.kind = "rotate_agent" -> {<<required_env(idLoad.env, "SERVER_ID"), c.secret>>} \cup {<<d.gives[1], c.secret>> : d \in given}
                      [] c.kind = "reenroll" -> {c.gives}
                      [] OTHER -> {}
<1>1. Issued = {Pair(idLoad.env)} \cup UNION {Of(idLoad.commands[i]) : i \in DOMAIN idLoad.commands}
  BY DEF Issued
<1>2. \A c : c.kind = "rotate_agent" => Of(c) = {<<required_env(idLoad.env, "SERVER_ID"), c.secret>>} \cup {<<d.gives[1], c.secret>> : d \in given}
  OBVIOUS
<1>3. \A c : c.kind = "reenroll" => Of(c) = {c.gives}
  OBVIOUS
<1>4. \A c : c.kind \notin {"rotate_agent", "reenroll"} => Of(c) = {}
  OBVIOUS
<1>5. IdIds = {required_env(idLoad.env, "SERVER_ID")} \cup {d.gives[1] : d \in given}
  BY DEF IdIds
<1>6. \A i \in DOMAIN idLoad.commands : idLoad.commands[i].kind = "reenroll" => idLoad.commands[i] \in given
  BY DEF Range
<1>7. \A i \in DOMAIN idLoad.commands : KindOf(i) = "reenroll" =>
        idLoad.commands[i].gives = <<idLoad.commands[i].gives[1], idLoad.commands[i].gives[2]>>
  BY IdConstants
<1>8. Pair(idLoad.env)[1] = required_env(idLoad.env, "SERVER_ID")
  BY DEF Pair
<1> HIDE DEF Of, given
<1>9. Pair(idLoad.env) \in Issued
  BY <1>1
<1>10. \A i \in DOMAIN idLoad.commands : KindOf(i) = "reenroll" => idLoad.commands[i].gives \in Issued
  BY <1>1, <1>3 DEF KindOf
<1>11. ASSUME NEW i \in DOMAIN idLoad.commands, KindOf(i) = "rotate_agent", NEW id \in IdIds
       PROVE  <<id, idLoad.commands[i].secret>> \in Issued
  <2> DEFINE c == idLoad.commands[i]
  <2>1. c.kind = "rotate_agent"
    BY <1>11 DEF KindOf
  <2>2. <<id, c.secret>> \in {<<required_env(idLoad.env, "SERVER_ID"), c.secret>>} \cup {<<d.gives[1], c.secret>> : d \in given}
    BY <1>5, <1>11
  <2>3. <<id, c.secret>> \in Of(c)
    BY <1>2, <2>1, <2>2
  <2> QED BY <1>1, <2>3
<1>12. ASSUME NEW p \in Issued PROVE p[1] \in IdIds
  <2>1. CASE p = Pair(idLoad.env)
    BY <1>5, <1>8, <2>1
  <2>2. CASE \E i \in DOMAIN idLoad.commands : p \in Of(idLoad.commands[i])
    <3>1. PICK i \in DOMAIN idLoad.commands : p \in Of(idLoad.commands[i])
      BY <2>2
    <3> DEFINE c == idLoad.commands[i]
    <3>2. CASE c.kind = "rotate_agent"
      <4>1. p \in {<<required_env(idLoad.env, "SERVER_ID"), c.secret>>} \cup {<<d.gives[1], c.secret>> : d \in given}
        BY <1>2, <3>1, <3>2
      <4>2. CASE p = <<required_env(idLoad.env, "SERVER_ID"), c.secret>>
        BY <1>5, <4>2
      <4>3. CASE \E d \in given : p = <<d.gives[1], c.secret>>
        <5>1. PICK d \in given : p = <<d.gives[1], c.secret>>
          BY <4>3
        <5>2. p[1] = d.gives[1]
          BY <5>1
        <5> QED BY <1>5, <5>2
      <4> QED BY <4>1, <4>2, <4>3
    <3>3. CASE c.kind = "reenroll"
      <4>1. p = c.gives /\ c \in given
        BY <1>3, <1>6, <3>1, <3>3
      <4> QED BY <1>5, <4>1
    <3>4. CASE c.kind \notin {"rotate_agent", "reenroll"}
      BY <1>4, <3>1, <3>4
    <3> QED BY <3>2, <3>3, <3>4
  <2> QED BY <1>1, <2>1, <2>2
<1> QED BY <1>7, <1>9, <1>10, <1>11, <1>12

\* read_env_file: what a rotation made of a whole file is whole.
LEMMA ReadEnvKeeps == ASSUME IdInv, read_env_file PROVE IdInv'
<1>1. PICK i \in DOMAIN work :
        /\ Does(i, "read_env")
        /\ \/ Finishes(i, "failed")
           \/ Moves([work EXCEPT ![i] = [Step(i) EXCEPT !.got = rewrite_agent_env_file(hostFiles.env, agent.id, work[i].cmd.secret)]])
  BY DEF read_env_file
<1>2. UNCHANGED <<agent, hostFiles, gate, temps, idFaults, installs, announced, asked, slips, idLoad>>
  BY DEF read_env_file
<1>3. IdShape /\ EnvInv /\ KeyInv /\ idLoad \in IdentityLoads /\ agent.up
  BY <1>1 DEF IdInv, IdShape
<1>4. /\ KindOf(i) = "rotate_agent" /\ Len(work[i].todo) > 1 /\ Head(Tail(work[i].todo)) = "write_env"
      /\ i \in DOMAIN idLoad.commands /\ work[i].cmd = idLoad.commands[i]
  BY <1>1, <1>3, WorkKinds, TodoSteps DEF Does
<1>5. KindOf(i) \notin TokenKinds /\ KindOf(i) # "update"
  BY <1>4 DEF TokenKinds
<1>6. IdRecords'
  BY <1>2, <1>3, RecordsStay
<1>7. CASE Finishes(i, "failed")
  <2>1. IdEnded(i)
    BY <1>7, FinishesIs
  <2>2. IdShape' /\ UpdatesInv' /\ TokenInv'
    BY <1>2, <1>5, <1>6, <2>1, OtherKeeps
  <2>3. \A j \in DOMAIN work' : j \in DOMAIN work /\ work'[j] = work[j]
    BY <2>1 DEF IdEnded
  <2>4. EnvInv' /\ KeyInv'
    BY <1>2, <1>3, <2>3, EnvKeeps, KeyKeeps
  <2> QED BY <2>2, <2>4 DEF IdInv
<1>8. CASE Moves([work EXCEPT ![i] = [Step(i) EXCEPT !.got = rewrite_agent_env_file(hostFiles.env, agent.id, work[i].cmd.secret)]])
  <2> DEFINE x == rewrite_agent_env_file(hostFiles.env, agent.id, work[i].cmd.secret)
             w == [Step(i) EXCEPT !.got = x]
  <2>1. Moves([work EXCEPT ![i] = w])
    BY <1>8
  <2>2. hostFiles.unit => Whole(x)
    <3> SUFFICES ASSUME hostFiles.unit PROVE Whole(x)
      OBVIOUS
    <3>1. Whole(hostFiles.env) /\ agent.id \in IdIds
      BY <1>3 DEF EnvInv
    <3>2. IsLines(x) /\ OneEach(x) /\ Pair(x) = <<agent.id, work[i].cmd.secret>> /\ Others(x) = Others(hostFiles.env)
      BY <3>1, RewrittenPair DEF Whole
    <3>3. <<agent.id, work[i].cmd.secret>> \in Issued
      BY <1>3, <1>4, <3>1, IssuedIs
    <3> HIDE DEF x
    <3> QED BY <3>1, <3>2, <3>3 DEF Whole
  <2> HIDE DEF x
  <2>3. IsWork(w) /\ w.cmd = work[i].cmd /\ w.todo = Tail(work[i].todo) /\ w.got = x
    BY <1>3, StepWith
  <2> HIDE DEF w
  <2>4. IdStepped(i) /\ work'[i] = w
    BY <1>3, <2>1, <2>3, MovesIs
  <2>5. IdShape' /\ UpdatesInv' /\ TokenInv'
    BY <1>2, <1>4, <1>5, <1>6, <2>4, OtherKeeps
  <2>6. EnvInv'
    <3>1. UNCHANGED <<Issued, IdIds>>
      BY <1>2 DEF Issued, IdIds
    <3>2. Whole(hostFiles.env) => Whole(hostFiles.env)'
      BY <1>2, <3>1 DEF Whole
    <3>3. ASSUME NEW j \in DOMAIN work', hostFiles.unit, Head(work'[j].todo) = "write_env" PROVE Whole(work[j].got)'
      <4>1. CASE j = i
        <5>1. work'[j].got = x
          BY <2>3, <2>4, <4>1
        <5> QED BY <1>2, <2>2, <3>1, <3>3, <5>1 DEF Whole
      <4>2. CASE j # i
        <5>1. j \in DOMAIN work /\ work'[j] = work[j]
          BY <2>4, <4>2 DEF IdStepped
        <5>2. Whole(work[j].got)
          BY <1>3, <3>3, <5>1 DEF EnvInv
        <5> QED BY <1>2, <3>1, <5>1, <5>2 DEF Whole
      <4> QED BY <4>1, <4>2
    <3> QED BY <1>2, <1>3, <3>1, <3>2, <3>3 DEF EnvInv
  <2>7. Head(work'[i].todo) # "download"
    BY <1>4, <2>3, <2>4
  <2>8. \A j \in DOMAIN work' : Head(work'[j].todo) = "download" => j \in DOMAIN work /\ Head(work[j].todo) = "download"
    BY <2>4, <2>7 DEF IdStepped
  <2>9. KeyInv'
    BY <1>2, <1>3, <2>8, KeyKeeps
  <2> QED BY <2>5, <2>6, <2>9 DEF IdInv
<1> QED BY <1>1, <1>7, <1>8

\* A whole file takes the place of another, or nothing does.
LEMMA EnvReplaced ==
  ASSUME EnvInv, UNCHANGED idLoad, hostFiles'.unit = hostFiles.unit, agent'.up = agent.up, agent'.id = agent.id,
         agent'.secret = agent.secret, hostFiles.unit => Whole(hostFiles'.env),
         slips \subseteq slips', agent'.leaving \/ "installer" \in slips',
         \A j \in DOMAIN work' : j \in DOMAIN work /\ work'[j] = work[j]
  PROVE  EnvInv'
<1>1. UNCHANGED <<Issued, IdIds>>
  BY DEF Issued, IdIds
<1>2. Whole(hostFiles'.env) => Whole(hostFiles.env)'
  BY <1>1 DEF Whole
<1>3. \A j \in DOMAIN work' : Whole(work[j].got) => Whole(work[j].got)'
  BY <1>1 DEF Whole
<1> QED BY <1>1, <1>2, <1>3 DEF EnvInv

\* write_env_file: the new file, and the agent exits.
LEMMA WriteEnvKeeps == ASSUME IdInv, write_env_file PROVE IdInv'
<1>1. PICK i \in DOMAIN work :
        /\ Does(i, "write_env")
        /\ \/ /\ hostFiles' = [hostFiles EXCEPT !.env = work[i].got] /\ agent' = [agent EXCEPT !.leaving = TRUE]
              /\ Finishes(i, "completed")
           \/ Finishes(i, "failed") /\ UNCHANGED <<hostFiles, agent>>
  BY DEF write_env_file
<1>2. UNCHANGED <<gate, temps, installs, announced, asked, slips, idLoad>>
  BY DEF write_env_file
<1>3. IdShape /\ EnvInv /\ KeyInv
  BY DEF IdInv
<1>4. KindOf(i) = "rotate_agent" /\ Head(work[i].todo) = "write_env"
  BY <1>1, <1>3, WorkKinds, TodoSteps DEF Does
<1>5. KindOf(i) \notin TokenKinds /\ KindOf(i) # "update"
  BY <1>4 DEF TokenKinds
<1>6. IdEnded(i)
  BY <1>1, FinishesIs
<1>7. \A j \in DOMAIN work' : j \in DOMAIN work /\ work'[j] = work[j]
  BY <1>6 DEF IdEnded
<1>8. CASE UNCHANGED <<hostFiles, agent>>
  <2>1. IdRecords'
    BY <1>2, <1>3, <1>8, RecordsStay
  <2>2. IdShape' /\ UpdatesInv' /\ TokenInv'
    BY <1>2, <1>5, <1>6, <1>8, <2>1, OtherKeeps
  <2>3. EnvInv' /\ KeyInv'
    BY <1>2, <1>3, <1>7, <1>8, EnvKeeps, KeyKeeps
  <2> QED BY <2>2, <2>3 DEF IdInv
<1>9. CASE hostFiles' = [hostFiles EXCEPT !.env = work[i].got] /\ agent' = [agent EXCEPT !.leaving = TRUE]
  <2>1. /\ hostFiles'.binary = hostFiles.binary /\ hostFiles'.env = work[i].got /\ hostFiles'.unit = hostFiles.unit
        /\ hostFiles'.key = hostFiles.key /\ hostFiles'.prev = hostFiles.prev /\ IdRecords'
        /\ hostFiles'.token = hostFiles.token
    BY <1>2, <1>3, <1>9 DEF IdShape, IdRecords
  <2>2. /\ agent'.up = agent.up /\ agent'.id = agent.id /\ agent'.secret = agent.secret
        /\ agent'.key = agent.key /\ agent'.leaving
    BY <1>3, <1>9, RecordsStay
  <2>3. IdShape' /\ UpdatesInv' /\ TokenInv'
    BY <1>2, <1>5, <1>6, <2>1, <2>2, OtherKeeps
  <2>4. hostFiles.unit => Whole(hostFiles'.env)
    BY <1>3, <1>4, <2>1 DEF EnvInv
  <2>5. EnvInv'
    BY <1>2, <1>3, <1>7, <2>1, <2>2, <2>4, EnvReplaced
  <2>6. KeyInv'
    BY <1>2, <1>3, <1>7, <2>1, <2>2, KeyKeeps
  <2> QED BY <2>3, <2>5, <2>6 DEF IdInv
<1> QED BY <1>1, <1>8, <1>9

\* persist_previous_server_id: the name is kept, or that it was not is noted.
LEMMA PersistKeeps == ASSUME IdInv, persist_previous_server_id PROVE IdInv'
<1>1. PICK i \in DOMAIN work : Does(i, "persist") /\ Moves([work EXCEPT ![i] = Step(i)])
  BY DEF persist_previous_server_id
<1>2. /\ \/ hostFiles' = [hostFiles EXCEPT !.prev = agent.id] /\ UNCHANGED slips
         \/ slips' = slips \cup {"previous"} /\ UNCHANGED hostFiles
      /\ UNCHANGED <<agent, gate, temps, installs, announced, asked, idLoad>>
  BY DEF persist_previous_server_id
<1>3. IdShape /\ EnvInv /\ KeyInv
  BY DEF IdInv
<1>4. KindOf(i) = "reenroll" /\ Len(work[i].todo) > 1 /\ Head(Tail(work[i].todo)) = "download"
  BY <1>1, <1>3, WorkKinds, TodoSteps DEF Does
<1>5. KindOf(i) \notin TokenKinds /\ KindOf(i) # "update"
  BY <1>4 DEF TokenKinds
<1>6. IdStepped(i)
  BY <1>1, <1>3, StepIs, MovesIs
<1>7. /\ hostFiles'.binary = hostFiles.binary /\ hostFiles'.env = hostFiles.env /\ hostFiles'.unit = hostFiles.unit
      /\ hostFiles'.key = hostFiles.key /\ hostFiles'.token = hostFiles.token /\ IdRecords'
      /\ slips \subseteq slips' /\ (hostFiles'.prev = agent.id \/ "previous" \in slips')
  <2>1. CASE hostFiles' = [hostFiles EXCEPT !.prev = agent.id] /\ UNCHANGED slips
    BY <1>2, <1>3, <2>1 DEF IdShape, IdRecords
  <2>2. CASE slips' = slips \cup {"previous"} /\ UNCHANGED hostFiles
    BY <1>2, <1>3, <2>2, RecordsStay
  <2> QED BY <1>2, <2>1, <2>2
<1>8. IdShape' /\ UpdatesInv' /\ TokenInv'
  BY <1>2, <1>4, <1>5, <1>6, <1>7, OtherKeeps
<1>9. Head(work'[i].todo) # "write_env"
  BY <1>4, <1>6 DEF IdStepped
<1>10. \A j \in DOMAIN work' : Head(work'[j].todo) = "write_env" => j \in DOMAIN work /\ work'[j] = work[j]
  BY <1>6, <1>9 DEF IdStepped
<1>11. EnvInv'
  BY <1>2, <1>3, <1>7, <1>10, EnvKeeps
<1>12. KeyInv'
  BY <1>2, <1>3, <1>7 DEF KeyInv, KeyAndNameKept
<1> QED BY <1>8, <1>11, <1>12 DEF IdInv

\* download_installer_with_curl: the name that is told is the agent's.
LEMMA DownloadKeeps == ASSUME IdInv, download_installer_with_curl PROVE IdInv'
<1>1. PICK i \in DOMAIN work :
        /\ Does(i, "download") /\ asked' = asked \cup {[by |-> agent.id, previous |-> hostFiles.prev]}
        /\ Moves([work EXCEPT ![i] = Step(i)]) \/ Finishes(i, "failed")
  BY DEF download_installer_with_curl
<1>2. UNCHANGED <<agent, hostFiles, gate, temps, installs, announced, slips, idLoad>>
  BY DEF download_installer_with_curl
<1>3. IdShape /\ EnvInv /\ KeyInv
  BY DEF IdInv
<1>4. /\ KindOf(i) = "reenroll" /\ Len(work[i].todo) > 1 /\ Head(work[i].todo) = "download"
      /\ Head(Tail(work[i].todo)) = "script"
  BY <1>1, <1>3, WorkKinds, TodoSteps DEF Does
<1>5. KindOf(i) \notin TokenKinds /\ KindOf(i) # "update"
  BY <1>4 DEF TokenKinds
<1>6. IdStepped(i) \/ IdEnded(i)
  BY <1>1, <1>3, StepIs, MovesIs, FinishesIs
<1>7. IdRecords'
  BY <1>2, <1>3, RecordsStay
<1>8. IdShape' /\ UpdatesInv' /\ TokenInv'
  BY <1>2, <1>4, <1>5, <1>6, <1>7, OtherKeeps
<1>9. IdStepped(i) => Head(work'[i].todo) = "script"
  BY <1>4 DEF IdStepped
<1>10. \A j \in DOMAIN work' : Head(work'[j].todo) \in {"write_env", "download"} => j \in DOMAIN work /\ work'[j] = work[j]
  <2> SUFFICES ASSUME NEW j \in DOMAIN work', Head(work'[j].todo) \in {"write_env", "download"}
               PROVE  j \in DOMAIN work /\ work'[j] = work[j]
    OBVIOUS
  <2>1. CASE j = i
    BY <1>6, <1>9, <2>1 DEF IdEnded
  <2>2. CASE j # i
    BY <1>6, <2>2 DEF IdStepped, IdEnded
  <2> QED BY <2>1, <2>2
<1>11. EnvInv'
  BY <1>2, <1>3, <1>10, EnvKeeps
<1>12. KeyInv'
  <2>1. hostFiles.prev = agent.id \/ "previous" \in slips
    BY <1>3, <1>4 DEF KeyInv
  <2>2. \A a \in asked' : a.previous = a.by \/ "previous" \in slips
    BY <1>1, <1>3, <2>1 DEF KeyInv, KeyAndNameKept
  <2>3. \A j \in DOMAIN work' : Head(work'[j].todo) = "download" => hostFiles.prev = agent.id \/ "previous" \in slips
    BY <2>1
  <2> QED BY <1>2, <1>3, <2>2, <2>3 DEF KeyInv, KeyAndNameKept
<1> QED BY <1>8, <1>11, <1>12 DEF IdInv

\* write_reenroll_script: nothing depends on it but the installer.
LEMMA ScriptKeeps == ASSUME IdInv, write_reenroll_script PROVE IdInv'
<1>1. PICK i \in DOMAIN work :
        Does(i, "script") /\ hostFiles' = [hostFiles EXCEPT !.script = i] /\ Moves([work EXCEPT ![i] = Step(i)])
  BY DEF write_reenroll_script
<1>2. UNCHANGED <<agent, gate, temps, idFaults, installs, announced, asked, slips, idLoad>>
  BY DEF write_reenroll_script
<1>3. IdShape /\ EnvInv /\ KeyInv
  BY DEF IdInv
<1>4. KindOf(i) = "reenroll" /\ Len(work[i].todo) > 1 /\ Head(Tail(work[i].todo)) = "run"
  BY <1>1, <1>3, WorkKinds, TodoSteps DEF Does
<1>5. KindOf(i) \notin TokenKinds /\ KindOf(i) # "update"
  BY <1>4 DEF TokenKinds
<1>6. IdStepped(i)
  BY <1>1, <1>3, StepIs, MovesIs
<1>7. /\ hostFiles'.binary = hostFiles.binary /\ hostFiles'.env = hostFiles.env /\ hostFiles'.unit = hostFiles.unit
      /\ hostFiles'.key = hostFiles.key /\ hostFiles'.token = hostFiles.token /\ hostFiles'.prev = hostFiles.prev /\ IdRecords'
  BY <1>1, <1>2, <1>3 DEF IdShape, IdRecords
<1>8. IdShape' /\ UpdatesInv' /\ TokenInv'
  BY <1>2, <1>4, <1>5, <1>6, <1>7, OtherKeeps
<1>9. Head(work'[i].todo) = "run"
  BY <1>4, <1>6 DEF IdStepped
<1>10. \A j \in DOMAIN work' : Head(work'[j].todo) \in {"write_env", "download"} => j \in DOMAIN work /\ work'[j] = work[j]
  BY <1>6, <1>9 DEF IdStepped
<1>11. EnvInv' /\ KeyInv'
  BY <1>2, <1>3, <1>7, <1>10, EnvKeeps, KeyKeeps
<1> QED BY <1>8, <1>11 DEF IdInv

\* run_reenroll_script: the installer's pair, whether or not it ends well.
LEMMA RunKeeps == ASSUME IdInv, run_reenroll_script PROVE IdInv'
<1> DEFINE new(i) == rewrite_agent_env_file(hostFiles.env, work[i].cmd.gives[1], work[i].cmd.gives[2])
<1>1. PICK i \in DOMAIN work :
        /\ Does(i, "run")
        /\ \/ /\ hostFiles' = [hostFiles EXCEPT !.env = new(i)] /\ agent' = [agent EXCEPT !.leaving = TRUE]
              /\ Finishes(i, "completed") /\ UNCHANGED slips
           \/ /\ hostFiles' \in {hostFiles, [hostFiles EXCEPT !.env = new(i)]} /\ slips' = slips \cup {"installer"}
              /\ Finishes(i, "failed") /\ UNCHANGED agent
  BY DEF run_reenroll_script
<1>2. UNCHANGED <<gate, temps, installs, announced, asked, idLoad>>
  BY DEF run_reenroll_script
<1>3. IdShape /\ EnvInv /\ KeyInv /\ idLoad \in IdentityLoads
  BY DEF IdInv, IdShape
<1>4. KindOf(i) = "reenroll" /\ i \in DOMAIN idLoad.commands /\ work[i].cmd = idLoad.commands[i]
  BY <1>1, <1>3, WorkKinds, TodoSteps DEF Does
<1>5. KindOf(i) \notin TokenKinds /\ KindOf(i) # "update"
  BY <1>4 DEF TokenKinds
<1>6. IdEnded(i)
  BY <1>1, FinishesIs
<1>7. \A j \in DOMAIN work' : j \in DOMAIN work /\ work'[j] = work[j]
  BY <1>6 DEF IdEnded
<1>8. hostFiles.unit => Whole(new(i)) /\ Whole(hostFiles.env)
  <2> SUFFICES ASSUME hostFiles.unit PROVE Whole(new(i)) /\ Whole(hostFiles.env)
    OBVIOUS
  <2> DEFINE g == work[i].cmd.gives
             n == new(i)
  <2>1. Whole(hostFiles.env)
    BY <1>3 DEF EnvInv
  <2>2. IsLines(n) /\ OneEach(n) /\ Pair(n) = <<g[1], g[2]>> /\ Others(n) = Others(hostFiles.env)
    BY <2>1, RewrittenPair DEF Whole
  <2>3. <<g[1], g[2]>> \in Issued
    BY <1>3, <1>4, IssuedIs
  <2> HIDE DEF n, new
  <2>4. Whole(n)
    BY <2>1, <2>2, <2>3 DEF Whole
  <2> QED BY <2>1, <2>4 DEF n
<1> HIDE DEF new
<1>9. /\ hostFiles'.binary = hostFiles.binary /\ hostFiles'.unit = hostFiles.unit
      /\ hostFiles'.key = hostFiles.key /\ hostFiles'.token = hostFiles.token /\ hostFiles'.prev = hostFiles.prev
      /\ hostFiles'.env \in {hostFiles.env, new(i)} /\ IdRecords' /\ slips \subseteq slips'
      /\ agent'.up = agent.up /\ agent'.id = agent.id /\ agent'.secret = agent.secret
      /\ agent'.key = agent.key /\ (agent'.leaving \/ "installer" \in slips')
  <2>1. CASE hostFiles' = [hostFiles EXCEPT !.env = new(i)] /\ agent' = [agent EXCEPT !.leaving = TRUE] /\ UNCHANGED slips
    BY <1>2, <1>3, <2>1 DEF IdShape, IdRecords
  <2>2. CASE hostFiles' = [hostFiles EXCEPT !.env = new(i)] /\ slips' = slips \cup {"installer"} /\ UNCHANGED agent
    BY <1>2, <1>3, <2>2 DEF IdShape, IdRecords
  <2>3. CASE UNCHANGED hostFiles /\ slips' = slips \cup {"installer"} /\ UNCHANGED agent
    BY <1>2, <1>3, <2>3, RecordsStay
  <2> QED BY <1>1, <2>1, <2>2, <2>3
<1>10. IdShape' /\ UpdatesInv' /\ TokenInv'
  BY <1>2, <1>5, <1>6, <1>9, OtherKeeps
<1>11. EnvInv'
  BY <1>2, <1>3, <1>7, <1>8, <1>9, EnvReplaced
<1>12. KeyInv'
  BY <1>2, <1>3, <1>7, <1>9, KeyKeeps
<1> QED BY <1>10, <1>11, <1>12 DEF IdInv

\* One step before six.
LEMMA OneBeforeSix ==
  ASSUME NEW X, NEW a \in X, NEW b \in X, NEW c \in X, NEW d \in X, NEW e \in X, NEW f \in X, NEW g \in X
  PROVE  <<a>> \o <<b, c, d, e, f, g>> = <<a, b, c, d, e, f, g>>
<1> DEFINE p == <<a>>
           q == <<b, c, d, e, f, g>>
           r == <<a, b, c, d, e, f, g>>
           s == p \o q
<1>1. p \in Seq(X) /\ Len(p) = 1 /\ p[1] = a
  OBVIOUS
<1>2. q \in Seq(X) /\ Len(q) = 6 /\ q[1] = b /\ q[2] = c /\ q[3] = d /\ q[4] = e /\ q[5] = f /\ q[6] = g
  OBVIOUS
<1>3. /\ r \in Seq(X) /\ Len(r) = 7
      /\ r[1] = a /\ r[2] = b /\ r[3] = c /\ r[4] = d /\ r[5] = e /\ r[6] = f /\ r[7] = g
  OBVIOUS
<1> HIDE DEF p, q, r
<1>4. /\ s \in Seq(X) /\ Len(s) = Len(p) + Len(q)
      /\ \A i \in 1..(Len(p) + Len(q)) : s[i] = IF i <= Len(p) THEN p[i] ELSE q[i - Len(p)]
  BY <1>1, <1>2, ConcatProperties
<1> HIDE DEF s
<1>5. Len(s) = 7 /\ \A i \in 1..7 : s[i] = IF i <= 1 THEN p[i] ELSE q[i - 1]
  BY <1>1, <1>2, <1>4
<1>6. s[1] = a /\ s[2] = b /\ s[3] = c /\ s[4] = d /\ s[5] = e /\ s[6] = f /\ s[7] = g
  BY <1>1, <1>2, <1>5
<1>7. \A i \in 1..7 : s[i] = r[i]
  <2> SUFFICES ASSUME NEW i \in 1..7 PROVE s[i] = r[i]
    OBVIOUS
  <2>1. i \in {1, 2, 3, 4, 5, 6, 7}
    OBVIOUS
  <2> QED BY <1>3, <1>6, <2>1
<1> QED BY <1>3, <1>4, <1>5, <1>7, SeqEqual DEF p, q, r, s

\* The steps of a new handler are one of the lists.
LEMMA StepsAreTodos ==
  ASSUME NEW c, c.kind \in IdKinds
  PROVE  IdSteps(c) \in Todos(c.kind) /\ Head(IdSteps(c)) \notin {"write_env", "download"}
<1>1. CASE c.kind = "update"
  BY <1>1 DEF IdSteps, Todos, update_agent, TokenKinds
<1>2. CASE c.kind \in TokenKinds
  <2>1. IdSteps(c) = <<"decrypt">> \o apply_cloudflare_token
    BY <1>2 DEF IdSteps, TokenKinds, handle_bootstrap_secrets, handle_rotate_secrets
  <2>2. <<"decrypt">> \o apply_cloudflare_token = <<"decrypt", "token", "readback", "dropin", "daemon_reload", "reload", "verify">>
    <3> DEFINE X == {"decrypt", "token", "readback", "dropin", "daemon_reload", "reload", "verify"}
    <3>1. /\ "decrypt" \in X /\ "token" \in X /\ "readback" \in X /\ "dropin" \in X
          /\ "daemon_reload" \in X /\ "reload" \in X /\ "verify" \in X
      OBVIOUS
    <3> HIDE DEF X
    <3> QED BY <3>1, OneBeforeSix DEF apply_cloudflare_token
  <2>3. IdSteps(c) = <<"decrypt", "token", "readback", "dropin", "daemon_reload", "reload", "verify">>
    BY <2>1, <2>2
  <2>4. <<"decrypt", "token", "readback", "dropin", "daemon_reload", "reload", "verify">> \in Todos(c.kind)
    BY <1>2 DEF Todos, TokenKinds
  <2> QED BY <2>3, <2>4
<1>3. CASE c.kind = "rotate_agent"
  BY <1>3 DEF IdSteps, Todos, handle_rotate_agent_secret, TokenKinds
<1>4. CASE c.kind = "reenroll"
  BY <1>4 DEF IdSteps, Todos, handle_reenroll_command, TokenKinds
<1>5. CASE c.kind = "uninstall"
  BY <1>5 DEF IdSteps, Todos, handle_uninstall_command, build_uninstall_plan, TokenKinds
<1> QED BY <1>1, <1>2, <1>3, <1>4, <1>5 DEF IdKinds, TokenKinds

\* id_command: a handler begins, or the command is refused.
LEMMA CommandKeeps == ASSUME IdInv, id_command PROVE IdInv'
<1> DEFINE W(i) == [cmd |-> idLoad.commands[i], todo |-> IdSteps(idLoad.commands[i]), got |-> <<>>, changed |-> FALSE]
<1>1. PICK i \in DOMAIN idLoad.commands \ (DOMAIN work \cup DOMAIN said) :
        \/ said' = IdWith(said, i, "failed") /\ UNCHANGED work
        \/ /\ work' = IdWith(work, i, W(i))
           /\ said' = IF KindOf(i) = "uninstall" THEN IdWith(said, i, "completed") ELSE said
  BY DEF id_command, KindOf
<1>2. agent.up /\ UNCHANGED <<agent, hostFiles, gate, temps, idFaults, installs, announced, asked, slips, idLoad>>
  BY DEF id_command
<1>3. IdShape /\ UpdatesInv /\ EnvInv /\ TokenInv /\ KeyInv /\ idLoad \in IdentityLoads
  BY DEF IdInv, IdShape
<1>4. IdRecords'
  BY <1>2, <1>3, RecordsStay
<1>5. KindOf(i) \in IdKinds
  BY <1>1, <1>3, IdConstants
<1>6. /\ IsWork(W(i)) /\ W(i).cmd = idLoad.commands[i] /\ W(i).todo \in Todos(W(i).cmd.kind)
      /\ Head(W(i).todo) \notin {"write_env", "download"}
  BY <1>5, StepsAreTodos DEF IsWork, KindOf
<1> HIDE DEF W
<1>7. /\ DOMAIN work' \subseteq DOMAIN work \cup {i} /\ DOMAIN work \subseteq DOMAIN work'
      /\ (\A j \in DOMAIN work : work'[j] = work[j]) /\ (i \in DOMAIN work' => work'[i] = W(i))
  BY <1>1 DEF IdWith
<1>8. /\ DOMAIN said \subseteq DOMAIN said' /\ DOMAIN said' \subseteq DOMAIN said \cup {i}
      /\ \A j \in DOMAIN said : said'[j] = said[j]
  BY <1>1 DEF IdWith
<1>9. i \in DOMAIN work' /\ i \in DOMAIN said' => KindOf(i) = "uninstall"
  BY <1>1 DEF IdWith
<1>10. IdShape'
  <2>1. ASSUME NEW j \in DOMAIN work'
        PROVE  IsWork(work'[j]) /\ work'[j].cmd = idLoad.commands[j] /\ work'[j].todo \in Todos(work'[j].cmd.kind)
    <3>1. CASE j = i
      BY <1>6, <1>7, <3>1
    <3>2. CASE j # i
      BY <1>3, <1>7, <3>2 DEF IdShape
    <3> QED BY <3>1, <3>2
  <2>2. DOMAIN work' \subseteq DOMAIN idLoad.commands
    BY <1>3, <1>7 DEF IdShape
  <2> QED BY <1>2, <1>3, <1>4, <2>1, <2>2 DEF IdShape, IsWork
<1>11. UpdatesInv'
  <2>1. \A j \in Range(installs) : j \in DOMAIN said' /\ said'[j] = "completed" /\ KindOf(j) = "update"
    BY <1>3, <1>8 DEF UpdatesInv, BinaryWhole
  <2>2. \A j \in DOMAIN temps : /\ KindOf(j) = "update" /\ (j \in DOMAIN work' \/ j \in DOMAIN said')
                                /\ (j \in DOMAIN work' \/ said'[j] = "lost")
    <3> SUFFICES ASSUME NEW j \in DOMAIN temps
                 PROVE  /\ KindOf(j) = "update" /\ (j \in DOMAIN work' \/ j \in DOMAIN said')
                        /\ (j \in DOMAIN work' \/ said'[j] = "lost")
      OBVIOUS
    <3>1. KindOf(j) = "update" /\ (j \in DOMAIN work \/ (j \in DOMAIN said /\ said[j] = "lost"))
      BY <1>3 DEF UpdatesInv, BinaryWhole
    <3> QED BY <1>7, <1>8, <3>1
  <2>3. \A j \in DOMAIN work' : j \in DOMAIN said' => KindOf(j) = "uninstall"
    BY <1>1, <1>3, <1>7, <1>8, <1>9 DEF UpdatesInv
  <2>4. BinaryWhole'
    BY <1>2, <1>3, <2>1, <2>2 DEF UpdatesInv, BinaryWhole
  <2> QED BY <1>2, <1>3, <2>1, <2>2, <2>3, <2>4 DEF UpdatesInv, KindOf
<1>12. \A j \in DOMAIN work' : Head(work'[j].todo) \in {"write_env", "download"} => j \in DOMAIN work /\ work'[j] = work[j]
  BY <1>6, <1>7
<1>13. EnvInv' /\ KeyInv'
  BY <1>2, <1>3, <1>12, EnvKeeps, KeyKeeps
<1>14. TokenInv'
  BY <1>2, <1>3, <1>7, TokenKeeps
<1> QED BY <1>10, <1>11, <1>13, <1>14 DEF IdInv

\* The end of the process: what was on its way is lost, and noted.
LEMMA ProcessEnds ==
  ASSUME IdInv, agent' = [agent EXCEPT !.up = FALSE, !.leaving = FALSE], said' = LostCommands, work' = Nil,
         slips' = slips \cup LostTokens, UNCHANGED <<hostFiles, gate, temps, installs, announced, asked, idLoad>>
  PROVE  IdInv'
<1>1. IdShape /\ UpdatesInv /\ EnvInv /\ TokenInv /\ KeyInv
  BY DEF IdInv
<1>2. DOMAIN work' = {}
  BY DEF Nil
<1>3. IdRecords' /\ ~agent'.up
  BY <1>1 DEF IdShape, IdRecords
<1>4. IdShape'
  BY <1>1, <1>2, <1>3 DEF IdShape
<1>5. UpdatesInv'
  <2>1. /\ DOMAIN said' = DOMAIN said \cup DOMAIN work
        /\ \A j \in DOMAIN said : said'[j] = said[j]
        /\ \A j \in DOMAIN work : j \notin DOMAIN said => said'[j] = "lost"
    BY DEF LostCommands
  <2>2. \A j \in Range(installs) : j \in DOMAIN said' /\ said'[j] = "completed" /\ KindOf(j) = "update"
    BY <1>1, <2>1 DEF UpdatesInv, BinaryWhole
  <2>3. \A j \in DOMAIN temps : KindOf(j) = "update" /\ j \in DOMAIN said' /\ said'[j] = "lost"
    BY <1>1, <2>1 DEF UpdatesInv, BinaryWhole
  <2>4. BinaryWhole'
    BY <1>1, <2>2, <2>3 DEF UpdatesInv, BinaryWhole
  <2> QED BY <1>1, <1>2, <2>2, <2>3, <2>4 DEF UpdatesInv, KindOf
<1>6. EnvInv'
  <2>1. UNCHANGED <<Issued, IdIds>>
    BY DEF Issued, IdIds
  <2>2. Whole(hostFiles.env) => Whole(hostFiles.env)'
    BY <2>1 DEF Whole
  <2> QED BY <1>1, <1>2, <1>3, <2>2 DEF EnvInv
<1>7. TokenInv'
  <2>1. (\E i \in DOMAIN work : Brings(i)) => "token" \in slips'
    BY DEF Brings, LostTokens, TokenKinds
  <2> QED BY <1>1, <2>1 DEF TokenInv
<1>8. KeyInv'
  BY <1>1, <1>2, <1>3 DEF KeyInv, KeyAndNameKept
<1> QED BY <1>4, <1>5, <1>6, <1>7, <1>8 DEF IdInv

\* schedule_restart: the end of the process.
LEMMA RestartKeeps == ASSUME IdInv, schedule_restart PROVE IdInv'
BY ProcessEnds DEF schedule_restart

\* uninstall_step: the files go together with the unit.
LEMMA UninstallKeeps == ASSUME IdInv, uninstall_step PROVE IdInv'
<1>1. PICK i \in DOMAIN work : work[i].cmd.kind = "uninstall" /\
         LET s == Head(work[i].todo) IN
         IF s = "stop" /\ idLoad.managed
         THEN /\ agent' = [agent EXCEPT !.up = FALSE, !.leaving = FALSE]
              /\ said' = LostCommands /\ work' = Nil /\ slips' = slips \cup LostTokens
              /\ UNCHANGED <<hostFiles, gate>>
         ELSE /\ hostFiles' = CASE s = "dwaar" -> [hostFiles EXCEPT !.token = "", !.dropIn = FALSE]
                           [] s = "files" -> [hostFiles EXCEPT !.env = <<>>, !.key = 0, !.unit = FALSE]
                           [] OTHER -> hostFiles
              /\ gate' = IF s = "dwaar" THEN [gate EXCEPT !.up = FALSE, !.token = ""] ELSE gate
              /\ IF Len(work[i].todo) > 1 THEN Moves([work EXCEPT ![i] = Step(i)]) /\ UNCHANGED agent
                 ELSE Finishes(i, "completed") /\ agent' = [agent EXCEPT !.leaving = TRUE]
              /\ UNCHANGED slips
  BY DEF uninstall_step
<1>2. UNCHANGED <<temps, idFaults, installs, announced, asked, idLoad>>
  BY DEF uninstall_step
<1>3. IdShape /\ UpdatesInv /\ EnvInv /\ TokenInv /\ KeyInv
  BY DEF IdInv
<1> DEFINE s == Head(work[i].todo)
<1>4. KindOf(i) = "uninstall" /\ work[i].todo \in Todos(KindOf(i)) /\ KindOf(i) \in IdKinds
  BY <1>1, <1>3, WorkKinds
<1>5. Len(work[i].todo) > 1 => Head(Tail(work[i].todo)) \notin {"write_env", "download"}
  BY <1>4, TodoSteps
<1>6. KindOf(i) \notin TokenKinds /\ KindOf(i) # "update"
  BY <1>4 DEF TokenKinds
<1>7. CASE s = "stop" /\ idLoad.managed
  BY <1>1, <1>2, <1>7, ProcessEnds
<1>8. CASE ~(s = "stop" /\ idLoad.managed)
  <2>1. /\ hostFiles' = CASE s = "dwaar" -> [hostFiles EXCEPT !.token = "", !.dropIn = FALSE]
                          [] s = "files" -> [hostFiles EXCEPT !.env = <<>>, !.key = 0, !.unit = FALSE]
                          [] OTHER -> hostFiles
        /\ gate' = IF s = "dwaar" THEN [gate EXCEPT !.up = FALSE, !.token = ""] ELSE gate
        /\ IF Len(work[i].todo) > 1 THEN Moves([work EXCEPT ![i] = Step(i)]) /\ UNCHANGED agent
           ELSE Finishes(i, "completed") /\ agent' = [agent EXCEPT !.leaving = TRUE]
        /\ UNCHANGED slips
    BY <1>1, <1>8
  <2>2. \/ IdStepped(i) /\ Len(work[i].todo) > 1 /\ UNCHANGED agent
        \/ IdEnded(i) /\ agent' = [agent EXCEPT !.leaving = TRUE]
    <3>1. CASE Len(work[i].todo) > 1
      BY <1>3, <2>1, <3>1, StepIs, MovesIs
    <3>2. CASE ~(Len(work[i].todo) > 1)
      BY <2>1, <3>2, FinishesIs
    <3> QED BY <3>1, <3>2
  <2> HIDE DEF s
  <2>3. /\ agent'.up = agent.up /\ agent'.id = agent.id /\ agent'.secret = agent.secret
        /\ agent'.key = agent.key /\ (agent.leaving => agent'.leaving)
        /\ agent' = [up |-> agent'.up, binary |-> agent'.binary, id |-> agent'.id, secret |-> agent'.secret,
                     key |-> agent'.key, apex |-> agent'.apex, leaving |-> agent'.leaving]
    BY <1>3, <2>2 DEF IdShape, IdRecords
  <2>4. /\ hostFiles' = [binary |-> hostFiles'.binary, env |-> hostFiles'.env, token |-> hostFiles'.token,
                         dropIn |-> hostFiles'.dropIn, prev |-> hostFiles'.prev, key |-> hostFiles'.key,
                         script |-> hostFiles'.script, unit |-> hostFiles'.unit]
        /\ hostFiles'.binary = hostFiles.binary /\ hostFiles'.prev = hostFiles.prev
        /\ \/ hostFiles'.unit = FALSE /\ hostFiles'.key = 0
           \/ hostFiles'.unit = hostFiles.unit /\ hostFiles'.key = hostFiles.key /\ hostFiles'.env = hostFiles.env
        /\ s # "dwaar" => hostFiles'.token = hostFiles.token
    <3>1. CASE s = "dwaar"
      <4>1. hostFiles' = [hostFiles EXCEPT !.token = "", !.dropIn = FALSE]
        BY <2>1, <3>1
      <4> QED BY <1>3, <3>1, <4>1 DEF IdShape, IdRecords
    <3>2. CASE s = "files"
      <4>1. hostFiles' = [hostFiles EXCEPT !.env = <<>>, !.key = 0, !.unit = FALSE]
        BY <2>1, <3>2
      <4> QED BY <1>3, <4>1 DEF IdShape, IdRecords
    <3>3. CASE s \notin {"dwaar", "files"}
      <4>1. hostFiles' = hostFiles
        BY <2>1, <3>3
      <4> QED BY <1>3, <4>1 DEF IdShape, IdRecords
    <3> QED BY <3>1, <3>2, <3>3
  <2>5. /\ gate' = [up |-> gate'.up, token |-> gate'.token, env |-> gate'.env]
        /\ s = "dwaar" => ~gate'.up
        /\ s # "dwaar" => gate' = gate
    BY <1>3, <2>1 DEF IdShape, IdRecords
  <2>6. IdRecords'
    BY <2>3, <2>4, <2>5 DEF IdRecords
  <2>7. IdShape'
    BY <1>2, <1>3, <2>2, <2>3, <2>6, ShapeKeeps
  <2>8. UpdatesInv'
    BY <1>2, <1>3, <1>6, <2>2, <2>4, UpdatesKeep
  <2>9. TokenInv'
    <3>1. CASE s = "dwaar"
      BY <2>5, <3>1 DEF TokenInv
    <3>2. CASE s # "dwaar"
      <4>1. ~Brings(i)
        BY <1>1 DEF Brings, TokenKinds
      <4>2. gate' = gate /\ hostFiles'.token = hostFiles.token /\ slips \subseteq slips'
        BY <2>1, <2>4, <2>5, <3>2
      <4> QED BY <1>3, <2>2, <4>1, <4>2, TokenCarries
    <3> QED BY <3>1, <3>2
  <2>10. \A j \in DOMAIN work' : Head(work'[j].todo) \in {"write_env", "download"} => j \in DOMAIN work /\ work'[j] = work[j]
    <3> SUFFICES ASSUME NEW j \in DOMAIN work', Head(work'[j].todo) \in {"write_env", "download"}
                 PROVE  j \in DOMAIN work /\ work'[j] = work[j]
      OBVIOUS
    <3>1. CASE j = i
      BY <1>5, <2>2, <3>1 DEF IdStepped, IdEnded
    <3>2. CASE j # i
      BY <2>2, <3>2 DEF IdStepped, IdEnded
    <3> QED BY <3>1, <3>2
  <2>11. slips' = slips
    BY <2>1
  <2>12. EnvInv'
    <3>1. CASE hostFiles'.unit = FALSE
      BY <3>1 DEF EnvInv
    <3>2. CASE hostFiles'.unit = hostFiles.unit /\ hostFiles'.env = hostFiles.env
      BY <1>2, <1>3, <2>3, <2>10, <2>11, <3>2, EnvKeeps
    <3> QED BY <2>4, <3>1, <3>2
  <2>13. KeyInv'
    <3>1. CASE hostFiles'.unit = FALSE /\ hostFiles'.key = 0
      BY <1>2, <1>3, <2>3, <2>4, <2>10, <2>11, <3>1 DEF KeyInv, KeyAndNameKept
    <3>2. CASE hostFiles'.unit = hostFiles.unit /\ hostFiles'.key = hostFiles.key
      BY <1>2, <1>3, <2>3, <2>4, <2>10, <2>11, <3>2, KeyKeeps
    <3> QED BY <2>4, <3>1, <3>2
  <2> QED BY <2>7, <2>8, <2>9, <2>12, <2>13 DEF IdInv
<1> QED BY <1>7, <1>8

\* boot: the process has the pair and the key of the files.
LEMMA BootKeeps == ASSUME IdInv, boot PROVE IdInv'
<1> DEFINE p == Pair(hostFiles.env)
           k == load_or_generate(hostFiles.key)
<1>1. /\ ~agent.up /\ hostFiles.unit
      /\ agent' = [up |-> TRUE, binary |-> hostFiles.binary, id |-> p[1], secret |-> p[2], key |-> k, apex |-> "", leaving |-> FALSE]
      /\ hostFiles' = [hostFiles EXCEPT !.key = k]
      /\ announced' = IF announced = 0 THEN k ELSE announced
      /\ slips' = slips \ {"installer"}
      /\ UNCHANGED <<gate, temps, work, said, idFaults, installs, asked, idLoad>>
  BY DEF boot, persist_private_key
<1>2. IdShape /\ UpdatesInv /\ EnvInv /\ TokenInv /\ KeyInv /\ idLoad \in IdentityLoads
  BY DEF IdInv, IdShape
<1>3. DOMAIN work = {} /\ work' = work
  BY <1>1, <1>2 DEF IdShape
<1>4. k \in Nat /\ k # 0 /\ (announced # 0 => k = announced)
  <2>1. announced \in Nat /\ hostFiles.key \in Nat /\ (announced # 0 => hostFiles.key = announced)
    BY <1>1, <1>2 DEF KeyInv
  <2> QED BY <2>1 DEF load_or_generate
<1>5. p = <<p[1], p[2]>>
  BY DEF Pair
<1> HIDE DEF p, k
<1>6. /\ hostFiles'.binary = hostFiles.binary /\ hostFiles'.env = hostFiles.env /\ hostFiles'.unit = hostFiles.unit
      /\ hostFiles'.key = k /\ hostFiles'.token = hostFiles.token /\ hostFiles'.prev = hostFiles.prev /\ IdRecords'
      /\ agent'.up = TRUE /\ agent'.id = p[1] /\ agent'.secret = p[2] /\ agent'.key = k
  BY <1>1, <1>2 DEF IdShape, IdRecords
<1>7. IdShape'
  BY <1>1, <1>2, <1>3, <1>6 DEF IdShape
<1>8. UpdatesInv'
  BY <1>1, <1>2, <1>6 DEF UpdatesInv, BinaryWhole, KindOf
<1>9. EnvInv'
  <2>0. idLoad' = idLoad
    BY <1>1
  <2>1. UNCHANGED <<Issued, IdIds>>
    BY <2>0 DEF Issued, IdIds
  <2>2. Whole(hostFiles.env)
    BY <1>1, <1>2 DEF EnvInv
  <2>3. p[1] \in IdIds
    BY <1>2, <2>2, IssuedIs DEF Whole, p
  <2>4. Whole(hostFiles.env)'
    BY <1>6, <2>0, <2>1, <2>2 DEF Whole
  <2>5. <<agent'.id, agent'.secret>> = Pair(hostFiles'.env)
    BY <1>5, <1>6 DEF p
  <2> QED BY <1>3, <1>6, <2>1, <2>3, <2>4, <2>5 DEF EnvInv
<1>10. TokenInv'
  <2>1. "token" \in slips' <=> "token" \in slips
    BY <1>1
  <2>2. gate.up /\ "token" \notin slips => gate.token = hostFiles.token
    BY <1>2, <1>3 DEF TokenInv
  <2> QED BY <1>1, <1>6, <2>1, <2>2 DEF TokenInv
<1>11. KeyInv'
  <2>1. "previous" \in slips' <=> "previous" \in slips
    BY <1>1
  <2>2. announced' = k
    BY <1>1, <1>4
  <2>3. \A a \in asked' : a.previous = a.by \/ "previous" \in slips'
    BY <1>1, <1>2, <2>1 DEF KeyInv, KeyAndNameKept
  <2> QED BY <1>3, <1>4, <1>6, <2>2, <2>3 DEF KeyInv, KeyAndNameKept
<1> QED BY <1>7, <1>8, <1>9, <1>10, <1>11 DEF IdInv

\* gate_restarts: Dwaar starts with the token of the file.
LEMMA GateKeeps == ASSUME IdInv, gate_restarts PROVE IdInv'
<1>1. /\ gate' = [up |-> TRUE, token |-> hostFiles.token, env |-> hostFiles.dropIn]
      /\ UNCHANGED <<agent, hostFiles, temps, work, said, idFaults, installs, announced, asked, slips, idLoad>>
  BY DEF gate_restarts
<1>2. IdShape /\ UpdatesInv /\ EnvInv /\ KeyInv
  BY DEF IdInv
<1>3. IdRecords'
  BY <1>1, <1>2 DEF IdShape, IdRecords
<1>4. IdShape'
  BY <1>1, <1>2, <1>3 DEF IdShape
<1>5. UpdatesInv'
  BY <1>1, <1>2 DEF UpdatesInv, BinaryWhole, KindOf
<1>6. EnvInv'
  BY <1>1, <1>2, EnvKeeps
<1>7. KeyInv'
  BY <1>1, <1>2, KeyKeeps
<1>8. TokenInv'
  BY <1>1 DEF TokenInv
<1> QED BY <1>4, <1>5, <1>6, <1>7, <1>8 DEF IdInv

\* The invariant holds at the start.
LEMMA IdStarts == ASSUME IdInit PROVE IdInv
<1>1. /\ idLoad \in IdentityLoads /\ DOMAIN temps = {} /\ DOMAIN work = {} /\ installs = <<>> /\ announced = 0
      /\ asked = {} /\ slips = {}
  BY DEF IdInit, Nil
<1>2. /\ IdRecords /\ ~agent.up /\ hostFiles.binary = <<"old">> /\ hostFiles.env = idLoad.env
      /\ hostFiles.token = idLoad.token /\ gate.token = idLoad.token /\ hostFiles.key = idLoad.key
  BY DEF IdInit, IdRecords
<1>3. /\ idLoad.key \in Nat /\ IsLines(idLoad.env) /\ OneEach(idLoad.env)
  BY <1>1, IdConstants
<1>4. IdShape
  BY <1>1, <1>2 DEF IdShape
<1>5. Range(installs) = {}
  BY <1>1 DEF Range
<1>6. UpdatesInv
  BY <1>1, <1>2, <1>5 DEF UpdatesInv, BinaryWhole
<1>7. EnvInv
  BY <1>1, <1>2, <1>3, IssuedIs DEF EnvInv, Whole
<1>8. TokenInv
  BY <1>2 DEF TokenInv
<1>9. KeyInv
  BY <1>1, <1>2, <1>3 DEF KeyInv, KeyAndNameKept
<1> QED BY <1>4, <1>6, <1>7, <1>8, <1>9 DEF IdInv

\* Every step keeps it.
LEMMA IdKeeps == ASSUME IdInv, IdNext PROVE IdInv'
BY CommandKeeps, TempKeeps, FetchKeeps, InstallKeeps, DecryptKeeps, WriteTokenKeeps, ReadBackKeeps, DropInKeeps,
   ReloadKeeps, VerifyKeeps, ReadEnvKeeps, WriteEnvKeeps, PersistKeeps, DownloadKeeps, ScriptKeeps, RunKeeps,
   UninstallKeeps, RestartKeeps, BootKeeps, GateKeeps DEF IdNext

\* The invariant where the part is the agent itself.
IdPart == part = "identity" => IdInv

\* However updates, rotations, re-enrolments and removals of the agent overlap,
\* and wherever it stops: the binary is whole, the environment file has one
\* pair that was issued together, Dwaar has the token of the file unless it is
\* on its way or a step failed, and the key and the name stay (update_agent,
\* rewrite_agent_env_file, apply_cloudflare_token, load_or_generate).
THEOREM SelfChangesSafe == Spec => []SelfChangesHold
<1>1. MCInit => IdPart
  BY IdStarts DEF MCInit, IdPart
<1>2. IdPart /\ [MCNext]_allVars => IdPart'
  <2> SUFFICES ASSUME IdPart, [MCNext]_allVars, part' = "identity" PROVE IdInv'
    BY DEF IdPart
  <2>1. CASE MCNext
    <3>1. part = "identity" /\ IdNext
      BY <2>1 DEF MCNext
    <3> QED BY <3>1, IdKeeps DEF IdPart
  <2>2. CASE UNCHANGED allVars
    <3>1. UNCHANGED <<part, idVars>>
      BY <2>2 DEF allVars
    <3>2. IdShape /\ UpdatesInv /\ EnvInv /\ TokenInv /\ KeyInv
      BY <3>1 DEF IdPart, IdInv
    <3>3. UNCHANGED <<agent, hostFiles, gate, temps, work, said, installs, announced, asked, slips, idLoad>>
      BY <3>1 DEF idVars
    <3>4. IdShape'
      BY <3>2, <3>3, RecordsStay DEF IdShape, IsWork
    <3>5. UpdatesInv'
      BY <3>2, <3>3 DEF UpdatesInv, BinaryWhole, KindOf
    <3>6. EnvInv'
      BY <3>2, <3>3, EnvKeeps
    <3>7. KeyInv'
      BY <3>2, <3>3, KeyKeeps
    <3>8. TokenInv'
      BY <3>2, <3>3, TokenKeeps
    <3> QED BY <3>4, <3>5, <3>6, <3>7, <3>8 DEF IdInv
  <2> QED BY <2>1, <2>2
<1>3. IdPart => SelfChangesHold
  <2> SUFFICES ASSUME IdInv PROVE IdentityHolds
    BY DEF IdPart, SelfChangesHold
  <2>1. BinaryWhole /\ KeyAndNameKept
    BY DEF IdInv, UpdatesInv, KeyInv
  <2>2. EnvWhole
    <3>1. hostFiles.unit => \A k \in Secrets : Cardinality({i \in DOMAIN hostFiles.env : hostFiles.env[i][1] = k}) = 1
      BY OneIsCounted DEF IdInv, EnvInv, Whole
    <3> QED BY <3>1 DEF IdInv, EnvInv, Whole, EnvWhole
  <2>3. TokenLoaded
    BY DEF IdInv, TokenInv, Brings, TokenKinds, TokenLoaded
  <2> QED BY <2>1, <2>2, <2>3 DEF IdentityHolds
<1> QED BY <1>1, <1>2, <1>3, PTL DEF Spec

=============================================================================
