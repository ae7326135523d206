--------------------------- MODULE StoreRecovery ---------------------------
(***************************************************************************)
(* Replay protection of the admission store (src/admissions) across crash, *)
(* loss of admissions.db and `permanu-agent trust reset`.                  *)
(*                                                                         *)
(* A signed plan may be admitted at most once.  While the store lives, its *)
(* admissions and seen tables refuse a replay.  When the store is lost the *)
(* memory of the plans is lost with it, so a recreated store is put in     *)
(* quarantine until every plan the lost one may have held has expired.     *)
(* The module models the processes that create, lose and reopen the store  *)
(* and the part of admission that decides about time and replay; every     *)
(* other check of a submission is a refusal that may or may not happen.    *)
(*                                                                         *)
(* Time is in seconds and never runs backwards.                            *)
(***************************************************************************)
EXTENDS Integers, FiniteSets

CONSTANTS
  Plans,              \* signed envelopes: [id, nonce, created, expires, boot]
  Lifetime,           \* MAX_LIFETIME_SECONDS, 900
  Skew,               \* SKEW_SECONDS, 120
  Quarantine,         \* QUARANTINE_SECONDS, 1200
  ResetWhileRunning,  \* the operator may run trust reset beside a live agent
  LossInBootstrap,    \* admissions.db may vanish while no trust file exists
  MaxTime,            \* bound on the clock, for TLC
  MaxRequests         \* bound on submissions in flight, for TLC

ASSUME PlansAssumption ==
  \A p \in Plans : p.created \in Nat /\ p.expires \in Nat /\ p.boot \in BOOLEAN

ASSUME TimesAssumption ==
  /\ Lifetime \in Nat /\ Skew \in Nat /\ Quarantine \in Nat
  /\ Quarantine > Lifetime + 2 * Skew

ASSUME FlagsAssumption ==
  /\ ResetWhileRunning \in BOOLEAN /\ LossInBootstrap \in BOOLEAN
  /\ MaxTime \in Nat /\ MaxRequests \in Nat

VARIABLES
  now,        \* the clock
  trust,      \* whether trusted-keys.json exists
  path,       \* what is at the path of admissions.db
  disk,       \* the store at that path, when path = "store"
  agent,      \* the agent process: "down", "creating" or "up"
  attached,   \* whether the running agent's store is the one at the path
  orphan,     \* the store of a running agent whose file was moved or removed
  ends,       \* quarantine end a creation in progress will record
  cli,        \* trust reset: "idle", "creating" or "reseeded"
  requests,   \* submissions that read the clock and wait for the store
  times,      \* history: how often each plan was admitted, over all stores
  lostUntil   \* history: latest quarantine end any loss or re-seed called for

storeVars == <<path, disk, attached, orphan, ends>>
vars == <<now, trust, path, disk, agent, attached, orphan, ends, cli,
          requests, times, lostUntil>>

\* quarantine_ends_at = NULL: `now < end` never holds.
NoQuarantine == 0

Stores == [ends : Nat, seen : SUBSET Plans, admissions : SUBSET Plans]
\* Mutant: the last second of the quarantine is not recorded.
EmptyStoreShort(end) == [ends |-> end - 1, seen |-> {}, admissions |-> {}]
EmptyStore(end) == [ends |-> end, seen |-> {}, admissions |-> {}]

Max2(a, b) == IF a > b THEN a ELSE b

----------------------------------------------------------------------------
(* Admission: what verify_signed_plan and write_admission decide and write *)
(* about time and replay.                                                  *)

db == IF attached THEN disk ELSE orphan

\* Step 7: lifetime, not yet valid, expired, with the skew on both sides.
check_time(p, at) ==
  /\ 0 < p.expires - p.created /\ p.expires - p.created <= Lifetime
  /\ p.created <= at + Skew
  /\ at <= p.expires + Skew

\* Mutants: the quarantine covers the lifetime but not the skew; no check.
check_quarantine_short(s, at) == ~(at < s.ends - 2 * Skew)
check_quarantine_dropped(s, at) == TRUE
check_quarantine(s, at) == ~(at < s.ends)

\* Step 8: a reservation or an admission of the same nonce or id.
seen(s, p) == \E q \in s.seen \cup s.admissions : q.nonce = p.nonce \/ q.id = p.id

\* Reservations whose plans step 7 refuses anyway are pruned.
prune_seen(s, at) == {q \in s.seen : ~(q.expires < at - Skew)}

\* Mutant: only the reservation is written, and the next prune may drop it.
write_admission_seen_only(s, p, at) == [s EXCEPT !.seen = {p}]
write_admission(s, p, at) ==
  [s EXCEPT !.seen = prune_seen(s, at) \cup {p},
            !.admissions = @ \cup {p}]

\* The connection writes to its own file, wherever that file is now.
Write(s) ==
  IF attached THEN disk' = s /\ UNCHANGED orphan
              ELSE orphan' = s /\ UNCHANGED disk

\* trust_for: without a trust file only a server.add for this host passes,
\* and the runner writes the file before the plan is admitted.
Bootstrap(p) ==
  /\ agent = "up" /\ ~trust /\ p.boot
  /\ check_quarantine(db, now)
  /\ check_time(p, now)
  /\ trust' = TRUE
  /\ UNCHANGED <<now, storeVars, agent, cli, requests, times, lostUntil>>

\* ChangeCore::submit reads the clock, then waits for the store's lock.
Submit(p) ==
  /\ agent = "up" /\ trust
  /\ Cardinality(requests) < MaxRequests
  /\ requests' = requests \cup {[plan |-> p, at |-> now]}
  /\ UNCHANGED <<now, trust, storeVars, agent, cli, times, lostUntil>>

Admit(r) ==
  /\ agent = "up" /\ r \in requests
  /\ check_quarantine(db, r.at)
  /\ check_time(r.plan, r.at)
  /\ ~seen(db, r.plan)
  /\ Write(write_admission(db, r.plan, r.at))
  /\ requests' = requests \ {r}
  /\ times' = [times EXCEPT ![r.plan] = @ + 1]
  /\ UNCHANGED <<now, trust, path, agent, attached, ends, cli, lostUntil>>

\* Deduplicated (step 8) or refused by any step: nothing is written.
Refuse(r) ==
  /\ agent = "up" /\ r \in requests
  /\ requests' = requests \ {r}
  /\ UNCHANGED <<now, trust, storeVars, agent, cli, times, lostUntil>>

----------------------------------------------------------------------------
(* The agent's open: an existing store is used as it is; anything else is  *)
(* moved aside and recreated, in quarantine unless the server never had a  *)
(* trust file.                                                             *)

OpenExisting ==
  /\ agent = "down" /\ path = "store"
  /\ ResetWhileRunning \/ cli = "idle"
  /\ agent' = "up" /\ attached' = TRUE
  /\ UNCHANGED <<now, trust, path, disk, orphan, ends, cli, requests, times,
                 lostUntil>>

\* Mutant: a missing store is a first start, whatever the trust file says.
OpenRecreateMissingIsFresh ==
  /\ agent = "down" /\ path # "store" /\ cli = "idle"
  /\ ends' = IF path = "absent" THEN NoQuarantine ELSE now + Quarantine
  /\ lostUntil' = Max2(lostUntil, ends')
  /\ path' = "partial" /\ agent' = "creating"
  /\ UNCHANGED <<now, trust, disk, attached, orphan, cli, requests, times>>

\* The new file exists from here on, without a schema and without its meta
\* row: a crash before FinishCreate leaves it "partial".
OpenRecreate ==
  /\ agent = "down" /\ path # "store" /\ cli = "idle"
  /\ LET recreated == path # "absent" \/ trust
         end == IF recreated THEN now + Quarantine ELSE NoQuarantine
     IN  /\ ends' = end
         /\ lostUntil' = Max2(lostUntil, end)
  /\ path' = "partial" /\ agent' = "creating"
  /\ UNCHANGED <<now, trust, disk, attached, orphan, cli, requests, times>>

\* create: the migrations committed and the meta row was inserted.
FinishCreate ==
  /\ agent = "creating"
  /\ path' = "store" /\ disk' = EmptyStore(ends)
  /\ agent' = "up" /\ attached' = TRUE
  /\ UNCHANGED <<now, trust, orphan, ends, cli, requests, times, lostUntil>>

\* The process dies; its requests and an unlinked store die with it.
Crash ==
  /\ agent # "down"
  /\ agent' = "down" /\ requests' = {}
  /\ attached' = FALSE /\ orphan' = EmptyStore(NoQuarantine)
  /\ UNCHANGED <<now, trust, path, disk, ends, cli, times, lostUntil>>

----------------------------------------------------------------------------
(* Loss of the file, and trust reset: re-seed the store, then move the     *)
(* trust file aside.                                                       *)

\* A live agent keeps the file it has open.
Detach ==
  IF agent = "up" /\ attached THEN attached' = FALSE /\ orphan' = disk
                              ELSE UNCHANGED <<attached, orphan>>

LoseFile ==
  /\ path = "store" /\ cli = "idle"
  /\ trust \/ LossInBootstrap
  /\ \E found \in {"absent", "damaged"} : path' = found
  /\ Detach
  /\ UNCHANGED <<now, trust, disk, agent, ends, cli, requests, times, lostUntil>>

ResetReseed ==
  /\ cli = "idle" /\ trust
  /\ agent = "down" \/ (ResetWhileRunning /\ agent = "up")
  /\ cli' = "creating" /\ path' = "partial"
  /\ ends' = now + Quarantine
  /\ lostUntil' = Max2(lostUntil, now + Quarantine)
  /\ Detach
  /\ UNCHANGED <<now, trust, disk, agent, requests, times>>

ResetCreated ==
  /\ cli = "creating"
  /\ cli' = "reseeded" /\ path' = "store" /\ disk' = EmptyStore(ends)
  /\ UNCHANGED <<now, trust, agent, attached, orphan, ends, requests, times,
                 lostUntil>>

ResetMoveTrust ==
  /\ cli = "reseeded"
  /\ cli' = "idle" /\ trust' = FALSE
  /\ UNCHANGED <<now, storeVars, agent, requests, times, lostUntil>>

ResetCrash ==
  /\ cli # "idle"
  /\ cli' = "idle"
  /\ UNCHANGED <<now, trust, storeVars, agent, requests, times, lostUntil>>

Tick ==
  /\ now < MaxTime
  /\ now' = now + 1
  /\ UNCHANGED <<trust, storeVars, agent, cli, requests, times, lostUntil>>

----------------------------------------------------------------------------

Init ==
  /\ now = 0 /\ trust = FALSE /\ path = "absent"
  /\ disk = EmptyStore(NoQuarantine) /\ orphan = EmptyStore(NoQuarantine)
  /\ agent = "down" /\ attached = FALSE /\ ends = NoQuarantine /\ cli = "idle"
  /\ requests = {} /\ times = [p \in Plans |-> 0] /\ lostUntil = 0

Next ==
  \/ \E p \in Plans : Bootstrap(p) \/ Submit(p)
  \/ \E r \in requests : Admit(r) \/ Refuse(r)
  \/ OpenExisting \/ OpenRecreate \/ FinishCreate \/ Crash
  \/ LoseFile \/ ResetReseed \/ ResetCreated \/ ResetMoveTrust \/ ResetCrash
  \/ Tick

Spec == Init /\ [][Next]_vars

----------------------------------------------------------------------------
(* Properties.                                                             *)

\* Every variable has the type the code gives it.
TypeOK ==
  /\ now \in Nat /\ trust \in BOOLEAN
  /\ path \in {"absent", "damaged", "partial", "store"}
  /\ disk \in Stores /\ orphan \in Stores
  /\ agent \in {"down", "creating", "up"} /\ attached \in BOOLEAN
  /\ ends \in Nat /\ cli \in {"idle", "creating", "reseeded"}
  /\ requests \subseteq [plan : Plans, at : Nat]
  /\ times \in [Plans -> Nat] /\ lostUntil \in Nat

\* A signed plan is admitted at most once, whatever crashes and whichever
\* store is lost or re-seeded in between (check_quarantine, check_time, seen).
AtMostOnce == \A p \in Plans : times[p] <= 1

\* No plan is admitted before the quarantine that the last loss or re-seed of
\* the store called for has ended (open, reseed, check_quarantine).
NoAdmissionInQuarantine == [][times' # times => now >= lostUntil]_vars

\* A store created without a quarantine was created before any plan was
\* admitted (the comment on meta.quarantine_ends_at).
NothingBeforeUnquarantined ==
  (agent = "creating" /\ ends = NoQuarantine) => \A p \in Plans : times[p] = 0

\* The operator stops the agent before a trust reset, and admissions.db does
\* not vanish while the server waits in bootstrap.
CarefulOperation == ~ResetWhileRunning /\ ~LossInBootstrap

\* Which processes can be active together, and what they find at the path.
Phases ==
  /\ attached => agent = "up" /\ path = "store"
  /\ agent = "up" /\ ~attached => path # "store" /\ trust
  /\ agent = "creating" => path = "partial" /\ cli = "idle"
  /\ cli # "idle" => agent = "down"
  /\ cli = "creating" => path = "partial"
  /\ cli = "reseeded" => path = "store"
  /\ \A r \in requests : r.at <= now

\* A plan that was ever admitted is held by every store an agent may use, or
\* cannot pass check_time any more once that store's quarantine has ended.
Remembered ==
  LET Safe(s, p) == p \in s.admissions \/ p.expires + Skew < s.ends
  IN  \A p \in Plans : times[p] > 0 =>
        /\ p.expires <= now + Skew + Lifetime
        /\ path = "store" => Safe(disk, p)
        /\ agent = "up" /\ ~attached => Safe(orphan, p)
        /\ agent = "creating" \/ cli = "creating" => p.expires + Skew < ends
        /\ trust \/ path # "absent"

\* Every store in use records the quarantine the latest loss called for.
QuarantineRecorded ==
  /\ lostUntil <= now + Quarantine
  /\ path = "store" => disk.ends = lostUntil
  /\ agent = "up" /\ ~attached => orphan.ends = lostUntil
  /\ agent = "creating" \/ cli = "creating" => ends = lostUntil
  /\ ~trust /\ path = "absent" => lostUntil = 0

\* Together inductive: no store in use has forgotten a plan that could still
\* be admitted (open, reseed, write_admission, check_time, check_quarantine).
NothingForgotten == Phases /\ Remembered /\ QuarantineRecorded
=============================================================================
