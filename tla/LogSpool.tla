------------------------------- MODULE LogSpool -------------------------------
(***************************************************************************)
(* The hosted agent's log path: container tails (src/src/container_logs.rs)*)
(* push redacted lines into a disk spool (spool.rs), and the forwarder     *)
(* (log_forwarder.rs) drains it to the control plane in batches.           *)
(*                                                                         *)
(* The spool has one lock; a batch is read, pushed and acknowledged in     *)
(* three steps without it.  A record is the number of its push and has the *)
(* size 1.  A crash may cut the record being appended, or the rewrite of   *)
(* the head segment.  An operator that takes s returns the spool after it. *)
(***************************************************************************)
EXTENDS Integers, Sequences, FiniteSets, SequencesExt, Functions

CONSTANTS
    SpoolLoads,     \* the containers' lines and what may fail; see LsInit
    MaxBytes,       \* log_spool_max_bytes, in records
    MaxSegment,     \* log_spool_segment_bytes, in records
    BatchMax        \* the records of a batch

ASSUME SpoolBounds == {MaxBytes, MaxSegment, BatchMax} \subseteq Nat \ {0}

VARIABLES
    disk,       \* the segment files: sequence -> records and damage
    sp,         \* SpoolState: segments, next_sequence, dropped_records
    batch,      \* the batch in flight, or <<>>
    tail,       \* TailRegistry and the tails: container -> the next line, for a container being tailed
    marks,      \* checkpoints.json and the checkpoints in memory: container -> since
    maps,       \* ContainerIdentityMappings: container -> app
    spNow, out, ended, crashed,
    pushed,     \* history: the records in their order: container, line, app, message
    arrived,    \* history: the records the control plane accepted, in their order
    dropped,    \* history: records that the budget or a crash took, or could not be decoded
    blind,      \* history: records acknowledged and never sent
    lsLoad

lsVars == <<disk, sp, batch, tail, marks, maps, spNow, out, ended, crashed, pushed, arrived, dropped, blind, lsLoad>>
history == <<pushed, arrived, dropped, blind>>

Drop1(f, x) == [y \in DOMAIN f \ {x} |-> f[y]]
Upd(f, x, v) == [y \in DOMAIN f \cup {x} |-> IF y = x THEN v ELSE f[y]]
Nothing == [x \in {} |-> 0]
SumOf(f) == FoldFunction(LAMBDA a, b : a + b, 0, f)

-----------------------------------------------------------------------------
(* The spool.  A file is sound, ends in a cut record or a cut header, or    *)
(* has records after one: then every later length is misread.               *)

MISREAD == MaxBytes + 1
scan_segment(file) ==
    CASE file.damage \in {"none", "header"} -> [bytes |-> Len(file.recs), records |-> Len(file.recs)]
      [] file.damage = "record" -> [bytes |-> Len(file.recs) + 1, records |-> Len(file.recs) + 1]
      [] file.damage = "inside" -> [bytes |-> MISREAD, records |-> Len(file.recs) + 1]

\* A cut header is the end of the file; a cut record is an error.
read_segment_payloads(file) == [ok |-> file.damage \in {"none", "header"}, recs |-> file.recs]

spool_bytes(s) == SumOf([i \in DOMAIN s.segs |-> s.segs[i].bytes])
spool_records(s) == SumOf([i \in DOMAIN s.segs |-> s.segs[i].records])

remove_head(s) == [s EXCEPT !.segs = Tail(@), !.disk = Drop1(@, Head(s.segs).id)]

\* Whole segments, the oldest first, until the rest fits.
enforce_budget(s0) ==
    LET round(s, i) ==
            IF s.segs = <<>> \/ spool_bytes(s) <= MaxBytes THEN s
            ELSE [remove_head(s) EXCEPT !.dropped = @ + Head(s.segs).records]
    IN  FoldLeft(round, s0, s0.segs)

\* Mutant: the next sequence is the number of files.
load_state_counted(files) ==
    LET ids == SetToSortSeq(DOMAIN files, <)
    IN  [segs |-> [i \in DOMAIN ids |-> [id |-> ids[i], bytes |-> scan_segment(files[ids[i]]).bytes,
                                         records |-> scan_segment(files[ids[i]]).records]],
         next |-> IF ids = <<>> THEN 0 ELSE Len(ids), dropped |-> 0, disk |-> files]

load_state(files) ==
    LET ids == SetToSortSeq(DOMAIN files, <)
    IN  [segs |-> [i \in DOMAIN ids |-> [id |-> ids[i], bytes |-> scan_segment(files[ids[i]]).bytes,
                                         records |-> scan_segment(files[ids[i]]).records]],
         next |-> IF ids = <<>> THEN 0 ELSE Last(ids) + 1, dropped |-> 0, disk |-> files]

spool_open(files) == enforce_budget(load_state(files))

writable_segment(s) ==
    IF s.segs # <<>> /\ Last(s.segs).bytes + 1 <= MaxSegment THEN s
    ELSE [s EXCEPT !.segs = Append(@, [id |-> s.next, bytes |-> 0, records |-> 0]),
                   !.disk = Upd(@, s.next, [recs |-> <<>>, damage |-> "none"]), !.next = @ + 1]

\* The record follows whatever the file ends in.
append_record(file, rid) ==
    IF file.damage = "none" THEN [file EXCEPT !.recs = Append(@, rid)] ELSE [file EXCEPT !.damage = "inside"]

append_bytes(s0, rid) ==
    LET s == writable_segment(s0)
        n == Len(s.segs)
    IN  enforce_budget([s EXCEPT !.disk[s.segs[n].id] = append_record(@, rid),
                                 !.segs[n].bytes = @ + 1, !.segs[n].records = @ + 1])

\* The records of the oldest segments, one batch full.
read_batch(s) ==
    LET recs(i) == read_segment_payloads(s.disk[s.segs[i].id]).recs
        before(i) == SumOf([j \in 1..(i - 1) |-> Len(recs(j))])
        read == {i \in DOMAIN s.segs : before(i) < BatchMax}
        all == FlattenSeq([i \in 1..Cardinality(read) |-> recs(i)])
    IN  [ok |-> \A i \in read : read_segment_payloads(s.disk[s.segs[i].id]).ok,
         recs |-> SubSeq(all, 1, IF Len(all) < BatchMax THEN Len(all) ELSE BatchMax)]

rewrite_segment(s, recs) ==
    [s EXCEPT !.disk[s.segs[1].id] = [recs |-> recs, damage |-> "none"],
              !.segs[1].bytes = Len(recs), !.segs[1].records = Len(recs)]

\* n records from the front, whichever they are by now.
spool_ack(s0, n) ==
    LET round(acc, i) ==
            IF acc.left = 0 \/ acc.s.segs = <<>> THEN acc
            ELSE LET g == acc.s.segs[1]
                     f == acc.s.disk[g.id]
                 IN  IF acc.left >= g.records THEN [s |-> remove_head(acc.s), left |-> acc.left - g.records, ok |-> TRUE]
                     ELSE IF ~read_segment_payloads(f).ok THEN [acc EXCEPT !.ok = FALSE, !.left = 0]
                     ELSE [s |-> rewrite_segment(acc.s, SubSeq(f.recs, acc.left + 1, Len(f.recs))), left |-> 0, ok |-> TRUE]
    IN  IF n = 0 \/ n > spool_records(s0) THEN s0
        ELSE FoldLeft(round, [s |-> s0, left |-> n, ok |-> TRUE], s0.segs).s

Spool == [segs |-> sp.segs, next |-> sp.next, dropped |-> sp.dropped, disk |-> disk]
Becomes2(s) == sp' = [segs |-> s.segs, next |-> s.next, dropped |-> s.dropped] /\ disk' = s.disk
Within(files) == UNION {Range(files[id].recs) : id \in {i \in DOMAIN files : files[i].damage # "inside"}}
Lost(s) == Within(disk) \ Within(s.disk)

-----------------------------------------------------------------------------
(* Lines.                                                                   *)

\* Words are plain, name a secret with its value (token=x), name one whose
\* value is the next word (token:, --token, bearer), or are a value.
is_secret_assignment(w) == w \in {"assign", "assign_next"}
is_secret_flag(w) == w \in {"flag", "label", "bearer"}
redact_log_message(words) ==
    LET step(acc, w) ==
            CASE acc.next -> [out |-> Append(acc.out, "redacted"), next |-> FALSE]
              [] ~acc.next /\ is_secret_assignment(w) -> [out |-> Append(acc.out, "redacted"), next |-> w = "assign_next"]
              [] ~acc.next /\ is_secret_flag(w) -> [out |-> Append(acc.out, w), next |-> TRUE]
              [] OTHER -> [out |-> Append(acc.out, w), next |-> FALSE]
    IN  FoldLeft(step, [out |-> <<>>, next |-> FALSE], words).out

lookup(c) == IF c \in DOMAIN maps THEN maps[c] ELSE ""
LogLines(c) == lsLoad.lines[c]

LsInit ==
    /\ lsLoad \in SpoolLoads
    /\ disk = Nothing /\ sp = [segs |-> <<>>, next |-> 0, dropped |-> 0] /\ batch = <<>>
    /\ tail = Nothing /\ marks = Nothing /\ maps = Nothing /\ spNow = 1 /\ out = 0 /\ ended = 0 /\ crashed = 0
    /\ pushed = <<>> /\ arrived = <<>> /\ dropped = {} /\ blind = {}

\* External: Docker gives the lines from a second on, the line's second included.
From(c, since) ==
    LET at == {i \in DOMAIN LogLines(c) : LogLines(c)[i].sec >= since} IN IF at = {} THEN Len(LogLines(c)) + 1 ELSE Min({Len(LogLines(c)) + 1} \cup at)

Marked(c) == Upd(marks, c, spNow)
resume_since(c) == IF c \in DOMAIN marks THEN marks[c] ELSE spNow

\* Every 15 s a tail for each container that has none.
try_mark_tailed ==
    /\ \E c \in DOMAIN lsLoad.lines \ DOMAIN tail :
         tail' = Upd(tail, c, [at |-> From(c, resume_since(c)), app |-> lookup(c)])
    /\ UNCHANGED <<disk, sp, batch, marks, maps, spNow, out, crashed, history, ended, lsLoad>>

mark_finished ==
    /\ ended < lsLoad.ends /\ ended' = ended + 1
    /\ \E c \in DOMAIN tail : tail' = Drop1(tail, c)
    /\ UNCHANGED <<disk, sp, batch, marks, maps, spNow, out, crashed, history, lsLoad>>

update_from_heartbeat ==
    /\ maps # lsLoad.apps /\ maps' = lsLoad.apps
    /\ UNCHANGED <<disk, sp, batch, tail, marks, spNow, out, crashed, history, ended, lsLoad>>

\* The line goes to the spool, then the checkpoint to the second it went.
forward_container_log_line ==
    \E c \in DOMAIN tail :
        LET i == tail[c].at
            rid == Len(pushed) + 1
            s == append_bytes(Spool, rid)
        IN  /\ i <= Len(LogLines(c)) /\ LogLines(c)[i].sec <= spNow
            /\ tail' = [tail EXCEPT ![c].at = i + 1]
            /\ Becomes2(s)
            /\ pushed' = Append(pushed, [container |-> c, line |-> i, at |-> spNow, app |-> tail[c].app,
                                         message |-> redact_log_message(LogLines(c)[i].words)])
            /\ dropped' = dropped \cup Lost(s) \cup (IF rid \in Within(s.disk) THEN {} ELSE {rid})
            /\ marks' = Marked(c)
            /\ UNCHANGED <<batch, maps, spNow, out, crashed, arrived, blind, ended, lsLoad>>

spool_clock ==
    /\ spNow < lsLoad.until /\ spNow' = spNow + 1
    /\ UNCHANGED <<disk, sp, batch, tail, marks, maps, out, crashed, history, ended, lsLoad>>

-----------------------------------------------------------------------------
(* The forwarder.                                                           *)

drain_once ==
    /\ batch = <<>>
    /\ read_batch(Spool).ok /\ read_batch(Spool).recs # <<>>
    /\ batch' = [recs |-> read_batch(Spool).recs, sent |-> FALSE]
    /\ UNCHANGED <<disk, sp, tail, marks, maps, spNow, out, crashed, history, ended, lsLoad>>

\* Records that do not decode are left out; if none is left, nothing is sent.
decode_spooled_log_records(recs) == SelectSeq(recs, LAMBDA r : r \notin lsLoad.corrupt)
push_logs ==
    /\ batch # <<>> /\ ~batch.sent
    /\ LET entries == decode_spooled_log_records(batch.recs)
       IN  \/ /\ batch' = [batch EXCEPT !.sent = TRUE]
              /\ arrived' = arrived \o entries /\ dropped' = dropped \cup (Range(batch.recs) \ Range(entries))
              /\ UNCHANGED out
           \/ /\ out < lsLoad.outages /\ out' = out + 1 /\ entries # <<>>
              /\ batch' = <<>>
              /\ \E heard \in BOOLEAN : arrived' = IF heard THEN arrived \o entries ELSE arrived
              /\ UNCHANGED dropped
    /\ UNCHANGED <<disk, sp, tail, marks, maps, spNow, crashed, pushed, blind, ended, lsLoad>>

ack_batch ==
    /\ batch # <<>> /\ batch.sent /\ batch' = <<>>
    /\ LET s == spool_ack(Spool, Len(batch.recs))
       IN  /\ Becomes2(s)
           /\ blind' = blind \cup (Lost(s) \ Range(batch.recs))
    /\ UNCHANGED <<tail, marks, maps, spNow, out, crashed, pushed, arrived, dropped, ended, lsLoad>>

-----------------------------------------------------------------------------
(* Crashes: between steps, in the last append, or in the rewrite of the     *)
(* head, which truncates the file first.                                    *)

Comes_back(files) ==
    /\ crashed < lsLoad.crashes /\ crashed' = crashed + 1
    /\ LET s == spool_open(files)
       IN  Becomes2(s) /\ dropped' = dropped \cup Lost(s)
    /\ batch' = <<>> /\ tail' = Nothing /\ maps' = Nothing
    /\ UNCHANGED <<marks, spNow, out, pushed, arrived, blind, ended, lsLoad>>

spool_reopens == Comes_back(disk)
crash_in_append ==
    \E damage \in {"record", "header"} :
        LET s == writable_segment(Spool)
            id == Last(s.segs).id
        IN  /\ s.disk[id].damage = "none"
            /\ Comes_back([s.disk EXCEPT ![id].damage = damage])
crash_in_ack ==
    /\ batch # <<>> /\ batch.sent /\ sp.segs # <<>>
    /\ Len(batch.recs) < sp.segs[1].records /\ disk[sp.segs[1].id].damage = "none"
    /\ \E n \in 0..(sp.segs[1].records - Len(batch.recs) - 1) :
         LET id == sp.segs[1].id
             rest == SubSeq(disk[id].recs, Len(batch.recs) + 1, Len(disk[id].recs))
         IN  Comes_back([disk EXCEPT ![id].recs = SubSeq(rest, 1, n)])

LsNext == forward_container_log_line \/ drain_once \/ push_logs \/ ack_batch \/ try_mark_tailed \/ mark_finished
          \/ update_from_heartbeat \/ spool_clock \/ spool_reopens \/ crash_in_append \/ crash_in_ack

-----------------------------------------------------------------------------
Stored == FlattenSeq([i \in DOMAIN sp.segs |-> disk[sp.segs[i].id].recs])
Firsts == SelectSeq([i \in DOMAIN arrived |-> <<arrived[i], \A j \in 1..(i - 1) : arrived[j] # arrived[i]>>], LAMBDA x : x[2])

\* Every line that was pushed is in the spool, has arrived, or was dropped
\* with its segment, by a crash or by an acknowledgement that followed a
\* drop; and lines wait and first arrive in the order they were pushed
\* (append_bytes, enforce_budget, spool_ack).
NoLineForgotten ==
    /\ \A r \in DOMAIN pushed : r \in Range(Stored) \cup Range(arrived) \cup dropped \cup blind
    /\ \A i, j \in DOMAIN Stored : i < j => Stored[i] < Stored[j]
    /\ \A i, j \in DOMAIN Firsts : i < j => Firsts[i][1] < Firsts[j][1]
    /\ blind # {} => sp.dropped > 0 \/ crashed > 0

\* The counters the heartbeat reports are what the files hold, within the
\* budget, while no crash has cut a record.
CountersTrue ==
    (\A id \in DOMAIN disk : disk[id].damage = "none") =>
        /\ DOMAIN disk = {sp.segs[i].id : i \in DOMAIN sp.segs}
        /\ \A i \in DOMAIN sp.segs : sp.segs[i].records = Len(disk[sp.segs[i].id].recs) /\ sp.segs[i].bytes = sp.segs[i].records
        /\ spool_bytes(sp) <= MaxBytes

\* A line is pushed again only after its tail ended or the agent did, and
\* only if it went in the second it was written, which is the checkpoint's;
\* and the value after a word that names a secret never reaches the spool.
LinesOnceOrMarked ==
    /\ \A i, j \in DOMAIN pushed :
         (i < j /\ pushed[i].container = pushed[j].container /\ pushed[i].line = pushed[j].line) =>
             ended + crashed > 0 /\ pushed[i].at = LogLines(pushed[i].container)[pushed[i].line].sec
    /\ \A i \in DOMAIN pushed :
         LET m == pushed[i].message IN
         \A k \in DOMAIN m : (k > 1 /\ m[k] = "value") => m[k - 1] \in {"plain", "redacted", "value"}

SpoolKeeps == NoLineForgotten /\ CountersTrue /\ LinesOnceOrMarked

\* "ack_removes_only_consumed_prefix" (spool.rs:528): an acknowledgement
\* removes no record that was not in the batch.
AckOnlyConsumed == blind = {}
===============================================================================
