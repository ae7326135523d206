--------------------------- MODULE TelemetryStore ---------------------------
(***************************************************************************)
(* The telemetry store and its writer (src/src/local/telemetry/store.rs    *)
(* and mod.rs), for one of the five kinds, which share only the disk.      *)
(*                                                                         *)
(* Records are queued by submit, appended and flushed by the writer under  *)
(* the store's lock, kept in segments per producer, evicted by age and     *)
(* size, and read through a snapshot.  A crash loses the queue and what    *)
(* the writer had not flushed.  Every record has the size 1; `rid` names   *)
(* it and is not stored.  st is the Store; an operator that takes st       *)
(* returns the Store after the call.                                       *)
(***************************************************************************)
EXTENDS Integers, Sequences, FiniteSets, SequencesExt, Functions

CONSTANTS
    TelLoads,       \* what is stored at the start and what may be submitted; see TsInit
    SegmentMax,     \* segment_max_bytes, in records
    SegmentAge,     \* segment_max_age, in ticks
    BlockRecords,   \* BLOCK_BYTES, in records
    QueueMax,       \* QUEUE_BYTES, in records
    EvictedSpans,   \* EVICTED_SPANS
    TelCrashes      \* bound on restarts

ASSUME TelBounds == {SegmentMax, SegmentAge, BlockRecords, QueueMax, EvictedSpans} \subseteq Nat \ {0}

VARIABLES
    st,         \* the Store: segments in memory, files, next_seq, guard, counters, evicted spans, policy
    waiting,    \* the ingest queue, in order
    writing,    \* the writer is inside its batch and holds the lock
    barriers,   \* the barriers of the batch
    watched,    \* the last ingest_seq announced to followers
    lost,       \* records that submit dropped
    view,       \* a snapshot, or <<>>
    tnow, tcrashes,
    born,       \* history: the number of records ever submitted
    base,       \* history: born at the last start
    refused,    \* history: records dropped, evicted, or lost with a crash
    synced,     \* history: records submitted before a sync that returned
    handed,     \* history: cursors given out since the start, with the record they stood for
    tsLoad

tsVars == <<st, waiting, writing, barriers, watched, lost, view, tnow, tcrashes, born, base, refused, synced, handed, tsLoad>>
ghosts == <<born, base, refused, synced, handed>>

Sum(S, f(_)) == FoldFunction(LAMBDA x, n : x + n, 0, [x \in S |-> f(x)])
Least(S) == CHOOSE x \in S : \A y \in S : x <= y
Greatest(S) == CHOOSE x \in S : \A y \in S : x >= y
With(f, x, v) == [y \in DOMAIN f \cup {x} |-> IF y = x THEN v ELSE f[y]]
Less(f, x) == [y \in DOMAIN f \ {x} |-> f[y]]

NoCounters == [dropped |-> 0, appended |-> 0, evicted |-> 0]
GuardState == [paused |-> FALSE, system_paused |-> FALSE]

-----------------------------------------------------------------------------
(* Segments.                                                                *)

Bytes(segment) == Len(segment.recs)
producer_bytes(s, p) == Sum(DOMAIN s.segs[p], LAMBDA i : Bytes(s.segs[p][i]))
Total(s) == Sum(DOMAIN s.segs, LAMBDA p : producer_bytes(s, p))
MinTs(g) == Least({g.recs[i].ts : i \in DOMAIN g.recs})
MaxTs(g) == Greatest({g.recs[i].ts : i \in DOMAIN g.recs})
LastSeq(g) == IF g.recs = <<>> THEN g.first ELSE g.recs[Len(g.recs)].seq
is_otlp(p) == p \in tsLoad.otlp
FilesOf(s, p) == IF p \in DOMAIN s.files THEN s.files[p] ELSE [n \in {} |-> 0]

\* What the buffer of an open segment still held goes to its file.
flush_one(s, p) ==
    IF p \notin s.open THEN s
    ELSE LET g == s.segs[p][Len(s.segs[p])] IN [s EXCEPT !.files[p][g.first].recs = g.recs]
store_flush(s) == FoldLeft(flush_one, s, SetToSeq(s.open))

\* The index gets its summary; the segment is never written again.
close_open(s, p) ==
    IF p \notin s.open THEN s
    ELSE LET n == Len(s.segs[p])
             g == s.segs[p][n]
         IN  [flush_one(s, p) EXCEPT !.files[p][g.first].summary = TRUE, !.segs[p][n].closed = TRUE, !.open = @ \ {p}]
close_all(s) == FoldLeft(close_open, s, SetToSeq(s.open))

\* Both files are created anew; one left by a failed attempt is in the way.
open_segment(s, p, fault) ==
    LET file == [recs |-> <<>>, torn |-> FALSE, summary |-> FALSE]
        taken == s.next \in DOMAIN FilesOf(s, p)
        made == [s EXCEPT !.files = With(@, p, With(FilesOf(s, p), s.next, file))]
        segment == [first |-> s.next, recs |-> <<>>, closed |-> FALSE, opened |-> tnow]
        old == IF p \in DOMAIN s.segs THEN s.segs[p] ELSE <<>>
    IN  IF taken THEN [ok |-> FALSE, s |-> s]
        ELSE IF fault THEN [ok |-> FALSE, s |-> made]
        ELSE [ok |-> TRUE, s |-> [made EXCEPT !.segs = With(@, p, Append(old, segment)), !.open = @ \cup {p}]]

try_append(s0, p, r, fault) ==
    LET last == s0.segs[p][Len(s0.segs[p])]
        rotate == p \in s0.open /\ (Len(last.recs) + 1 > SegmentMax \/ tnow - last.opened >= SegmentAge)
        s1 == IF rotate THEN close_open(s0, p) ELSE s0
        o == IF p \in s1.open THEN [ok |-> TRUE, s |-> s1] ELSE open_segment(s1, p, fault)
        n == Len(o.s.segs[p])
    IN  IF ~o.ok THEN o
        ELSE [ok |-> TRUE, s |-> [o.s EXCEPT !.segs[p][n].recs = Append(@, [r EXCEPT !.seq = o.s.next]), !.next = @ + 1]]

append(s, p, r, fault) ==
    LET paused == IF p = "system" THEN s.guard.system_paused ELSE s.guard.paused
        a == try_append(s, p, r, fault)
    IN  IF paused THEN [ok |-> FALSE, s |-> [s EXCEPT !.counters.dropped = @ + 1]]
        ELSE IF a.ok THEN [ok |-> TRUE, s |-> [a.s EXCEPT !.counters.appended = @ + 1]]
        ELSE [ok |-> FALSE, s |-> [a.s EXCEPT !.counters.dropped = @ + 1]]

\* The guard pauses below 5%, and lets go only above 8%.
check_disk(s, level) ==
    [s EXCEPT !.guard.paused = IF level \in {"low", "empty"} THEN TRUE ELSE IF level = "high" THEN FALSE ELSE @,
              !.guard.system_paused = level = "empty"]

delete_oldest(s0, p) ==
    LET s == IF s0.segs[p][1].closed THEN s0 ELSE close_open(s0, p)
        g == s.segs[p][1]
        spans == IF g.recs = <<>> THEN s.evicted
                 ELSE Append(IF Len(s.evicted) = EvictedSpans THEN Tail(s.evicted) ELSE s.evicted, <<MinTs(g), MaxTs(g)>>)
        only == Len(s.segs[p]) = 1
    IN  [s EXCEPT !.segs = IF only THEN Less(@, p) ELSE [@ EXCEPT ![p] = Tail(@)],
                  !.files = IF only /\ DOMAIN s.files[p] = {g.first} THEN Less(@, p) ELSE [@ EXCEPT ![p] = Less(@, g.first)],
                  !.counters.evicted = @ + Len(g.recs),
                  !.evicted = spans]

cutoff(s) == tnow - s.policy.max_age
Expired(s, p) ==
    /\ p \in DOMAIN s.segs
    /\ LET g == s.segs[p][1] IN g.closed /\ g.recs # <<>> /\ MaxTs(g) < cutoff(s)

\* The producer that has to give up its oldest segment, if any.
Victims(s) ==
    LET max == s.policy.max_bytes
        reserved == max \div 4
        others == {p \in DOMAIN s.segs \ {"system"} : producer_bytes(s, p) > 0}
        share == (max - reserved) \div Cardinality(others)
        otlp == {p \in others : is_otlp(p)}
        pool == IF Sum(otlp, LAMBDA p : producer_bytes(s, p)) > max \div 2 THEN otlp ELSE others
        above == {p \in pool : producer_bytes(s, p) > share}
    IN  IF "system" \in DOMAIN s.segs /\ producer_bytes(s, "system") > reserved THEN {"system"}
        ELSE IF others = {} THEN {}
        ELSE {p \in above : \A q \in above : producer_bytes(s, q) <= producer_bytes(s, p)}

\* A loop whose body runs at most once for every segment there is.
Rounds(s) == [i \in 1..Sum(DOMAIN s.segs, LAMBDA p : Len(s.segs[p])) |-> i]
evict_size(s0) ==
    LET target == (s0.policy.max_bytes \div 10) * 9
        round(s, i) == IF Total(s) <= target \/ Victims(s) = {} THEN s
                       ELSE delete_oldest(s, CHOOSE p \in Victims(s) : TRUE)
    IN  IF Total(s0) <= s0.policy.max_bytes THEN s0 ELSE FoldLeft(round, s0, Rounds(s0))

enforce(s0) ==
    LET stale == {p \in s0.open : tnow - s0.segs[p][Len(s0.segs[p])].opened >= SegmentAge}
        s1 == FoldLeft(close_open, s0, SetToSeq(stale))
        aged(s, p) == FoldLeft(LAMBDA x, i : IF Expired(x, p) THEN delete_oldest(x, p) ELSE x, s, Rounds(s))
        s2 == FoldLeft(aged, s1, SetToSeq(DOMAIN s1.segs))
    IN  evict_size(s2)

\* Mutant: a segment that was open at a crash is not recovered.
load_segment_closed(first, file) ==
    IF file.summary THEN {[first |-> first, recs |-> file.recs, closed |-> TRUE, opened |-> 0]} ELSE {}

\* A file without a summary is scanned and cut, and closed; an empty one goes.
load_segment(first, file) ==
    IF file.summary \/ file.recs # <<>> THEN {[first |-> first, recs |-> file.recs, closed |-> TRUE, opened |-> 0]} ELSE {}

load_kind(files) ==
    LET kept(p) == UNION {load_segment(n, files[p][n]) : n \in DOMAIN files[p]}
        order(S) == SetToSortSeq(S, LAMBDA a, b : a.first < b.first)
        present == {p \in DOMAIN files : kept(p) # {}}
        segs == [p \in present |-> order(kept(p))]
    IN  [segs |-> segs, open |-> {},
         files |-> [p \in present |-> [n \in {g.first : g \in kept(p)} |->
                        [files[p][n] EXCEPT !.summary = TRUE, !.torn = FALSE]]],
         next |-> 1 + Greatest({0} \cup {LastSeq(g) : g \in UNION {kept(p) : p \in present}}),
         guard |-> GuardState, counters |-> NoCounters, evicted |-> <<>>]

\* An unknown version moves the directory aside.
store_open(files, known, policy) ==
    LET s == load_kind(IF known THEN files ELSE [p \in {} |-> 0])
    IN  [x \in DOMAIN s \cup {"policy"} |-> IF x = "policy" THEN policy ELSE s[x]]

valid_retention(policy) == policy.max_age >= 1 /\ policy.max_bytes >= 4

-----------------------------------------------------------------------------
(* Reading.  A scan merges one reader per producer by ingest_seq.           *)

snapshot(s) ==
    [segs |-> [p \in DOMAIN s.segs |-> SelectSeq(s.segs[p], LAMBDA g : g.recs # <<>>)], min_ts |-> cutoff(s)]

\* Mutant: a segment that began at or before the cursor is passed over.
wanted_segment_after(g, spec, min_ts) ==
    MaxTs(g) >= spec.from /\ MaxTs(g) >= min_ts /\ MinTs(g) <= spec.to /\ g.first > spec.after /\ spec.before > g.first

wanted_segment(g, spec, min_ts) ==
    /\ MaxTs(g) >= spec.from /\ MaxTs(g) >= min_ts
    /\ MinTs(g) <= spec.to
    /\ LastSeq(g) > spec.after
    /\ spec.before > g.first

\* The records of a segment, block by block; the blocks wholly before the
\* cursor are skipped.
read_segment(g, spec, min_ts) ==
    LET starts == {i \in DOMAIN g.recs : (i - 1) % BlockRecords = 0}
        early == {i \in starts : g.recs[i].seq <= spec.after + 1}
        from == IF ~spec.forward \/ spec.after = 0 \/ early = {} THEN 1 ELSE Greatest(early)
        read == SubSeq(g.recs, from, Len(g.recs))
        keep(r) == /\ r.seq > spec.after /\ r.seq < spec.before
                   /\ r.ts >= spec.from /\ r.ts >= min_ts /\ r.ts <= spec.to
        out == SelectSeq(read, keep)
    IN  IF spec.forward THEN out ELSE Reverse(out)

\* A segment evicted since the snapshot is passed over.
fill(segments, files, spec, min_ts) ==
    LET there == SelectSeq(segments, LAMBDA g : wanted_segment(g, spec, min_ts) /\ g.first \in DOMAIN files)
        order == IF spec.forward THEN there ELSE Reverse(there)
    IN  FlattenSeq([i \in DOMAIN order |-> read_segment(order[i], spec, min_ts)])

scan(v, files, spec) ==
    LET ps == {p \in DOMAIN v.segs : p \in spec.producers}
        reader == [p \in ps |-> fill(v.segs[p], IF p \in DOMAIN files THEN files[p] ELSE [n \in {} |-> 0], spec, v.min_ts)]
        Ahead(a, b) == IF spec.forward THEN a < b ELSE a > b
        pop(acc, i) ==
            LET left == {p \in ps : acc.at[p] < Len(reader[p])}
                head(p) == reader[p][acc.at[p] + 1].seq
                p == CHOOSE p \in left : \A q \in left : q # p => Ahead(head(p), head(q))
            IN  [at |-> [acc.at EXCEPT ![p] = @ + 1], out |-> Append(acc.out, reader[p][acc.at[p] + 1])]
        n == Sum(ps, LAMBDA p : Len(reader[p]))
    IN  FoldLeft(pop, [at |-> [p \in ps |-> 0], out |-> <<>>], [i \in 1..n |-> i]).out

cursor_live(s, c) ==
    /\ c.producer \in DOMAIN s.segs
    /\ \E i \in DOMAIN s.segs[c.producer] :
         LET g == s.segs[c.producer][i] IN g.first = c.segment /\ c.seq <= LastSeq(g)

usage(s) == [bytes |-> Total(s), dropped |-> s.counters.dropped + lost, evicted |-> s.counters.evicted]

-----------------------------------------------------------------------------
(* The service around the store.                                            *)

Kept(s) == {r.rid : r \in UNION {Range(g.recs) : g \in UNION {Range(s.segs[p]) : p \in DOMAIN s.segs}}}
OnDisk(s) == {r.rid : r \in UNION {UNION {Range(s.files[p][n].recs) : n \in DOMAIN s.files[p]} : p \in DOMAIN s.files}}

TsInit ==
    /\ tsLoad \in TelLoads
    /\ st = store_open(tsLoad.files, TRUE, tsLoad.policy)
    /\ waiting = <<>> /\ writing = FALSE /\ barriers = {} /\ watched = st.next - 1 /\ lost = 0
    /\ view = <<>> /\ tnow = tsLoad.start /\ tcrashes = 0
    /\ born = tsLoad.stored /\ base = tsLoad.stored /\ refused = {} /\ synced = {} /\ handed = {}

submit_to(p, ts) ==
    LET paused == IF p = "system" THEN st.guard.system_paused ELSE st.guard.paused
        queued == Cardinality({i \in DOMAIN waiting : waiting[i].item = "record"})
        rid == born + 1
        r == [item |-> "record", producer |-> p, rec |-> [seq |-> 0, ts |-> ts, rid |-> rid]]
    IN  /\ born' = rid
        /\ IF paused \/ queued + 1 > QueueMax
           THEN lost' = lost + 1 /\ refused' = refused \cup {rid} /\ UNCHANGED waiting
           ELSE waiting' = Append(waiting, r) /\ UNCHANGED <<lost, refused>>

submit ==
    /\ born < tsLoad.records
    /\ \E p \in tsLoad.producers, ts \in tsLoad.times : submit_to(p, ts)
    /\ UNCHANGED <<st, writing, barriers, watched, view, tnow, tcrashes, base, synced, handed, tsLoad>>

\* sync queues a barrier; it returns when the writer has passed it.
sync ==
    /\ tsLoad.syncs /\ ~\E i \in DOMAIN waiting : waiting[i].item = "barrier"
    /\ waiting' = Append(waiting, [item |-> "barrier", before |-> 1..born])
    /\ UNCHANGED <<st, writing, barriers, watched, lost, view, tnow, tcrashes, ghosts, tsLoad>>

\* The writer takes one item, under the lock it keeps until writer_end.
writer ==
    /\ waiting # <<>> /\ waiting' = Tail(waiting) /\ writing' = TRUE
    /\ LET item == Head(waiting) IN
       \/ /\ item.item = "record"
          /\ \E fault \in (IF tsLoad.faults THEN BOOLEAN ELSE {FALSE}) :
               LET a == append(st, item.producer, item.rec, fault)
               IN  /\ st' = a.s
                   /\ refused' = IF a.ok THEN refused ELSE refused \cup {item.rec.rid}
          /\ UNCHANGED barriers
       \/ /\ item.item = "barrier"
          /\ barriers' = barriers \cup {item.before}
          /\ UNCHANGED <<st, refused>>
    /\ UNCHANGED <<watched, lost, view, tnow, tcrashes, born, base, synced, handed, tsLoad>>

writer_end ==
    /\ writing /\ writing' = FALSE
    /\ st' = store_flush(st) /\ watched' = st.next - 1
    /\ synced' = synced \cup UNION barriers /\ barriers' = {}
    /\ UNCHANGED <<waiting, lost, view, tnow, tcrashes, born, base, refused, handed, tsLoad>>

Evicts(s) == /\ st' = s
             /\ refused' = refused \cup (Kept(st) \ Kept(s))

maintain ==
    /\ ~writing
    /\ Evicts(enforce(st)) /\ st' # st
    /\ UNCHANGED <<waiting, writing, barriers, watched, lost, view, tnow, tcrashes, born, base, synced, handed, tsLoad>>

set_retention ==
    /\ ~writing
    /\ \E policy \in tsLoad.policies :
         /\ valid_retention(policy) /\ policy # st.policy
         /\ Evicts(enforce([st EXCEPT !.policy = policy]))
    /\ UNCHANGED <<waiting, writing, barriers, watched, lost, view, tnow, tcrashes, born, base, synced, handed, tsLoad>>

disk_changes ==
    /\ ~writing
    /\ \E level \in tsLoad.levels : st' = check_disk(st, level) /\ st' # st
    /\ UNCHANGED <<waiting, writing, barriers, watched, lost, view, tnow, tcrashes, ghosts, tsLoad>>

\* A query flushes, takes its view and hands out cursors.
query ==
    /\ ~writing /\ tsLoad.reads
    /\ view' = snapshot(store_flush(st)) /\ st' = store_flush(st) /\ view' # view
    /\ handed' = handed \cup
         UNION {UNION {{[producer |-> p, segment |-> g.first, seq |-> r.seq, rid |-> r.rid] : r \in Range(g.recs)} :
                          g \in Range(st.segs[p])} : p \in DOMAIN st.segs}
    /\ UNCHANGED <<waiting, writing, barriers, watched, lost, tnow, tcrashes, born, base, refused, synced, tsLoad>>

tel_tick ==
    /\ tnow < tsLoad.until /\ tnow' = tnow + 1
    /\ UNCHANGED <<st, waiting, writing, barriers, watched, lost, view, tcrashes, ghosts, tsLoad>>

\* A shutdown closes every segment; a crash leaves a prefix of the buffer,
\* and perhaps a torn frame, in the file.
Restarted(files, known) ==
    /\ tcrashes < TelCrashes /\ tcrashes' = tcrashes + 1
    /\ st' = store_open(files, known, st.policy)
    /\ waiting' = <<>> /\ writing' = FALSE /\ barriers' = {} /\ lost' = 0 /\ view' = <<>>
    /\ watched' = st'.next - 1 /\ base' = born
    /\ refused' = refused \cup ((1..born) \ Kept(st')) /\ handed' = {}
    /\ UNCHANGED <<tnow, born, synced, tsLoad>>

shutdown == ~writing /\ Restarted(close_all(store_flush(st)).files, TRUE)
crash_store ==
    /\ tsLoad.crashes
    /\ \E kept \in [st.open -> 0..SegmentMax], torn \in BOOLEAN, known \in (IF tsLoad.resets THEN BOOLEAN ELSE {TRUE}) :
         /\ \A p \in st.open :
              LET g == st.segs[p][Len(st.segs[p])]
              IN  Len(st.files[p][g.first].recs) <= kept[p] /\ kept[p] <= Len(g.recs)
         /\ Restarted([p \in DOMAIN st.files |-> [n \in DOMAIN st.files[p] |->
                IF p \in st.open /\ n = st.segs[p][Len(st.segs[p])].first
                THEN [recs |-> SubSeq(st.segs[p][Len(st.segs[p])].recs, 1, kept[p]), torn |-> torn, summary |-> FALSE]
                ELSE st.files[p][n]]], known)

TsNext == submit \/ writer \/ writer_end \/ sync \/ maintain \/ set_retention \/ disk_changes \/ query
          \/ tel_tick \/ shutdown \/ crash_store

-----------------------------------------------------------------------------
Segments(s) == UNION {{<<p, i>> : i \in DOMAIN s.segs[p]} : p \in DOMAIN s.segs}

\* An ingest_seq names one record, grows within a producer, and is below
\* next_seq; a file's name is the first seq in it (try_append, load_kind).
SeqsInOrder ==
    /\ \A a, b \in Segments(st) :
         LET g == st.segs[a[1]][a[2]] h == st.segs[b[1]][b[2]] IN
         /\ a # b => {r.seq : r \in Range(g.recs)} \cap {r.seq : r \in Range(h.recs)} = {}
         /\ (a[1] = b[1] /\ a[2] < b[2]) => g.first < h.first /\ LastSeq(g) < h.first
         /\ \A i \in DOMAIN g.recs : g.recs[i].seq < st.next /\ (i > 1 => g.recs[i].seq > g.recs[i - 1].seq)
    /\ ~writing => watched = st.next - 1

\* Every record submitted since the start is queued, stored or counted:
\* dropped by submit or by the store, or evicted.
Accounted ==
    /\ born - base = Cardinality({i \in DOMAIN waiting : waiting[i].item = "record"})
                          + usage(st).dropped + st.counters.appended
    /\ \A rid \in 1..born : (rid \in Kept(st)) => rid \notin refused

\* What was submitted before a sync that returned survives a crash, unless
\* it was dropped or evicted (writer, store_flush, load_segment).
SyncedIsSafe == (synced \ refused) \subseteq OnDisk(st)

\* A scan gives every record of its view that is still there and fits,
\* in ingest order or its reverse, whatever blocks and segments it skips.
Specs == [forward : BOOLEAN, after : {0, 1, 2, 3}, before : {2, 100}, from : {0, 2}, to : {1, 100},
          producers : {tsLoad.producers}]
ScanComplete ==
    (view # <<>> /\ ~writing) =>
        \A spec \in Specs :
            LET out == scan(view, st.files, spec)
                there == UNION {UNION {{r \in Range(g.recs) : g.first \in DOMAIN FilesOf(st, p)} : g \in Range(view.segs[p])} :
                                   p \in DOMAIN view.segs}
                fit == {r \in there : r.seq > spec.after /\ r.seq < spec.before /\ r.ts >= spec.from /\ r.ts <= spec.to
                                      /\ r.ts >= view.min_ts}
            IN  /\ Range(out) = fit /\ Len(out) = Cardinality(fit)
                /\ \A i, j \in DOMAIN out : i < j => (spec.forward <=> out[i].seq < out[j].seq)

\* "Whether a cursor's segment is still stored" (store.rs:1162): until the
\* agent starts again, a live cursor stands for the record it was given out
\* for, whatever was evicted and appended meanwhile.
CursorStable ==
    \A c \in handed :
        cursor_live(st, c) =>
            \E i \in DOMAIN st.segs[c.producer] :
                LET g == st.segs[c.producer][i] IN
                g.first = c.segment /\ \A r \in Range(g.recs) : r.seq = c.seq => r.rid = c.rid

\* The store as its callers see it: a queued or unflushed record is accepted,
\* one in a file is durable.  Every step is one of RecordLog; a restart may
\* lose accepted records and never a durable one (writer, store_flush,
\* delete_oldest, load_kind), if the version of the directory is known.
Queued == {waiting[i].rec.rid : i \in {i \in DOMAIN waiting : waiting[i].item = "record"}}
R == INSTANCE RecordLog WITH accepted <- Queued \cup (Kept(st) \ OnDisk(st)), durable <- OnDisk(st),
                             gone <- refused, epoch <- tcrashes

\* The store loses no record silently and reads what it has.
StoreKeeps == SeqsInOrder /\ Accounted /\ SyncedIsSafe /\ ScanComplete /\ CursorStable

\* "above `max_bytes` down to 90%" (store.rs:22): once maintenance has
\* nothing left to do the kind is within its limit.
WithinLimit == (~writing /\ enforce(st) = st) => Total(st) <= st.policy.max_bytes
=============================================================================
