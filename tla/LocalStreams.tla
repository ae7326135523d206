------------------------------ MODULE LocalStreams ------------------------------
(***************************************************************************)
(* What the clients of the local socket see of the agent over time:        *)
(* EventService.Subscribe and its ring (src/src/local/events.rs),          *)
(* WatchOperation and the paged lists (src/src/local/change.rs), and the   *)
(* presence of the engine with its away summary (src/src/local/presence.rs *)
(* and the two tasks of src/src/local/mod.rs that feed it).                *)
(*                                                                         *)
(* A broadcast channel is the sequence of all it was sent, and a receiver  *)
(* the position it reads next; one that is further behind than the buffer  *)
(* is told so and moves to the oldest event kept.  A client that does not  *)
(* read is a stream that takes no step.                                    *)
(***************************************************************************)
EXTENDS Integers, Sequences, FiniteSets, SequencesExt

CONSTANTS
    StreamLoads,        \* what is published, recorded, asked and by whom
    Retained,           \* RETAINED_EVENTS
    LiveBuffer,         \* LIVE_BUFFER
    OpBuffer,           \* the capacity of ChangeCore::operations
    Silence,            \* SILENCE_SECONDS
    MaxTracked          \* MAX_TRACKED_OPERATIONS

ASSUME StreamAssumption == {Retained, LiveBuffer, OpBuffer, Silence, MaxTracked} \subseteq Nat \ {0}

VARIABLES
    boot, sent,         \* the boot id and every event published since
    published,          \* how much of the load was published
    subs,               \* Subscribe streams
    engine,             \* Presence::state
    feedAt,             \* the position of the presence feed
    lastStatus,         \* whether the last status event said online
    opEvents,             \* operation -> its recorded events: is it the last?
    chan,               \* what ChangeCore::operations was sent
    writers,            \* tasks that record: what is left, and what is not sent yet
    watches,            \* WatchOperation streams
    ledger,             \* admissions, oldest first: "open" or "ended"
    readers,            \* paging clients
    leftConns,               \* closed connections
    streamNow, streamLoad

busVars == <<boot, sent, published>>
opVars == <<opEvents, chan, writers>>
pageVars == <<ledger, readers>>
presenceVars == <<engine, feedAt, lastStatus, leftConns, streamNow>>
stVars == <<busVars, subs, opVars, watches, pageVars, presenceVars, streamLoad>>

None == -1
Elems(s) == {s[i] : i \in DOMAIN s}
WithEntry(f, x, v) == [y \in DOMAIN f \cup {x} |-> IF y = x THEN v ELSE f[y]]
Drop(f, x) == [y \in DOMAIN f \ {x} |-> f[y]]
Empty == [x \in {} |-> 0]
Above(n, m) == [i \in 1..(m - n) |-> n + i]

-----------------------------------------------------------------------------
(* Presence.                                                                *)

AwayKinds == {"operation", "operation_failed", "rule_deploy", "server_build_failed", "webhook_delivery",
              "alert_fired", "cron_failed", "cron_missed", "backup_failed", "verification_failed"}
NoAway == [k \in AwayKinds |-> 0]
NoEngine == [sessions |-> Empty, online |-> FALSE, lastSeen |-> None, since |-> None, until |-> None, counts |-> NoAway, tracked |-> {}]

live(p) == \E c \in DOMAIN p.sessions : p.sessions[c].subscribes > 0 \/ streamNow - p.sessions[c].last < Silence
offline_period(p) == ~p.online /\ p.since # None /\ p.until = None

\* Presence after a change: the first session freezes the summary of the
\* offline period, the end of the last one starts a new one.
settle(p) ==
    LET q == IF live(p) THEN [p EXCEPT !.lastSeen = streamNow] ELSE p
    IN  IF live(p) = p.online THEN q
        ELSE IF live(p) THEN [q EXCEPT !.online = TRUE, !.until = IF q.since # None THEN streamNow ELSE @]
        ELSE [q EXCEPT !.online = FALSE, !.since = streamNow, !.until = None, !.counts = NoAway, !.tracked = {}]

Session(p, c, add) ==
    IF c \in DOMAIN p.sessions
    THEN [p EXCEPT !.sessions[c] = [last |-> streamNow, subscribes |-> IF @.subscribes + add < 0 THEN 0 ELSE @.subscribes + add]]
    ELSE p
subscribe_opened(p, c) == settle(Session(p, c, 1))
subscribe_closed(p, c) == settle(Session(p, c, -1))

count(p, k) == [p EXCEPT !.counts[k] = @ + 1]
\* An event of an offline period is counted, an operation once.
away_record(p, e) ==
    IF ~offline_period(p) THEN p
    ELSE IF e.kind # "operation" THEN count(p, e.kind)
    ELSE IF Cardinality(p.tracked) >= MaxTracked \/ e.id \in p.tracked THEN p
    ELSE LET q == [count(p, "operation") EXCEPT !.tracked = @ \cup {e.id}]
         IN  IF e.failed THEN count(q, "operation_failed") ELSE q

\* Which events of the agent count, and as what.
away_event(e) ==
    CASE e.kind = "operation" /\ e.state \in {"succeeded", "failed", "cancelled", "rolled_back"} ->
            {[kind |-> "operation", id |-> e.id, failed |-> e.state \in {"failed", "rolled_back"}]}
      [] e.kind = "alert" /\ e.state = "firing" -> {[kind |-> "alert_fired"]}
      [] e.kind = "cron_run" /\ e.state \in {"failed", "timed_out"} -> {[kind |-> "cron_failed"]}
      [] e.kind = "cron_run" /\ e.state = "missed" -> {[kind |-> "cron_missed"]}
      [] e.kind = "backup_run" /\ e.state \in {"failed", "missed"} -> {[kind |-> "backup_failed"]}
      [] e.kind = "verification" /\ e.state = "failed" -> {[kind |-> "verification_failed"]}
      [] OTHER -> {}
observe(p, e) == IF away_event(e) = {} THEN p ELSE away_record(p, CHOOSE x \in away_event(e) : TRUE)

-----------------------------------------------------------------------------
(* The event ring and its streams.                                          *)

StInit ==
    /\ streamLoad \in StreamLoads
    /\ boot = 1 /\ sent = <<>> /\ published = 0 /\ subs = Empty
    /\ engine = NoEngine /\ feedAt = 1 /\ lastStatus = "none" /\ leftConns = {} /\ streamNow = 0
    /\ opEvents = [o \in streamLoad.operations |-> <<>>] /\ chan = <<>>
    /\ writers = [t \in DOMAIN streamLoad.records |-> [todo |-> streamLoad.records[t], unsent |-> <<>>]]
    /\ watches = Empty /\ ledger = <<>> /\ readers = Empty

Oldest == IF Len(sent) > Retained THEN Len(sent) - Retained + 1 ELSE 1
NoToken == [boot |-> 0, seq |-> None]

\* The kept events after the token, or 0 (a resync) if it cannot be honoured.
replay(token) ==
    IF token = NoToken THEN <<>>
    ELSE IF token.boot # boot \/ token.seq + 1 < Oldest \/ token.seq > Len(sent) THEN <<0>>
    ELSE SelectSeq(Above(token.seq, Len(sent)), LAMBDA n : n >= Oldest)

matches(filter, e) ==
    /\ filter.kinds = {} \/ e.kind \in filter.kinds
    /\ \A f \in {"project", "service"} : filter[f] = "" \/ filter[f] = e[f]

\* publish: under the lock of the ring, so that no replay sees half of it.
publish ==
    /\ published < Len(streamLoad.publishes)
    /\ sent' = Append(sent, streamLoad.publishes[published + 1]) /\ published' = published + 1
    /\ UNCHANGED <<boot, subs, opVars, watches, pageVars, presenceVars, streamLoad>>

\* The tokens a client can hold: none, of this boot, of the last one.
Tokens == {NoToken} \cup {[boot |-> boot, seq |-> n] : n \in 0..Len(sent)} \cup (IF boot > 1 THEN {[boot |-> boot - 1, seq |-> 1]} ELSE {})
subscribe ==
    /\ \E s \in DOMAIN streamLoad.subs \ DOMAIN subs : \E token \in Tokens :
         LET want == streamLoad.subs[s] IN
         /\ want.conn \notin leftConns /\ (token # NoToken => want.resumes)
         /\ engine' = subscribe_opened(engine, want.conn)
         /\ subs' = WithEntry(subs, s, [open |-> TRUE, client |-> TRUE, pos |-> Len(sent) + 1, got |-> <<>>, boot |-> boot,
                queue |-> SelectSeq(replay(token), LAMBDA n : IF n = 0 THEN TRUE ELSE matches(want, sent[n])),
                from |-> IF token = NoToken THEN Len(sent) ELSE IF token.boot = boot THEN token.seq ELSE 0,
                counted |-> want.conn \in DOMAIN engine.sessions])
    /\ UNCHANGED <<busVars, opVars, watches, pageVars, feedAt, lastStatus, leftConns, streamNow, streamLoad>>

\* A receiver's next: nothing, an event, or that it fell behind.
Behind(pos, all, buffer) == Len(all) - pos + 1 > buffer
\* One turn of a stream's task: the replay, then what is live, a keepalive
\* when nothing is.  It finds out by sending that the client is gone, and
\* only then is its presence closed.
subscribe_step ==
    /\ \E s \in DOMAIN subs :
         LET u == subs[s]
             ends == /\ subs' = [subs EXCEPT ![s].open = FALSE] /\ engine' = subscribe_closed(engine, streamLoad.subs[s].conn)
             sends(n, v) == IF u.client THEN subs' = [subs EXCEPT ![s] = [v EXCEPT !.got = Append(@, n)]] /\ UNCHANGED engine ELSE ends
         IN  /\ u.open
             /\ IF u.queue # <<>> THEN sends(Head(u.queue), [u EXCEPT !.queue = Tail(@)])
                ELSE IF u.pos > Len(sent) THEN ~u.client /\ ends
                ELSE IF Behind(u.pos, sent, LiveBuffer) THEN sends(0, [u EXCEPT !.pos = Len(sent) - LiveBuffer + 1])
                ELSE IF matches(streamLoad.subs[s], sent[u.pos]) THEN sends(u.pos, [u EXCEPT !.pos = @ + 1])
                ELSE subs' = [subs EXCEPT ![s].pos = @ + 1] /\ UNCHANGED engine
    /\ UNCHANGED <<busVars, opVars, watches, pageVars, feedAt, lastStatus, leftConns, streamNow, streamLoad>>

-----------------------------------------------------------------------------
(* Connections, the feed and the status task.                               *)

hello ==
    /\ \E c \in streamLoad.conns \ leftConns :
         /\ c \in DOMAIN engine.sessions => engine.sessions[c].last < streamNow
         /\ engine' = settle([engine EXCEPT !.sessions =
                WithEntry(@, c, [last |-> streamNow, subscribes |-> IF c \in DOMAIN @ THEN @[c].subscribes ELSE 0])])
    /\ UNCHANGED <<busVars, subs, opVars, watches, pageVars, feedAt, lastStatus, leftConns, streamNow, streamLoad>>
touch ==
    /\ \E c \in DOMAIN engine.sessions : engine' = settle(Session(engine, c, 0))
    /\ UNCHANGED <<busVars, subs, opVars, watches, pageVars, feedAt, lastStatus, leftConns, streamNow, streamLoad>>
\* The connection is dropped: its session goes at once, its streams' clients
\* are gone.
connection_closed ==
    /\ \E c \in streamLoad.conns \ leftConns :
         /\ leftConns' = leftConns \cup {c}
         /\ engine' = IF c \in DOMAIN engine.sessions THEN settle([engine EXCEPT !.sessions = Drop(@, c)]) ELSE engine
         /\ subs' = [s \in DOMAIN subs |-> [subs[s] EXCEPT !.client = @ /\ streamLoad.subs[s].conn # c]]
    /\ UNCHANGED <<busVars, opVars, watches, pageVars, feedAt, lastStatus, streamNow, streamLoad>>
\* A client cancels one stream and keeps its connection.
unsubscribe ==
    /\ \E s \in DOMAIN subs : subs[s].client /\ subs[s].open /\ subs' = [subs EXCEPT ![s].client = FALSE]
    /\ UNCHANGED <<busVars, opVars, watches, pageVars, presenceVars, streamLoad>>

presence_feed ==
    /\ streamLoad.feed
    /\ \/ feedAt > Len(sent) /\ engine' = settle(engine) /\ UNCHANGED feedAt
       \/ /\ feedAt <= Len(sent)
          /\ IF Behind(feedAt, sent, LiveBuffer) THEN feedAt' = Len(sent) - LiveBuffer + 1 /\ UNCHANGED engine
             ELSE feedAt' = feedAt + 1 /\ engine' = observe(engine, sent[feedAt])
    /\ UNCHANGED <<busVars, subs, opVars, watches, pageVars, lastStatus, leftConns, streamNow, streamLoad>>
\* The webhook path counts its own.
hooks_record ==
    /\ streamLoad.hooks /\ engine.counts["webhook_delivery"] < 2
    /\ engine' = away_record(engine, [kind |-> "webhook_delivery"])
    /\ UNCHANGED <<busVars, subs, opVars, watches, pageVars, feedAt, lastStatus, leftConns, streamNow, streamLoad>>

\* The status task asks for the presence, which settles it, and publishes
\* what changed.
status_event ==
    LET p == settle(engine)
        s == IF p.online THEN "online" ELSE "offline"
    IN  /\ streamLoad.status /\ lastStatus # s /\ lastStatus' = s /\ engine' = p
        /\ sent' = Append(sent, [kind |-> "agent_status", state |-> s, id |-> "", project |-> "", service |-> ""])
        /\ UNCHANGED <<boot, published, subs, opVars, watches, pageVars, feedAt, leftConns, streamNow, streamLoad>>

stream_clock ==
    /\ streamNow < streamLoad.end /\ streamNow' = streamNow + 1
    /\ UNCHANGED <<busVars, subs, opVars, watches, pageVars, engine, feedAt, lastStatus, leftConns, streamLoad>>

-----------------------------------------------------------------------------
(* Operations: the recorder, WatchOperation.                                *)

operation_events_after(o, after) == Above(after, Len(opEvents[o]))

\* An event is committed under its number, and then sent.
record_appends ==
    /\ \E t \in DOMAIN writers :
         LET w == writers[t] IN
         /\ w.unsent = <<>> /\ w.todo # <<>>
         /\ opEvents' = [opEvents EXCEPT ![Head(w.todo).op] = Append(@, Head(w.todo).last)]
         /\ writers' = [writers EXCEPT ![t] = [todo |-> Tail(w.todo),
                unsent |-> <<[op |-> Head(w.todo).op, seq |-> Len(opEvents[Head(w.todo).op]) + 1, last |-> Head(w.todo).last]>>]]
    /\ UNCHANGED <<busVars, subs, chan, watches, pageVars, presenceVars, streamLoad>>
record_sends ==
    /\ \E t \in DOMAIN writers :
         writers[t].unsent # <<>> /\ chan' = chan \o writers[t].unsent /\ writers' = [writers EXCEPT ![t].unsent = <<>>]
    /\ UNCHANGED <<busVars, subs, opEvents, watches, pageVars, presenceVars, streamLoad>>

\* The receiver is there before the store is read.
watch_operation ==
    /\ \E w \in DOMAIN streamLoad.watches :
         \/ /\ w \notin DOMAIN watches
            /\ watches' = WithEntry(watches, w, [at |-> "opened", boot |-> boot, pos |-> Len(chan) + 1, queue |-> <<>>, last |-> streamLoad.watches[w].after, got |-> <<>>])
         \/ /\ w \in DOMAIN watches /\ watches[w].at = "opened"
            /\ watches' = [watches EXCEPT ![w].at = "running", ![w].queue = operation_events_after(streamLoad.watches[w].op, streamLoad.watches[w].after)]
    /\ UNCHANGED <<busVars, subs, opVars, pageVars, presenceVars, streamLoad>>

\* Mutant: what was replayed is sent again.
watch_wants_again(w, e) == e.op = streamLoad.watches[w].op /\ e.seq >= watches[w].last
watch_wants(w, e) == e.op = streamLoad.watches[w].op /\ e.seq > watches[w].last

\* A turn of the stream: the replay, then what is live; the last event, a
\* receiver that fell behind and a client that is gone end it.
watch_step ==
    /\ \E w \in DOMAIN watches :
         LET v == watches[w]
             o == streamLoad.watches[w].op
             sends(n, u) == {[u EXCEPT !.got = Append(@, n), !.last = n, !.at = IF opEvents[o][n] THEN "finished" ELSE @], [u EXCEPT !.at = "client gone"]}
             next == [v EXCEPT !.pos = @ + 1]
         IN  /\ v.at = "running"
             /\ IF v.queue # <<>> THEN \E x \in sends(Head(v.queue), [v EXCEPT !.queue = Tail(@)]) : watches' = [watches EXCEPT ![w] = x]
                ELSE /\ v.pos <= Len(chan)
                     /\ IF Behind(v.pos, chan, OpBuffer) THEN watches' = [watches EXCEPT ![w].at = "expired"]
                        ELSE IF watch_wants(w, chan[v.pos]) THEN \E x \in sends(chan[v.pos].seq, next) : watches' = [watches EXCEPT ![w] = x]
                        ELSE watches' = [watches EXCEPT ![w] = next]
    /\ UNCHANGED <<busVars, subs, opVars, pageVars, presenceVars, streamLoad>>

-----------------------------------------------------------------------------
(* The paged lists.                                                         *)

admissions_before(before) == Reverse(Above(0, IF before <= 0 THEN Len(ledger) ELSE before - 1))
admissions_after(after, limit) == SubSeq(Above(after, Len(ledger)), 1, IF Len(ledger) - after < limit THEN Len(ledger) - after ELSE limit)
Listed(states) == {n \in DOMAIN ledger : states = {} \/ ledger[n] \in states}

\* Newest first and filtered, until the page is full or the log ends; a
\* full page names its last position.
list_operations(before, limit, states) ==
    LET all == SelectSeq(admissions_before(before), LAMBDA n : n \in Listed(states))
        full == Len(all) >= limit
        page == IF full THEN SubSeq(all, 1, limit) ELSE all
    IN  [items |-> page, next |-> IF full /\ page[Len(page)] > 1 THEN page[Len(page)] ELSE 0]
\* Oldest first; the position is kept when the page is empty.
list_admissions(after, limit) ==
    LET rows == admissions_after(after, limit) IN [items |-> rows, next |-> IF rows = <<>> THEN after ELSE rows[Len(rows)]]
\* By offset into the rules that are listed now.
list_standing_rules(offset, limit, states) ==
    LET rules == SelectSeq(Above(0, Len(ledger)), LAMBDA n : n \in Listed(states))
        end == IF offset + limit < Len(rules) THEN offset + limit ELSE Len(rules)
    IN  [items |-> SubSeq(rules, offset + 1, end), next |-> IF end < Len(rules) THEN end ELSE 0]

page ==
    /\ \E r \in DOMAIN streamLoad.readers :
         LET want == streamLoad.readers[r]
             had == IF r \in DOMAIN readers THEN readers[r]
                    ELSE [token |-> 0, seen |-> <<>>, done |-> FALSE, start |-> Listed(want.states)]
             p == CASE want.list = "operations" -> list_operations(had.token, want.size, want.states)
                    [] want.list = "rules" -> list_standing_rules(had.token, want.size, want.states)
                    [] OTHER -> list_admissions(had.token, want.size)
         IN  /\ ~had.done
             /\ readers' = WithEntry(readers, r, [had EXCEPT !.token = p.next, !.seen = @ \o p.items, !.done = want.list # "admissions" /\ p.next = 0])
    /\ UNCHANGED <<busVars, subs, opVars, watches, ledger, presenceVars, streamLoad>>
\* External to these lists: a plan is admitted, an operation ends.
ledger_grows ==
    /\ \/ Len(ledger) < streamLoad.admissions /\ ledger' = Append(ledger, "open")
       \/ \E n \in DOMAIN ledger : ledger[n] = "open" /\ ledger' = [ledger EXCEPT ![n] = "ended"]
    /\ UNCHANGED <<busVars, subs, opVars, watches, readers, presenceVars, streamLoad>>

\* The agent starts again: another boot, nothing of the memory, the store kept.
streams_restart ==
    /\ boot < streamLoad.boots /\ boot' = boot + 1 /\ sent' = <<>>
    /\ engine' = NoEngine /\ feedAt' = 1 /\ lastStatus' = "none" /\ leftConns' = leftConns
    /\ subs' = [s \in DOMAIN subs |-> [subs[s] EXCEPT !.open = FALSE, !.queue = <<>>]]
    /\ chan' = <<>> /\ writers' = [t \in DOMAIN writers |-> [writers[t] EXCEPT !.unsent = <<>>]]
    /\ watches' = [w \in DOMAIN watches |-> [watches[w] EXCEPT !.at = IF @ \in {"opened", "running"} THEN "closed" ELSE @]]
    /\ UNCHANGED <<published, opEvents, pageVars, streamNow, streamLoad>>

StNext ==
    \/ publish \/ subscribe \/ subscribe_step \/ hello \/ touch \/ connection_closed \/ unsubscribe \/ presence_feed \/ hooks_record
    \/ status_event \/ stream_clock \/ record_appends \/ record_sends \/ watch_operation \/ watch_step
    \/ page \/ ledger_grows \/ streams_restart

-----------------------------------------------------------------------------
(* Properties.                                                              *)

\* A subscriber has every event it asked for after its token, in order and
\* once, or still gets it, or was told to resync in between (replay and
\* subscribe against publish).
SubscribersMissNothing ==
    \A s \in DOMAIN subs : LET u == subs[s] IN u.boot = boot =>
        /\ \A i, j \in DOMAIN u.got : (i < j /\ u.got[i] > 0 /\ u.got[j] > 0) => u.got[i] < u.got[j]
        /\ \A n \in (u.from + 1)..Len(sent) :
             (u.open /\ matches(streamLoad.subs[s], sent[n])) =>
                \/ n \in Elems(u.got) \cup Elems(u.queue) \/ n >= u.pos \/ 0 \in Elems(u.queue)
                \/ \E i \in DOMAIN u.got : u.got[i] = 0 /\ \A j \in DOMAIN u.got : u.got[j] > 0 => (j < i => u.got[j] < n) /\ (j > i => u.got[j] > n)

\* An event that another task's later one overtook between commit and send.
Overtaken(o, n) == \E m \in n+1..Len(opEvents[o]) : \E i \in DOMAIN chan :
    chan[i].op = o /\ chan[i].seq = m /\ ~\E j \in 1..i : chan[j].op = o /\ chan[j].seq = n

\* A watcher has the events of its operation in order and once, up to the
\* last one, or was told to resume; none falls between the replay and the
\* live ones, except one that was overtaken on its way to the channel
\* (watch_operation, ChangeCore::record).
WatchersMissNothing ==
    \A w \in DOMAIN watches :
        LET v == watches[w]
            o == streamLoad.watches[w].op
        IN  v.boot = boot =>
            /\ \A i, j \in DOMAIN v.got : i < j => v.got[i] < v.got[j]
            /\ \A n \in (streamLoad.watches[w].after + 1)..Len(opEvents[o]) :
                 \/ n \in Elems(v.got) \cup Elems(v.queue) \/ v.at \in {"opened", "expired", "client gone", "closed"}
                 \/ v.at = "finished" /\ n > v.last
                 \/ \E i \in v.pos..Len(chan) : chan[i].op = o /\ chan[i].seq = n
                 \/ \E t \in DOMAIN writers : \E x \in Elems(writers[t].unsent) : x.op = o /\ x.seq = n
                 \/ Overtaken(o, n)

\* A list read page by page, while plans are admitted and operations end:
\* nothing twice, the admissions without a hole, every operation that
\* matched from the first page to the last, and every rule if none was
\* revoked in between (list_operations, list_admissions,
\* list_standing_rules, whose position is an offset).
PagesComplete ==
    \A r \in DOMAIN readers :
        LET had == readers[r]
            want == streamLoad.readers[r]
        IN  IF want.list = "admissions" THEN had.seen = Above(0, Len(had.seen))
            ELSE IF want.list = "rules" THEN
                 /\ \A i, j \in DOMAIN had.seen : i < j => had.seen[i] < had.seen[j]
                 /\ (had.done /\ had.start \subseteq Listed(want.states)) => had.start \subseteq Elems(had.seen)
            ELSE /\ \A i, j \in DOMAIN had.seen : i < j => had.seen[i] > had.seen[j]
                 /\ had.done => (had.start \cap Listed(want.states)) \subseteq Elems(had.seen)

\* The engine is online only with a session, a session has the streams that
\* are open on its connection (those opened before the Hello are not
\* counted, and their end takes one away), an offline period has no end and
\* an online engine an ended one, and no operation is counted twice.
PresenceAgrees ==
    /\ engine.online => DOMAIN engine.sessions # {}
    /\ \A c \in DOMAIN engine.sessions :
         LET here == {s \in DOMAIN subs : subs[s].boot = boot /\ streamLoad.subs[s].conn = c}
         IN  /\ engine.sessions[c].subscribes <= Cardinality({s \in here : subs[s].open})
             /\ (\A s \in here : subs[s].counted) => engine.sessions[c].subscribes = Cardinality({s \in here : subs[s].open})
    /\ engine.since # None => (engine.online <=> engine.until # None) /\ (engine.until # None => engine.since <= engine.until)
    /\ engine.counts["operation"] = Cardinality(engine.tracked) /\ engine.counts["operation_failed"] <= engine.counts["operation"]

StreamsHold == SubscribersMissNothing /\ WatchersMissNothing /\ PagesComplete /\ PresenceAgrees
=================================================================================
