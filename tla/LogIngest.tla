------------------------------ MODULE LogIngest ------------------------------
(***************************************************************************)
(* Log ingestion (src/src/local/telemetry/ingest.rs with journal.rs,       *)
(* routes.rs, dwaar_metrics.rs, redaction.rs and the token buckets of      *)
(* mod.rs): the runner's log stream, its reconnects, the checkpoint, the   *)
(* rate limits, the redaction of key blocks, and the proxy's access lines  *)
(* with their rollups and series.                                          *)
(*                                                                         *)
(* The lines that containers and units write are the load's script; a line *)
(* is an index into it.  The telemetry store is RecordLog: a record is     *)
(* <<line, copy>>.  An operator that takes g returns LogIngest after it.   *)
(***************************************************************************)
EXTENDS Integers, Sequences, FiniteSets, SequencesExt, Functions, RecordLog

CONSTANTS
    IngestLoads,    \* the script, what may fail; see LiInit
    MaxResume,      \* MAX_RESUME
    AgentBurst, ContainerBurst, \* the bursts of the token buckets; their rate is one per tick
    NoticeEvery,    \* NOTICE_EVERY, in ticks
    PemLines,       \* PEM_STREAM_MAX_LINES
    MinuteSecs,     \* the length of a rollup, in seconds of the script
    MaxHosts,       \* MAX_HOSTS
    WaitSecs,       \* UNATTRIBUTED_SECS
    MaxWaiting,     \* MAX_UNATTRIBUTED
    MaxTemplates    \* MAX_TEMPLATES_PER_SERVICE

ASSUME IngestBounds == {MaxResume, AgentBurst, ContainerBurst, MinuteSecs, MaxHosts, MaxWaiting, MaxTemplates} \subseteq Nat \ {0}

VARIABLES
    wrote,      \* the lines written so far
    conn,       \* the connection: per source, the last line it delivered
    g,          \* LogIngest, in memory
    saved,      \* checkpoint.json
    routes,     \* the route map: host -> service, its generation, whether a refresh is asked for
    lnow, lbreaks,
    fate,       \* history: line -> what became of it, each time it was handled
    life,       \* history: line -> the restarts before it was last recorded
    told,       \* history: container -> dropped lines that a notice named
    counted,    \* history: accesses counted in the series; in rollup rows; given up
    rows,       \* history: the rollup rows written
    floor,      \* history: source -> the line after which it was first asked for
    liLoad

liVars == <<wrote, conn, g, saved, routes, lnow, lbreaks, fate, life, told, counted, rows, floor, liLoad, rlVars>>

Line(i) == liLoad.script[i]
Sources == {Line(i).src : i \in DOMAIN liLoad.script}
is_unit(s) == s \in liLoad.units
Best(S) == CHOOSE x \in S : \A y \in S : x >= y
Put2(f, x, v) == [y \in DOMAIN f \cup {x} |-> IF y = x THEN v ELSE f[y]]
Get(f, x, d) == IF x \in DOMAIN f THEN f[x] ELSE d
Nothing == [x \in {} |-> 0]

Bucket(burst) == [tokens |-> burst, at |-> 0]
take(b, burst) ==
    LET have == IF b.tokens + (lnow - b.at) > burst THEN burst ELSE b.tokens + (lnow - b.at)
    IN  [ok |-> have >= 1, b |-> [tokens |-> IF have >= 1 THEN have - 1 ELSE have, at |-> lnow]]

NewIngest(checkpoint) ==
    [checks |-> checkpoint.checks, units |-> checkpoint.units, last_sec |-> checkpoint.last_sec,
     agent |-> Bucket(AgentBurst), containers |-> Nothing, drops |-> Nothing, notice |-> Nothing, pem |-> Nothing,
     minutes |-> Nothing, unattributed |-> <<>>, seen |-> 0,
     templates |-> Nothing, series |-> Nothing, dirty |-> {}, emitted |-> Nothing]
NoCheckpoint == [checks |-> Nothing, units |-> Nothing, last_sec |-> 0]

LiInit ==
    /\ liLoad \in IngestLoads
    /\ wrote = liLoad.ahead /\ conn = <<>> /\ g = NewIngest(NoCheckpoint) /\ saved = NoCheckpoint
    /\ routes = [map |-> liLoad.routes, generation |-> 0, nudged |-> FALSE]
    /\ lnow = 0 /\ lbreaks = 0
    /\ fate = [i \in DOMAIN liLoad.script |-> <<>>] /\ life = Nothing /\ told = Nothing
    /\ counted = [series |-> <<>>, lost |-> {}] /\ rows = Nothing /\ floor = [s \in Sources |-> 0]
    /\ RlInit /\ durable = {}

-----------------------------------------------------------------------------
(* The checkpoint and the connection.                                       *)

\* Mutant: only units are taken up where they were left.
resume_units == DOMAIN g.units

\* The newest containers with a cursor, then the units, MAX_RESUME in all.
resume ==
    LET c == DOMAIN g.checks
        newest == {x \in c : Cardinality({y \in c : g.checks[y].sec > g.checks[x].sec}) < MaxResume}
        some == IF Cardinality(newest) <= MaxResume THEN newest ELSE {CHOOSE x \in newest : TRUE}
    IN  some \cup {u \in DOMAIN g.units : Cardinality(some) + 1 <= MaxResume}

\* External: where the runner takes up a source.  Docker's --since is
\* inclusive, a journald cursor is not.
TakeUp(s) ==
    LET before == {i \in 1..wrote : Line(i).src = s /\ Line(i).sec < g.last_sec}
    IN  CASE s \in resume /\ is_unit(s) -> g.units[s]
          [] s \in resume /\ ~is_unit(s) -> g.checks[s].cursor - 1
          [] OTHER -> IF before = {} THEN 0 ELSE Best(before)

connect_once ==
    /\ conn = <<>>
    /\ conn' = [s \in Sources |-> TakeUp(s)]
    /\ floor' = [s \in Sources |-> IF s \in DOMAIN g.checks \cup DOMAIN g.units \/ TakeUp(s) < floor[s] THEN floor[s] ELSE TakeUp(s)]
    /\ UNCHANGED <<wrote, g, saved, routes, lnow, lbreaks, fate, life, told, counted, rows, liLoad, rlVars>>

Checkpoint == [checks |-> g.checks, units |-> g.units, last_sec |-> g.last_sec]
stream_breaks ==
    /\ conn # <<>> /\ lbreaks < liLoad.breaks /\ lbreaks' = lbreaks + 1 /\ conn' = <<>>
    /\ saved' = Checkpoint
    /\ UNCHANGED <<wrote, g, routes, lnow, fate, life, told, counted, rows, floor, liLoad, rlVars>>

load_checkpoint(c) == NewIngest(c)
ingest_restarts ==
    /\ epoch < liLoad.restarts
    /\ g' = load_checkpoint(saved) /\ conn' = <<>>
    /\ \E P \in SUBSET accepted : Restart(P, accepted \ P)
    /\ counted' = [series |-> <<>>, lost |-> {}] /\ rows' = Nothing /\ told' = Nothing
    /\ routes' = [map |-> liLoad.routes, generation |-> 0, nudged |-> FALSE]
    /\ UNCHANGED <<wrote, saved, lnow, lbreaks, fate, life, floor, liLoad>>

-----------------------------------------------------------------------------
(* One line.  h is the handler's result: LogIngest, what it submits, and    *)
(* the line's fate.                                                         *)

Copies(i) == Cardinality({n \in 1..Len(fate[i]) : fate[i][n] \in {"recorded", "clear"}})

\* A key block is hidden from its first line to its last, 200 at most.
pem_line(left, kind) ==
    LET opened == IF left = 0 /\ kind = "begin" THEN PemLines ELSE left
    IN  [hidden |-> opened > 0, left |-> IF opened = 0 \/ kind = "end" THEN 0 ELSE opened - 1]

drop_line(x, s) == [x EXCEPT !.drops = Put2(@, s, Get(@, s, 0) + 1)]

\* One notice per container per NOTICE_EVERY.
Due(x) == {s \in DOMAIN x.drops : x.drops[s] > 0 /\ (s \notin DOMAIN x.notice \/ lnow - x.notice[s] >= NoticeEvery)}
notices(x) ==
    [x EXCEPT !.drops = [s \in DOMAIN @ |-> IF s \in Due(x) THEN 0 ELSE @[s]],
              !.notice = [s \in DOMAIN @ \cup Due(x) |-> IF s \in Due(x) THEN lnow ELSE @[s]]]
Told(x) == [s \in DOMAIN told \cup Due(x) |-> Get(told, s, 0) + IF s \in Due(x) THEN x.drops[s] ELSE 0]

saw(x, sec) == [x EXCEPT !.last_sec = IF sec > @ THEN sec ELSE @]

\* A container's line: older than the checkpoint or stored in its second
\* already, over a limit, or recorded.
handle(i) ==
    LET l == Line(i) s == l.src
        check == Get(g.checks, s, [sec |-> 0, hashes |-> {}, cursor |-> 0])
        repeat == l.sec < check.sec \/ (l.sec = check.sec /\ l.text \in check.hashes)
        fresh == [sec |-> l.sec, hashes |-> {l.text} \cup (IF l.sec > check.sec THEN {} ELSE check.hashes), cursor |-> i]
        x1 == saw([g EXCEPT !.checks = Put2(@, s, fresh)], l.sec)
        a == take(x1.agent, AgentBurst)
        c == take(Get(x1.containers, s, Bucket(ContainerBurst)), ContainerBurst)
        x2 == [x1 EXCEPT !.agent = a.b, !.containers = IF a.ok THEN Put2(@, s, c.b) ELSE @]
        p == pem_line(Get(x2.pem, s, 0), l.pem)
        x3 == [x2 EXCEPT !.pem = Put2(@, s, p.left)]
    IN  IF repeat THEN [x |-> g, fate |-> "repeat", told |-> told]
        ELSE IF ~(a.ok /\ c.ok)
             THEN [x |-> notices(drop_line(x2, s)), fate |-> "limited", told |-> Told(drop_line(x2, s))]
        ELSE [x |-> notices(x3), fate |-> IF l.pem = "none" \/ p.hidden THEN "recorded" ELSE "clear", told |-> Told(x3)]

\* Host -> service.  A host of no service is known and has no owner.
owner(host) == Get(routes.map, host, "")
knows(host) == host \in DOMAIN routes.map

\* The path template, or "other" beyond the service's cap.
template(x, service, path) ==
    LET known == Get(x.templates, service, {})
    IN  IF path \in known \/ Cardinality(known) < MaxTemplates THEN path ELSE "other"

\* One request counted in its service's series.
dwaar_record(x, l, service) ==
    LET t == template(x, service, l.path)
        key == <<service, t>>
    IN  IF ~liLoad.server THEN x
        ELSE [x EXCEPT !.templates = IF t = "other" THEN @ ELSE Put2(@, service, Get(@, service, {}) \cup {t}),
                       !.series = Put2(@, key, Get(@, key, 0) + 1), !.dirty = @ \cup {key}]

\* The rollup of the request's minute and host, unless there are too many.
rollup_add(x, l) ==
    LET key == <<l.sec - (l.sec % MinuteSecs), l.host>>
        series == {k \in DOMAIN x.minutes : k[1] = key[1]}
    IN  IF Cardinality(series) >= MaxHosts /\ key \notin series THEN x
        ELSE [x EXCEPT !.minutes = Put2(@, key, Get(@, key, 0) + 1)]

Closed(x, sec) == {k \in DOMAIN x.minutes : k[1] < sec - (sec % MinuteSecs)}
closed(x, sec) == [x EXCEPT !.minutes = [k \in DOMAIN @ \ Closed(x, sec) |-> @[k]]]
Rows(x, sec) == [k \in DOMAIN rows \cup Closed(x, sec) |-> Get(rows, k, 0) + IF k \in Closed(x, sec) THEN x.minutes[k] ELSE 0]

\* Accesses to a host that the map did not name wait for a map that does.
attribute_waiting(x0, sec) ==
    LET young == SelectSeq(x0.unattributed, LAMBDA i : sec - Line(i).sec <= WaitSecs)
        x == [x0 EXCEPT !.unattributed = young, !.seen = routes.generation]
        named == SelectSeq(young, LAMBDA i : owner(Line(i).host) # "")
        left == SelectSeq(young, LAMBDA i : owner(Line(i).host) = "")
    IN  IF young = <<>> \/ routes.generation = x0.seen THEN x
        ELSE [FoldLeft(LAMBDA y, i : dwaar_record(y, Line(i), owner(Line(i).host)), x, named) EXCEPT !.unattributed = left]

\* The changed series are emitted.
take_samples(x) ==
    [x EXCEPT !.emitted = [k \in DOMAIN @ \cup x.dirty |-> IF k \in x.dirty THEN x.series[k] ELSE @[k]], !.dirty = {}]

flush_rollups(x, sec) == take_samples(closed(attribute_waiting(x, sec), sec))

\* What a flush counted, for the history.
Flushed(x, sec, c) ==
    LET y == attribute_waiting(x, sec)
        out == Range(x.unattributed) \ Range(y.unattributed)
        named == {i \in out : sec - Line(i).sec <= WaitSecs}
    IN  [series |-> c.series \o SetToSeq(named), lost |-> c.lost \cup (out \ named)]

\* A host unit's line: off the list, over the limit, or recorded; a proxy
\* access line also goes to the rollups and the series.
handle_system(i) ==
    LET l == Line(i)
        x1 == saw([g EXCEPT !.units = Put2(@, l.src, i)], l.sec)
        a == take(x1.agent, AgentBurst)
        x2 == [x1 EXCEPT !.agent = a.b]
        access == l.src = "dwaar.service" /\ l.host # ""
        x3 == rollup_add(x2, l)
        full == Len(x3.unattributed) = MaxWaiting
        x4 == CASE ~access -> x2
                [] access /\ owner(l.host) # "" -> dwaar_record(x3, l, owner(l.host))
                [] access /\ ~knows(l.host) ->
                     [x3 EXCEPT !.unattributed = Append(IF full THEN Tail(@) ELSE @, i)]
                [] OTHER -> x3
        c == [series |-> IF access /\ owner(l.host) # "" THEN Append(counted.series, i) ELSE counted.series,
              lost |-> counted.lost \cup (IF access /\ ~knows(l.host) /\ full THEN {Head(x3.unattributed)} ELSE {})
                                    \cup (IF access /\ knows(l.host) /\ owner(l.host) = "" THEN {i} ELSE {})]
    IN  IF l.src \notin liLoad.allowed THEN [x |-> g, fate |-> "limited", counted |-> counted, rows |-> rows]
        ELSE IF ~a.ok THEN [x |-> x2, fate |-> "limited", counted |-> counted, rows |-> rows]
        ELSE [x |-> flush_rollups(x4, l.sec), fate |-> "recorded",
              counted |-> Flushed(x4, l.sec, c), rows |-> Rows(attribute_waiting(x4, l.sec), l.sec)]

\* The stream's next line of a source.
progress ==
    /\ conn # <<>>
    /\ \E s \in Sources :
         LET todo == {i \in 1..wrote : Line(i).src = s /\ i > conn[s]} IN
         /\ todo # {}
         /\ LET i == CHOOSE i \in todo : \A j \in todo : i <= j
                h == IF is_unit(s) THEN handle_system(i) ELSE handle(i)
                r == <<i, Copies(i) + 1>>
            IN  /\ conn' = [conn EXCEPT ![s] = i]
                /\ g' = h.x
                /\ IF h.fate \in {"recorded", "clear"}
                   THEN \/ /\ Accept(r) /\ fate' = [fate EXCEPT ![i] = Append(@, h.fate)] /\ life' = Put2(life, i, epoch)
                        \/ /\ liLoad.sheds /\ Refuse(r)
                           /\ fate' = [fate EXCEPT ![i] = Append(@, h.fate)] /\ life' = Put2(life, i, epoch)
                   ELSE fate' = [fate EXCEPT ![i] = Append(@, h.fate)] /\ UNCHANGED <<rlVars, life>>
                /\ IF is_unit(s)
                   THEN /\ counted' = h.counted /\ rows' = h.rows /\ UNCHANGED told
                        /\ routes' = IF h.fate = "recorded" /\ Line(i).host # "" /\ ~knows(Line(i).host)
                                     THEN [routes EXCEPT !.nudged = TRUE] ELSE routes
                   ELSE told' = h.told /\ UNCHANGED <<counted, rows, routes>>
    /\ UNCHANGED <<wrote, saved, lnow, lbreaks, floor, liLoad>>

\* Every 5 s: the checkpoint, the notices, the rollups.
save_checkpoint ==
    /\ conn # <<>>
    /\ saved' = Checkpoint
    /\ told' = Told(g) /\ counted' = Flushed(g, liLoad.script[wrote].sec, counted)
    /\ rows' = Rows(attribute_waiting(g, liLoad.script[wrote].sec), liLoad.script[wrote].sec)
    /\ g' = flush_rollups(notices(g), liLoad.script[wrote].sec)
    /\ <<saved', g'>> # <<saved, g>>
    /\ UNCHANGED <<wrote, conn, routes, lnow, lbreaks, fate, life, floor, liLoad, rlVars>>

\* A container that stops takes its key block with it.
container_stopped ==
    /\ conn # <<>> /\ liLoad.stops
    /\ \E s \in DOMAIN g.pem : g.pem[s] > 0 /\ g' = [g EXCEPT !.pem = [t \in DOMAIN @ \ {s} |-> @[t]]]
    /\ UNCHANGED <<wrote, conn, saved, routes, lnow, lbreaks, fate, life, told, counted, rows, floor, liLoad, rlVars>>

\* The map is kept when the call fails.
routes_refresh ==
    /\ routes.map # liLoad.later
    /\ routes' = [map |-> liLoad.later, generation |-> routes.generation + 1, nudged |-> FALSE]
    /\ UNCHANGED <<wrote, conn, g, saved, lnow, lbreaks, fate, life, told, counted, rows, floor, liLoad, rlVars>>

line_written ==
    /\ wrote < Len(liLoad.script) /\ wrote' = wrote + 1
    /\ UNCHANGED <<conn, g, saved, routes, lnow, lbreaks, fate, life, told, counted, rows, floor, liLoad, rlVars>>

time_passes ==
    /\ lnow < liLoad.until /\ lnow' = lnow + 1
    /\ UNCHANGED <<wrote, conn, g, saved, routes, lbreaks, fate, life, told, counted, rows, floor, liLoad, rlVars>>

store_writes ==
    /\ accepted # {} /\ Settle(accepted, {})
    /\ UNCHANGED <<wrote, conn, g, saved, routes, lnow, lbreaks, fate, life, told, counted, rows, floor, liLoad>>

LiNext == progress \/ line_written \/ store_writes \/ save_checkpoint \/ connect_once \/ stream_breaks
          \/ time_passes \/ routes_refresh \/ container_stopped \/ ingest_restarts

-----------------------------------------------------------------------------
Recorded(i) == \E n \in DOMAIN fate[i] : fate[i][n] \in {"recorded", "clear"}
Limited(i) == "limited" \in Range(fate[i])

\* A line with the text of another of its second, or older than one of its
\* source, is taken for one already stored.
Doubtful(i) == \E j \in 1..Len(liLoad.script) :
    /\ j # i /\ Line(j).src = Line(i).src
    /\ \/ Line(j).sec = Line(i).sec /\ Line(j).text = Line(i).text
       \/ j < i /\ Line(j).sec > Line(i).sec

\* "a reconnect neither loses nor duplicates lines" (ingest.rs:21): a line
\* behind the stream is recorded or was counted as dropped, unless it was
\* written before its source was known; and it is recorded once, or once
\* more after a restart (handle, resume, since).
LinesOnce ==
    \A i \in 1..wrote :
        LET s == Line(i).src IN
        /\ (conn # <<>> /\ floor[s] < i /\ i <= conn[s] /\ ~Doubtful(i) /\ Cardinality(DOMAIN g.checks) <= MaxResume)
             => Recorded(i) \/ Limited(i)
        /\ Copies(i) <= 1 + epoch

\* A line behind the stored checkpoint was handled, and if its record is
\* missing now it was dropped, or in the queue when the agent stopped.
CheckpointHonest ==
    \A i \in 1..wrote :
        LET s == Line(i).src IN
        (s \in DOMAIN saved.checks /\ floor[s] < i /\ i <= saved.checks[s].cursor /\ ~Doubtful(i)) =>
            Limited(i) \/ \E n \in 1..Copies(i) : <<i, n>> \in accepted \cup durable \cup gone

\* Every line dropped by a limit is in a notice or will be in the next.
DropsTold ==
    \A s \in Sources :
        ~is_unit(s) => Get(g.drops, s, 0) + Get(told, s, 0) <= Cardinality({i \in 1..wrote : Line(i).src = s /\ Limited(i)})
                       /\ (epoch = 0 => Get(g.drops, s, 0) + Get(told, s, 0)
                             = Cardinality({i \in 1..wrote : Line(i).src = s /\ Limited(i)}))

\* A line of a key block is stored in the clear only if the block's first
\* line never reached the redaction in this life of agent and container.
KeyBlocksHidden ==
    \A i \in 1..wrote :
        ("clear" \in Range(fate[i]) /\ epoch = 0 /\ ~liLoad.stops) =>
            \A b \in 1..(i - 1) :
                (Line(b).src = Line(i).src /\ Line(b).pem = "begin" /\ i - b < PemLines) => ~Recorded(b)

\* Every access that was recorded is counted once in its service's series,
\* waits for the route map, or was given up; and once in a rollup.
AccessesCounted ==
    LET mine == {i \in 1..wrote : Line(i).src = "dwaar.service" /\ Line(i).host # ""
                                  /\ i \in DOMAIN life /\ life[i] = epoch /\ Recorded(i)}
        waits == Range(g.unattributed)
        kept == FoldFunction(LAMBDA a, b : a + b, 0, rows) + FoldFunction(LAMBDA a, b : a + b, 0, g.minutes)
    IN  /\ mine = Range(counted.series) \cup waits \cup counted.lost
        /\ IsInjective(counted.series) /\ Range(counted.series) \cap (waits \cup counted.lost) = {}
        /\ kept <= Cardinality(mine) /\ (liLoad.roomy => kept = Cardinality(mine))
        /\ liLoad.server => FoldFunction(LAMBDA a, b : a + b, 0, g.series) = Len(counted.series)
        /\ \A k \in DOMAIN g.series : k \notin g.dirty => g.emitted[k] = g.series[k]

\* Lines, their checkpoint, drops, key blocks and accesses are all
\* accounted for, over reconnects and restarts.
IngestAccounts == LinesOnce /\ CheckpointHonest /\ DropsTold /\ KeyBlocksHidden /\ AccessesCounted
==============================================================================
