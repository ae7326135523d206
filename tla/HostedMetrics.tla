----------------------------- MODULE HostedMetrics -----------------------------
(***************************************************************************)
(* What the hosted agent measures between two heartbeats: requests from    *)
(* Dwaar's access log, per route (src/src/route_metrics.rs) and per domain *)
(* (dwaar_analytics.rs), and health checks (monitoring.rs); and the        *)
(* heartbeat (heartbeat.rs) that empties all three and sends them.         *)
(*                                                                         *)
(* Four tasks share the state: the tailer of the log, the scheduler of the *)
(* checks, one task for each check that runs, and the heartbeat.  Each     *)
(* collection has its own lock; a heartbeat empties them one by one before *)
(* its call, which may fail or be answered.                                *)
(***************************************************************************)
EXTENDS Integers, Sequences, FiniteSets, FiniteSetsExt, SequencesExt, Functions

CONSTANTS
    MetricLoads,    \* the log, the checks, the answers and what may fail; see HmInit
    MaxRoutes,      \* DEPLOY_AGENT_MAX_ROUTES
    MaxSamples,     \* DEPLOY_AGENT_MAX_LATENCY_SAMPLES
    MaxDomains,     \* max_domains
    MaxTop,         \* the caps of the bounded counters
    MaxResults      \* MAX_BUFFERED_RESULTS

ASSUME MetricBounds == {MaxRoutes, MaxSamples, MaxDomains, MaxTop, MaxResults} \subseteq Nat \ {0}

VARIABLES
    rt,         \* RouteAggregatorInner: buckets, routes_evicted, malformed_lines
    ana,        \* CollectorInner: domains and diagnostics
    tailer,     \* the open log: its file and the next line, or no file
    logs,       \* Dwaar's log files, the last one at the path: the lines written so far
    mon,        \* MonitoringInner: health_checks, results
    tasks,      \* the checks that run: number -> check
    hb,         \* the heartbeat: idle, or the request being put together or sent
    every,      \* the heartbeat's interval
    hmNow, hmFaults,
    seen,       \* history: lines the tailer read
    got,        \* history: what the control plane received, summed
    gone,       \* history: what a failed heartbeat or an eviction took, summed
    applied,    \* history: configurations applied
    hmLoad

hmVars == <<rt, ana, tailer, logs, mon, tasks, hb, every, hmNow, hmFaults, seen, got, gone, applied, hmLoad>>

Sums(f) == FoldFunction(LAMBDA a, b : a + b, 0, f)
Bump(f, x) == [y \in DOMAIN f \cup {x} |-> IF y # x THEN f[y] ELSE IF x \in DOMAIN f THEN f[x] + 1 ELSE 1]
Without(f, x) == [y \in DOMAIN f \ {x} |-> f[y]]
With(f, x, v) == [y \in DOMAIN f \cup {x} |-> IF y = x THEN v ELSE f[y]]
NoEntries == [x \in {} |-> 0]
Coldest(keys, count(_)) == {k \in keys : \A j \in keys : count(k) <= count(j)}

-----------------------------------------------------------------------------
(* A line of the log: size, json, host (name and spelling), path (kinds of  *)
(* segments), query, status, ms, upstream ms, bytes, agent, bot, country,   *)
(* referrer, cache status, visitor and error body (kinds of words).         *)

\* The aggregator keeps the host as it is spelled.
route_segment(k) == IF k \in {"digits", "uuid"} THEN "{id}" ELSE k
parse_proxy_log_line(l) ==
    [domain |-> IF l.host.name = "" THEN "" ELSE l.host.name \o l.host.spelled,
     path |-> [i \in DOMAIN l.path |-> route_segment(l.path[i])],
     status |-> l.status, ms |-> l.ms, bytes |-> Max({l.bytes, 0}), bot |-> l.bot, cache |-> l.cache]

NoBucket == [count |-> 0, class |-> [c \in 2..5 |-> 0], bytes |-> 0, ms |-> <<>>, bots |-> 0, hits |-> 0, misses |-> 0]

bucket_record(b, e) ==
    [count |-> b.count + 1,
     class |-> [c \in 2..5 |-> b.class[c] + IF e.status \div 100 = c THEN 1 ELSE 0],
     bytes |-> b.bytes + e.bytes,
     ms |-> IF Len(b.ms) < MaxSamples THEN Append(b.ms, e.ms) ELSE b.ms,
     bots |-> b.bots + IF e.bot THEN 1 ELSE 0,
     hits |-> b.hits + IF e.cache = "HIT" THEN 1 ELSE 0,
     misses |-> b.misses + IF e.cache = "MISS" THEN 1 ELSE 0]

\* The routes that may make room: a hash map gives no order among the coldest.
evict_coldest_route(r) == Coldest(DOMAIN r.buckets, LAMBDA k : r.buckets[k].count)

route_malformed(r) == [r EXCEPT !.malformed = @ + 1]
RouteBad(l) == l.size = "long" \/ ~l.json \/ parse_proxy_log_line(l).domain = ""

\* The states after a line, each with the requests an eviction took.
route_record(r, e) ==
    LET key == <<e.domain, e.path>>
        old(q) == IF key \in DOMAIN q.buckets THEN q.buckets[key] ELSE NoBucket
        put(q) == [q EXCEPT !.buckets = With(@, key, bucket_record(old(q), e))]
    IN  IF key \in DOMAIN r.buckets \/ Cardinality(DOMAIN r.buckets) < MaxRoutes THEN {[r |-> put(r), out |-> 0]}
        ELSE {[r |-> put([r EXCEPT !.buckets = Without(@, k), !.evicted = @ + 1]), out |-> r.buckets[k].count] :
                  k \in evict_coldest_route(r)}
route_line(r, l) == IF RouteBad(l) THEN {[r |-> route_malformed(r), out |-> 0]} ELSE route_record(r, parse_proxy_log_line(l))

percentile_from_sorted(sorted, pct) ==
    IF sorted = <<>> THEN 0 ELSE sorted[Max({1, (pct * Len(sorted) + 99) \div 100})]
snapshots_from_buckets(bs) ==
    [k \in DOMAIN bs |-> LET sorted == SortSeq(bs[k].ms, <)
                         IN  [count |-> bs[k].count, p50 |-> percentile_from_sorted(sorted, 50),
                              p95 |-> percentile_from_sorted(sorted, 95), p99 |-> percentile_from_sorted(sorted, 99),
                              class |-> bs[k].class, bytes |-> bs[k].bytes]]

-----------------------------------------------------------------------------
(* Analytics.                                                               *)

normalize_domain(h) == IF h.spelled = "bad" THEN "" ELSE h.name
is_identifier_segment(k) == k \in {"digits", "uuid", "hex", "over48"}
normalize_path(p) == [i \in DOMAIN p |-> IF is_identifier_segment(p[i]) THEN "{id}" ELSE IF p[i] = "odd" THEN "-" ELSE p[i]]
Crawler(ua) == ua = "crawler"
user_agent_family(ua, bot) ==
    CASE bot \/ Crawler(ua) -> "Bot"
      [] ~bot /\ ua = "" -> "Unknown"
      [] ~bot /\ ua \in {"Edge", "Firefox", "Chrome", "Safari", "curl"} -> ua
      [] OTHER -> "Other"
device_class(ua, bot) ==
    CASE bot \/ Crawler(ua) -> "bot"
      [] ~bot /\ ua \in {"tablet", "mobile"} -> ua
      [] ~bot /\ ua = "" -> "unknown"
      [] OTHER -> "desktop"
normalize_country(c) == IF c = "odd" THEN "XX" ELSE c
normalize_referrer(r, domain) ==
    IF r.name = "" THEN "direct"
    ELSE IF normalize_domain(r) = "" THEN "unknown"
    ELSE IF normalize_domain(r) = domain THEN "internal" ELSE normalize_domain(r)
normalize_label_value(v) == CASE v = "email" -> "[redacted]" [] v = "blank" -> "" [] OTHER -> v
parse_utm_values(q) ==
    SelectSeq([i \in DOMAIN q |-> <<q[i][1], normalize_label_value(q[i][2])>>],
              LAMBDA kv : kv[1] \in {"utm_source", "utm_medium", "utm_campaign", "utm_term", "utm_content"} /\ kv[2] # "")
normalize_optional_label(v, default) == IF v = "" THEN default ELSE normalize_label_value(v)
status_class_index(s) == s \div 100

\* A word that names a secret, an address or a long word is masked, and so is
\* the word after "bearer", and the one after a masked word that ends in ":".
redact_error_sample(words) ==
    LET mask(w) == w \in {"authorization:", "marker", "email", "long"}
        step(acc, w) ==
            IF acc.next \/ mask(w) THEN [out |-> Append(acc.out, "[redacted]"), next |-> w \in {"bearer", "authorization:"}]
            ELSE [out |-> Append(acc.out, w), next |-> w = "bearer"]
    IN  IF words = <<>> THEN <<"empty_error_body">> ELSE FoldLeft(step, [out |-> <<>>, next |-> FALSE], words).out

parse_access_log_line(l) ==
    LET domain == normalize_domain(l.host)
        family == user_agent_family(l.ua, l.bot)
    IN  [domain |-> domain, path |-> normalize_path(l.path), status |-> l.status, ms |-> l.ms, bytes |-> Max({l.bytes, 0}),
         bot |-> l.bot \/ family = "Bot", country |-> normalize_country(l.country),
         referrer |-> normalize_referrer(l.referrer, domain), device |-> device_class(l.ua, l.bot), agent |-> family,
         cache |-> normalize_optional_label(l.cache, "unknown"), utm |-> parse_utm_values(l.query), body |-> l.body,
         visitor |-> IF l.visitor = "" /\ l.ua = "" THEN "" ELSE l.visitor \o l.ua]

\* BoundedCounter: an empty value is not counted, and a new one takes the
\* place of the least counted (of several, the one last in the alphabet,
\* which is left open here).
counter_add(c, v) ==
    IF Len(v) = 0 THEN {c}
    ELSE IF v \in DOMAIN c \/ Cardinality(DOMAIN c) < MaxTop THEN {Bump(c, v)}
    ELSE {Bump(Without(c, k), v) : k \in Coldest(DOMAIN c, LAMBDA k : c[k])}

error_fingerprint(e) == <<e.status, e.body>>
signals_add(s, e) ==
    LET key == error_fingerprint(e) IN
    IF key \in DOMAIN s THEN {[s EXCEPT ![key].count = @ + 1]}
    ELSE LET fresh == [count |-> 1, sample |-> redact_error_sample(e.body)]
         IN  IF Cardinality(DOMAIN s) < MaxTop THEN {With(s, key, fresh)}
             ELSE {With(Without(s, k), key, fresh) : k \in Coldest(DOMAIN s, LAMBDA k : s[k].count)}

NoDomain == [views |-> 0, human |-> 0, bots |-> 0, bytes |-> 0, class |-> [c \in 1..5 |-> 0], visitors |-> {},
             pages |-> NoEntries, referrers |-> NoEntries, devices |-> NoEntries, utm |-> NoEntries, errors |-> NoEntries]

mark_unique(d, visitor) == IF visitor = "" THEN d ELSE d \cup {visitor}

domain_record(d, e) ==
    {[views |-> d.views + 1,
      human |-> d.human + IF e.bot THEN 0 ELSE 1, bots |-> d.bots + IF e.bot THEN 1 ELSE 0, bytes |-> d.bytes + e.bytes,
      class |-> [c \in 1..5 |-> d.class[c] + IF status_class_index(e.status) = c THEN 1 ELSE 0],
      visitors |-> mark_unique(d.visitors, e.visitor),
      pages |-> p, referrers |-> r, devices |-> Bump(d.devices, e.device),
      utm |-> FoldLeft(LAMBDA acc, kv : Bump(acc, kv), d.utm, e.utm), errors |-> x] :
        p \in counter_add(d.pages, e.path), r \in counter_add(d.referrers, e.referrer),
        x \in IF e.status >= 500 \/ e.body # <<>> THEN signals_add(d.errors, e) ELSE {d.errors}}

analytics_malformed(a) == [a EXCEPT !.malformed = @ + 1]
analytics_line(a, l) ==
    IF l.size \in {"long", "empty"} \/ ~l.json \/ normalize_domain(l.host) = "" THEN {analytics_malformed(a)}
    ELSE LET e == parse_access_log_line(l) IN
         IF e.domain \notin DOMAIN a.domains /\ Cardinality(DOMAIN a.domains) >= MaxDomains
         THEN {[a EXCEPT !.dropped = @ + 1]}
         ELSE {[a EXCEPT !.domains = With(@, e.domain, d)] :
                   d \in domain_record(IF e.domain \in DOMAIN a.domains THEN a.domains[e.domain] ELSE NoDomain, e)}

-----------------------------------------------------------------------------
(* The tailer.  It starts at the end of the file and looks for a new file   *)
(* at the path only when it has read everything; it then waits 10 s.        *)

HmInit ==
    /\ hmLoad \in MetricLoads
    /\ rt = [buckets |-> NoEntries, evicted |-> 0, malformed |-> 0]
    /\ ana = [domains |-> NoEntries, malformed |-> 0, dropped |-> 0]
    /\ tailer = [file |-> 0, next |-> 0] /\ logs = <<<<>>>>
    /\ mon = [checks |-> NoEntries, results |-> <<>>] /\ tasks = NoEntries
    /\ hb = [at |-> "idle"] /\ every = 2 /\ hmNow = 0 /\ hmFaults = 0
    /\ seen = 0 /\ got = [routes |-> 0, views |-> 0, results |-> {}] /\ gone = [routes |-> 0, views |-> 0] /\ applied = 0

rest == <<mon, tasks, hb, every, hmNow, hmFaults, got, applied, hmLoad>>

tail_opens ==
    /\ tailer.file = 0 /\ tailer' = [file |-> Len(logs), next |-> Len(logs[Len(logs)]) + 1]
    /\ UNCHANGED <<rt, ana, logs, seen, gone, rest>>

tail_reads ==
    /\ tailer.file # 0 /\ tailer.next <= Len(logs[tailer.file])
    /\ LET l == logs[tailer.file][tailer.next] IN
       /\ \E out \in route_line(rt, l) : rt' = out.r /\ gone' = [gone EXCEPT !.routes = @ + out.out]
       /\ ana' \in analytics_line(ana, l)
    /\ tailer' = [tailer EXCEPT !.next = @ + 1] /\ seen' = seen + 1
    /\ UNCHANGED <<logs, rest>>

rotated == tailer.next > Len(logs[tailer.file]) /\ tailer.file < Len(logs)
tail_fails ==
    /\ tailer.file # 0 /\ rotated /\ tailer' = [file |-> 0, next |-> 0]
    /\ UNCHANGED <<rt, ana, logs, seen, gone, rest>>

\* External: Dwaar appends the next line, or logrotate puts a new file there.
Written == Sums([i \in DOMAIN logs |-> Len(logs[i])])
log_written ==
    /\ Written < Len(hmLoad.lines)
    /\ logs' = [logs EXCEPT ![Len(logs)] = Append(@, hmLoad.lines[Written + 1])]
    /\ UNCHANGED <<rt, ana, tailer, seen, gone, rest>>
log_rotated ==
    /\ Len(logs) <= hmLoad.rotations /\ logs' = Append(logs, <<>>)
    /\ UNCHANGED <<rt, ana, tailer, seen, gone, rest>>

-----------------------------------------------------------------------------
(* Health checks: id, type, target, interval, and what the target answers.  *)

check_key(c) == <<c.type, c.id>>
check_interval(c) == IF c.interval > 0 THEN c.interval ELSE 30
health_check_supported(c) == c.type \in {"http", "tcp", "process"}
validate_check_target(c) == c.id # "" /\ c.target \in {c.type, "down"}
expected_status(c) == IF c.expected > 0 THEN c.expected ELSE 200

\* Every check of a new configuration starts over, the running ones too.
apply_proto_config(m, checks) ==
    LET ok == {i \in DOMAIN checks : health_check_supported(checks[i]) /\ validate_check_target(checks[i])}
    IN  [m EXCEPT !.checks =
            [k \in {check_key(checks[i]) : i \in ok} |->
                [config |-> checks[Max({i \in ok : check_key(checks[i]) = k})], last |-> -1, flying |-> FALSE]]]

run_health_check(c, answer) ==
    [id |-> c.id, status |-> CASE ~validate_check_target(c) -> "unhealthy"
                               [] c.type = "http" -> IF answer = expected_status(c) THEN "healthy" ELSE "unhealthy"
                               [] c.type = "tcp" -> IF answer = 1 THEN "healthy" ELSE "unhealthy"
                               [] OTHER -> IF answer = 1 THEN "healthy" ELSE "unhealthy"]

\* Checks are found by id alone; with two of an id, a hash map gives either.
complete_check(m, result) ==
    LET same == {k \in DOMAIN m.checks : m.checks[k].config.id = result.id}
        kept == IF Len(m.results) >= MaxResults THEN Tail(m.results) ELSE m.results
        n == [m EXCEPT !.results = Append(kept, result)]
    IN  IF same = {} THEN {n} ELSE {[n EXCEPT !.checks[k].flying = FALSE] : k \in same}

Due == {k \in DOMAIN mon.checks : ~mon.checks[k].flying
          /\ (mon.checks[k].last < 0 \/ hmNow - mon.checks[k].last >= check_interval(mon.checks[k].config))}
take_due_checks ==
    /\ Due # {}
    /\ mon' = [mon EXCEPT !.checks = [k \in DOMAIN @ |-> IF k \in Due THEN [@[k] EXCEPT !.last = hmNow, !.flying = TRUE] ELSE @[k]]]
    /\ LET ks == SetToSeq(Due)
           base == Max({0} \cup DOMAIN tasks)
       IN  tasks' = [t \in DOMAIN tasks \cup {base + i : i \in DOMAIN ks} |->
                       IF t \in DOMAIN tasks THEN tasks[t] ELSE mon.checks[ks[t - base]].config]
    /\ UNCHANGED <<rt, ana, tailer, logs, hb, every, hmNow, hmFaults, seen, got, gone, applied, hmLoad>>

\* A check ends with the target's answer, or with none in its timeout.
check_ends ==
    /\ \E t \in DOMAIN tasks : \E answer \in IF tasks[t].type = "http" THEN {0, 200} ELSE {0, 1} :
         /\ mon' \in complete_check(mon, run_health_check(tasks[t], answer))
         /\ tasks' = Without(tasks, t)
    /\ UNCHANGED <<rt, ana, tailer, logs, hb, every, hmNow, hmFaults, seen, got, gone, applied, hmLoad>>

-----------------------------------------------------------------------------
(* The heartbeat.                                                           *)

Requests(routes) == Sums([k \in DOMAIN routes |-> routes[k].count])
Views(domains) == Sums([d \in DOMAIN domains |-> domains[d].views])

\* The analytics are emptied first, then the routes, then the results.
hb_analytics ==
    /\ hb.at = "idle" /\ hmNow >= hmLoad.start
    /\ hb' = [at |-> "routes", views |-> Views(ana.domains)]
    /\ ana' = [domains |-> NoEntries, malformed |-> 0, dropped |-> 0]
    /\ gone' = [gone EXCEPT !.views = @ + ana.malformed + ana.dropped]
    /\ UNCHANGED <<rt, tailer, logs, mon, tasks, every, hmNow, hmFaults, seen, got, applied, hmLoad>>
\* Mutant: the routes are read and not emptied.
collect_and_keep ==
    /\ hb.at = "routes"
    /\ hb' = [at |-> "results", views |-> hb.views, routes |-> snapshots_from_buckets(rt.buckets)]
    /\ UNCHANGED <<rt, ana, tailer, logs, mon, tasks, every, hmNow, hmFaults, seen, got, gone, applied, hmLoad>>
collect_and_reset ==
    /\ hb.at = "routes"
    /\ hb' = [at |-> "results", views |-> hb.views, routes |-> snapshots_from_buckets(rt.buckets)]
    /\ rt' = [buckets |-> NoEntries, evicted |-> 0, malformed |-> 0]
    /\ gone' = [gone EXCEPT !.routes = @ + rt.malformed]
    /\ UNCHANGED <<ana, tailer, logs, mon, tasks, every, hmNow, hmFaults, seen, got, applied, hmLoad>>
drain_health_check_results ==
    /\ hb.at = "results"
    /\ hb' = [at |-> "rpc", views |-> hb.views, routes |-> hb.routes, results |-> mon.results]
    /\ mon' = [mon EXCEPT !.results = <<>>]
    /\ UNCHANGED <<rt, ana, tailer, logs, tasks, every, hmNow, hmFaults, seen, got, gone, applied, hmLoad>>

Receives ==
    got' = [routes |-> got.routes + Requests(hb.routes), views |-> got.views + hb.views,
            results |-> got.results \cup Range(hb.results)]
Loses == gone' = [routes |-> gone.routes + Requests(hb.routes), views |-> gone.views + hb.views]

\* Accepted: the configuration in the answer is applied and its interval kept.
hb_answered ==
    /\ hb.at = "rpc" /\ Receives
    /\ IF applied < hmLoad.configs
       THEN mon' = apply_proto_config(mon, hmLoad.checks) /\ applied' = applied + 1
       ELSE UNCHANGED <<mon, applied>>
    /\ every' = Max({5, IF hmLoad.interval > 0 THEN hmLoad.interval ELSE every})
    /\ hb' = [at |-> "sleep", until |-> hmNow + (IF hmLoad.interval > 0 THEN hmLoad.interval ELSE every)]
    /\ UNCHANGED <<rt, ana, tailer, logs, tasks, hmNow, hmFaults, seen, gone, hmLoad>>

\* Failed: nothing that was collected is put back.
hb_fails ==
    /\ hb.at = "rpc" /\ hmFaults < hmLoad.faults /\ hmFaults' = hmFaults + 1
    /\ \/ Receives /\ UNCHANGED gone
       \/ Loses /\ UNCHANGED got
    /\ every' = Max({5, every}) /\ hb' = [at |-> "sleep", until |-> hmNow + every]
    /\ UNCHANGED <<rt, ana, tailer, logs, mon, tasks, hmNow, seen, applied, hmLoad>>

hb_wakes ==
    /\ hb.at = "sleep" /\ hmNow >= hb.until /\ hb' = [at |-> "idle"]
    /\ UNCHANGED <<rt, ana, tailer, logs, mon, tasks, every, hmNow, hmFaults, seen, got, gone, applied, hmLoad>>

hm_clock ==
    /\ hmNow < hmLoad.end /\ hmNow' = hmNow + 1
    /\ UNCHANGED <<rt, ana, tailer, logs, mon, tasks, hb, every, hmFaults, seen, got, gone, applied, hmLoad>>

HmNext ==
    \/ tail_reads \/ check_ends \/ take_due_checks \/ hb_analytics \/ collect_and_reset \/ drain_health_check_results
    \/ hb_answered \/ hb_fails \/ hb_wakes \/ hm_clock \/ log_written \/ log_rotated \/ tail_opens \/ tail_fails

-----------------------------------------------------------------------------
InHand(x) == IF x = "views" THEN (IF "views" \in DOMAIN hb THEN hb.views ELSE 0)
             ELSE IF "routes" \in DOMAIN hb THEN Requests(hb.routes) ELSE 0

\* Every request the tailer read is counted once for its route and once for
\* its domain: it waits in a bucket, is in the heartbeat being sent, has
\* reached the control plane, or went with an evicted route, a malformed
\* line, a dropped domain or a failed heartbeat; never two of these, whatever
\* the tailer reads while a heartbeat collects (route_metrics.rs record,
\* collect_and_reset_proto; dwaar_analytics.rs record_line).
CountedOnce ==
    /\ seen = Requests(rt.buckets) + rt.malformed + InHand("routes") + got.routes + gone.routes
    /\ seen = Views(ana.domains) + ana.malformed + ana.dropped + InHand("views") + got.views + gone.views

\* What a domain reports agrees with itself: people and bots add up to the
\* views, and each top list, within its cap, counts no view twice.
BucketsAgree ==
    /\ Cardinality(DOMAIN rt.buckets) <= MaxRoutes /\ Cardinality(DOMAIN ana.domains) <= MaxDomains
    /\ \A k \in DOMAIN rt.buckets : LET b == rt.buckets[k] IN
         Sums(b.class) <= b.count /\ b.hits + b.misses <= b.count /\ Len(b.ms) = Min({b.count, MaxSamples})
    /\ \A d \in DOMAIN ana.domains :
         LET b == ana.domains[d]
             fits(c) == Cardinality(DOMAIN c) <= MaxTop /\ Sums(c) <= b.views
         IN
         /\ b.human + b.bots = b.views /\ Sums(b.class) <= b.views /\ Cardinality(b.visitors) <= b.views
         /\ fits(b.pages) /\ fits(b.referrers)
         /\ \A e \in DOMAIN b.errors : LET s == b.errors[e].sample IN
              \A i \in DOMAIN s : (i > 1 /\ s[i - 1] = "bearer") => s[i] = "[redacted]"

\* A check runs beside itself only as often as a configuration was applied
\* over it, and the tasks of an id are never more than the checks that are
\* marked as running and those that were replaced (take_due_checks,
\* complete_check); results wait within their bound.
ChecksBounded ==
    /\ \A id \in {tasks[t].id : t \in DOMAIN tasks} :
         LET keys == {k \in DOMAIN mon.checks : mon.checks[k].config.id = id}
             running == Cardinality({t \in DOMAIN tasks : tasks[t].id = id})
             marked == Cardinality({k \in keys : mon.checks[k].flying})
             replaced == Cardinality({i \in DOMAIN hmLoad.checks : hmLoad.checks[i].id = id}) * (Max({applied, 1}) - 1)
         IN  running <= marked + replaced
    /\ Len(mon.results) <= MaxResults

MetricsHold == CountedOnce /\ BucketsAgree /\ ChecksBounded
===============================================================================
