------------------------------- MODULE Alerts -------------------------------
(***************************************************************************)
(* The alert evaluator (src/src/local/sched/alerts.rs, alert_spec.rs,      *)
(* source.rs): rules over metrics, logs and built-in events, their         *)
(* episodes, silences, and the notifications sent to channels.             *)
(*                                                                         *)
(* Threads: the evaluation, which waits for the telemetry store before     *)
(* every rule and then works with the definition it read at the start;     *)
(* whoever raises a built-in event; one task per notification; the         *)
(* ledger, which applies signed actions at any time.  Everything but the   *)
(* stored events is in memory.  Episodes are numbered; a time is a tick.   *)
(***************************************************************************)
EXTENDS Integers, Sequences, FiniteSets, SequencesExt

CONSTANTS
    AlertLoads,     \* the signed actions in their order, and the inputs; see AlInit
    MaxTicks,       \* bound on the clock
    MaxRestarts,    \* bound on restarts
    Minute,         \* the window of PER_CHANNEL_PER_MINUTE, in ticks
    PerChannel,     \* PER_CHANNEL_PER_MINUTE
    Retries,        \* the number of retry delays
    EventResolve,   \* EVENT_RESOLVE_SECONDS, in ticks
    DroppingClear   \* DROPPING_CLEAR_SECONDS, in ticks

ASSUME AlertBounds ==
    {MaxTicks, MaxRestarts, Minute, PerChannel, Retries, EventResolve, DroppingClear} \subseteq Nat

RESOLVE_AFTER_FALSE == 2
NO_DATA_AFTER == 3
DEFAULT_REPEAT == 4
Unset == -1
Never == -100

VARIABLES
    now,        \* the clock
    applied,    \* the number of signed actions that took effect
    state,      \* State of the evaluator, in memory
    stored,     \* the stored alert events, by number
    ev,         \* the evaluation under way: its time and the definitions to come to
    sending,    \* the notification tasks
    notes,      \* history: every notification made, in order
    seen,       \* history: rule -> its last two results
    clobbered,  \* history: events written back as a delivery remembered them
    restarts, left, alLoad

alVars == <<now, applied, state, stored, ev, sending, notes, seen, clobbered, restarts, left, alLoad>>

-----------------------------------------------------------------------------
(* The signed spec of a rule.  A field that is not given is Unset.          *)

duration(tenths) == IF tenths = Unset THEN Unset ELSE (tenths + 9) \div 10
in_range(v, low, high) == low <= v /\ v <= high
Default(v, d) == IF v = Unset THEN d ELSE v

metric(s) == /\ s.named /\ s.regex_ok
             /\ in_range(Default(duration(s.window), 3), 1, 100)
             /\ in_range(Default(duration(s.for_duration), 0), 0, 50)
             /\ s.op # "unspecified"
log(s) == /\ s.regex_ok /\ in_range(Default(duration(s.window), 3), 1, 100)
          /\ in_range(s.threshold, 0, 1000)
event(s) == s.kind # "unspecified"

parse(s) ==
    LET valid == /\ Cardinality(s.conditions) = 1
                 /\ "metric" \in s.conditions => metric(s)
                 /\ "log" \in s.conditions => log(s)
                 /\ "event" \in s.conditions => event(s)
                 /\ in_range(Default(duration(s.repeat), DEFAULT_REPEAT), 1, 100)
    IN  IF ~valid THEN {}
        ELSE {[condition |-> CHOOSE c \in s.conditions : TRUE, op |-> s.op, kind |-> s.kind, scope |-> s.scope,
               threshold |-> s.threshold, for_duration |-> Default(duration(s.for_duration), 0),
               repeat |-> Default(duration(s.repeat), DEFAULT_REPEAT), channels |-> s.channels,
               on_resolve |-> s.on_resolve, enabled |-> s.enabled, silenced_until |-> Never]}

EVALUATED_EVENTS == {"cron_missed", "backup_failed", "deploy_failed", "telemetry_dropping"}
event_kind_evaluated(s) == \A r \in parse(s) : r.condition = "event" => r.kind \in EVALUATED_EVENTS

\* The definitions after the first n actions.  An update keeps the silence,
\* and the old rule when its spec is invalid.
Bind(f, x, v) == [y \in DOMAIN f \cup {x} |-> IF y = x THEN v ELSE f[y]]
Unbind(f, x) == [y \in DOMAIN f \ {x} |-> f[y]]
load(n) ==
    LET apply(d, a) ==
            CASE a.do = "rule" ->
                   IF parse(a.spec) = {} THEN d
                   ELSE LET r == CHOOSE r \in parse(a.spec) : TRUE
                            kept == IF a.id \in DOMAIN d.rules THEN d.rules[a.id].silenced_until ELSE Never
                        IN  [d EXCEPT !.rules = Bind(@, a.id, [r EXCEPT !.silenced_until = kept])]
              [] a.do = "delete" -> [d EXCEPT !.rules = Unbind(@, a.id)]
              [] a.do = "silence" ->
                   IF a.id \in DOMAIN d.rules THEN [d EXCEPT !.rules[a.id].silenced_until = a.until] ELSE d
              [] a.do = "channel" -> [d EXCEPT !.channels = @ \cup {a.id}]
              [] a.do = "channel_delete" -> [d EXCEPT !.channels = @ \ {a.id}]
    IN  FoldLeft(apply, [rules |-> [r \in {} |-> {}], channels |-> {}], SubSeq(alLoad.actions, 1, n))

NoRuntime == [state |-> "ok", pending_since |-> Unset, false_streak |-> 0, no_data_streak |-> 0, episode |-> 0,
              last_notified |-> 0, last_occurrence |-> 0, held |-> FALSE]
NoState == [rules |-> [r \in {} |-> {}], channels |-> {}, runtime |-> [r \in {} |-> {}], builtin |-> [k \in {} |-> 0],
            counting |-> FALSE, dropping |-> FALSE, last_drop_seen |-> Never,
            sends |-> [c \in {} |-> <<>>], coalesced |-> [c \in {} |-> 0], last_test |-> [c \in {} |-> 0],
            last_delivery |-> [c \in {} |-> FALSE]]
Idle == [at |-> 0, todo |-> <<>>]

AlInit ==
    /\ alLoad \in AlertLoads
    /\ now = 1 /\ applied = alLoad.start /\ state = NoState /\ stored = <<>> /\ ev = Idle
    /\ sending = {} /\ notes = <<>> /\ seen = [r \in {} |-> <<>>] /\ clobbered = {}
    /\ restarts = 0 /\ left = alLoad.occurrences

\* What a handler changes, passed through the steps it is made of.
World == [state |-> state, stored |-> stored, sending |-> sending, notes |-> notes]
Becomes(w) == state' = w.state /\ stored' = w.stored /\ sending' = w.sending /\ notes' = w.notes

alert_reload(w) == [w EXCEPT !.state.rules = load(applied).rules, !.state.channels = load(applied).channels]
runtime_of(w, id) == IF id \in DOMAIN w.state.runtime THEN w.state.runtime[id] ELSE NoRuntime
Note(w, id, rt) == [w EXCEPT !.state.runtime = Bind(@, id, rt)]
silenced(def, t) == def.silenced_until > t

-----------------------------------------------------------------------------
(* Notifications.                                                           *)

Recent(w, c, t) ==
    IF c \in DOMAIN w.state.sends THEN SelectSeq(w.state.sends[c], LAMBDA at : t - at < Minute) ELSE <<>>
Coalesced(w, c) == IF c \in DOMAIN w.state.coalesced THEN w.state.coalesced[c] ELSE 0
admit_send(w, c, t) == Len(Recent(w, c, t)) < PerChannel

Max0(s) == IF s = {} THEN 0 ELSE CHOOSE n \in s : \A m \in s : m <= n
notify(w, e, channels, t) ==
    LET one(v, c) ==
            LET free == admit_send(v, c, now)
                note == [event |-> e, channel |-> c, firing |-> v.stored[e].firing, at |-> now, due |-> t, sent |-> free,
                         more |-> IF free THEN Coalesced(v, c) ELSE 0, life |-> restarts]
                fresh == 1 + Max0({x.task : x \in v.sending})
            IN  [v EXCEPT !.notes = Append(@, note),
                   !.state.sends = Bind(@, c, IF free THEN Append(Recent(v, c, now), now) ELSE Recent(v, c, now)),
                   !.state.coalesced = IF free THEN Unbind(@, c) ELSE Bind(@, c, Coalesced(v, c) + 1),
                   !.sending = IF ~free THEN @
                               ELSE @ \cup {[task |-> fresh, event |-> e, channel |-> c, attempts |-> 0,
                                             pc |-> "send", found |-> v.stored[e], ok |-> FALSE]}]
    IN  FoldLeft(one, w, SetToSeq(channels \cap w.state.channels))

store_event(w, e, x) ==
    [w EXCEPT !.stored = IF e > Len(@) THEN Append(@, x) ELSE [@ EXCEPT ![e] = x]]

open_rule_episode(w, id, def, t) ==
    LET e == Len(w.stored) + 1
        v == store_event(Note(w, id, [runtime_of(w, id) EXCEPT !.state = "firing", !.pending_since = Unset,
                !.false_streak = 0, !.episode = e, !.last_occurrence = t, !.last_notified = t, !.held = silenced(def, t)]),
                e, [subject |-> <<"rule", id>>, firing |-> TRUE, deliveries |-> 0, life |-> restarts])
    IN  IF silenced(def, t) THEN v ELSE notify(v, e, def.channels, t)

resolve_rule_episode(w, id, def, t) ==
    LET e == runtime_of(w, id).episode
        v == Note(w, id, [runtime_of(w, id) EXCEPT !.state = IF e = 0 THEN "resolved" ELSE "ok",
                            !.false_streak = 0, !.held = FALSE, !.episode = 0])
        r == store_event(v, e, [v.stored[e] EXCEPT !.firing = FALSE])
    IN  IF e = 0 THEN v
        ELSE IF def.on_resolve /\ ~silenced(def, t) THEN notify(r, e, def.channels, t) ELSE r

\* Mutant: the time of a repetition is not kept.
repeat_or_release_always(w, id, def, t) ==
    LET rt == runtime_of(w, id)
        due == /\ id \in DOMAIN w.state.runtime /\ rt.state = "firing" /\ ~silenced(def, t)
               /\ rt.held \/ t - rt.last_notified >= def.repeat
        v == Note(w, id, [rt EXCEPT !.held = FALSE])
    IN  IF ~due THEN w ELSE IF rt.episode = 0 THEN v ELSE notify(v, rt.episode, def.channels, t)

repeat_or_release(w, id, def, t) ==
    LET rt == runtime_of(w, id)
        due == /\ id \in DOMAIN w.state.runtime /\ rt.state = "firing" /\ ~silenced(def, t)
               /\ rt.held \/ t - rt.last_notified >= def.repeat
        v == Note(w, id, [rt EXCEPT !.held = FALSE, !.last_notified = t])
    IN  IF ~due THEN w ELSE IF rt.episode = 0 THEN v ELSE notify(v, rt.episode, def.channels, t)

-----------------------------------------------------------------------------
(* The evaluation.                                                          *)

\* The source: the last value of every series that has a point.
metric_values(series) == {s[Len(s)] : s \in {s \in series : s # <<>>}}
compare(op, v, threshold) ==
    \/ op = "gt" /\ v > threshold
    \/ op = "gte" /\ v >= threshold
    \/ op = "lt" /\ v < threshold
    \/ op = "lte" /\ v <= threshold
    \/ op = "eq" /\ v = threshold
    \/ op = "neq" /\ v # threshold

apply_metric(def, values) ==
    CASE def.op = "absent" -> IF values = {} THEN "true" ELSE "false"
      [] def.op # "absent" /\ values = {} -> "none"
      [] OTHER -> IF \E v \in values : compare(def.op, v, def.threshold) THEN "true" ELSE "false"

log_count(def, count) == IF count > def.threshold THEN "true" ELSE "false"

alert_step(w, id, def, holds, t, for) ==
    LET rt == runtime_of(w, id)
        r0 == [rt EXCEPT !.no_data_streak = IF holds = "none" THEN @ + 1 ELSE 0]
        fails == rt.state = "firing" /\ holds # "true"
        resolve == fails /\ rt.false_streak + 1 >= RESOLVE_AFTER_FALSE
        fire == /\ holds = "true" /\ rt.state # "firing"
                /\ IF rt.state = "pending" THEN t - Default(rt.pending_since, t) >= for ELSE for = 0
        r1 == CASE fails -> [r0 EXCEPT !.false_streak = @ + 1]
                [] holds = "none" /\ ~fails ->
                     IF r0.no_data_streak >= NO_DATA_AFTER THEN [r0 EXCEPT !.state = "no_data", !.pending_since = Unset]
                     ELSE r0
                [] holds = "true" ->
                     LET r == [r0 EXCEPT !.false_streak = 0]
                     IN  IF rt.state \in {"firing", "pending"} \/ for = 0 THEN r
                         ELSE [r EXCEPT !.state = "pending", !.pending_since = t]
                [] holds = "false" /\ ~fails ->
                     [r0 EXCEPT !.state = "ok",
                                !.pending_since = IF rt.state \in {"pending", "no_data", "resolved"} THEN Unset ELSE @]
        v == Note(w, id, r1)
    IN  IF fire THEN open_rule_episode(v, id, def, t)
        ELSE IF resolve THEN resolve_rule_episode(v, id, def, t) ELSE v

expire_event_rule(w, id, def, t) ==
    LET rt == runtime_of(w, id)
    IN  IF rt.state = "firing" /\ t - rt.last_occurrence >= EventResolve THEN resolve_rule_episode(w, id, def, t) ELSE w

\* A rule's scope matches when every field it sets equals the event's.
scope_matches(rule, e) == \A f \in DOMAIN rule : rule[f] = "" \/ rule[f] = e[f]

Matching(w, b) ==
    {id \in DOMAIN w.state.rules :
        LET r == w.state.rules[id]
        IN  r.enabled /\ r.condition = "event" /\ r.kind = b.kind /\ scope_matches(r.scope, b.scope)}

\* A heartbeat's or a policy's own alert: one event per episode.
standalone(w, b, occurred, t) ==
    LET key == <<b.source, b.subject, b.kind>>
        channels == b.channels \cup UNION {w.state.rules[id].channels :
                        id \in {i \in Matching(w, b) : ~silenced(w.state.rules[i], t)}}
        e == Len(w.stored) + 1
        v == store_event([w EXCEPT !.state.builtin = Bind(@, key, e)], e,
                [subject |-> key, firing |-> TRUE, deliveries |-> 0, life |-> restarts])
        kin == {k \in DOMAIN w.state.builtin : k[1] = b.source /\ k[2] = b.subject}
        k == IF key \in kin THEN key ELSE CHOOSE x \in kin : TRUE
        o == w.state.builtin[k]
        r == store_event([w EXCEPT !.state.builtin = Unbind(@, k)], o, [w.stored[o] EXCEPT !.firing = FALSE])
    IN  IF occurred THEN IF key \in DOMAIN w.state.builtin THEN w ELSE notify(v, e, channels, t)
        ELSE IF kin = {} THEN w ELSE notify(r, o, channels, t)

builtin(w0, b, occurred) ==
    LET w == alert_reload(w0)
        one(v, id) ==
            LET rt == runtime_of(v, id) def == v.state.rules[id]
            IN  CASE occurred /\ rt.state = "firing" -> Note(v, id, [rt EXCEPT !.last_occurrence = now])
                  [] occurred /\ rt.state # "firing" -> open_rule_episode(v, id, def, now)
                  [] ~occurred /\ rt.state = "firing" -> resolve_rule_episode(v, id, def, now)
                  [] OTHER -> v
    IN  IF b.standalone THEN standalone(w, b, occurred, now)
        ELSE FoldLeft(one, w, SetToSeq(Matching(w, b)))

\* TELEMETRY_DROPPING: the store lost records since the last evaluation, or
\* has lost none for a while.
Dropping == [kind |-> "telemetry_dropping", scope |-> [service |-> ""], source |-> "telemetry", subject |-> "",
             standalone |-> FALSE, channels |-> {}]
check_dropping(w, total_rose, t) ==
    LET rose == w.state.counting /\ total_rose
        occurred == rose /\ ~w.state.dropping
        cleared == ~rose /\ w.state.dropping /\ t - w.state.last_drop_seen >= DroppingClear
        v == [w EXCEPT !.state.counting = TRUE,
                       !.state.last_drop_seen = IF rose THEN t ELSE @,
                       !.state.dropping = IF occurred THEN TRUE ELSE IF cleared THEN FALSE ELSE @]
    IN  IF occurred \/ cleared THEN builtin(v, Dropping, occurred) ELSE v

\* The evaluation reads the rules once.
evaluate ==
    /\ ev = Idle
    /\ \E rose \in (IF alLoad.drops THEN BOOLEAN ELSE {FALSE}) :
         LET w == check_dropping(alert_reload(World), rose, now)
             ids == {id \in DOMAIN w.state.rules : w.state.rules[id].enabled}
         IN  /\ Becomes(w)
             /\ ev' = [at |-> now, todo |-> [i \in 1..Cardinality(ids) |->
                          LET id == SetToSeq(ids)[i] IN [id |-> id, def |-> w.state.rules[id]]]]
    /\ UNCHANGED <<now, applied, seen, clobbered, restarts, left, alLoad>>

Saw(id, holds) ==
    seen' = Bind(seen, id, IF id \in DOMAIN seen THEN <<seen[id][Len(seen[id])], holds>> ELSE <<holds>>)

\* One rule, once the store has answered; the definition may be old by now.
evaluate_rule ==
    /\ ev.todo # <<>>
    /\ LET id == Head(ev.todo).id
           def == Head(ev.todo).def
           t == ev.at
       IN  \/ /\ def.condition = "metric"
              /\ \E series \in alLoad.series :
                   LET holds == apply_metric(def, metric_values(series))
                   IN  /\ Becomes(repeat_or_release(alert_step(World, id, def, holds, t, def.for_duration), id, def, t))
                       /\ Saw(id, holds)
           \/ /\ def.condition = "log"
              /\ \E count \in alLoad.counts :
                   LET holds == log_count(def, count)
                   IN  /\ Becomes(repeat_or_release(alert_step(World, id, def, holds, t, 0), id, def, t))
                       /\ Saw(id, holds)
           \/ /\ def.condition = "event"
              /\ Becomes(repeat_or_release(expire_event_rule(World, id, def, t), id, def, t))
              /\ UNCHANGED seen
    /\ ev' = [ev EXCEPT !.todo = Tail(@)]
    /\ UNCHANGED <<now, applied, clobbered, restarts, left, alLoad>>

\* The next evaluation is at a later tick; the store may answer late.
tick_clock ==
    /\ now < MaxTicks /\ ev # Idle
    /\ now' = now + 1 /\ ev' = IF ev.todo = <<>> THEN Idle ELSE ev
    /\ UNCHANGED <<applied, state, stored, sending, notes, seen, clobbered, restarts, left, alLoad>>

raise ==
    /\ left > 0 /\ left' = left - 1
    /\ \E b \in alLoad.builtins, occurred \in BOOLEAN : Becomes(builtin(World, b, occurred))
    /\ UNCHANGED <<now, applied, ev, seen, clobbered, restarts, alLoad>>

deploy_event ==
    /\ left > 0 /\ left' = left - 1
    /\ \E phase \in alLoad.phases :
         LET b == [kind |-> "deploy_failed", scope |-> [service |-> "s"], source |-> "deploy", subject |-> "s",
                   standalone |-> FALSE, channels |-> {}]
         IN  IF phase \in {"failed", "rolled_back", "live"} THEN Becomes(builtin(World, b, phase # "live"))
             ELSE Becomes(World)
    /\ UNCHANGED <<now, applied, ev, seen, clobbered, restarts, alLoad>>

apply_action ==
    /\ applied < Len(alLoad.actions) /\ applied' = applied + 1
    /\ LET a == alLoad.actions[applied + 1] IN a.do = "rule" => event_kind_evaluated(a.spec)
    /\ UNCHANGED <<now, state, stored, ev, sending, notes, seen, clobbered, restarts, left, alLoad>>

-----------------------------------------------------------------------------
(* The notification tasks.                                                  *)

\* A send that may be tried again, after a delay; otherwise it is recorded.
deliver ==
    \E d \in sending, answer \in alLoad.answers :
        /\ d.pc = "send"
        /\ LET again == answer = "later" /\ d.attempts < Retries
           IN  sending' = (sending \ {d}) \cup
                   {[d EXCEPT !.attempts = @ + 1, !.pc = IF again THEN "send" ELSE "load", !.ok = answer = "delivered"]}
        /\ UNCHANGED <<now, applied, state, stored, ev, notes, seen, clobbered, restarts, left, alLoad>>

\* The event is read, the delivery added, and the event written back.
record_delivery ==
    \/ \E d \in sending :
         /\ d.pc = "load"
         /\ sending' = (sending \ {d}) \cup {[d EXCEPT !.pc = "put", !.found = stored[d.event]]}
         /\ state' = [state EXCEPT !.last_delivery = Bind(@, d.channel, d.ok)]
         /\ UNCHANGED <<stored, clobbered>>
    \/ \E d \in sending :
         /\ d.pc = "put"
         /\ sending' = sending \ {d}
         /\ stored' = [stored EXCEPT ![d.event] = [d.found EXCEPT !.deliveries = @ + 1]]
         /\ clobbered' = IF stored[d.event] # d.found THEN clobbered \cup {d.event} ELSE clobbered
         /\ UNCHANGED state
record == record_delivery /\ UNCHANGED <<now, applied, ev, notes, seen, restarts, left, alLoad>>

\* A test is refused when the channel is unknown or was tested just now.
test_channel ==
    /\ left > 0 /\ alLoad.tests
    /\ \E c \in alLoad.channels, answer \in alLoad.answers :
         LET w == alert_reload(World)
             allowed == c \in w.state.channels /\ (c \notin DOMAIN w.state.last_test \/ w.state.last_test[c] < now)
         IN  state' = IF ~allowed THEN w.state
                      ELSE [w.state EXCEPT !.last_test = Bind(@, c, now),
                                           !.last_delivery = Bind(@, c, answer = "delivered")]
    /\ left' = left - 1
    /\ UNCHANGED <<now, applied, stored, ev, sending, notes, seen, clobbered, restarts, alLoad>>

restart ==
    /\ restarts < MaxRestarts /\ alLoad.restarts /\ restarts' = restarts + 1
    /\ state' = NoState /\ ev' = Idle /\ sending' = {} /\ seen' = [r \in {} |-> <<>>]
    /\ UNCHANGED <<now, applied, stored, notes, clobbered, left, alLoad>>

AlNext == evaluate_rule \/ evaluate \/ deliver \/ record \/ raise \/ deploy_event \/ apply_action
          \/ test_channel \/ tick_clock \/ restart

-----------------------------------------------------------------------------
OpenEpisodes == {state.runtime[id].episode : id \in DOMAIN state.runtime} \cup
                {state.builtin[k] : k \in DOMAIN state.builtin}

\* A stored event is firing exactly while its episode is open, except one
\* that a restart orphaned and one that a late delivery wrote back.
StoredIsOpen ==
    \A e \in DOMAIN stored :
        (stored[e].life = restarts /\ e \notin clobbered) => (stored[e].firing <=> e \in OpenEpisodes)

\* A firing rule held in at least one of its last two evaluations, so one
\* missed sample does not resolve it.
FiringIsRecent ==
    \A id \in DOMAIN state.runtime :
        (id \in DOMAIN seen /\ state.runtime[id].state = "firing") => "true" \in Range(seen[id])

Notes(e, c) == {i \in DOMAIN notes : notes[i].event = e /\ notes[i].channel = c}

\* A silence only delays: an open episode not held back has been announced
\* on every channel of its rule, if the channel exists since the start; and
\* an announcement comes again only after the rule's interval.
AnnouncedOrHeld ==
    \A id \in DOMAIN state.runtime :
        LET rt == state.runtime[id] IN
        (rt.episode # 0 /\ id \in DOMAIN state.rules) =>
            LET channels == state.rules[id].channels \cap alLoad.standing IN
            /\ ~rt.held => \A c \in channels : Notes(rt.episode, c) # {}
            /\ rt.held => \A c \in channels : Notes(rt.episode, c) = {}
RepeatsSpaced ==
    \A i, j \in DOMAIN notes :
        LET a == notes[i] b == notes[j] IN
        (i < j /\ a.event = b.event /\ a.channel = b.channel /\ a.firing /\ b.firing) => b.due - a.due >= alLoad.spacing

\* Every notification of a channel was sent, was counted in a later one, or
\* is still to be counted; no more are sent in a minute than the limit.
SendsCounted ==
    \A c \in alLoad.channels :
        LET mine == {i \in DOMAIN notes : notes[i].channel = c /\ notes[i].life = restarts}
            held == Cardinality({i \in mine : ~notes[i].sent})
            told == FoldLeft(LAMBDA n, x : IF x.channel = c /\ x.life = restarts THEN n + x.more ELSE n, 0, notes)
        IN  /\ held = told + Coalesced(World, c)
            /\ \A i \in mine :
                 Cardinality({j \in mine : j <= i /\ notes[j].sent /\ notes[i].at - notes[j].at < Minute}) <= PerChannel

\* Episodes, their stored events and their notifications agree
\* (open_rule_episode, resolve_rule_episode, repeat_or_release, admit_send),
\* whatever the order of evaluations, events, silences and deliveries.
AlertsAgree == StoredIsOpen /\ FiringIsRecent /\ AnnouncedOrHeld /\ RepeatsSpaced /\ SendsCounted
=============================================================================
