------------------------------ MODULE RecordLog ------------------------------
(***************************************************************************)
(* What the telemetry store promises to those who submit records: a record *)
(* is accepted at most once, becomes durable, may be dropped or evicted,   *)
(* and never comes back.  A restart loses accepted records, never durable  *)
(* ones.  TelemetryStore is shown to implement this; LogIngest builds on   *)
(* it.                                                                     *)
(***************************************************************************)
EXTENDS Naturals

VARIABLES
    accepted,   \* records in memory only
    durable,    \* records that survive a restart
    gone,       \* records refused, dropped, evicted, or lost in a restart
    epoch       \* the number of restarts

rlVars == <<accepted, durable, gone, epoch>>

RlInit == accepted = {} /\ gone = {} /\ epoch = 0

Fresh(r) == r \notin accepted /\ r \notin durable /\ r \notin gone
Accept(r) == Fresh(r) /\ accepted' = accepted \cup {r} /\ UNCHANGED <<durable, gone, epoch>>
Refuse(r) == Fresh(r) /\ gone' = gone \cup {r} /\ UNCHANGED <<accepted, durable, epoch>>

\* Some accepted records become durable, others are dropped or evicted.
Moved(P, S) == /\ P \subseteq accepted /\ S \subseteq accepted \cup durable /\ P \cap S = {}
               /\ accepted' = accepted \ (P \cup S)
               /\ durable' = (durable \cup P) \ S /\ gone' = gone \cup S
Settle(P, S) == Moved(P, S) /\ epoch' = epoch
Restart(P, S) == Moved(P, S) /\ accepted' = {} /\ S \cap durable = {} /\ epoch' = epoch + 1

\* P and S are determined by where the records went.
RlNext ==
    \/ \E r \in (accepted' \ accepted) \cup (gone' \ gone) : Accept(r) \/ Refuse(r)
    \/ Settle(accepted \cap durable', gone' \ gone)
    \/ Restart(accepted \cap durable', gone' \ gone)
==============================================================================
