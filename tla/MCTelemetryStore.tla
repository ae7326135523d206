-------------------------- MODULE MCTelemetryStore --------------------------
(* Instances of TelemetryStore.                                            *)
EXTENDS TelemetryStore, TLC

Rec(n, t) == [seq |-> n, ts |-> t, rid |-> n]
File(a, b) == [recs |-> [i \in 1..(b - a + 1) |-> Rec(a + i - 1, 1)], torn |-> FALSE, summary |-> TRUE]
TLoad == [otlp |-> {}, files |-> [p \in {} |-> 0], policy |-> [max_age |-> 1, max_bytes |-> 100], start |-> 1, until |-> 1, stored |-> 0,
   records |-> 4, producers |-> {"system", "p"}, times |-> {1, 3}, syncs |-> TRUE, faults |-> FALSE, policies |-> {}, levels |-> {},
   reads |-> TRUE, crashes |-> TRUE, resets |-> FALSE]
Two == [p \in {"p", "q"} |-> IF p = "p" THEN [n \in {1} |-> File(1, 2)] ELSE [n \in {3} |-> File(3, 3)]]
\* Crashes between the steps of the writer.
Crashing == [TLoad EXCEPT !.reads = FALSE, !.policy.max_age = 100, !.times = {1}, !.records = 3]
\* A directory of another version, which is emptied.
Foreign == [Crashing EXCEPT !.resets = TRUE, !.records = 2]
\* A disk that fails.
Faulty == [TLoad EXCEPT !.reads = FALSE, !.policy.max_age = 100, !.faults = TRUE, !.times = {1}, !.crashes = FALSE, !.syncs = FALSE]
\* Pages read while segments are evicted by age.
Reading == [TLoad EXCEPT !.crashes = FALSE, !.files = Two, !.stored = 3, !.records = 5, !.producers = {"p", "q"}, !.syncs = FALSE,
              !.start = 2, !.until = 4, !.policy.max_age = 2]
\* Limits, watermarks and changes of the policy.
Limits == [TLoad EXCEPT !.otlp = {"o"}, !.producers = {"system", "p", "o"}, !.records = 8, !.stored = 5, !.reads = FALSE, !.syncs = FALSE, !.crashes = FALSE,
   !.times = {2}, !.policy = [max_age |-> 100, max_bytes |-> 8], !.levels = {"low", "high", "empty", "middle"}, 
   !.policies = {[max_age |-> 1, max_bytes |-> 4], [max_age |-> 0, max_bytes |-> 4]},
   !.files = [p \in {"p", "o"} |-> IF p = "p" THEN [n \in {1, 3} |-> IF n = 1 THEN File(1, 2) ELSE File(3, 3)] ELSE [n \in {4} |-> File(4, 5)]]]
\* Segments that may not go leave the kind over its limit.
Crowd == [Limits EXCEPT !.otlp = {"o1", "o2", "o3"}, !.producers = {"p"}, !.stored = 16, !.records = 17, !.policies = {}, !.levels = {},
   !.policy.max_bytes = 16,
   !.files = [p \in {"p", "o1", "o2", "o3"} |->
      CASE p = "o1" -> [n \in {1} |-> File(1, 3)] [] p = "o2" -> [n \in {4} |-> File(4, 6)]
        [] p = "o3" -> [n \in {7} |-> File(7, 9)] [] p = "p" -> [n \in {10, 12, 14, 16} |-> IF n = 16 THEN File(16,16) ELSE File(n, n + 1)]]]
MCTelLoads == {Crashing, Foreign, Faulty, Reading, Limits}
MCCrowdLoads == {Crowd}

TelemetrySpec == TsInit /\ [][TsNext]_tsVars
=============================================================================
