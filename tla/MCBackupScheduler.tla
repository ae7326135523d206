-------------------------- MODULE MCBackupScheduler -------------------------
(* Instances of BackupScheduler.                                           *)
EXTENDS BackupScheduler, TLC

\* policy -> the minutes it fires, whether the agent runs on one thread, whether
\* saves fail, what the runner answers, and whether a policy is deleted,
\* restores are verified and a manual run is made.
Sched(fires, atomic, fails, outcomes, deletes, verify, man) ==
    [fires |-> fires, atomic |-> atomic, fails |-> fails, outcomes |-> outcomes, deletes |-> deletes,
     verify |-> verify, manual |-> man]
One == [p \in {"p"} |-> {2, 3}]
\* Two policies at one minute; failing saves and a refusing runner; tasks that
\* overtake each other; deletion, verification and a manual run.
MCSchedLoads ==
    {Sched([p \in {"p", "q"} |-> {2}], TRUE, FALSE, {"succeeded", "failed"}, FALSE, FALSE, FALSE),
     Sched(One, TRUE, TRUE, {"failed", "refused"}, FALSE, FALSE, FALSE),
     Sched([p \in {"p"} |-> {2}], FALSE, FALSE, {"succeeded", "failed"}, FALSE, FALSE, FALSE),
     Sched([p \in {"p"} |-> {2}], TRUE, TRUE, {"cancelled"}, TRUE, TRUE, TRUE)}
\* Three policies at one minute on several threads.
MCOverlapLoads == {Sched([p \in {"p", "q", "r"} |-> {2}], FALSE, FALSE, {"failed"}, FALSE, FALSE, FALSE)}

SchedSpec == BsInit /\ [][BsNext]_bsVars
=============================================================================
