----------------------------- MODULE MCLogSpool -----------------------------
(* Instances of LogSpool.                                                  *)
EXTENDS LogSpool, TLC

SLine(sec, words) == [sec |-> sec, words |-> words]
SP == <<"plain">>
SLoad == [lines |-> [c \in {"c"} |-> <<SLine(1, SP), SLine(1, <<"flag", "value">>), SLine(1, <<"assign_next", "value", "plain">>), SLine(2, SP)>>],
  ends |-> 0, apps |-> Nothing, until |-> 2, corrupt |-> {}, outages |-> 1, crashes |-> 0]
\* More lines than the budget holds, one of them damaged.
Full == [SLoad EXCEPT !.lines = [c \in {"c"} |-> [i \in 1..6 |-> SLine(1, SP)]], !.until = 1, !.corrupt = {2}]
\* Secrets over several words, and a crash.
SCrash == [SLoad EXCEPT !.lines = [c \in {"c"} |-> <<SLine(1, SP), SLine(1, <<"flag", "value">>), SLine(2, <<"assign_next", "value", "plain">>)>>], !.crashes = 1]
\* Two containers, one of which ends.
Two2 == [SLoad EXCEPT !.lines = [c \in {"c", "d"} |-> IF c = "c" THEN <<SLine(1, SP), SLine(2, <<"bearer", "value">>)>> ELSE <<SLine(2, SP)>>], !.ends = 1, !.outages = 0, !.apps = [c \in {"c"} |-> "app"]]
MCSpoolLoads == {Full, SCrash, Two2}
MCFullLoads == {Full}

SpoolSpec == LsInit /\ [][LsNext]_lsVars
=============================================================================
