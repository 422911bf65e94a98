----------------------------- MODULE MCScheduler -----------------------------
(* Instances of Scheduler for TLC. *)
EXTENDS Scheduler

Setting(o, b, a, i, p) == [offset |-> o, before |-> b, after |-> a, burst |-> i, poll |-> p]

\* In proportion to 72 h, 60 s, 300 s, 2 s and 30 s, with runs of two minutes.
MCDefaults == Setting(3, 1, 5, 1, 1)

\* A lead time that holds a poll and a run; nothing set; negative intervals; a
\* window after the opening; burst and poll interval left out.
MCSettings == {Setting(3, 6, 5, 1, 4), Setting(0, 0, 0, 0, 0), Setting(3, 6, 5, -1, -2),
               Setting(-1, -2, 5, 1, 2), Setting(3, 2, 4, 0, 0)}
=============================================================================
