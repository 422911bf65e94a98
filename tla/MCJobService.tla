---------------------------- MODULE MCJobService ----------------------------
(* Instances of JobService for TLC. *)
EXTENDS JobService, TLC

\* Schedulers, configurations and request goroutines are interchangeable.
Symmetry == Permutations(Scheds) \cup Permutations(Cfgs) \cup Permutations(Threads)
=============================================================================
