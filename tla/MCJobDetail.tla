---------------------------- MODULE MCJobDetail ----------------------------
(* Instances of JobDetail for TLC. *)
EXTENDS JobDetail
=============================================================================
