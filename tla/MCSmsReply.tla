----------------------------- MODULE MCSmsReply -----------------------------
(* Instances of SmsReply for TLC. *)
EXTENDS SmsReply
=============================================================================
