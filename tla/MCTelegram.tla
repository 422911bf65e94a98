----------------------------- MODULE MCTelegram -----------------------------
(* Instances of TelegramSetup for TLC. *)
EXTENDS TelegramSetup

CONSTANTS w1, w2, ours, theirs

\* The waits are about one chat, or about two.
MCSubjects == {[w \in {w1, w2} |-> ours], [w \in {w1, w2} |-> IF w = w1 THEN ours ELSE theirs]}

MCUpdate ==
    [chat : {ours, theirs}, text : {TRUE}] \cup [chat : {None}, text : {FALSE}]
=============================================================================
