---------------------------- MODULE CodeDelivery ----------------------------
(***************************************************************************)
(* What a run may rely on when it waits for an SMS code (WaitForReply in   *)
(* service/api_notifier.go), whatever channels, requests and chats are     *)
(* between it and the user: a code that is sent off is for one wait, which *)
(* has begun and has not ended, or for nobody; that wait returns it, or    *)
(* another code that is for it, or ends without one.  The chat may give a  *)
(* wait a text that is not for it, an old one or another wait's; such a    *)
(* text is stray, and it too goes to that wait only.                       *)
(***************************************************************************)
CONSTANTS
    Runs,
    Codes,
    None

VARIABLES
    waiting,   \* the runs that wait
    typed,     \* the codes sent off so far
    stray,     \* those of them that the chat gave a wait they were not for
    owed,      \* the codes on their way to each run that waits
    got        \* what each run's last wait returned, or None

vars == <<waiting, typed, stray, owed, got>>

Init ==
    /\ waiting = {}
    /\ typed = {}
    /\ stray = {}
    /\ owed = [r \in Runs |-> {}]
    /\ got = [r \in Runs |-> None]

\* A wait begins with nothing on its way to it.
Begin(r) ==
    /\ r \notin waiting
    /\ waiting' = waiting \cup {r}
    /\ got' = [got EXCEPT ![r] = None]
    /\ UNCHANGED <<typed, stray, owed>>

\* A code is on its way to one of the waits in progress, or to none of them.
Goes(k) == owed' \in {owed} \cup {[owed EXCEPT ![r] = @ \cup {k}] : r \in waiting}

\* The user sends a new code off: to a wait in progress, or too late for any.
Type(k) ==
    /\ k \notin typed
    /\ typed' = typed \cup {k}
    /\ Goes(k)
    /\ UNCHANGED <<waiting, stray, got>>

\* The chat gives a wait a text it should not.
Stray(k) ==
    /\ typed' = typed \cup {k}
    /\ stray' = stray \cup {k}
    /\ Goes(k)
    /\ UNCHANGED <<waiting, got>>

\* A code is turned away only from a wait that another one is on its way to.
TurnAway(r, k) ==
    /\ k \in owed[r]
    /\ owed[r] # {k}
    /\ owed' = [owed EXCEPT ![r] = @ \ {k}]
    /\ UNCHANGED <<waiting, typed, stray, got>>

\* The wait ends: what else was on its way to it goes to nobody.
End(r) ==
    /\ r \in waiting
    /\ waiting' = waiting \ {r}
    /\ owed' = [owed EXCEPT ![r] = {}]
    /\ UNCHANGED <<typed, stray>>

Return(r, k) ==
    /\ End(r)
    /\ k \in owed[r]
    /\ got' = [got EXCEPT ![r] = k]

GiveUp(r) == End(r) /\ UNCHANGED got

Next ==
    \/ \E r \in Runs : Begin(r) \/ GiveUp(r) \/ (\E k \in Codes : TurnAway(r, k) \/ Return(r, k))
    \/ \E k \in Codes : Type(k) \/ Stray(k)

Spec == Init /\ [][Next]_vars
=============================================================================
