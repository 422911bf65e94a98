---------------------------- MODULE JobLifecycle ----------------------------
(***************************************************************************)
(* What the job service promises a user who waits for each answer: a job   *)
(* is created once, runs with its saved configuration in one scheduler at  *)
(* most, is edited and deleted only while it does not run, and never comes *)
(* back once deleted.  Threads, statements and the status column are gone. *)
(***************************************************************************)
CONSTANTS Jobs, Cfgs, None

VARIABLES
    saved,   \* "absent", "present" or "deleted"
    conf,    \* the saved configuration
    live     \* the configuration the job runs with, or None

vars == <<saved, conf, live>>

Init ==
    /\ saved = [j \in Jobs |-> "absent"]
    /\ conf = [j \in Jobs |-> None]
    /\ live = [j \in Jobs |-> None]

Create(j, c) ==
    /\ saved[j] = "absent"
    /\ saved' = [saved EXCEPT ![j] = "present"]
    /\ conf' = [conf EXCEPT ![j] = c]
    /\ UNCHANGED live

Start(j) ==
    /\ saved[j] = "present" /\ live[j] = None
    /\ live' = [live EXCEPT ![j] = conf[j]]
    /\ UNCHANGED <<saved, conf>>

Stop(j) ==
    /\ live[j] # None
    /\ live' = [live EXCEPT ![j] = None]
    /\ UNCHANGED <<saved, conf>>

Edit(j, c) ==
    /\ saved[j] = "present" /\ live[j] = None
    /\ conf' = [conf EXCEPT ![j] = c]
    /\ UNCHANGED <<saved, live>>

Delete(j) ==
    /\ saved[j] = "present" /\ live[j] = None
    /\ saved' = [saved EXCEPT ![j] = "deleted"]
    /\ UNCHANGED <<conf, live>>

\* A crash stops every job at once.
Crash ==
    /\ live' = [j \in Jobs |-> None]
    /\ UNCHANGED <<saved, conf>>

Next ==
    \/ \E j \in Jobs : Start(j) \/ Stop(j) \/ Delete(j)
    \/ \E j \in Jobs, c \in Cfgs : Create(j, c) \/ Edit(j, c)
    \/ Crash

Spec == Init /\ [][Next]_vars
=============================================================================
