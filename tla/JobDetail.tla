------------------------------ MODULE JobDetail ------------------------------
(***************************************************************************)
(* The page of one job (ui/src/pages/JobDetail.tsx): it shows the row it   *)
(* fetched and the status it polled last, polls every three seconds while  *)
(* the row is active (useJobStatus.ts), and opens the SMS dialog when a    *)
(* poll says that the job waits for a code.                                *)
(*                                                                         *)
(* A request is answered by the server at one time and delivered to the    *)
(* page at a later one, in any order unless inOrder. The server is what    *)
(* the page sees of it: the row's status, and whether the registry has an  *)
(* entry for the job. Nobody else works on the job.                        *)
(***************************************************************************)
EXTENDS Naturals, FiniteSets

CONSTANTS
    MaxFlight,   \* bound: polls in flight
    MaxActs,     \* bound: clicks on the buttons
    MaxWaits     \* bound: waits for an SMS code

ASSUME PageAssumption == {MaxFlight, MaxActs, MaxWaits} \subseteq Nat

Unknown == "unknown"

VARIABLES
    failing,   \* requests may fail, the same throughout
    inOrder,   \* answers of one kind come in the order the server gave them, the same throughout
    row,       \* server: the job's status, "active" or "stopped", or "gone"
    sms,       \* server: the number of the wait in progress, 0 for none
    waits,     \* waits so far
    job,       \* page: the status it fetched last, or Unknown
    waiting,   \* page: sms_waiting of the status it received last
    badge,     \* page: the row's status in it, or Unknown
    show,      \* page: the dialog is open
    polls,     \* polls in flight: their slot, and what the server answered
    act,       \* page: the action under way, its kind and where it is
    refresh,   \* page: the load of "Yenile": "none", "load", or the status answered
    loadError, \* page: a load has failed; nothing ever takes that back
    del,       \* page: handleDelete: "no", "request", "served", "left"
    acts,
    closed     \* history: the wait the user closed the dialog in, 0 for none

server == <<row, sms, waits>>
loads == <<act, refresh, loadError, del, acts>>
pageVars == <<failing, inOrder, server, job, waiting, badge, show, polls, loads, closed>>

Idle == [pc |-> "idle", kind |-> "none"]

Rows == {"active", "stopped"}
NoAnswer == [sms |-> FALSE, row |-> Unknown]

PageInit ==
    /\ failing \in BOOLEAN /\ inOrder \in BOOLEAN
    /\ row \in Rows
    /\ sms = 0 /\ waits = 0
    /\ job = Unknown
    /\ waiting = FALSE /\ badge = Unknown /\ show = FALSE
    /\ polls = {}
    /\ act = [pc |-> "load", kind |-> "none"] /\ acts = 0
    /\ refresh = "none" /\ loadError = FALSE /\ del = "no"
    /\ closed = 0

-----------------------------------------------------------------------------
(* useJobStatus *)

IsActive == job = "active"

\* A new poll takes a free slot.
Free(ps) == (1..MaxFlight) \ {p.slot : p \in ps}
Send(ps) == ps \cup {[slot |-> CHOOSE n \in Free(ps) : TRUE, value |-> NoAnswer]}

\* The interval, or the effect when the page becomes active.
Tick ==
    /\ IsActive /\ Cardinality(polls) < MaxFlight
    /\ polls' = Send(polls)
    /\ UNCHANGED <<server, job, waiting, badge, show, loads, closed>>

\* GetJobStatus: the row, then the registry's answer.
Serve(p) ==
    /\ p.value = NoAnswer /\ row # "gone"
    /\ inOrder => \A q \in polls : q.value = NoAnswer
    /\ polls' = (polls \ {p}) \cup {[p EXCEPT !.value = [sms |-> sms # 0, row |-> row]]}
    /\ UNCHANGED <<server, job, waiting, badge, show, loads, closed>>

\* Faulty: the effect opens the dialog and never closes it.
ShowOn_OpenOnly(value) == IF value /\ ~waiting THEN TRUE ELSE show

\* Faulty: the branches are swapped.
ShowOn_Swapped(value) == IF value # waiting THEN ~value ELSE show

\* The effect on sms_waiting: it runs when the value changes.
ShowOn(value) == IF value # waiting THEN value ELSE show

\* setStatus, whatever polls were sent after this one.
Receive(p) ==
    /\ p.value # NoAnswer
    /\ polls' = polls \ {p}
    /\ waiting' = p.value.sms /\ badge' = p.value.row
    /\ show' = ShowOn(p.value.sms)
    /\ UNCHANGED <<server, job, loads, closed>>

\* The error is shown, the status stays.
PollFails(p) ==
    /\ failing \/ (row = "gone" /\ p.value = NoAnswer)
    /\ polls' = polls \ {p}
    /\ UNCHANGED <<server, job, waiting, badge, show, loads, closed>>

-----------------------------------------------------------------------------
(* act, loadJob and handleDelete *)

\* With an error the page shows that and nothing else: no buttons and no dialog.
Rendered == job # Unknown /\ ~loadError

\* The button that is there: one of start and stop.
ActBegin(kind) ==
    /\ Rendered /\ act = Idle /\ acts < MaxActs
    /\ kind = "stop" => IsActive
    /\ kind = "start" => ~IsActive
    /\ act' = [pc |-> "request", kind |-> kind]
    /\ acts' = acts + 1
    /\ UNCHANGED <<server, job, waiting, badge, show, polls, refresh, loadError, del, closed>>

\* What the server makes of it, as JobService says.
Done == IF row = "gone" THEN "gone" ELSE IF act.kind = "stop" THEN "stopped" ELSE "active"
Refused == act.kind # "stop" /\ (row = "gone" \/ (act.kind = "start" /\ row = Done))

\* Faulty: the row is not fetched again.
ActDone_NoReload ==
    /\ act.pc = "request" /\ ~Refused
    /\ row' = Done
    /\ act' = Idle
    /\ UNCHANGED <<sms, waits, job, waiting, badge, show, polls, refresh, loadError, del, acts,
                   closed>>

\* The server did it; then the row is fetched.
ActDone ==
    /\ act.pc = "request" /\ ~Refused
    /\ row' = Done
    /\ act' = [act EXCEPT !.pc = "load"]
    /\ UNCHANGED <<sms, waits, job, waiting, badge, show, polls, refresh, loadError, del, acts,
                   closed>>

\* An error, of the server or of the way back: an alert, nothing is fetched.
ActFails ==
    /\ act.pc = "request"
    /\ \/ Refused /\ UNCHANGED row
       \/ failing /\ ~Refused /\ row' \in {row, Done}
    /\ act' = Idle
    /\ UNCHANGED <<sms, waits, job, waiting, badge, show, polls, refresh, loadError, del, acts,
                   closed>>

LoadServe ==
    /\ act.pc = "load" /\ row # "gone"
    /\ inOrder => refresh \notin Rows
    /\ act' = [act EXCEPT !.pc = row]
    /\ UNCHANGED <<server, job, waiting, badge, show, polls, refresh, loadError, del, acts,
                   closed>>

\* Faulty: no status is fetched after an action.
Refreshed_Missing == UNCHANGED polls

\* refreshStatus: after an action one poll, active or not.
Refreshed ==
    IF act.kind = "none" THEN UNCHANGED polls
    ELSE Cardinality(polls) < MaxFlight /\ polls' = Send(polls)

\* setJob.
LoadReceive ==
    /\ act.pc \in Rows
    /\ job' = act.pc
    /\ Refreshed
    /\ act' = Idle
    /\ UNCHANGED <<server, waiting, badge, show, refresh, loadError, del, acts, closed>>

\* setError: from then on the page shows the error, but polls on.
LoadFails ==
    /\ act.pc \in {"load"} \cup Rows
    /\ failing \/ (row = "gone" /\ act.pc = "load")
    /\ Refreshed
    /\ loadError' = TRUE /\ act' = Idle
    /\ UNCHANGED <<server, job, waiting, badge, show, refresh, del, acts, closed>>

\* "Yenile": loadJob, also while an action is under way; one at a time.
Refresh ==
    /\ Rendered /\ refresh = "none" /\ acts < MaxActs
    /\ refresh' = "load" /\ acts' = acts + 1
    /\ UNCHANGED <<server, job, waiting, badge, show, polls, act, loadError, del, closed>>

RefreshServe ==
    /\ refresh = "load" /\ row # "gone"
    /\ inOrder => act.pc \notin Rows
    /\ refresh' = row
    /\ UNCHANGED <<server, job, waiting, badge, show, polls, act, loadError, del, acts, closed>>

RefreshReceive ==
    /\ refresh \in Rows
    /\ job' = refresh /\ refresh' = "none"
    /\ UNCHANGED <<server, waiting, badge, show, polls, act, loadError, del, acts, closed>>

\* An action that is under way goes on unseen.
RefreshFails ==
    /\ refresh # "none"
    /\ failing \/ (row = "gone" /\ refresh = "load")
    /\ refresh' = "none" /\ loadError' = TRUE
    /\ UNCHANGED <<server, job, waiting, badge, show, polls, act, del, acts, closed>>

\* "Sil", confirmed, also while an action is under way; one at a time.
DeleteBegin ==
    /\ Rendered /\ del = "no" /\ acts < MaxActs
    /\ del' = "request" /\ acts' = acts + 1
    /\ UNCHANGED <<server, job, waiting, badge, show, polls, act, refresh, loadError, closed>>

DeleteServe ==
    /\ del = "request" /\ row # "gone"
    /\ row' = "gone" /\ del' = "served"
    /\ UNCHANGED <<sms, waits, job, waiting, badge, show, polls, act, refresh, loadError, acts,
                   closed>>

\* navigate: the page and its interval are gone.
DeleteDone ==
    /\ del = "served"
    /\ del' = "left"
    /\ job' = Unknown /\ polls' = {} /\ show' = FALSE
    /\ UNCHANGED <<server, waiting, badge, act, refresh, loadError, acts, closed>>

\* The error is not caught, and nothing is shown.
DeleteFails ==
    /\ (failing /\ del = "served") \/ (del = "request" /\ (failing \/ row = "gone"))
    /\ del' = "no"
    /\ UNCHANGED <<server, job, waiting, badge, show, polls, act, refresh, loadError, acts,
                   closed>>

-----------------------------------------------------------------------------
(* The SMS dialog *)

\* onClose: by the user.
Close ==
    /\ Rendered /\ show
    /\ show' = FALSE
    /\ closed' = sms
    /\ UNCHANGED <<server, job, waiting, badge, polls, loads>>

\* "Kod Gir": there as long as the status says so.
Reopen ==
    /\ Rendered /\ waiting /\ ~show
    /\ show' = TRUE
    /\ UNCHANGED <<server, job, waiting, badge, polls, loads, closed>>

\* handleSubmit: accepted, the wait ends and the dialog closes; refused (409), it
\* stays open.
SubmitCode ==
    /\ Rendered /\ show /\ sms # 0
    /\ sms' = 0
    /\ show' = FALSE
    /\ UNCHANGED <<row, waits, job, waiting, badge, polls, loads, closed>>

-----------------------------------------------------------------------------
(* The server *)

\* A run waits for a code: also one that was in progress when the job was stopped.
WaitBegins ==
    /\ sms = 0 /\ waits < MaxWaits
    /\ waits' = waits + 1 /\ sms' = waits + 1
    /\ UNCHANGED <<row, job, waiting, badge, show, polls, loads, closed>>

\* A code by Telegram, or the context's end.
WaitEnds ==
    /\ sms # 0
    /\ sms' = 0
    /\ UNCHANGED <<row, waits, job, waiting, badge, show, polls, loads, closed>>

PageNext ==
    /\ del # "left"
    /\ \/ Tick \/ \E p \in polls : Serve(p) \/ Receive(p) \/ PollFails(p)
       \/ (\E kind \in {"start", "stop", "run"} : ActBegin(kind)) \/ ActDone \/ ActFails
       \/ LoadServe \/ LoadReceive \/ LoadFails
       \/ Refresh \/ RefreshServe \/ RefreshReceive \/ RefreshFails
       \/ DeleteBegin \/ DeleteServe \/ DeleteDone \/ DeleteFails
       \/ Close \/ Reopen \/ SubmitCode
       \/ WaitBegins \/ WaitEnds
    /\ UNCHANGED <<failing, inOrder>>

PageSpec == PageInit /\ [][PageNext]_pageVars

Goes(A) == A /\ UNCHANGED <<failing, inOrder>>

\* The interval goes on, no request takes for ever and not every one fails; the
\* user does nothing.
FairPageSpec ==
    /\ PageSpec
    /\ WF_pageVars(Goes(Tick)) /\ WF_pageVars(Goes(ActDone))
    /\ WF_pageVars(Goes(LoadServe)) /\ WF_pageVars(Goes(LoadReceive)) /\ WF_pageVars(Goes(DeleteDone))
    /\ \A n \in 1..MaxFlight :
          /\ SF_pageVars(Goes(\E p \in polls : p.slot = n /\ Serve(p)))
          /\ SF_pageVars(Goes(\E p \in polls : p.slot = n /\ Receive(p)))

-----------------------------------------------------------------------------

PageTypeOK ==
    /\ row \in Rows \cup {"gone"} /\ {job, badge} \subseteq Rows \cup {Unknown}
    /\ sms \in 0..waits /\ waits \in 0..MaxWaits /\ closed \in 0..MaxWaits
    /\ {failing, inOrder, waiting, show, loadError} \subseteq BOOLEAN
    /\ polls \subseteq [slot : 1..MaxFlight, value : [sms : BOOLEAN, row : Rows] \cup {NoAnswer}]
    /\ \A p, q \in polls : p.slot = q.slot => p = q
    /\ act \in [pc : {"idle", "request", "load"} \cup Rows,
                kind : {"none", "start", "stop", "run"}]
    /\ refresh \in {"none", "load"} \cup Rows /\ del \in {"no", "request", "served", "left"}
    /\ acts \in 0..MaxActs

Quiet == act.pc = "idle" /\ refresh = "none" /\ del = "no"

\* The buttons fit the job: with nothing under way the page shows the row's status,
\* unless requests fail or the answer of a refresh comes after a later one.
ButtonsFit == ~failing /\ inOrder /\ Quiet => job = row

\* So does the badge, which shows the status of a poll, and of a page that does not
\* poll any more too.
BadgeFits == ~failing /\ inOrder /\ Quiet /\ polls = {} => badge \in {Unknown, row}

\* The types, and the page against the server.
PageInv == PageTypeOK /\ ButtonsFit /\ BadgeFits

\* Once no run waits any more and the page polls, the dialog closes, although old
\* answers may come after newer ones and polls may fail.
DialogCloses == <>[](sms = 0 /\ IsActive /\ row # "gone") => <>[]~show

\* Nothing on the page or on its way there tells of a wait.
NoneKnown == ~waiting /\ \A p \in polls : ~p.value.sms

\* The dialog is on the screen for every wait the page learns of from then on (the
\* comment on the effect), unless the wait ends or the user closes it before, the page
\* stops polling, or shows an error instead.  Not for a wait that begins before a poll
\* has seen the end of the one before: then nothing changes.
DialogOpens ==
    \A n \in 1..MaxWaits :
        (sms = n /\ NoneKnown /\ IsActive) ~>
            ((Rendered /\ show) \/ sms # n \/ closed = n \/ ~IsActive \/ row = "gone" \/ loadError)
=============================================================================
