---------------------------- MODULE BookingTest ----------------------------
(***************************************************************************)
(* The terminal program that hammers one slot (cmd/booking-test/main.go):  *)
(* log in, set the filters once, then search until the slot can be put     *)
(* into the cart; an SMS code comes from stdin or from sms-code.txt.       *)
(*                                                                         *)
(* Every call has a timeout of its own and may fail by it when failing;    *)
(* all fail after Ctrl+C.  Each wait for a code leaves a goroutine behind  *)
(* that reads a line from stdin, sooner or later.  The site, the user and  *)
(* the terminal are external.                                              *)
(***************************************************************************)
EXTENDS Naturals, Sequences

CONSTANTS
    MaxWaits,   \* bound: SMS codes the site sends
    MaxLines,   \* bound: lines and files the user writes
    MaxDrops    \* bound: times the session is lost

ASSUME BookingAssumption ==
    /\ {MaxWaits, MaxLines, MaxDrops} \subseteq Nat
    /\ MaxWaits # 0   \* an old file holds some code

VARIABLES
    failing,   \* chromedp calls may fail before Ctrl+C, the same throughout
    narrow,    \* a court is configured, and the site offers it in time, the same throughout
    pc,
    ret,       \* who called login and setupSearchPage: "start", "attempt", "recover"
    page,      \* "login", "blank" (filters missing), "wide" (all courts), "set"
    seen,      \* what the button found belongs to: "target", another "court", "other";
               \* "target" outside of an attempt
    slot,      \* the target: "closed", "open", "taken", "pending" (SMS), "ours"
    alive,     \* no Ctrl+C
    wait,      \* the number of the SMS the site sent last, and of the wait for it
    readers,   \* readLine goroutines: the wait each was started for, 0 for waitEnter
    stdin,     \* lines not read yet: the SMS a code was for, 0 for an empty line
    closed,    \* stdin is at its end once those are read
    chan,      \* the current wait's stdinCh: the code, 0 when empty
    file,      \* sms-code.txt: [code, at], code 0 when there is none
    code,      \* the code waitForSMSCode returned
    entered,   \* waitEnter's readLine returned
    fileAt,    \* history: the wait during which the returned file was written
    leftover,  \* history: a line was there when the current wait began
    missed,    \* history: "Sepete Ekle" found the slot or the session gone
    typed, drops

site == <<page, slot, drops>>
history == <<fileAt, leftover, missed>>
manners == <<failing, narrow>>
input == <<readers, stdin, closed, chan, file, entered, typed>>
vars == <<manners, pc, ret, site, seen, alive, wait, input, code, history>>

NoFile == [code |-> 0, at |-> 0]

Init ==
    /\ failing \in BOOLEAN /\ narrow \in BOOLEAN /\ (failing => narrow)
    /\ pc = "login" /\ ret = "start"
    /\ page = "login" /\ slot = "closed" /\ drops = 0
    /\ seen = "target" /\ alive = TRUE /\ wait = 0
    /\ readers = {} /\ stdin = << >> /\ closed = FALSE /\ chan = 0
    /\ file \in {NoFile, [code |-> 1, at |-> 0]}
    /\ entered = FALSE /\ typed = 0
    /\ code = 0 /\ fileAt = 0 /\ leftover = FALSE /\ missed = FALSE

MayFail == ~alive \/ failing

\* Where an error of login or setupSearchPage leads.
OnError == IF ret = "start" THEN "done" ELSE IF ret = "attempt" THEN "recover" ELSE "loop"

-----------------------------------------------------------------------------

\* When the location cannot be read, the session counts as open.
Login ==
    /\ pc = "login"
    /\ \/ alive /\ pc' = "setup" /\ page' = "blank"
       \/ alive /\ failing /\ pc' = "setup" /\ UNCHANGED page
       \/ MayFail /\ pc' = OnError /\ UNCHANGED page
    /\ UNCHANGED <<ret, slot, drops, seen, alive, wait, input, code, history>>

\* setupSearchPage; when it fails halfway the filters are missing.  A court that is not
\* offered, comes late or cannot be selected is only logged: the page shows all courts.
SetupSearchPage ==
    /\ pc = "setup"
    /\ \/ /\ alive /\ page # "login"
          /\ page' \in {"set"} \cup (IF failing \/ ~narrow THEN {"wide"} ELSE {})
          /\ pc' = IF ret = "attempt" THEN "search" ELSE "loop"
       \/ /\ MayFail \/ page = "login"
          /\ page' \in {page} \cup (IF page = "login" THEN {} ELSE {"blank"})
          /\ pc' = OnError
    /\ UNCHANGED <<ret, slot, drops, seen, alive, wait, input, code, history>>

\* Faulty: without a look at rootCtx.
Loop_NoCheck ==
    /\ pc = "loop"
    /\ pc' = "attempt"
    /\ seen' = "target"
    /\ UNCHANGED <<ret, site, alive, wait, input, code, history>>

Loop ==
    /\ pc = "loop"
    /\ pc' = IF alive THEN "attempt" ELSE "done"
    /\ seen' = "target"
    /\ UNCHANGED <<ret, site, alive, wait, input, code, history>>

\* Faulty: after a lost session only login is called.
Attempt_LoginOnly ==
    /\ pc = "attempt"
    /\ pc' = "search"
    /\ page' = IF page = "login" /\ alive THEN "blank" ELSE page
    /\ UNCHANGED <<ret, slot, drops, seen, alive, wait, input, code, history>>

\* attempt: on the login page, log in and set the filters again.  The location
\* may not be read in time.
Attempt ==
    /\ pc = "attempt"
    /\ \/ page = "login" /\ alive /\ pc' = "login" /\ ret' = "attempt"
       \/ (page # "login" \/ MayFail) /\ pc' = "search" /\ UNCHANGED ret
    /\ UNCHANGED <<site, seen, alive, wait, input, code, history>>

\* "Ara"; when the session is lost, the click may still find the old page.
Search ==
    /\ pc = "search"
    /\ \/ alive /\ pc' = "look"
       \/ (MayFail \/ page = "login") /\ pc' = "recover"
    /\ UNCHANGED <<ret, site, seen, alive, wait, input, code, history>>

\* The first row of the target's day and time decides, whichever facility's or court's
\* when the filters are missing; a row without a button counts as not found.
Look ==
    /\ pc = "look"
    /\ \/ alive /\ page # "login" /\ slot = "open" /\ seen' = "target" /\ pc' = "reserve"
       \/ alive /\ page = "blank" /\ seen' = "other" /\ pc' = "reserve"
       \/ alive /\ page = "wide" /\ seen' = "court" /\ pc' = "reserve"
       \/ alive /\ (page # "set" \/ slot # "open") /\ pc' = "loop" /\ UNCHANGED seen
       \/ MayFail /\ pc' = "recover" /\ UNCHANGED seen
    /\ UNCHANGED <<ret, site, alive, wait, input, code, history>>

Available == IF seen = "target" THEN slot = "open" ELSE TRUE

\* "Rezervasyon", then the cart button must be there.
Reserve ==
    /\ pc = "reserve"
    /\ \/ alive /\ page # "login" /\ Available /\ pc' = "cart"
       \/ (MayFail \/ page = "login" \/ ~Available) /\ pc' = "recover"
    /\ UNCHANGED <<ret, site, seen, alive, wait, input, code, history>>

\* The click on "Sepete Ekle": in the cart at once or after an SMS.  Nobody looks whether
\* the slot or the session was lost since the button was seen.
AddCart ==
    /\ pc = "cart"
    /\ \/ /\ alive /\ page # "login" /\ Available
          /\ missed' = FALSE
          /\ \/ /\ pc' = "cartDone" /\ slot' = IF seen = "target" THEN "ours" ELSE slot
                /\ UNCHANGED wait
             \/ /\ wait < MaxWaits /\ wait' = wait + 1
                /\ pc' = "cartSms" /\ slot' = IF seen = "target" THEN "pending" ELSE slot
       \/ /\ alive /\ (page = "login" \/ ~Available)
          /\ missed' = TRUE
          /\ pc' = "cartDone" /\ UNCHANGED <<slot, wait>>
       \/ /\ MayFail
          /\ pc' = "recover" /\ UNCHANGED <<slot, wait, missed>>
    /\ UNCHANGED <<ret, page, drops, seen, alive, input, code, fileAt, leftover>>

\* Faulty: the look for the SMS screen is forgotten.
SmsScreen_Missing ==
    /\ pc \in {"cartDone", "cartSms"}
    /\ pc' \in {"booked"} \cup (IF MayFail THEN {"recover"} ELSE {})
    /\ UNCHANGED <<ret, site, seen, alive, wait, input, code, history>>

\* The sleep behind the click may be cut off; when the look for the SMS screen
\* fails, no SMS is assumed.
SmsScreen ==
    /\ pc \in {"cartDone", "cartSms"}
    /\ \/ alive /\ pc' = IF pc = "cartSms" THEN "sms" ELSE "booked"
       \/ MayFail /\ pc' \in {"booked", "recover"}
    /\ UNCHANGED <<ret, site, seen, alive, wait, input, code, history>>

\* The attempt is over with what belongs to it.  A location that cannot be read counts
\* as an open session.
Recover ==
    /\ pc = "recover"
    /\ \/ pc' = IF page = "login" THEN "login" ELSE "setup"
       \/ MayFail /\ pc' = "setup"
    /\ ret' = "recover" /\ seen' = "target"
    /\ code' = 0 /\ fileAt' = 0 /\ leftover' = FALSE /\ missed' = FALSE
    /\ UNCHANGED <<site, alive, wait, input>>

-----------------------------------------------------------------------------
(* waitForSMSCode, readLine and waitEnter *)

\* Faulty: an old file is left.
WaitBegin_OldFile ==
    /\ pc = "sms"
    /\ pc' = "wait"
    /\ chan' = 0
    /\ readers' = readers \cup {wait}
    /\ leftover' = (stdin # << >>)
    /\ UNCHANGED <<ret, site, seen, alive, wait, stdin, closed, file, entered, typed, code, fileAt, missed>>

\* Faulty: all waits read from one channel.
WaitBegin_OneChannel ==
    /\ pc = "sms"
    /\ pc' = "wait"
    /\ file' = NoFile
    /\ readers' = readers \cup {wait}
    /\ leftover' = (stdin # << >>)
    /\ UNCHANGED <<ret, site, seen, alive, wait, stdin, closed, chan, entered, typed, code, fileAt, missed>>

\* An old file is removed; a new goroutine reads a line, for a new channel.
WaitBegin ==
    /\ pc = "sms"
    /\ pc' = "wait"
    /\ file' = NoFile
    /\ chan' = 0
    /\ readers' = readers \cup {wait}
    /\ leftover' = (stdin # << >>)
    /\ UNCHANGED <<ret, site, seen, alive, wait, stdin, closed, entered, typed, code, fileAt, missed>>

WaitStdin ==
    /\ pc = "wait" /\ chan # 0
    /\ pc' = "code" /\ code' = chan /\ chan' = 0 /\ fileAt' = wait
    /\ UNCHANGED <<ret, site, seen, alive, wait, readers, stdin, closed, file, entered, typed, leftover, missed>>

WaitFile ==
    /\ pc = "wait" /\ file # NoFile
    /\ pc' = "code" /\ code' = file.code /\ fileAt' = file.at
    /\ file' = NoFile
    /\ UNCHANGED <<ret, site, seen, alive, wait, readers, stdin, closed, chan, entered, typed, leftover, missed>>

\* Three minutes are over, or Ctrl+C: attempt ends with an error.
WaitTimeout ==
    /\ pc = "wait"
    /\ pc' = "recover"
    /\ UNCHANGED <<ret, site, seen, alive, wait, input, code, history>>

\* The code is sent; whether the site took it is not looked at.
SmsEnter ==
    /\ pc = "code"
    /\ \/ /\ alive /\ pc' = "booked"
          /\ slot' = IF code = wait /\ slot = "pending" THEN "ours" ELSE slot
       \/ MayFail /\ pc' = "recover" /\ UNCHANGED slot
    /\ UNCHANGED <<ret, page, drops, seen, alive, wait, input, code, history>>

\* waitEnter starts its reader.
Booked ==
    /\ pc = "booked"
    /\ pc' = "enter"
    /\ readers' = readers \cup {0}
    /\ UNCHANGED <<ret, site, seen, alive, wait, stdin, closed, chan, file, entered, typed,
                   code, history>>

End ==
    /\ pc = "enter"
    /\ entered \/ ~alive
    /\ pc' = "done"
    /\ UNCHANGED <<ret, site, seen, alive, wait, input, code, history>>

\* What reader r does with its line: the channel of an earlier wait is nobody's.
Hands(r, line) ==
    /\ readers' = readers \ {r}
    /\ chan' = IF r = wait /\ r # 0 /\ pc = "wait" /\ line # 0 THEN line ELSE chan
    /\ entered' = (entered \/ r = 0)

\* A reader gets the first line; its buffer takes further lines that are there.
ReadLine ==
    /\ pc # "done" /\ stdin # << >>
    /\ \E r \in readers, n \in 1..Len(stdin) :
         /\ Hands(r, Head(stdin))
         /\ stdin' = SubSeq(stdin, n + 1, Len(stdin))
    /\ UNCHANGED <<pc, ret, site, seen, alive, wait, closed, file, typed, code, history>>

\* At the end of stdin every reader gets an empty line.
ReadEnd ==
    /\ pc # "done" /\ stdin = << >> /\ closed
    /\ \E r \in readers : Hands(r, 0)
    /\ UNCHANGED <<pc, ret, site, seen, alive, wait, stdin, closed, file, typed, code, history>>

-----------------------------------------------------------------------------
(* The user and the site *)

Codes == {wait} \ {0}

TypeLine ==
    /\ pc # "done" /\ ~closed /\ typed < MaxLines
    /\ \E k \in Codes \cup {0} : stdin' = Append(stdin, k)
    /\ typed' = typed + 1
    /\ UNCHANGED <<pc, ret, site, seen, alive, wait, readers, closed, chan, file, entered, code, history>>

WriteFile ==
    /\ pc # "done" /\ typed < MaxLines
    /\ \E k \in Codes : file' = [code |-> k, at |-> wait]
    /\ typed' = typed + 1
    /\ UNCHANGED <<pc, ret, site, seen, alive, wait, readers, stdin, closed, chan, entered,
                   code, history>>

CloseStdin ==
    /\ ~closed /\ pc # "done"
    /\ closed' = TRUE
    /\ UNCHANGED <<pc, ret, site, seen, alive, wait, readers, stdin, chan, file, entered, typed,
                   code, history>>

CtrlC ==
    /\ alive /\ pc # "done"
    /\ alive' = FALSE
    /\ UNCHANGED <<pc, ret, site, seen, wait, input, code, history>>

\* The slot opens, another customer takes it or gives it back, or it is released
\* when its SMS was not answered.
SlotChange ==
    /\ pc # "done"
    /\ \/ slot \in {"closed", "taken"} /\ slot' = "open"
       \/ slot = "open" /\ slot' = "taken"
       \/ slot = "pending" /\ pc \notin {"cartSms", "sms", "wait", "code"} /\ slot' = "open"
    /\ UNCHANGED <<pc, ret, page, drops, seen, alive, wait, input, code, history>>

SessionLost ==
    /\ pc # "done" /\ page # "login" /\ drops < MaxDrops
    /\ page' = "login" /\ drops' = drops + 1
    /\ UNCHANGED <<pc, ret, slot, seen, alive, wait, input, code, history>>

Program ==
    \/ Login \/ SetupSearchPage \/ Loop \/ Attempt \/ Search \/ Look \/ Reserve \/ AddCart \/ SmsScreen \/ Recover
    \/ WaitBegin \/ WaitStdin \/ WaitFile \/ SmsEnter \/ Booked \/ End

Next ==
    /\ \/ Program \/ WaitTimeout \/ ReadLine \/ ReadEnd
       \/ TypeLine \/ WriteFile \/ CloseStdin \/ CtrlC \/ SlotChange \/ SessionLost
    /\ UNCHANGED manners

Spec == Init /\ [][Next]_vars

\* The program goes on, and every wait has a timeout; the user does nothing.
FairSpec == Spec /\ WF_vars(Program /\ UNCHANGED manners) /\ WF_vars(WaitTimeout /\ UNCHANGED manners)

-----------------------------------------------------------------------------

TypeOK ==
    /\ pc \in {"login", "setup", "loop", "attempt", "search", "look", "reserve", "cart",
               "cartDone", "cartSms", "recover", "sms", "wait", "code", "booked", "enter", "done"}
    /\ ret \in {"start", "attempt", "recover"}
    /\ page \in {"login", "blank", "wide", "set"} /\ seen \in {"target", "court", "other"}
    /\ slot \in {"closed", "open", "taken", "pending", "ours"}
    /\ {failing, narrow, alive, closed, entered, leftover, missed} \subseteq BOOLEAN
    /\ 0 \in readers => pc \in {"enter", "done"}
    /\ wait \in 0..MaxWaits /\ readers \subseteq 0..MaxWaits
    /\ stdin \in Seq(0..MaxWaits)
    /\ chan \in 0..MaxWaits /\ code \in 0..MaxWaits /\ fileAt \in 0..MaxWaits
    /\ file \in [code : 0..MaxWaits, at : 0..MaxWaits]
    /\ typed \in 0..MaxLines /\ drops \in 0..MaxDrops

\* A code taken from the file was written for the wait that takes it: a file from
\* an earlier wait, or an earlier session, is never used.
FileIsFresh == pc = "code" => fileAt = wait

\* A code is one for the SMS it is sent for, whichever goroutine of an earlier wait is
\* still reading: unless a line that nobody had read was there when the wait began.
CodeFits == pc = "code" /\ ~leftover => code = wait

\* The booking that is announced is the target's, when no call fails by itself and the
\* court is selected: unless "Sepete Ekle" came too late, or a line that nobody had read
\* passed for the code.
BookedIsOurs ==
    ~failing /\ narrow /\ alive /\ pc = "enter" => slot = "ours" \/ missed \/ leftover

\* The types, the code against its wait, and the announcement.
BookingInv == TypeOK /\ FileIsFresh /\ CodeFits /\ BookedIsOurs

\* Only the target is reserved (the comment on attempt): through lost sessions and
\* recoveries the search never runs without its filters, when calls do not fail by
\* themselves; a setupSearchPage that fails halfway is followed by an attempt.  Where no
\* court is configured, or the site does not offer it in time, it can be any court of
\* the facility (setupSearchPage only logs that).
OnlyTarget ==
    ~failing /\ pc \in {"reserve", "cart"} => seen = "target" \/ (~narrow /\ seen = "court")

\* An open slot does not stay open, when its court is selected: somebody takes it, or the
\* program gets it.  Neither a session lost on the way nor a reservation that fails stops
\* the attempts; they stop at Ctrl+C, at an error of the first login, and at what only
\* passes for a booking: "Sepete Ekle" came when the slot or the session was gone, or
\* a line typed for an earlier SMS was taken for the code.
OpenIsTried ==
    ~failing /\ narrow /\ slot = "open" ~>
        \/ slot # "open" \/ ~alive
        \/ pc = "done" /\ ret = "start"
        \/ pc \in {"enter", "done"} /\ (missed \/ leftover)

\* Ctrl+C ends the program, wherever it is.
StopEnds == ~alive ~> pc = "done"
=============================================================================
