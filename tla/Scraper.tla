------------------------------- MODULE Scraper -------------------------------
(***************************************************************************)
(* One run of the booking scraper (internal/scraper/scraper.go): log in,   *)
(* then for every facility and court open the rental tab, filter, search,  *)
(* and for every date and time try to put the slot into the cart.          *)
(*                                                                         *)
(* Facilities, courts, dates and times are numbered in the order of the    *)
(* configuration; a slot is one of each.  The site is external: a filter   *)
(* that is not set shows every slot, slots open and are taken or released  *)
(* by other customers at any time (what is held for us stays held), and a  *)
(* taken slot may be listed without a button.  A chromedp call fails once  *)
(* the context is over, and, with glitches, at other times too; a click on *)
(* an element that is not there waits for it.                              *)
(***************************************************************************)
EXTENDS Naturals, FiniteSets

CONSTANTS
    Setups    \* the configurations and the manners of the site that are looked at:
              \* nf, nc, nd, nt: configured facilities, courts, dates, times
              \* named: the lists that are not empty; an empty one stands for any
              \* facilities, courts: the ones the site offers
              \* facility, court: the option that each name selects, the first whose text
              \* contains it: its own, another's, or none (0)
              \* prompt: the dropdowns are filled before waitForOptions gives up
              \* glitches: chromedp calls may fail before the deadline
              \* right: the code that answers a wait is the one the site sent for it

ASSUME SetupAssumption == \A x \in Setups :
    /\ {x.nf, x.nc, x.nd, x.nt} \subseteq Nat \ {0} /\ x.named \subseteq {"facility", "court"}
    /\ x.facilities \subseteq 1..x.nf /\ x.courts \subseteq 1..x.nc
    /\ x.facility \in [1..x.nf -> {0} \cup x.facilities] /\ x.court \in [1..x.nc -> {0} \cup x.courts]
    /\ \A i \in x.facilities : x.facility[i] # 0
    /\ \A i \in x.courts : x.court[i] # 0
    /\ {x.prompt, x.glitches, x.right} \subseteq BOOLEAN

VARIABLES
    setup,    \* one of Setups, the same throughout
    pc,
    at,       \* the slot of the configuration the loops are at
    page,     \* the facility and court the page is filtered by, or Any
    listed,   \* the slots with a button when the page was filled
    target,   \* the site's slot behind the row that was found
    alive,    \* the browser context is not over
    free,     \* the slots that can be booked
    cart,     \* the slots in our cart
    pending,  \* the slots that wait for an SMS code
    report,   \* the slot Run reports, as a set
    steady,   \* history: the slots that were free when the page for them was filled, or
              \* from the beginning if it was not yet, and all the time since
    snatched  \* history: somebody took the slot behind the cart button before the click

vars == <<setup, pc, at, page, listed, target, alive, free, cart, pending, report, steady, snatched>>
history == <<steady, snatched>>

Any == 0
Slots == [f : 1..setup.nf, c : 1..setup.nc, d : 1..setup.nd, t : 1..setup.nt]
\* The slots the site has.
Offered == {s \in Slots : s.f \in setup.facilities /\ s.c \in setup.courts}
First == [f |-> 1, c |-> 1, d |-> 1, t |-> 1]
\* The loops go over one empty name where none is configured.
LastFacility == IF "facility" \in setup.named THEN setup.nf ELSE 1
LastCourt == IF "court" \in setup.named THEN setup.nc ELSE 1

Init ==
    /\ setup \in Setups
    /\ pc = "login"
    /\ at = First /\ target = First
    /\ page = [f |-> Any, c |-> Any]
    /\ listed = {}
    /\ alive = TRUE
    /\ free \in SUBSET Offered
    /\ cart = {} /\ pending = {} /\ report = {}
    /\ steady = free /\ snatched = FALSE

-----------------------------------------------------------------------------
(* The loops *)

\* Before(a, b): the loops reach a before b.
Before(a, b) ==
    \/ a.f < b.f
    \/ a.f = b.f /\ a.c < b.c
    \/ a.f = b.f /\ a.c = b.c /\ a.d < b.d
    \/ a.f = b.f /\ a.c = b.c /\ a.d = b.d /\ a.t < b.t

\* Where the loops try a slot.
Tried(s) == [s EXCEPT !.f = IF "facility" \in setup.named THEN @ ELSE 1,
                      !.c = IF "court" \in setup.named THEN @ ELSE 1]

\* Faulty: the times of the first date only.
NextTime_OneDate ==
    IF at.t < setup.nt THEN [at EXCEPT !.t = @ + 1] ELSE [at EXCEPT !.d = setup.nd, !.t = setup.nt]

\* The next time, or the first of the next date.
NextTime == IF at.t < setup.nt THEN [at EXCEPT !.t = @ + 1] ELSE [at EXCEPT !.d = @ + 1, !.t = 1]

\* continue of the inner loops; after the last slot the next court is searched.
TryNext ==
    IF at.d = setup.nd /\ at.t = setup.nt
    THEN pc' = "nextCourt" /\ UNCHANGED at
    ELSE pc' = "look" /\ at' = NextTime

\* Faulty: the facility starts over with its first court.
NextCourt_Again ==
    /\ pc = "nextCourt"
    /\ at' = [First EXCEPT !.f = at.f]
    /\ pc' = "open"
    /\ UNCHANGED <<page, listed, target, alive, free, cart, pending, report, history>>

\* continue of the outer loops; after the last court Run returns false.
NextCourt ==
    /\ pc = "nextCourt"
    /\ \/ /\ at.c < LastCourt
          /\ at' = [First EXCEPT !.f = at.f, !.c = at.c + 1]
          /\ pc' = "open"
       \/ /\ at.c = LastCourt /\ at.f < LastFacility
          /\ at' = [First EXCEPT !.f = at.f + 1]
          /\ pc' = "open"
       \/ /\ at.c = LastCourt /\ at.f = LastFacility
          /\ pc' = "none"
          /\ UNCHANGED at
    /\ UNCHANGED <<page, listed, target, alive, free, cart, pending, report, history>>

MayFail == ~alive \/ setup.glitches

-----------------------------------------------------------------------------
(* Run and findAndBook *)

\* login; its error ends the run.
Login ==
    /\ pc = "login"
    /\ \/ alive /\ pc' = "open"
       \/ MayFail /\ pc' = "error"
    /\ UNCHANGED <<at, page, listed, target, alive, free, cart, pending, report, history>>

\* Navigation resets the filters; the sport filter is set with them.
OpenTab ==
    /\ pc = "open"
    /\ \/ alive /\ pc' = "facility" /\ page' = [f |-> Any, c |-> Any]
       \/ MayFail /\ pc' = "nextCourt" /\ UNCHANGED page
    /\ UNCHANGED <<at, listed, target, alive, free, cart, pending, report, history>>

\* Faulty: the dropdown is read at once.
Selected_NoWait(option, prompt) == {v \in {option, Any} : v = Any \/ alive}

\* What a dropdown holds after an attempt to select a name: no option contains it, the
\* options are not there yet and the timeout is only logged, or the first that does.
Selected(option, prompt) ==
    {v \in {option, Any} : \/ v = option /\ alive
                           \/ v = Any /\ (option = Any \/ ~prompt \/ MayFail)}

\* The result of the selection is only logged; without a name there is none.
SelectFacility ==
    /\ pc = "facility"
    /\ \E v \in IF "facility" \in setup.named THEN Selected(setup.facility[at.f], setup.prompt)
               ELSE {Any} :
        page' = [page EXCEPT !.f = v]
    /\ pc' = "court"
    /\ UNCHANGED <<at, listed, target, alive, free, cart, pending, report, history>>

\* The courts are those of the facility that is selected.
SelectCourt ==
    /\ pc = "court"
    /\ \E v \in IF "court" \in setup.named
               THEN Selected(setup.court[at.c], setup.prompt /\ page.f # Any)
               ELSE {Any} :
        page' = [page EXCEPT !.c = v]
    /\ pc' = "search"
    /\ UNCHANGED <<at, listed, target, alive, free, cart, pending, report, history>>

\* The rows of the page for the slots of a set.
Rows(set) == {s \in set : page.f \in {Any, s.f} /\ page.c \in {Any, s.c}}

\* The slots that the loops try on this page.
TriedHere(set) == {s \in set : Tried(s).f = at.f /\ Tried(s).c = at.c}

\* Faulty: the page of the search before is still shown.
Search_TooEarly ==
    /\ pc = "search"
    /\ alive /\ pc' = "look"
    /\ steady' = (steady \ TriedHere(Offered)) \cup TriedHere(free)
    /\ UNCHANGED <<at, page, listed, target, alive, free, cart, pending, report, snatched>>

Search ==
    /\ pc = "search"
    /\ \/ /\ alive
          /\ pc' = "look"
          /\ listed' = Rows(free)
          /\ steady' = (steady \ TriedHere(Offered)) \cup TriedHere(free)
       \/ /\ MayFail
          /\ pc' = "nextCourt"
          /\ UNCHANGED <<listed, steady>>
    /\ UNCHANGED <<at, page, target, alive, free, cart, pending, report, snatched>>

-----------------------------------------------------------------------------
(* parseAndSelectSlot *)

ForNow(set) == {s \in set : s.d = at.d /\ s.t = at.t}

\* Look for the row of the current date and time.  A row without a button counts
\* as found (BTN_NOT_FOUND); the error of an evaluation is dropped.
Look ==
    /\ pc = "look"
    /\ \/ /\ alive
          /\ target' \in ForNow(Rows(Offered))
          /\ pc' = "reserve"
          /\ UNCHANGED at
       \/ /\ MayFail \/ ForNow(listed) = {}
          /\ TryNext
          /\ UNCHANGED target
    /\ UNCHANGED <<page, listed, alive, free, cart, pending, report, history>>

\* Faulty: nobody looks whether the cart button is there.
Reserve_NoLook ==
    /\ pc = "reserve"
    /\ \/ alive /\ target \in listed /\ pc' = "addCart" /\ UNCHANGED at
       \/ MayFail /\ TryNext
    /\ UNCHANGED <<page, listed, target, alive, free, cart, pending, report, history>>

\* "Rezervasyon": the click waits for the button; then the cart button is visible
\* unless somebody was faster.
Reserve ==
    /\ pc = "reserve"
    /\ \/ alive /\ target \in listed \cap free /\ pc' = "addCart" /\ UNCHANGED at
       \/ alive /\ target \in listed \ free /\ TryNext
       \/ MayFail /\ TryNext
    /\ UNCHANGED <<page, listed, target, alive, free, cart, pending, report, history>>

\* The click on "Sepete Ekle": the slot is ours, at once or after an SMS code, or it
\* has been taken since the button was seen, which nobody looks at.
AddCart ==
    /\ pc = "addCart"
    /\ \/ /\ alive /\ target \in free
          /\ free' = free \ {target} /\ steady' = steady \ {target}
          /\ \/ cart' = cart \cup {target} /\ UNCHANGED pending
             \/ pending' = pending \cup {target} /\ UNCHANGED cart
          /\ pc' = "cartDone"
          /\ UNCHANGED at
       \/ /\ alive /\ target \notin free
          /\ pc' = "cartDone"
          /\ UNCHANGED <<at, free, cart, pending, steady>>
       \/ /\ MayFail
          /\ TryNext
          /\ UNCHANGED <<free, cart, pending, steady>>
    /\ UNCHANGED <<page, listed, target, alive, report, snatched>>

\* Faulty: the look for the SMS screen is forgotten.
SmsScreen_Missing ==
    /\ pc = "cartDone"
    /\ \/ alive /\ pc' = "report" /\ UNCHANGED at
       \/ MayFail /\ TryNext
    /\ UNCHANGED <<page, listed, target, alive, free, cart, pending, report, history>>

\* The sleep behind the click, then the look for the SMS screen.  When the sleep is
\* cut off the loops go on; when the look fails, no SMS is assumed.
SmsScreen ==
    /\ pc = "cartDone"
    /\ \/ alive /\ pc' = (IF target \in pending THEN "sms" ELSE "report") /\ UNCHANGED at
       \/ MayFail /\ pc' = "report" /\ UNCHANGED at
       \/ MayFail /\ TryNext
    /\ UNCHANGED <<page, listed, target, alive, free, cart, pending, report, history>>

\* Faulty: the wait has a time limit of its own.
SmsWait_OwnTimeout ==
    /\ pc = "sms"
    /\ \/ alive /\ pc' = "code"
       \/ pc' = "nextCourt"
    /\ UNCHANGED <<at, page, listed, target, alive, free, cart, pending, report, history>>

\* WaitForReply returns a code, or an error when the context is over; findAndBook
\* then returns the error and Run goes on with the next court.
SmsWait ==
    /\ pc = "sms"
    /\ \/ alive /\ pc' = "code"
       \/ ~alive /\ pc' = "nextCourt"
    /\ UNCHANGED <<at, page, listed, target, alive, free, cart, pending, report, history>>

\* The code is typed and sent.  The site takes the right one only; the scraper
\* does not look at the answer.
SmsEnter ==
    /\ pc = "code"
    /\ \/ /\ alive
          /\ pc' = "codeDone"
          /\ \/ cart' = cart \cup {target} /\ pending' = pending \ {target}
             \/ ~setup.right /\ UNCHANGED <<cart, pending>>
       \/ MayFail /\ pc' = "nextCourt" /\ UNCHANGED <<cart, pending>>
    /\ UNCHANGED <<at, page, listed, target, alive, free, report, history>>

\* The sleep behind that click; when it is cut off, the code has been taken and
\* findAndBook returns an error all the same.
SmsDone ==
    /\ pc = "codeDone"
    /\ \/ alive /\ pc' = "report"
       \/ MayFail /\ pc' = "nextCourt"
    /\ UNCHANGED <<at, page, listed, target, alive, free, cart, pending, report, history>>

\* The booking message, whose failure is only logged, names the configured
\* facility, court, date and time; then Run returns true.
Report ==
    /\ pc = "report"
    /\ pc' = "found"
    /\ report' = {at}
    /\ UNCHANGED <<at, page, listed, target, alive, free, cart, pending, history>>

-----------------------------------------------------------------------------
(* Surroundings *)

Ended == pc \in {"found", "none", "error"}

\* The context's time is over: the browser's timeout or the run's.
Deadline ==
    /\ alive /\ ~Ended
    /\ alive' = FALSE
    /\ UNCHANGED <<pc, at, page, listed, target, free, cart, pending, report, history>>

\* Another customer takes a slot.
Taken ==
    /\ ~Ended
    /\ \E s \in free : /\ free' = free \ {s}
                       /\ steady' = steady \ {s}
                       /\ snatched' = (snatched \/ (pc = "addCart" /\ s = target))
    /\ UNCHANGED <<pc, at, page, listed, target, alive, cart, pending, report>>

\* A slot opens, or its customer gives it back.
Opened ==
    /\ ~Ended
    /\ \E s \in Offered \ (free \cup cart \cup pending) : free' = free \cup {s}
    /\ UNCHANGED <<pc, at, page, listed, target, alive, cart, pending, report, history>>

Step ==
    \/ Login \/ OpenTab \/ SelectFacility \/ SelectCourt \/ Search \/ NextCourt
    \/ Look \/ Reserve \/ AddCart \/ SmsScreen \/ SmsWait \/ SmsEnter \/ SmsDone \/ Report

Next == (Step \/ Deadline \/ Taken \/ Opened) /\ UNCHANGED setup

Spec == Init /\ [][Next]_vars

\* The scraper goes on, and every context has a deadline.
FairSpec == Spec /\ WF_vars(Step /\ UNCHANGED setup) /\ WF_vars(Deadline /\ UNCHANGED setup)

-----------------------------------------------------------------------------

TypeOK ==
    /\ pc \in {"login", "open", "facility", "court", "search", "look", "reserve", "addCart",
               "cartDone", "sms", "code", "codeDone", "report", "nextCourt", "found", "none", "error"}
    /\ setup \in Setups
    /\ at \in Slots /\ target \in Slots
    /\ page \in [f : 0..setup.nf, c : 0..setup.nc]
    /\ alive \in BOOLEAN
    /\ {listed, free, cart, pending, report, steady} \subseteq SUBSET Slots
    /\ snatched \in BOOLEAN

Held == cart \cup pending

\* A message names a slot but for the names that are not configured.
Names(r, s) ==
    /\ r.d = s.d /\ r.t = s.t
    /\ "facility" \in setup.named => r.f = s.f
    /\ "court" \in setup.named => r.c = s.c

\* Every configured name selects the option that has it.
NamesFit ==
    /\ "facility" \in setup.named => \A i \in 1..setup.nf : setup.facility[i] = i
    /\ "court" \in setup.named =>
         "facility" \in setup.named /\ \A i \in 1..setup.nc : setup.court[i] = i

\* The slot the message names is one the site holds for us, when every configured name
\* selects its own option, courts with their facility, and the dropdowns are filled in
\* time, unless somebody took the slot between the look for the cart button and the
\* click.  It is in the cart, as the message says, when the code was right, unless the
\* context ended while the run looked whether a code is asked for.
ReportIsHeld ==
    setup.prompt /\ ~setup.glitches /\ NamesFit /\ ~snatched
    => \A r \in report : \E s \in Held :
        Names(r, s) /\ (setup.right /\ alive => s \in cart)

\* A run that fails by its deadline only never holds two slots: when a step
\* after "Sepete Ekle" fails, nothing is clicked any more.
OneSlot == ~setup.glitches => Cardinality(Held) <= 1

\* The types, and what the site holds for us.
ScraperInv == TypeOK /\ OneSlot

\* The page may show the rows of two slots together: where no name is configured, the
\* dropdowns are filled too late, or no facility is selected to fill that of the courts.
Together(o, s) ==
    /\ o.d = s.d /\ o.t = s.t
    /\ setup.prompt /\ "facility" \in setup.named =>
         o.f = s.f /\ ("court" \in setup.named => o.c = s.c)

SamePage(o, s) == Tried(o).f = Tried(s).f /\ Tried(o).c = Tried(s).c

\* The first row for the time may be another slot's: one that was not free for a while,
\* or one that the loops only look for on a later page.
Hidden(s) == \E o \in Offered \ {s} : Together(o, s) /\ (SamePage(o, s) => o \notin steady)

\* The names of a slot select it, and no other row hides it.
Found(s) ==
    /\ "facility" \in setup.named => setup.facility[s.f] = s.f
    /\ "court" \in setup.named => setup.court[s.c] = s.c
    /\ ~Hidden(s)

\* The loops pass over no slot, unless steps failed on the way.  Of the slots that can
\* be found and were free from when their page was filled, opened during the run or
\* not, none comes before the reported one, and none is left by a run that reports
\* nothing and was not cut off.  "Before" is the order of the loops: facility, court,
\* date, time.  (The form announces that times of a higher priority are tried first,
\* JobForm.tsx:239; that is so for one date of one court only.)
NoneSkipped ==
    ~setup.glitches => \A s \in {x \in steady : Found(x)} :
        /\ \A r \in report : ~Before(Tried(s), r)
        /\ ~(alive /\ pc = "none")

\* Every run ends.
RunEnds == <>Ended
=============================================================================
