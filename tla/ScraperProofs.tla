---------------------------- MODULE ScraperProofs ----------------------------
(* Theorems about Scraper, for every value of its constants: any number of     *)
(* facilities, courts, dates and times, on any site.                           *)
EXTENDS Scraper, FiniteSetTheorems, TLAPS

-----------------------------------------------------------------------------
(* The inductive invariant *)

\* The steps after a row was found for the date and the time, with the end they lead to.
RowFound == {"reserve", "addCart", "cartDone", "sms", "code", "codeDone", "report", "found"}
Clicked == {"cartDone", "sms", "code", "codeDone", "report", "found"}
OnPage == {"search", "look"} \cup RowFound

\* A filter is the option of the name the loops are at, or not set.
FacilityFilter ==
    page.f \in {Any, setup.facility[at.f]} /\ ("facility" \notin setup.named => page.f = Any)
CourtFilter ==
    page.c \in {Any, setup.court[at.c]} /\ ("court" \notin setup.named => page.c = Any)

\* It is set when nothing fails, its name is configured, and the site offers it in time.
FacilitySet ==
    /\ setup.prompt /\ ~setup.glitches /\ "facility" \in setup.named
    /\ setup.facility[at.f] # Any
    => page.f = setup.facility[at.f]
CourtSet ==
    /\ setup.prompt /\ ~setup.glitches /\ {"facility", "court"} \subseteq setup.named
    /\ setup.facility[at.f] # Any /\ setup.court[at.c] # Any
    => page.c = setup.court[at.c]

\* When the context ends on the way, the rest of the page is of no use.
Filters ==
    /\ pc \in {"court"} \cup OnPage => FacilityFilter
    /\ pc \in OnPage => CourtFilter
    /\ pc \in RowFound \/ (alive /\ pc \in {"court"} \cup OnPage) => FacilitySet
    /\ pc \in RowFound \/ (alive /\ pc \in OnPage) => CourtSet

\* What the page lists, and the row that was found on it.
Page ==
    /\ steady \subseteq free /\ free \subseteq Offered
    /\ pc \in {"look"} \cup RowFound => Rows(TriedHere(steady)) \subseteq listed
    /\ pc \in RowFound => target \in ForNow(Rows(Offered))

\* A page is filled at the first date and time of its court.
AtStart == pc \in {"login", "open", "facility", "court", "search"} => at.d = 1 /\ at.t = 1

\* What is held, and what is said of it.
Ours ==
    /\ pc = "addCart" => target \in free \/ snatched
    /\ pc \in Clicked => target \in Held \/ snatched
    /\ pc \in {"sms", "code"} => target \in pending
    /\ pc = "codeDone" /\ setup.right => target \in cart
    /\ pc \in {"report", "found"} /\ ~setup.glitches /\ setup.right /\ alive =>
         target \in cart \/ snatched
    /\ report = IF pc = "found" THEN {at} ELSE {}

One ==
    ~setup.glitches =>
        /\ \A a, b \in Held : a = b
        /\ Held # {} /\ alive => pc \in Clicked

\* The slots the loops are past.
Passed ==
    ~setup.glitches =>
        /\ alive \/ pc \in RowFound => \A s \in steady : Before(Tried(s), at) => ~Found(s)
        /\ alive /\ pc \in {"nextCourt", "none"} =>
             at.d = setup.nd /\ at.t = setup.nt /\ \A s \in steady : Tried(s) = at => ~Found(s)
        /\ alive /\ pc = "none" => at.c = LastCourt /\ at.f = LastFacility

IndInv == TypeOK /\ Filters /\ Page /\ AtStart /\ Ours /\ One /\ Passed

-----------------------------------------------------------------------------
(* Slots and the loops over them *)

LEMMA SetupFacts ==
    ASSUME TypeOK
    PROVE  /\ setup.nf \in Nat \ {0} /\ setup.nc \in Nat \ {0}
           /\ setup.nd \in Nat \ {0} /\ setup.nt \in Nat \ {0}
           /\ setup.facilities \subseteq 1..setup.nf /\ setup.courts \subseteq 1..setup.nc
           /\ setup.facility \in [1..setup.nf -> {0} \cup setup.facilities]
           /\ setup.court \in [1..setup.nc -> {0} \cup setup.courts]
           /\ LastFacility \in 1..setup.nf /\ LastCourt \in 1..setup.nc
  BY SetupAssumption DEF TypeOK, LastFacility, LastCourt

LEMMA SlotFields ==
    ASSUME NEW s \in Slots
    PROVE  /\ s.f \in 1..setup.nf /\ s.c \in 1..setup.nc
           /\ s.d \in 1..setup.nd /\ s.t \in 1..setup.nt
           /\ s = [f |-> s.f, c |-> s.c, d |-> s.d, t |-> s.t]
  BY DEF Slots

\* The loops are at real names, which select something.
LEMMA AtNames ==
    ASSUME TypeOK
    PROVE  /\ at.f \in 1..setup.nf /\ at.c \in 1..setup.nc
           /\ at.f # Any /\ at.c # Any
  <1>1. at \in Slots
    BY DEF TypeOK
  <1>2. at.f \in 1..setup.nf /\ at.c \in 1..setup.nc
    BY <1>1, SlotFields
  <1>3. setup.nf \in Nat /\ setup.nc \in Nat
    BY SetupFacts
  <1>4. at.f # 0 /\ at.c # 0
    BY <1>2, <1>3
  <1> QED BY <1>2, <1>4 DEF Any

LEMMA SlotIs ==
    ASSUME NEW f \in 1..setup.nf, NEW c \in 1..setup.nc, NEW d \in 1..setup.nd,
           NEW t \in 1..setup.nt
    PROVE  [f |-> f, c |-> c, d |-> d, t |-> t] \in Slots
  BY DEF Slots

\* Where the loops try a slot: at its own date and time.
LEMMA TriedIs ==
    ASSUME TypeOK, NEW s \in Slots
    PROVE  /\ Tried(s) \in Slots
           /\ Tried(s).f = IF "facility" \in setup.named THEN s.f ELSE 1
           /\ Tried(s).c = IF "court" \in setup.named THEN s.c ELSE 1
           /\ Tried(s).d = s.d /\ Tried(s).t = s.t
           /\ Tried(s).f <= LastFacility /\ Tried(s).c <= LastCourt
  <1> DEFINE x == IF "facility" \in setup.named THEN s.f ELSE 1
             y == IF "court" \in setup.named THEN s.c ELSE 1
  <1>1. x \in 1..setup.nf /\ y \in 1..setup.nc
    BY SetupFacts, SlotFields
  <1>2. x <= LastFacility /\ y <= LastCourt
    BY SlotFields DEF LastFacility, LastCourt
  <1>3. Tried(s) = [s EXCEPT !.f = x, !.c = y]
    BY DEF Tried, Slots
  <1>4. Tried(s).f = x /\ Tried(s).c = y /\ Tried(s).d = s.d /\ Tried(s).t = s.t
    BY <1>3 DEF Slots
  <1>5. Tried(s) \in Slots
    BY <1>1, <1>3 DEF Slots
  <1> QED BY <1>2, <1>4, <1>5

\* The next slot of the loops has none between it and the last one.
LEMMA TryNextFacts ==
    ASSUME TypeOK, setup' = setup, TryNext
    PROVE  /\ at' \in Slots /\ at'.f = at.f /\ at'.c = at.c
           /\ \/ /\ pc' = "nextCourt" /\ at' = at
                 /\ at.d = setup.nd /\ at.t = setup.nt
              \/ /\ pc' = "look"
                 /\ \A s \in Slots : Before(s, at') => Before(s, at) \/ s = at
  <1>1. /\ at \in Slots
        /\ setup.nf \in Nat /\ setup.nc \in Nat /\ setup.nd \in Nat /\ setup.nt \in Nat
        /\ at.f \in 1..setup.nf /\ at.c \in 1..setup.nc
        /\ at.d \in 1..setup.nd /\ at.t \in 1..setup.nt
        /\ at = [f |-> at.f, c |-> at.c, d |-> at.d, t |-> at.t]
    BY SetupFacts, SlotFields DEF TypeOK
  <1>2. CASE at.d = setup.nd /\ at.t = setup.nt
    BY <1>1, <1>2 DEF TryNext
  <1>3. CASE ~(at.d = setup.nd /\ at.t = setup.nt)
    <2>1. pc' = "look" /\ at' = NextTime
      BY <1>3 DEF TryNext
    <2>2. CASE at.t < setup.nt
      <3>1. at' = [at EXCEPT !.t = at.t + 1]
        BY <2>1, <2>2 DEF NextTime
      <3>2. at' = [f |-> at.f, c |-> at.c, d |-> at.d, t |-> at.t + 1]
        BY <1>1, <3>1
      <3>3. at.t + 1 \in 1..setup.nt
        BY <1>1, <2>2
      <3>4. at' \in Slots
        BY <1>1, <3>2, <3>3, SlotIs
      <3>5. ASSUME NEW s \in Slots, Before(s, at') PROVE Before(s, at) \/ s = at
        <4>1. /\ s.f \in Nat /\ s.c \in Nat /\ s.d \in Nat /\ s.t \in Nat
              /\ s = [f |-> s.f, c |-> s.c, d |-> s.d, t |-> s.t]
          BY <1>1, SlotFields
        <4>2. /\ at'.f = at.f /\ at'.c = at.c /\ at'.d = at.d /\ at'.t = at.t + 1
          BY <3>2
        <4>3. \/ s.f < at.f
              \/ s.f = at.f /\ s.c < at.c
              \/ s.f = at.f /\ s.c = at.c /\ s.d < at.d
              \/ s.f = at.f /\ s.c = at.c /\ s.d = at.d /\ s.t < at.t + 1
          BY <3>5, <4>2 DEF Before
        <4>4. s.t < at.t + 1 => s.t < at.t \/ s.t = at.t
          BY <1>1, <4>1
        <4> QED BY <1>1, <4>1, <4>3, <4>4 DEF Before
      <3> QED BY <2>1, <3>2, <3>4, <3>5
    <2>3. CASE ~(at.t < setup.nt)
      <3>1. at' = [at EXCEPT !.d = at.d + 1, !.t = 1]
        BY <2>1, <2>3 DEF NextTime
      <3>2. at' = [f |-> at.f, c |-> at.c, d |-> at.d + 1, t |-> 1]
        BY <1>1, <3>1
      <3>3. at.d + 1 \in 1..setup.nd /\ 1 \in 1..setup.nt /\ at.t = setup.nt
        BY <1>1, <1>3, <2>3
      <3>4. at' \in Slots
        BY <1>1, <3>2, <3>3, SlotIs
      <3>5. ASSUME NEW s \in Slots, Before(s, at') PROVE Before(s, at) \/ s = at
        <4>1. /\ s.f \in Nat /\ s.c \in Nat /\ s.d \in Nat /\ s.t \in Nat
              /\ s = [f |-> s.f, c |-> s.c, d |-> s.d, t |-> s.t]
              /\ 1 <= s.t /\ s.t <= at.t
          BY <1>1, <3>3, SlotFields
        <4>2. /\ at'.f = at.f /\ at'.c = at.c /\ at'.d = at.d + 1 /\ at'.t = 1
          BY <3>2
        <4>3. \/ s.f < at.f
              \/ s.f = at.f /\ s.c < at.c
              \/ s.f = at.f /\ s.c = at.c /\ s.d < at.d + 1
              \/ s.f = at.f /\ s.c = at.c /\ s.d = at.d + 1 /\ s.t < 1
          BY <3>5, <4>2 DEF Before
        <4>4. /\ s.d < at.d + 1 => s.d < at.d \/ s.d = at.d
              /\ ~(s.t < 1)
              /\ s.t < at.t \/ s.t = at.t
          BY <1>1, <4>1
        <4> QED BY <1>1, <4>1, <4>3, <4>4 DEF Before
      <3> QED BY <2>1, <3>2, <3>4, <3>5
    <2> QED BY <2>2, <2>3
  <1> QED BY <1>2, <1>3

\* The next court, of this facility or the next: all slots of the court before it are
\* passed, once the loops are at the last date and time.
LEMMA NextCourtFacts ==
    ASSUME TypeOK, setup' = setup, NextCourt
    PROVE  /\ at' \in Slots
           /\ \/ /\ pc' = "open"
                 /\ at.d = setup.nd /\ at.t = setup.nt =>
                      \A s \in Slots : Before(Tried(s), at') => Before(Tried(s), at) \/ Tried(s) = at
              \/ pc' = "none" /\ at' = at /\ at.c = LastCourt /\ at.f = LastFacility
  <1>0. at \in Slots
    BY DEF TypeOK
  <1>1. /\ at \in Slots
        /\ setup.nf \in Nat /\ setup.nc \in Nat /\ setup.nd \in Nat /\ setup.nt \in Nat
        /\ 1 \in 1..setup.nc /\ 1 \in 1..setup.nd /\ 1 \in 1..setup.nt
        /\ at.f \in 1..setup.nf /\ at.c \in 1..setup.nc
        /\ at.d \in 1..setup.nd /\ at.t \in 1..setup.nt
        /\ at = [f |-> at.f, c |-> at.c, d |-> at.d, t |-> at.t]
        /\ LastFacility \in 1..setup.nf /\ LastCourt \in 1..setup.nc
    BY <1>0, SetupFacts, SlotFields
  <1>2. ASSUME NEW s \in Slots, at.d = setup.nd, at.t = setup.nt
        PROVE  /\ Tried(s).f \in Nat /\ Tried(s).c \in Nat /\ Tried(s).d \in Nat
               /\ Tried(s).t \in Nat
               /\ 1 <= Tried(s).c /\ 1 <= Tried(s).d /\ 1 <= Tried(s).t
               /\ Tried(s).c <= LastCourt
               /\ Tried(s).d < at.d \/ Tried(s).d = at.d
               /\ Tried(s).t < at.t \/ Tried(s).t = at.t
               /\ Tried(s) = [f |-> Tried(s).f, c |-> Tried(s).c, d |-> Tried(s).d,
                              t |-> Tried(s).t]
    <2>1. Tried(s) \in Slots /\ Tried(s).c <= LastCourt
      BY TriedIs
    <2>2. /\ Tried(s).f \in 1..setup.nf /\ Tried(s).c \in 1..setup.nc
          /\ Tried(s).d \in 1..setup.nd /\ Tried(s).t \in 1..setup.nt
          /\ Tried(s) = [f |-> Tried(s).f, c |-> Tried(s).c, d |-> Tried(s).d,
                         t |-> Tried(s).t]
      BY <2>1, SlotFields
    <2> QED BY <1>1, <1>2, <2>1, <2>2
  <1>3. CASE at.c < LastCourt /\ at' = [First EXCEPT !.f = at.f, !.c = at.c + 1] /\ pc' = "open"
    <2>0. at.c + 1 \in 1..setup.nc
      BY <1>1, <1>3
    <2>1. at' = [f |-> at.f, c |-> at.c + 1, d |-> 1, t |-> 1]
      BY <1>3 DEF First
    <2>2. at' \in Slots
      BY <1>1, <2>0, <2>1, SlotIs
    <2>3. ASSUME NEW s \in Slots, at.d = setup.nd, at.t = setup.nt, Before(Tried(s), at')
          PROVE  Before(Tried(s), at) \/ Tried(s) = at
      <3>1. PICK x : x = Tried(s)
        OBVIOUS
      <3>2. /\ at'.f = at.f /\ at'.c = at.c + 1 /\ at'.d = 1 /\ at'.t = 1
        BY <2>1
      <3>3. \/ x.f < at.f
            \/ x.f = at.f /\ x.c < at.c + 1
            \/ x.f = at.f /\ x.c = at.c + 1 /\ x.d < 1
            \/ x.f = at.f /\ x.c = at.c + 1 /\ x.d = 1 /\ x.t < 1
        BY <2>3, <3>1, <3>2 DEF Before
      <3>4. /\ ~(x.d < 1) /\ ~(x.t < 1)
            /\ x.c < at.c + 1 => x.c < at.c \/ x.c = at.c
        BY <1>1, <1>2, <2>3, <3>1
      <3>5. /\ x.d < at.d \/ x.d = at.d
            /\ x.t < at.t \/ x.t = at.t
            /\ x = [f |-> x.f, c |-> x.c, d |-> x.d, t |-> x.t]
        BY <1>2, <2>3, <3>1
      <3>6. Before(x, at) \/ x = at
        BY <1>1, <3>3, <3>4, <3>5 DEF Before
      <3> QED BY <3>1, <3>6
    <2> QED BY <1>3, <2>2, <2>3
  <1>4. CASE at.c = LastCourt /\ at.f < LastFacility /\ at' = [First EXCEPT !.f = at.f + 1]
             /\ pc' = "open"
    <2>0. at.f + 1 \in 1..setup.nf
      BY <1>1, <1>4
    <2>1. at' = [f |-> at.f + 1, c |-> 1, d |-> 1, t |-> 1]
      BY <1>4 DEF First
    <2>2. at' \in Slots
      BY <1>1, <2>0, <2>1, SlotIs
    <2>3. ASSUME NEW s \in Slots, at.d = setup.nd, at.t = setup.nt, Before(Tried(s), at')
          PROVE  Before(Tried(s), at) \/ Tried(s) = at
      <3>1. PICK x : x = Tried(s)
        OBVIOUS
      <3>2. /\ at'.f = at.f + 1 /\ at'.c = 1 /\ at'.d = 1 /\ at'.t = 1
        BY <2>1
      <3>3. \/ x.f < at.f + 1
            \/ x.f = at.f + 1 /\ x.c < 1
            \/ x.f = at.f + 1 /\ x.c = 1 /\ x.d < 1
            \/ x.f = at.f + 1 /\ x.c = 1 /\ x.d = 1 /\ x.t < 1
        BY <2>3, <3>1, <3>2 DEF Before
      <3>4. /\ ~(x.c < 1) /\ ~(x.d < 1) /\ ~(x.t < 1)
            /\ x.f < at.f + 1 => x.f < at.f \/ x.f = at.f
            /\ x.c < at.c \/ x.c = at.c
        BY <1>1, <1>2, <1>4, <2>3, <3>1
      <3>5. /\ x.d < at.d \/ x.d = at.d
            /\ x.t < at.t \/ x.t = at.t
            /\ x = [f |-> x.f, c |-> x.c, d |-> x.d, t |-> x.t]
        BY <1>2, <2>3, <3>1
      <3>6. Before(x, at) \/ x = at
        BY <1>1, <3>3, <3>4, <3>5 DEF Before
      <3> QED BY <3>1, <3>6
    <2> QED BY <1>4, <2>2, <2>3
  <1>5. CASE at.c = LastCourt /\ at.f = LastFacility /\ pc' = "none" /\ UNCHANGED at
    BY <1>1, <1>5
  <1> QED BY <1>3, <1>4, <1>5 DEF NextCourt

\* At the end of all loops every slot is passed.
LEMMA LastIsLast ==
    ASSUME TypeOK, at.d = setup.nd, at.t = setup.nt, at.c = LastCourt, at.f = LastFacility,
           NEW s \in Slots
    PROVE  Before(Tried(s), at) \/ Tried(s) = at
  <1>1. PICK x \in Slots : x = Tried(s) /\ x.f <= LastFacility /\ x.c <= LastCourt
    BY TriedIs
  <1>2. /\ x.f \in Nat /\ x.c \in Nat /\ x.d \in Nat /\ x.t \in Nat
        /\ x.d <= setup.nd /\ x.t <= setup.nt
        /\ x = [f |-> x.f, c |-> x.c, d |-> x.d, t |-> x.t]
    BY <1>1, SlotFields, SetupFacts
  <1>3. /\ at = [f |-> at.f, c |-> at.c, d |-> at.d, t |-> at.t]
        /\ at.f \in Nat /\ at.c \in Nat /\ at.d \in Nat /\ at.t \in Nat
    <2>1. at \in Slots
      BY DEF TypeOK
    <2> QED BY <2>1, SlotFields, SetupFacts
  <1>4. /\ x.f < at.f \/ x.f = at.f
        /\ x.c < at.c \/ x.c = at.c
        /\ x.d < at.d \/ x.d = at.d
        /\ x.t < at.t \/ x.t = at.t
    BY <1>1, <1>2, <1>3
  <1> QED BY <1>1, <1>2, <1>3, <1>4 DEF Before

-----------------------------------------------------------------------------
(* What the steps do *)

\* One step of the scraper, the deadline, or of other customers.
AnyStep == (Step \/ Deadline \/ Taken \/ Opened) /\ UNCHANGED setup

\* The rows of the page, and a filter that was tried.
LEMMA RowsAre ==
    ASSUME NEW set, NEW s
    PROVE  s \in Rows(set) <=> s \in set /\ page.f \in {Any, s.f} /\ page.c \in {Any, s.c}
  BY DEF Rows

LEMMA ForNowAre ==
    ASSUME NEW set, NEW s
    PROVE  s \in ForNow(set) <=> s \in set /\ s.d = at.d /\ s.t = at.t
  BY DEF ForNow

\* The option that the name of the loops selects.
LEMMA Options ==
    ASSUME TypeOK
    PROVE  /\ setup.facility[at.f] \in 0..setup.nf /\ setup.court[at.c] \in 0..setup.nc
           /\ Any \in 0..setup.nf /\ Any \in 0..setup.nc
  <1>1. /\ at.f \in 1..setup.nf /\ at.c \in 1..setup.nc
        /\ setup.nf \in Nat /\ setup.nc \in Nat
    BY AtNames, SetupFacts
  <1>2. /\ setup.facility[at.f] \in {0} \cup setup.facilities
        /\ setup.court[at.c] \in {0} \cup setup.courts
    BY <1>1, SetupFacts
  <1> QED BY <1>1, <1>2, SetupFacts DEF Any

LEMMA SelectFacilityFacts ==
    ASSUME TypeOK, SelectFacility
    PROVE  /\ pc = "facility" /\ pc' = "court"
           /\ page'.f \in {setup.facility[at.f], Any} /\ page'.c = page.c
           /\ page' \in [f : 0..setup.nf, c : 0..setup.nc]
           /\ "facility" \notin setup.named => page'.f = Any
           /\ "facility" \in setup.named /\ setup.facility[at.f] # Any /\ setup.prompt /\ ~MayFail =>
                page'.f = setup.facility[at.f]
           /\ UNCHANGED <<at, listed, target, alive, free, cart, pending, report, steady, snatched>>
  <1>1. PICK v \in IF "facility" \in setup.named
                   THEN Selected(setup.facility[at.f], setup.prompt) ELSE {Any} :
          page' = [page EXCEPT !.f = v]
    BY DEF SelectFacility
  <1>2. v \in {setup.facility[at.f], Any} /\ v \in 0..setup.nf
    BY Options DEF Selected
  <1>3. page' \in [f : 0..setup.nf, c : 0..setup.nc] /\ page'.f = v /\ page'.c = page.c
    BY <1>1, <1>2 DEF TypeOK
  <1>4. "facility" \notin setup.named => v = Any
    BY DEF Selected
  <1>5. "facility" \in setup.named /\ setup.facility[at.f] # Any /\ setup.prompt /\ ~MayFail =>
          v = setup.facility[at.f]
    BY DEF Selected
  <1> QED BY <1>2, <1>3, <1>4, <1>5 DEF SelectFacility, history

LEMMA SelectCourtFacts ==
    ASSUME TypeOK, SelectCourt
    PROVE  /\ pc = "court" /\ pc' = "search"
           /\ page'.c \in {setup.court[at.c], Any} /\ page'.f = page.f
           /\ page' \in [f : 0..setup.nf, c : 0..setup.nc]
           /\ "court" \notin setup.named => page'.c = Any
           /\ "court" \in setup.named /\ setup.court[at.c] # Any /\ setup.prompt /\ page.f # Any
                /\ ~MayFail => page'.c = setup.court[at.c]
           /\ UNCHANGED <<at, listed, target, alive, free, cart, pending, report, steady, snatched>>
  <1>1. PICK v \in IF "court" \in setup.named
                   THEN Selected(setup.court[at.c], setup.prompt /\ page.f # Any) ELSE {Any} :
          page' = [page EXCEPT !.c = v]
    BY DEF SelectCourt
  <1>2. v \in {setup.court[at.c], Any} /\ v \in 0..setup.nc
    BY Options DEF Selected
  <1>3. page' \in [f : 0..setup.nf, c : 0..setup.nc] /\ page'.c = v /\ page'.f = page.f
    BY <1>1, <1>2 DEF TypeOK
  <1>4. "court" \notin setup.named => v = Any
    BY DEF Selected
  <1>5. "court" \in setup.named /\ setup.court[at.c] # Any /\ setup.prompt /\ page.f # Any /\ ~MayFail
          => v = setup.court[at.c]
    BY DEF Selected
  <1> QED BY <1>2, <1>3, <1>4, <1>5 DEF SelectCourt, history

\* The steps that put a slot into the cart, or have it wait for a code.
LEMMA AddCartFacts ==
    ASSUME AddCart
    PROVE  /\ pc = "addCart"
           /\ \/ /\ alive /\ target \in free
                 /\ free' = free \ {target} /\ steady' = steady \ {target}
                 /\ Held' = Held \cup {target}
                 /\ cart' \subseteq cart \cup {target} /\ pending' \subseteq pending \cup {target}
                 /\ pc' = "cartDone" /\ UNCHANGED at
              \/ /\ alive /\ target \notin free /\ pc' = "cartDone"
                 /\ UNCHANGED <<at, free, cart, pending, steady>>
              \/ MayFail /\ TryNext /\ UNCHANGED <<free, cart, pending, steady>>
           /\ UNCHANGED <<page, listed, target, alive, report, snatched>>
  BY DEF AddCart, Held

LEMMA SmsEnterFacts ==
    ASSUME SmsEnter
    PROVE  /\ pc = "code"
           /\ \/ /\ alive /\ pc' = "codeDone"
                 /\ Held' \subseteq Held \cup {target}
                 /\ target \in pending => target \in Held'
                 /\ cart' \subseteq cart \cup {target} /\ pending' \subseteq pending
                 /\ setup.right => target \in cart'
              \/ MayFail /\ pc' = "nextCourt" /\ UNCHANGED <<cart, pending>>
           /\ UNCHANGED <<at, page, listed, target, alive, free, report, steady, snatched>>
  BY DEF SmsEnter, Held, history

LEMMA TypeStep ==
    ASSUME TypeOK, AnyStep
    PROVE  TypeOK'
  <1> USE DEF TypeOK, history
  <1>0. Slots' = Slots /\ setup' = setup
    BY DEF AnyStep, Slots
  <1>1. CASE Login \/ SmsScreen \/ SmsWait \/ SmsDone \/ Reserve
    BY <1>0, <1>1, TryNextFacts DEF Login, SmsScreen, SmsWait, SmsDone, Reserve
  <1>2. CASE OpenTab
    <2>1. [f |-> Any, c |-> Any] \in [f : 0..setup.nf, c : 0..setup.nc]
      BY SetupFacts DEF Any
    <2>2. page' \in [f : 0..setup.nf, c : 0..setup.nc]
      BY <1>2, <2>1 DEF OpenTab
    <2> QED BY <1>0, <1>2, <2>2 DEF OpenTab
  <1>3. CASE SelectFacility
    BY <1>0, <1>3, SelectFacilityFacts
  <1>4. CASE SelectCourt
    BY <1>0, <1>4, SelectCourtFacts
  <1>5. CASE Search
    <2>1. Rows(free) \subseteq free /\ TriedHere(free) \subseteq free
      BY DEF Rows, TriedHere
    <2>2. steady' \subseteq steady \cup free
      BY <1>5, <2>1 DEF Search
    <2> QED BY <1>0, <1>5, <2>1, <2>2 DEF Search
  <1>6. CASE NextCourt
    BY <1>0, <1>6, NextCourtFacts DEF NextCourt
  <1>7. CASE Look
    <2>1. ForNow(Rows(Offered)) \subseteq Slots
      BY DEF ForNow, Rows, Offered
    <2> QED BY <1>0, <1>7, <2>1, TryNextFacts DEF Look
  <1>8. CASE AddCart
    <2>1. free' \subseteq free /\ cart' \subseteq cart \cup {target}
          /\ pending' \subseteq pending \cup {target} /\ steady' \subseteq steady
      BY <1>8, AddCartFacts
    <2>2. at' \in Slots /\ pc' \in {"cartDone", "look", "nextCourt"}
      BY <1>0, <1>8, AddCartFacts, TryNextFacts
    <2> QED BY <1>0, <1>8, <2>1, <2>2, AddCartFacts
  <1>9. CASE SmsEnter
    <2>1. cart' \subseteq cart \cup {target} /\ pending' \subseteq pending
      BY <1>9, SmsEnterFacts
    <2> QED BY <1>0, <1>9, <2>1, SmsEnterFacts
  <1>10. CASE Report
    BY <1>0, <1>10 DEF Report
  <1>11. CASE Deadline \/ Taken
    BY <1>0, <1>11 DEF Deadline, Taken
  <1>12. CASE Opened
    <2>1. Offered \subseteq Slots
      BY DEF Offered
    <2> QED BY <1>0, <1>12, <2>1 DEF Opened
  <1> QED BY <1>1, <1>2, <1>3, <1>4, <1>5, <1>6, <1>7, <1>8, <1>9, <1>10, <1>11, <1>12
          DEF AnyStep, Step

\* No context begins again, and a slot becomes steady only when a page is filled.
LEMMA OneWay ==
    ASSUME AnyStep
    PROVE  setup' = setup /\ (alive' => alive) /\ (steady' \subseteq steady \/ Search)
  BY DEF AnyStep, Step, Login, OpenTab, SelectFacility, SelectCourt, Search, NextCourt, Look,
         Reserve, AddCart, SmsScreen, SmsWait, SmsEnter, SmsDone, Report, Deadline, Taken, Opened,
         history

\* Where each step leads.
LEMMA Leads ==
    ASSUME TypeOK, AnyStep
    PROVE  \/ pc' \notin {"court"} \cup OnPage
           \/ SelectFacility \/ SelectCourt \/ Search
           \/ /\ pc \in OnPage /\ pc' \in OnPage /\ UNCHANGED <<page, listed>>
              /\ at'.f = at.f /\ at'.c = at.c
              /\ pc' \in RowFound => pc \in RowFound \/ (alive /\ pc = "look")
              /\ pc' \in RowFound => UNCHANGED at
              /\ pc' \in RowFound => UNCHANGED target \/ Look
              /\ pc' = "search" => pc = "search"
           \/ pc = "court" /\ pc' = "court" /\ UNCHANGED <<page, at, listed>>
  <1> USE DEF OnPage, RowFound
  <1>0. setup' = setup
    BY OneWay
  <1>1. CASE Login \/ OpenTab \/ NextCourt
    BY <1>1 DEF Login, OpenTab, NextCourt
  <1>2. CASE SelectFacility \/ SelectCourt \/ Search
    BY <1>2
  <1>3. CASE Look
    BY <1>0, <1>3, TryNextFacts DEF Look
  <1>4. CASE Reserve
    BY <1>0, <1>4, TryNextFacts DEF Reserve
  <1>5. CASE AddCart
    BY <1>0, <1>5, AddCartFacts, TryNextFacts
  <1>6. CASE SmsScreen
    BY <1>0, <1>6, TryNextFacts DEF SmsScreen
  <1>7. CASE SmsWait \/ SmsDone
    BY <1>7 DEF SmsWait, SmsDone
  <1>8. CASE SmsEnter
    BY <1>8, SmsEnterFacts
  <1>9. CASE Report
    BY <1>9 DEF Report
  <1>10. CASE Deadline \/ Taken \/ Opened
    BY <1>10 DEF Deadline, Taken, Opened, TypeOK
  <1> QED BY <1>1, <1>2, <1>3, <1>4, <1>5, <1>6, <1>7, <1>8, <1>9, <1>10 DEF AnyStep, Step

-----------------------------------------------------------------------------
(* The filters and the page *)

LEMMA FiltersStep ==
    ASSUME TypeOK, Filters, AnyStep
    PROVE  Filters'
  <1>0. setup' = setup /\ (alive' => alive)
    BY OneWay
  <1>1. CASE pc' \notin {"court"} \cup OnPage
    BY <1>1 DEF Filters, OnPage
  <1>2. CASE SelectFacility
    <2>1. /\ pc' = "court" /\ page'.f \in {setup.facility[at.f], Any} /\ UNCHANGED <<at, alive>>
          /\ "facility" \notin setup.named => page'.f = Any
          /\ "facility" \in setup.named /\ setup.facility[at.f] # Any /\ setup.prompt /\ ~MayFail =>
               page'.f = setup.facility[at.f]
      BY <1>2, SelectFacilityFacts
    <2>2. FacilityFilter'
      BY <1>0, <2>1 DEF FacilityFilter
    <2>3. alive => FacilitySet'
      BY <1>0, <2>1 DEF FacilitySet, MayFail
    <2> QED BY <1>0, <2>1, <2>2, <2>3 DEF Filters, OnPage, RowFound
  <1>3. CASE SelectCourt
    <2>1. /\ pc = "court" /\ pc' = "search" /\ page'.c \in {setup.court[at.c], Any} /\ page'.f = page.f
          /\ UNCHANGED <<at, alive>>
          /\ "court" \notin setup.named => page'.c = Any
          /\ "court" \in setup.named /\ setup.court[at.c] # Any /\ setup.prompt /\ page.f # Any
               /\ ~MayFail => page'.c = setup.court[at.c]
      BY <1>3, SelectCourtFacts
    <2>2. FacilityFilter /\ (alive => FacilitySet)
      BY <2>1 DEF Filters
    <2>3. FacilityFilter' /\ (alive => FacilitySet')
      BY <1>0, <2>1, <2>2 DEF FacilityFilter, FacilitySet
    <2>4. CourtFilter'
      BY <1>0, <2>1 DEF CourtFilter
    <2>6. alive => CourtSet'
      BY <1>0, <2>1, <2>2 DEF CourtSet, FacilitySet, MayFail
    <2> QED BY <1>0, <2>1, <2>3, <2>4, <2>6 DEF Filters, OnPage, RowFound
  <1>4. CASE /\ pc \in OnPage /\ pc' \in OnPage /\ UNCHANGED page
             /\ at'.f = at.f /\ at'.c = at.c
             /\ pc' \in RowFound => pc \in RowFound \/ alive
    <2>1. /\ FacilityFilter /\ CourtFilter
          /\ pc \in RowFound \/ alive => FacilitySet /\ CourtSet
      BY <1>4 DEF Filters
    <2>2. FacilityFilter' /\ CourtFilter'
      BY <1>0, <1>4, <2>1 DEF FacilityFilter, CourtFilter
    <2>3. pc \in RowFound \/ alive => FacilitySet' /\ CourtSet'
      BY <1>0, <1>4, <2>1 DEF FacilitySet, CourtSet
    <2> QED BY <1>0, <1>4, <2>2, <2>3 DEF Filters
  <1>5. CASE pc = "court" /\ pc' = "court" /\ UNCHANGED <<page, at>>
    <2>1. FacilityFilter /\ (alive => FacilitySet)
      BY <1>5 DEF Filters
    <2>2. FacilityFilter' /\ (alive => FacilitySet')
      BY <1>0, <1>5, <2>1 DEF FacilityFilter, FacilitySet
    <2> QED BY <1>0, <1>5, <2>2 DEF Filters, OnPage, RowFound
  <1>6. CASE Search
    BY <1>1, <1>4, <1>6 DEF Search, OnPage, RowFound
  <1> QED BY <1>1, <1>2, <1>3, <1>4, <1>5, <1>6, Leads

LEMMA PageStep ==
    ASSUME TypeOK, Page, AnyStep
    PROVE  Page'
  <1> USE DEF history
  <1>0. setup' = setup /\ Offered' = Offered
    BY OneWay DEF Offered, Slots
  <1>2. steady' \subseteq free' /\ free' \subseteq Offered'
    <2>1. steady \subseteq free /\ free \subseteq Offered
      BY DEF Page
    <2>2. CASE Search
      <3>1. TriedHere(free) \subseteq free
        BY DEF TriedHere
      <3> QED BY <1>0, <2>1, <2>2, <3>1 DEF Search
    <2>3. CASE AddCart
      BY <1>0, <2>1, <2>3, AddCartFacts
    <2>4. CASE Taken \/ Opened
      BY <1>0, <2>1, <2>4 DEF Taken, Opened
    <2>5. CASE UNCHANGED <<steady, free>>
      BY <1>0, <2>1, <2>5
    <2>6. Search \/ AddCart \/ Taken \/ Opened \/ UNCHANGED <<steady, free>>
      BY DEF AnyStep, Step, Login, OpenTab, SelectFacility, SelectCourt, NextCourt, Look,
             Reserve, SmsScreen, SmsWait, SmsEnter, SmsDone, Report, Deadline
    <2> QED BY <2>2, <2>3, <2>4, <2>5, <2>6
  <1>3. CASE pc' \notin {"look"} \cup RowFound
    BY <1>2, <1>3 DEF Page
  <1>4. CASE Search
    <2>1. pc' \in {"look", "nextCourt"} /\ UNCHANGED <<page, free, at>>
          /\ (pc' = "look" => /\ listed' = Rows(free)
                              /\ steady' = (steady \ TriedHere(Offered)) \cup TriedHere(free))
      BY <1>4 DEF Search
    <2>2. ASSUME pc' = "look" PROVE Rows(TriedHere(steady))' \subseteq listed'
      <3>1. TriedHere(steady)' \subseteq free
        BY <1>0, <2>1, <2>2 DEF TriedHere, Tried, Page
      <3> QED BY <2>1, <2>2, <3>1 DEF Rows
    <2> QED BY <1>2, <2>1, <2>2 DEF Page, RowFound
  <1>5. ASSUME pc \in {"look"} \cup RowFound, UNCHANGED <<page, listed>>,
               at'.f = at.f, at'.c = at.c, steady' \subseteq steady,
               pc' \in RowFound => target' \in ForNow(Rows(Offered))'
        PROVE  Page'
    <2>1. Rows(TriedHere(steady)) \subseteq listed
      BY <1>5 DEF Page
    <2>2. Rows(TriedHere(steady))' \subseteq listed'
      BY <1>0, <1>5, <2>1 DEF Rows, TriedHere, Tried
    <2> QED BY <1>2, <1>5, <2>2 DEF Page
  <1>6. ASSUME UNCHANGED <<page, at>> PROVE ForNow(Rows(Offered))' = ForNow(Rows(Offered))
    BY <1>0, <1>6 DEF ForNow, Rows
  <1>7. ASSUME TryNext PROVE at'.f = at.f /\ at'.c = at.c /\ pc' \notin RowFound
    BY <1>0, <1>7, TryNextFacts DEF RowFound
  <1>8. CASE Look
    BY <1>5, <1>6, <1>7, <1>8 DEF Look
  <1>9. CASE /\ pc \in {"look"} \cup RowFound /\ UNCHANGED <<page, listed>>
             /\ steady' \subseteq steady
             /\ \/ UNCHANGED <<at, target>> /\ (pc' \in RowFound => pc \in RowFound)
                \/ TryNext
    BY <1>5, <1>6, <1>7, <1>9 DEF Page
  <1>10. CASE Deadline \/ Taken \/ Opened
    BY <1>3, <1>9, <1>10 DEF Deadline, Taken, Opened
  <1>11. CASE Reserve \/ SmsScreen \/ SmsWait \/ SmsDone \/ Report
    BY <1>9, <1>11 DEF Reserve, SmsScreen, SmsWait, SmsDone, Report, RowFound
  <1>12. CASE AddCart
    BY <1>9, <1>12, AddCartFacts DEF RowFound
  <1>13. CASE SmsEnter
    BY <1>9, <1>13, SmsEnterFacts DEF RowFound
  <1>14. CASE Login \/ OpenTab \/ SelectFacility \/ SelectCourt \/ NextCourt
    BY <1>3, <1>14
       DEF Login, OpenTab, SelectFacility, SelectCourt, NextCourt, RowFound
  <1> QED BY <1>4, <1>8, <1>10, <1>11, <1>12, <1>13, <1>14 DEF AnyStep, Step

\* Only the loops over the courts lead back to where a page is filled.
LEMMA AtStartStep ==
    ASSUME TypeOK, AtStart, AnyStep
    PROVE  AtStart'
  <1>1. CASE NextCourt
    BY <1>1 DEF NextCourt, First, AtStart
  <1>2. CASE Login \/ OpenTab \/ SelectFacility \/ SelectCourt \/ Search
    BY <1>2 DEF Login, OpenTab, SelectFacility, SelectCourt, Search, AtStart
  <1>3. CASE Look \/ Reserve \/ SmsScreen
    BY <1>3 DEF Look, Reserve, SmsScreen, TryNext, AtStart
  <1>4. CASE AddCart
    BY <1>4, AddCartFacts DEF TryNext, AtStart
  <1>5. CASE SmsEnter
    BY <1>5, SmsEnterFacts DEF AtStart
  <1>6. CASE SmsWait \/ SmsDone \/ Report \/ Deadline \/ Taken \/ Opened
    BY <1>6 DEF SmsWait, SmsDone, Report, Deadline, Taken, Opened, AtStart
  <1> QED BY <1>1, <1>2, <1>3, <1>4, <1>5, <1>6 DEF AnyStep, Step

-----------------------------------------------------------------------------
(* What is held *)

LEMMA OursStep ==
    ASSUME TypeOK, Page, Ours, AnyStep
    PROVE  Ours'
  <1> USE DEF Clicked, history
  <1>0. setup' = setup /\ (alive' => alive)
    BY OneWay
  <1>1. CASE pc' \notin Clicked \cup {"addCart"} /\ pc # "found" /\ UNCHANGED report
    BY <1>1 DEF Ours
  <1>2. CASE Login \/ OpenTab \/ SelectFacility \/ SelectCourt \/ Search \/ NextCourt
    BY <1>1, <1>2 DEF Login, OpenTab, SelectFacility, SelectCourt, Search, NextCourt
  <1>3. CASE Look
    BY <1>1, <1>3 DEF Look, TryNext
  <1>4. CASE Reserve
    BY <1>1, <1>4 DEF Reserve, TryNext, Ours
  <1>5. CASE AddCart
    <2>1. CASE TryNext
      BY <1>1, <1>5, <2>1, AddCartFacts DEF TryNext
    <2>2. CASE pc' = "cartDone" /\ (target \in Held' \/ target \notin free)
      BY <1>5, <2>2, AddCartFacts DEF Ours
    <2> QED BY <1>5, <2>1, <2>2, AddCartFacts
  <1>6. CASE SmsScreen
    BY <1>0, <1>6 DEF SmsScreen, TryNext, Ours, Held, MayFail
  <1>7. CASE SmsWait
    BY <1>7 DEF SmsWait, Ours, Held
  <1>8. CASE SmsEnter
    BY <1>0, <1>8, SmsEnterFacts DEF Ours
  <1>9. CASE SmsDone
    BY <1>0, <1>9 DEF SmsDone, Ours, Held
  <1>10. CASE Report
    BY <1>0, <1>10 DEF Report, Ours, Held
  <1>11. CASE Deadline \/ Taken \/ Opened
    BY <1>0, <1>11 DEF Deadline, Taken, Opened, Ours, Held
  <1> QED BY <1>2, <1>3, <1>4, <1>5, <1>6, <1>7, <1>8, <1>9, <1>10, <1>11 DEF AnyStep, Step

LEMMA OneStep ==
    ASSUME TypeOK, Ours, One, AnyStep
    PROVE  One'
  <1> USE DEF Clicked
  <1>0. setup' = setup /\ (alive' => alive)
    BY OneWay
  <1> SUFFICES ASSUME ~setup.glitches
               PROVE  /\ \A a, b \in Held' : a = b
                      /\ Held' # {} /\ alive' => pc' \in Clicked
    BY <1>0 DEF One
  <1>a. /\ \A a, b \in Held : a = b
        /\ Held # {} /\ alive => pc \in Clicked
    BY DEF One
  <1>b. MayFail <=> ~alive
    BY DEF MayFail
  <1>1. CASE UNCHANGED <<cart, pending>> /\ (pc' \in Clicked \/ ~alive \/ pc \notin Clicked)
    <2>1. Held' = Held
      BY <1>1 DEF Held
    <2> QED BY <1>0, <1>1, <1>a, <2>1
  <1>2. CASE Login \/ OpenTab \/ SelectFacility \/ SelectCourt \/ Search \/ NextCourt
    BY <1>1, <1>2 DEF Login, OpenTab, SelectFacility, SelectCourt, Search, NextCourt
  <1>3. CASE Look \/ Reserve
    BY <1>1, <1>3 DEF Look, Reserve
  <1>4. CASE AddCart
    <2>1. pc \notin Clicked /\ (alive => Held = {})
      BY <1>4, <1>a, AddCartFacts
    <2>2. \/ UNCHANGED <<cart, pending>> /\ (pc' = "cartDone" \/ ~alive)
          \/ alive /\ Held' = Held \cup {target} /\ pc' = "cartDone"
      BY <1>4, <1>b, AddCartFacts
    <2> QED BY <1>1, <2>1, <2>2
  <1>5. CASE SmsScreen
    BY <1>1, <1>5, <1>b DEF SmsScreen
  <1>6. CASE SmsWait \/ SmsDone
    BY <1>1, <1>6, <1>b DEF SmsWait, SmsDone
  <1>7. CASE SmsEnter
    <2>1. target \in Held /\ pc = "code"
      BY <1>7, SmsEnterFacts DEF Ours, Held
    <2>2. \/ Held' \subseteq Held \cup {target} /\ pc' = "codeDone"
          \/ ~alive /\ UNCHANGED <<cart, pending>>
      BY <1>7, <1>b, SmsEnterFacts
    <2> QED BY <1>1, <1>a, <2>1, <2>2
  <1>8. CASE Report
    BY <1>1, <1>8 DEF Report
  <1>9. CASE Deadline \/ Taken \/ Opened
    BY <1>1, <1>9 DEF Deadline, Taken, Opened
  <1> QED BY <1>2, <1>3, <1>4, <1>5, <1>6, <1>7, <1>8, <1>9 DEF AnyStep, Step

-----------------------------------------------------------------------------
(* The slots the loops are past *)

\* A slot that cannot be found stays so, until a page that hides it is filled again.
LEMMA FoundStays ==
    ASSUME setup' = setup, NEW s,
           \A o : o \in steady' /\ SamePage(o, s) => o \in steady
    PROVE  /\ Tried(s)' = Tried(s)
           /\ ~Found(s) => ~Found(s)'
  <1>1. /\ Tried(s)' = Tried(s) /\ Offered' = Offered
        /\ \A o : Together(o, s)' = Together(o, s) /\ SamePage(o, s)' = SamePage(o, s)
    BY DEF Tried, Together, SamePage, Offered, Slots
  <1>2. Hidden(s) => Hidden(s)'
    BY <1>1 DEF Hidden
  <1> QED BY <1>1, <1>2 DEF Found

\* A slot that is tried here and that its names select has a row on the page.
LEMMA HasRow ==
    ASSUME TypeOK, FacilityFilter, CourtFilter, NEW s \in Slots, Tried(s) = at, Found(s)
    PROVE  /\ page.f \in {Any, s.f} /\ page.c \in {Any, s.c} /\ s.d = at.d /\ s.t = at.t
           /\ "facility" \in setup.named => at.f = s.f /\ setup.facility[at.f] = s.f
           /\ "court" \in setup.named => at.c = s.c /\ setup.court[at.c] = s.c
  BY TriedIs DEF FacilityFilter, CourtFilter, Found

\* A row for the date and the time that somebody has hides the slots tried here.
LEMMA TakenRowHides ==
    ASSUME TypeOK, Filters, Page, ~setup.glitches, pc \in RowFound, target \notin free,
           NEW s \in steady, Tried(s) = at
    PROVE  ~Found(s)
  <1> SUFFICES ASSUME Found(s) PROVE FALSE
    OBVIOUS
  <1>1. /\ s \in Offered /\ s \in Slots /\ s # target /\ target \notin steady
        /\ FacilityFilter /\ CourtFilter /\ FacilitySet /\ CourtSet
        /\ target \in ForNow(Rows(Offered))
    BY DEF Page, Filters, Offered, OnPage
  <1>2. /\ target \in Offered /\ target.d = at.d /\ target.t = at.t
        /\ page.f \in {Any, target.f} /\ page.c \in {Any, target.c}
    BY <1>1 DEF ForNow, Rows
  <1>3. s.f # Any /\ s.c # Any
    BY <1>1, SlotFields, SetupFacts DEF Any
  <1>4. ASSUME setup.prompt, "facility" \in setup.named PROVE target.f = s.f
    <2>1. page.f = s.f
      BY <1>1, <1>3, <1>4, HasRow DEF FacilitySet
    <2> QED BY <1>2, <1>3, <2>1
  <1>5. ASSUME setup.prompt, "facility" \in setup.named, "court" \in setup.named
        PROVE  target.c = s.c
    <2>1. page.c = s.c
      BY <1>1, <1>3, <1>5, HasRow DEF CourtSet
    <2> QED BY <1>2, <1>3, <2>1
  <1>6. Together(target, s)
    BY <1>1, <1>2, <1>4, <1>5, HasRow DEF Together
  <1> QED BY <1>1, <1>2, <1>6 DEF Hidden, Found

\* The loops go on: nothing is passed that can be found.
LEMMA GoOn ==
    ASSUME TypeOK, Page, Passed, setup' = setup, steady' \subseteq steady, alive' => alive,
           TryNext, ~setup.glitches, alive => \A s \in steady : Tried(s) = at => ~Found(s)
    PROVE  Passed'
  <1>1. pc' \in {"look", "nextCourt"}
    BY DEF TryNext
  <1>2. SUFFICES ASSUME alive PROVE Passed'
    BY <1>1 DEF Passed, RowFound
  <1>3. \A s \in steady : Before(Tried(s), at) \/ Tried(s) = at => ~Found(s)
    BY <1>2 DEF Passed
  <1>4. \A s \in steady : s \in Slots /\ Tried(s) \in Slots
    BY TriedIs DEF Page, Offered
  <1>5. CASE pc' = "nextCourt"
    <2>1. at' = at /\ at.d = setup.nd /\ at.t = setup.nt
      BY <1>5, TryNextFacts
    <2>2. ASSUME NEW s \in steady'
          PROVE  Before(Tried(s)', at') \/ Tried(s)' = at' => ~Found(s)'
      BY <1>3, <2>1, FoundStays
    <2> QED BY <1>5, <2>1, <2>2 DEF Passed
  <1>6. CASE pc' = "look"
    <2>1. \A s \in Slots : Before(s, at') => Before(s, at) \/ s = at
      BY <1>6, TryNextFacts
    <2>2. ASSUME NEW s \in steady'
          PROVE  Before(Tried(s)', at') => ~Found(s)'
      BY <1>3, <1>4, <2>1, FoundStays
    <2> QED BY <1>6, <2>2 DEF Passed
  <1> QED BY <1>1, <1>5, <1>6

\* The loops stay where they are.
LEMMA Stay ==
    ASSUME Passed, setup' = setup, steady' \subseteq steady, alive' => alive, at' = at,
           pc' \in RowFound => pc \in RowFound \/ alive,
           alive' /\ pc' \in {"nextCourt", "none"} => pc' = pc
    PROVE  Passed'
  <1> SUFFICES ASSUME ~setup.glitches PROVE Passed'
    BY DEF Passed
  <1>1. ASSUME alive' \/ pc' \in RowFound, NEW s \in steady', Before(Tried(s)', at')
        PROVE  ~Found(s)'
    <2>1. Before(Tried(s), at) /\ (alive \/ pc \in RowFound) /\ s \in steady
      BY <1>1, FoundStays
    <2>2. ~Found(s)
      BY <2>1 DEF Passed
    <2> QED BY <2>2, FoundStays
  <1>2. ASSUME alive', pc' \in {"nextCourt", "none"}
        PROVE  /\ at'.d = setup'.nd /\ at'.t = setup'.nt
               /\ \A s \in steady' : Tried(s)' = at' => ~Found(s)'
               /\ pc' = "none" => at'.c = LastCourt' /\ at'.f = LastFacility'
    <2>1. alive /\ pc' = pc /\ LastCourt' = LastCourt /\ LastFacility' = LastFacility
      BY <1>2 DEF LastCourt, LastFacility
    <2>2. ASSUME NEW s \in steady', Tried(s)' = at' PROVE ~Found(s)'
      BY <1>2, <2>1, <2>2, FoundStays DEF Passed
    <2> QED BY <1>2, <2>1, <2>2 DEF Passed
  <1> QED BY <1>1, <1>2 DEF Passed

\* The page that is filled is the loops' own: of the slots they are past, none becomes
\* steady, and none that hides one.
LEMMA PassedSearch ==
    ASSUME TypeOK, AtStart, Page, Passed, setup' = setup, Search, ~setup.glitches
    PROVE  Passed'
  <1>1. /\ pc = "search" /\ UNCHANGED <<at, alive>>
        /\ \/ alive /\ pc' = "look"
              /\ steady' = (steady \ TriedHere(Offered)) \cup TriedHere(free)
           \/ ~alive /\ pc' = "nextCourt"
    BY DEF Search, MayFail
  <1>2. CASE pc' = "nextCourt"
    BY <1>1, <1>2 DEF Passed, RowFound
  <1>3. CASE pc' = "look"
    <2>1. ASSUME NEW s \in steady', Before(Tried(s)', at') PROVE ~Found(s)'
      <3>1. s \in Slots /\ Tried(s)' = Tried(s)
        BY <1>1, <1>3, <2>1 DEF Page, Offered, TriedHere, Tried
      <3>2. ~(Tried(s).f = at.f /\ Tried(s).c = at.c)
        <4>1. at.d = 1 /\ at.t = 1
          BY <1>1 DEF AtStart
        <4>2. PICK x \in Slots : x = Tried(s)
          BY <3>1, TriedIs
        <4>3. x.d \in Nat /\ x.t \in Nat /\ ~(x.d < 1) /\ ~(x.t < 1) /\ x.f \in Nat /\ x.c \in Nat
          BY SlotFields, SetupFacts
        <4>4. Before(x, at)
          BY <1>1, <2>1, <3>1, <4>2
        <4> QED BY <4>1, <4>2, <4>3, <4>4 DEF Before
      <3>3. \A o : o \in steady' /\ SamePage(o, s) => o \in steady
        BY <1>1, <1>3, <3>2 DEF SamePage, TriedHere
      <3>4. s \in steady
        BY <3>3 DEF SamePage
      <3>5. ~Found(s)
        BY <1>1, <1>3, <2>1, <3>1, <3>4 DEF Passed
      <3> QED BY <3>3, <3>5, FoundStays
    <2> QED BY <1>3, <2>1 DEF Passed
  <1> QED BY <1>1, <1>2, <1>3

LEMMA PassedStep ==
    ASSUME TypeOK, Filters, Page, AtStart, Passed, AnyStep
    PROVE  Passed'
  <1> USE DEF history
  <1>s. CASE Search
    BY <1>s, OneWay, PassedSearch DEF Passed
  <1> SUFFICES ASSUME ~Search PROVE Passed'
    BY <1>s
  <1>0. setup' = setup /\ steady' \subseteq steady /\ (alive' => alive)
    BY OneWay
  <1> SUFFICES ASSUME ~setup.glitches PROVE Passed'
    BY <1>0 DEF Passed
  <1>a. MayFail <=> ~alive
    BY DEF MayFail
  <1>b. CASE /\ at' = at
             /\ pc' \in RowFound => pc \in RowFound \/ alive
             /\ alive' /\ pc' \in {"nextCourt", "none"} => pc' = pc
    BY <1>0, <1>b, Stay
  <1>1. CASE Login \/ OpenTab \/ SelectFacility \/ SelectCourt
    <2>1. /\ at' = at /\ pc' \notin RowFound
          /\ alive' /\ pc' \in {"nextCourt", "none"} => pc' = pc
      BY <1>0, <1>1, <1>a
         DEF Login, OpenTab, SelectFacility, SelectCourt, RowFound
    <2> QED BY <1>b, <2>1
  <1>2. CASE SmsWait \/ SmsEnter \/ SmsDone \/ Report
    <2>1. /\ at' = at /\ pc \in RowFound
          /\ alive' /\ pc' \in {"nextCourt", "none"} => pc' = pc
      BY <1>0, <1>2, <1>a DEF SmsWait, SmsEnter, SmsDone, Report, RowFound
    <2> QED BY <1>b, <2>1
  <1>3. CASE Deadline \/ Taken \/ Opened
    <2>1. at' = at /\ pc' = pc
      BY <1>3 DEF Deadline, Taken, Opened
    <2> QED BY <1>b, <2>1
  <1>4. CASE NextCourt
    <2>1. pc = "nextCourt" /\ UNCHANGED <<steady, alive>>
      BY <1>4 DEF NextCourt
    <2>2. CASE ~alive
      <3>1. pc' \in {"open", "none"}
        BY <1>0, <1>4, NextCourtFacts
      <3> QED BY <1>0, <2>2, <3>1 DEF Passed, RowFound
    <2>3. CASE alive
      <3>1. /\ at.d = setup.nd /\ at.t = setup.nt
            /\ \A s \in steady : Before(Tried(s), at) \/ Tried(s) = at => ~Found(s)
            /\ steady \subseteq Slots
        BY <2>1, <2>3 DEF Passed, Page, Offered
      <3>2. CASE pc' = "open"
        <4>1. \A s \in Slots : Before(Tried(s), at') => Before(Tried(s), at) \/ Tried(s) = at
          BY <1>0, <1>4, <3>1, <3>2, NextCourtFacts
        <4>2. ASSUME NEW s \in steady' PROVE Before(Tried(s)', at') => ~Found(s)'
          BY <1>0, <3>1, <4>1, FoundStays
        <4> QED BY <3>2, <4>2 DEF Passed
      <3>3. CASE pc' = "none"
        <4>1. at' = at /\ at.c = LastCourt /\ at.f = LastFacility
          BY <1>0, <1>4, <3>3, NextCourtFacts
        <4>2. LastCourt' = LastCourt /\ LastFacility' = LastFacility
          BY <1>0 DEF LastCourt, LastFacility
        <4>3. ASSUME NEW s \in steady'
              PROVE  Before(Tried(s)', at') \/ Tried(s)' = at' => ~Found(s)'
          BY <1>0, <3>1, <4>1, FoundStays
        <4> QED BY <1>0, <3>1, <3>3, <4>1, <4>2, <4>3 DEF Passed
      <3> QED BY <1>0, <1>4, <3>2, <3>3, NextCourtFacts
    <2> QED BY <2>2, <2>3
  <1>5. CASE Look
    <2>1. CASE alive /\ pc' = "reserve" /\ UNCHANGED at
      BY <1>b, <2>1
    <2>2. CASE (~alive \/ ForNow(listed) = {}) /\ TryNext
      <3>1. ASSUME alive, NEW s \in steady, Tried(s) = at, Found(s) PROVE FALSE
        <4>1. /\ FacilityFilter /\ CourtFilter /\ Rows(TriedHere(steady)) \subseteq listed
              /\ s \in Slots
          BY <1>5 DEF Look, Filters, Page, OnPage, Offered
        <4>2. s \in Rows(TriedHere(steady)) /\ s.d = at.d /\ s.t = at.t
          BY <3>1, <4>1, HasRow DEF Rows, TriedHere
        <4>3. s \in ForNow(listed)
          BY <4>1, <4>2 DEF ForNow
        <4> QED BY <2>2, <3>1, <4>3
      <3> QED BY <1>0, <2>2, <3>1, GoOn
    <2> QED BY <1>5, <1>a, <2>1, <2>2 DEF Look
  <1>6. CASE Reserve
    <2>1. pc \in RowFound
      BY <1>6 DEF Reserve, RowFound
    <2>2. CASE UNCHANGED at /\ pc' = "addCart"
      BY <1>b, <2>1, <2>2
    <2>3. CASE target \in listed \ free /\ TryNext
      BY <1>0, <2>1, <2>3, GoOn, TakenRowHides
    <2>4. CASE MayFail /\ TryNext
      BY <1>0, <1>a, <2>4, GoOn
    <2> QED BY <1>6, <2>2, <2>3, <2>4 DEF Reserve
  <1>7. CASE AddCart
    <2>1. pc \in RowFound
      BY <1>7, AddCartFacts DEF RowFound
    <2>2. CASE UNCHANGED at /\ pc' = "cartDone"
      BY <1>b, <2>1, <2>2
    <2>3. CASE MayFail /\ TryNext
      BY <1>0, <1>a, <2>3, GoOn
    <2> QED BY <1>7, <2>2, <2>3, AddCartFacts
  <1>8. CASE SmsScreen
    <2>1. pc \in RowFound
      BY <1>8 DEF SmsScreen, RowFound
    <2>2. CASE UNCHANGED at /\ pc' \in {"sms", "report"}
      BY <1>b, <2>1, <2>2
    <2>3. CASE MayFail /\ TryNext
      BY <1>0, <1>a, <2>3, GoOn
    <2> QED BY <1>8, <2>2, <2>3 DEF SmsScreen
  <1> QED BY <1>1, <1>2, <1>3, <1>4, <1>5, <1>6, <1>7, <1>8 DEF AnyStep, Step

-----------------------------------------------------------------------------
(* The invariant *)

LEMMA InitInv == Init => IndInv
  <1> SUFFICES ASSUME Init PROVE IndInv
    OBVIOUS
  <1>0. /\ setup \in Setups /\ pc = "login" /\ at = First /\ target = First
        /\ page = [f |-> Any, c |-> Any] /\ listed = {} /\ alive = TRUE
        /\ free \subseteq Offered /\ cart = {} /\ pending = {} /\ report = {}
        /\ steady = free /\ snatched = FALSE
    BY DEF Init
  <1>1. /\ 1 \in 1..setup.nf /\ 1 \in 1..setup.nc /\ 1 \in 1..setup.nd /\ 1 \in 1..setup.nt
        /\ 0 \in 0..setup.nf /\ 0 \in 0..setup.nc
    BY <1>0, SetupAssumption
  <1>2. First \in Slots
    BY <1>1 DEF First, Slots
  <1>3. page \in [f : 0..setup.nf, c : 0..setup.nc]
    BY <1>0, <1>1 DEF Any
  <1>4. TypeOK
    BY <1>0, <1>2, <1>3 DEF TypeOK, Offered
  <1>5. Filters /\ Page /\ AtStart /\ Ours
    BY <1>0 DEF Filters, Page, AtStart, First, Ours, OnPage, RowFound, Clicked
  <1>6. One
    BY <1>0 DEF One, Held
  <1>7. ASSUME NEW s \in steady, Before(Tried(s), at) PROVE FALSE
    <2>1. Tried(s) \in Slots
      BY <1>0, <1>4, TriedIs DEF Offered
    <2>2. PICK x \in Slots : x = Tried(s)
      BY <2>1
    <2>3. at.f = 1 /\ at.c = 1 /\ at.d = 1 /\ at.t = 1
      BY <1>0 DEF First
    <2>4. x.f < 1 \/ x.c < 1 \/ x.d < 1 \/ x.t < 1
      BY <1>7, <2>2, <2>3 DEF Before
    <2>5. 1 <= x.f /\ 1 <= x.c /\ 1 <= x.d /\ 1 <= x.t
          /\ x.f \in Nat /\ x.c \in Nat /\ x.d \in Nat /\ x.t \in Nat
      BY <1>4, SlotFields, SetupFacts
    <2> QED BY <2>4, <2>5
  <1>8. Passed
    BY <1>0, <1>7 DEF Passed
  <1> QED BY <1>4, <1>5, <1>6, <1>8 DEF IndInv

LEMMA NextInv == IndInv /\ [Next]_vars => IndInv'
  <1> SUFFICES ASSUME IndInv, [Next]_vars PROVE IndInv'
    OBVIOUS
  <1> USE DEF IndInv
  <1>1. CASE Next
    <2>1. AnyStep
      BY <1>1 DEF Next, AnyStep
    <2>2. TypeOK' /\ Filters' /\ Page' /\ AtStart'
      BY <2>1, TypeStep, FiltersStep, PageStep, AtStartStep
    <2>3. Ours' /\ One' /\ Passed'
      BY <2>1, OursStep, OneStep, PassedStep
    <2> QED BY <2>2, <2>3
  <1>2. CASE UNCHANGED vars
    <2> USE <1>2 DEF vars
    <2>1. TypeOK'
      BY DEF TypeOK, Slots
    <2>2. Filters'
      BY DEF Filters, FacilityFilter, CourtFilter, FacilitySet, CourtSet
    <2>3. Page' /\ AtStart' /\ Ours' /\ One'
      BY DEF Page, Rows, TriedHere, Tried, ForNow, Offered, Slots, AtStart, Ours, Held, One
    <2>4. Passed'
      BY Stay
    <2> QED BY <2>1, <2>2, <2>3, <2>4
  <1> QED BY <1>1, <1>2

LEMMA Invariance == Spec => []IndInv
  BY InitInv, NextInv, PTL DEF Spec

-----------------------------------------------------------------------------
(* The theorems *)

\* A run that fails by its deadline only never holds two slots: after the click on
\* "Sepete Ekle" no step of the loops of findAndBook and parseAndSelectSlot leads to
\* another one while the context lives.
THEOREM ScraperSafe == Spec => []ScraperInv
  <1>1. ASSUME IndInv PROVE ScraperInv
    <2>1. TypeOK /\ One
      BY <1>1 DEF IndInv
    <2>2. ASSUME ~setup.glitches PROVE Cardinality(Held) <= 1
      <3>1. \A a, b \in Held : a = b
        BY <2>1, <2>2 DEF One
      <3>2. CASE Held = {}
        BY <3>2, FS_EmptySet
      <3>3. CASE Held # {}
        <4>1. PICK a : Held = {a}
          BY <3>1, <3>3
        <4>2. Cardinality(Held) = 1
          BY <4>1, FS_Singleton
        <4> QED BY <4>2
      <3> QED BY <3>2, <3>3
    <2> QED BY <2>1, <2>2 DEF ScraperInv, OneSlot
  <1> QED BY <1>1, Invariance, PTL

\* The booking message of Run names a slot the site holds for us, when every configured
\* name selects its own option, the dropdowns are filled in time (waitForOptions), and
\* nobody took the slot between the look for "Sepete Ekle" and the click on it
\* (parseAndSelectSlot): the page is filtered by the names of the loops, so the row that
\* is found is one of theirs.
THEOREM MessageIsTrue == Spec => []ReportIsHeld
  <1>1. ASSUME IndInv PROVE ReportIsHeld
    <2> SUFFICES ASSUME setup.prompt, ~setup.glitches, NamesFit, ~snatched, NEW r \in report
                 PROVE  \E s \in Held : Names(r, s) /\ (setup.right /\ alive => s \in cart)
      BY DEF ReportIsHeld
    <2>1. TypeOK /\ Filters /\ Page /\ Ours
      BY <1>1 DEF IndInv
    <2>2. pc = "found" /\ r = at
      BY <2>1 DEF Ours
    <2>3. target \in Held /\ (setup.right /\ alive => target \in cart)
      BY <2>1, <2>2 DEF Ours, Clicked
    <2>4. /\ target.d = at.d /\ target.t = at.t
          /\ page.f \in {Any, target.f} /\ page.c \in {Any, target.c}
      BY <2>1, <2>2 DEF Page, RowFound, ForNow, Rows
    <2>5. FacilitySet /\ CourtSet
      BY <2>1, <2>2 DEF Filters, RowFound
    <2>6. at.f \in 1..setup.nf /\ at.c \in 1..setup.nc /\ at.f # Any /\ at.c # Any
      BY <2>1, AtNames
    <2>7. ASSUME "facility" \in setup.named PROVE at.f = target.f
      <3>1. setup.facility[at.f] = at.f
        BY <2>6, <2>7 DEF NamesFit
      <3> QED BY <2>4, <2>5, <2>6, <2>7, <3>1 DEF FacilitySet
    <2>8. ASSUME "court" \in setup.named PROVE at.c = target.c
      <3>1. "facility" \in setup.named /\ setup.facility[at.f] = at.f /\ setup.court[at.c] = at.c
        BY <2>6, <2>8 DEF NamesFit
      <3> QED BY <2>4, <2>5, <2>6, <2>8, <3>1 DEF CourtSet
    <2>9. Names(r, target)
      BY <2>2, <2>4, <2>7, <2>8 DEF Names
    <2> QED BY <2>3, <2>9
  <1> QED BY <1>1, Invariance, PTL

\* The loops of Run and parseAndSelectSlot pass over no slot that can be found and was
\* free from when its page was filled, though slots open, are taken and released all the
\* time: none comes before the reported one, and none is left by a run that reports nothing.
THEOREM LoopsSkipNothing == Spec => []NoneSkipped
  <1>1. ASSUME IndInv PROVE NoneSkipped
    <2> SUFFICES ASSUME ~setup.glitches, NEW s \in steady, Found(s)
                 PROVE  /\ \A r \in report : ~Before(Tried(s), r)
                        /\ ~(alive /\ pc = "none")
      BY DEF NoneSkipped
    <2>1. TypeOK /\ Page /\ Ours /\ Passed
      BY <1>1 DEF IndInv
    <2>2. ASSUME NEW r \in report PROVE ~Before(Tried(s), r)
      <3>1. pc = "found" /\ r = at
        BY <2>1 DEF Ours
      <3> QED BY <2>1, <3>1 DEF Passed, RowFound
    <2>3. ASSUME alive, pc = "none" PROVE FALSE
      <3>1. Before(Tried(s), at) \/ Tried(s) = at
        BY <2>1, <2>3, LastIsLast DEF Passed, Page, Offered
      <3> QED BY <2>1, <2>3, <3>1 DEF Passed
    <2> QED BY <2>2, <2>3
  <1> QED BY <1>1, Invariance, PTL
=============================================================================
