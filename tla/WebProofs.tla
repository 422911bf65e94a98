------------------------------ MODULE WebProofs ------------------------------
(* Theorems about the web interface, for every value of the constants: JobForm *)
(* and its selectors, for any catalog, clicks, requests and order of answers;  *)
(* and JobDetail, for any number of polls in flight, clicks and waits.         *)
EXTENDS JobForm, JobDetail, FiniteSetTheorems, TLAPS

-----------------------------------------------------------------------------
(* The inductive invariant of the form *)

Requests == [n : Nat, kind : {"facilities", "courts"}, of : SUBSET (Sports \cup AllFacilities),
             preserve : BOOLEAN]

FacilityRequest(r) == r \in pending /\ r.kind = "facilities"
CourtRequest(r) == r \in pending /\ r.kind = "courts"

\* The requests in flight: numbered one by one, and for rows of the catalog.
PendingOK ==
    /\ sent \in Nat
    /\ pending \subseteq Requests
    /\ \A r \in pending : r.n \in 1..sent
    /\ \A q, r \in pending : q.n = r.n => q = r
    /\ \A r \in pending : r.kind = "facilities" => \E s \in Sports : r.of = {s}
    /\ \A r \in pending : r.kind = "courts" => r.of \subseteq AllFacilities

\* Until the sport types are there nothing happens in the selectors.
Untouched ==
    types = "loading" =>
        /\ selectedStId = None /\ selectedFacIds = {}
        /\ facilityList = {} /\ courtList = {} /\ pending = {} /\ error = FALSE
        /\ form \in {setting.saved, NewForm}

Shape == setting \in Settings /\ TypeOK /\ PendingOK /\ Untouched

\* The lists, when the answers come in the order of the requests: they are those of
\* what is selected, or will be with the last request's answer.
LastFacilities ==
    /\ \A r \in pending :
         FacilityRequest(r) /\ (\A q \in pending : q.kind = "facilities" => q.n <= r.n) =>
           r.of = {selectedStId}
    /\ (\A r \in pending : r.kind # "facilities") /\ selectedStId # None =>
         facilityList = Facilities[selectedStId]

LastCourts ==
    selectedFacIds # {} =>
        /\ \A r \in pending :
             CourtRequest(r) /\ (\A q \in pending : q.kind = "courts" => q.n <= r.n) =>
               r.of = selectedFacIds
        /\ (\A r \in pending : r.kind # "courts") => courtList = CourtsOf(selectedFacIds)

InOrder == setting.inOrder /\ ~error => LastFacilities /\ LastCourts

\* A patient user's form is sound, or its facilities are those of an unsound job.
FormAlone == Sound(form) \/ LeftAlone(form)

\* What is marked is what the form holds, but while the saved facilities are fetched.
Marked ==
    /\ selectedStId = IF form.sport \in Sports THEN form.sport ELSE None
    /\ form.facilities # selectedFacIds => form.facilities = setting.saved.facilities
    /\ (\A r \in pending : ~r.preserve) => selectedFacIds = form.facilities \cap facilityList
    /\ \A r \in pending : r.preserve => form = setting.saved

\* The one request that is under way, and the lists.
Answered ==
    /\ \A r \in pending : r.kind = "facilities" =>
         /\ r.of = {selectedStId} /\ selectedFacIds = {} /\ courtList = {}
         /\ ~r.preserve => form.facilities = {}
    /\ \A r \in pending : r.kind = "courts" => r.of = selectedFacIds /\ ~r.preserve
    /\ (\A r \in pending : r.kind # "facilities") =>
         facilityList = IF selectedStId = None THEN {} ELSE Facilities[selectedStId]
    /\ pending = {} => courtList = CourtsOf(selectedFacIds)

Patience ==
    setting.patient =>
        /\ FormAlone
        /\ \A q, r \in pending : q = r
        /\ types = "there" /\ ~error => Marked /\ Answered

\* What SavedFits says of a job.
Savable(x) == x.facilities # {} /\ (Sound(x) \/ LeftAlone(x))

\* The request to save, and what becomes of it.
Saving ==
    /\ page \in {"open", "saved", "left"}
    /\ save \in [pc : {"idle", "sent", "written", "refused"}, form : Forms]
    /\ stored \in Forms
    /\ submits \in 0..MaxSubmits
    /\ made \in Nat /\ made + (IF save.pc = "sent" THEN 1 ELSE 0) <= submits
    /\ save.pc = "idle" => save = NoSave
    /\ save.pc # "idle" => Savable(save.form)
    /\ stored # setting.saved => Savable(stored)
    /\ save.pc = "written" => stored = save.form
    /\ page = "saved" => save = NoSave
    /\ setting.patient => /\ save.pc # "idle" => save.form = form
                          /\ page = "saved" => stored = form

Once == ~setting.failing => made = 0 \/ (made = 1 /\ (save.pc = "written" \/ page = "saved"))

IndInv == Shape /\ OneSport /\ InOrder /\ Patience /\ Saving /\ Once

-----------------------------------------------------------------------------
(* The selectors, action by action *)

LEMMA SportFacilities ==
    /\ \A s \in Sports : UNION {Facilities[x] : x \in {s}} = Facilities[s]
    /\ \A s \in Sports : Facilities[s] \subseteq AllFacilities
  BY DEF AllFacilities

LEMMA CourtsGrow ==
    /\ CourtsOf({}) = {}
    /\ \A fs, gs : fs \subseteq gs => CourtsOf(fs) \subseteq CourtsOf(gs)
  BY DEF CourtsOf

\* The request that comes in addition to those of S: later than all of them.
IsSent(new, S, kind, of, preserve) ==
    /\ pending' = S \cup {new}
    /\ new.kind = kind /\ new.of = of /\ new.preserve = preserve
    /\ \A q \in S : ~(new.n <= q.n)

LEMMA Sending ==
    ASSUME PendingOK, NEW S, S \subseteq pending, NEW kind, NEW of, NEW preserve \in BOOLEAN,
           SendTo(S, kind, of, preserve),
           \/ kind = "facilities" /\ \E s \in Sports : of = {s}
           \/ kind = "courts" /\ of \subseteq AllFacilities
    PROVE  PendingOK' /\ \E new : IsSent(new, S, kind, of, preserve)
  <1> DEFINE new == Request(kind, of, preserve)
  <1>1. /\ new.n = sent + 1 /\ new.kind = kind /\ new.of = of /\ new.preserve = preserve
        /\ pending' = S \cup {new} /\ sent' = sent + 1
    BY DEF Request, SendTo
  <1>2. new \in Requests
    <2>1. of \in SUBSET (Sports \cup AllFacilities) /\ kind \in {"facilities", "courts"}
      OBVIOUS
    <2>2. sent + 1 \in Nat
      BY DEF PendingOK
    <2> QED BY <2>1, <2>2 DEF Requests, Request
  <1>3. sent \in Nat /\ \A q \in S : q \in Requests /\ q.n \in 1..sent
    BY DEF PendingOK
  <1> HIDE DEF new
  <1>4. \A q \in S : q.n # new.n /\ ~(new.n <= q.n)
    BY <1>1, <1>3
  <1>5. sent' \in Nat /\ pending' \subseteq Requests /\ \A r \in pending' : r.n \in 1..sent'
    BY <1>1, <1>2, <1>3
  <1>6. \A q, r \in pending' : q.n = r.n => q = r
    BY <1>1, <1>4 DEF PendingOK
  <1>7. /\ \A r \in pending' : r.kind = "facilities" => \E s \in Sports : r.of = {s}
        /\ \A r \in pending' : r.kind = "courts" => r.of \subseteq AllFacilities
    BY <1>1 DEF PendingOK
  <1>8. PendingOK'
    BY <1>5, <1>6, <1>7 DEF PendingOK
  <1>9. IsSent(new, S, kind, of, preserve)
    BY <1>1, <1>4 DEF IsSent
  <1> QED BY <1>8, <1>9

\* The two kinds of requests there are.
LEMMA SendingFacilities ==
    ASSUME PendingOK, NEW S \in SUBSET pending, NEW s \in Sports, NEW preserve \in BOOLEAN,
           SendTo(S, "facilities", {s}, preserve)
    PROVE  PendingOK' /\ \E new : IsSent(new, S, "facilities", {s}, preserve)
  BY Sending

LEMMA SendingCourts ==
    ASSUME PendingOK, NEW S \in SUBSET pending, NEW m \in SUBSET AllFacilities,
           NEW preserve \in BOOLEAN, SendTo(S, "courts", m, preserve)
    PROVE  PendingOK' /\ \E new : IsSent(new, S, "courts", m, preserve)
  BY Sending

LEMMA FewerRequests ==
    ASSUME PendingOK, pending' \subseteq pending, sent' = sent
    PROVE  PendingOK'
  BY DEF PendingOK

LEMMA FacilitiesAnswerFacts ==
    ASSUME Shape, NEW r \in pending, FacilitiesAnswer(r)
    PROVE  \E s \in Sports, m \in SUBSET AllFacilities :
             /\ r.kind = "facilities" /\ r.of = {s}
             /\ setting.inOrder => \A q \in pending : r.n <= q.n
             /\ facilityList' = Facilities[s]
             /\ m = IF r.preserve THEN setting.saved.facilities \cap Facilities[s] ELSE {}
             /\ \/ /\ m = {} /\ pending' = pending \ {r}
                   /\ UNCHANGED <<selectedFacIds, loadingCourt, sent>>
                \/ /\ m # {} /\ selectedFacIds' = m /\ loadingCourt' = TRUE
                   /\ SendTo(pending \ {r}, "courts", m, FALSE)
             /\ UNCHANGED <<form, types, selectedStId, courtList, error>>
  <1>1. PICK s \in Sports : r.of = {s}
    BY DEF FacilitiesAnswer, Shape, PendingOK
  <1>2. facilityList' = Facilities[s]
    BY <1>1, SportFacilities DEF FacilitiesAnswer
  <1>3. Matched(r) = IF r.preserve THEN setting.saved.facilities \cap Facilities[s] ELSE {}
    BY <1>2 DEF Matched
  <1>4. PICK m \in SUBSET AllFacilities : m = Matched(r)
    BY <1>1, <1>3, SportFacilities
  <1> QED BY <1>1, <1>2, <1>3, <1>4 DEF FacilitiesAnswer, MayAnswer

LEMMA ToggleFacilityFacts ==
    ASSUME Shape, NEW f \in AllFacilities, ToggleFacility(f)
    PROVE  /\ Clickable /\ f \in facilityList
           /\ form' \in Forms /\ form'.sport = form.sport /\ form'.courts = {}
           /\ UNCHANGED <<types, selectedStId, facilityList, error>>
           /\ \E m \in SUBSET AllFacilities :
                /\ m \subseteq selectedFacIds \cup {f}
                /\ selectedFacIds' = m /\ form'.facilities = m \cap facilityList
                /\ \/ m = {} /\ courtList' = {} /\ UNCHANGED <<loadingCourt, pending, sent>>
                   \/ /\ m # {} /\ loadingCourt' = TRUE /\ UNCHANGED courtList
                      /\ SendTo(pending, "courts", m, FALSE)
  <1>1. form \in Forms /\ selectedFacIds \subseteq AllFacilities
    BY DEF Shape, TypeOK
  <1>2. PICK m \in SUBSET AllFacilities :
          m = Toggled(f, selectedFacIds) /\ m \subseteq selectedFacIds \cup {f}
    BY <1>1 DEF Toggled
  <1>3. /\ selectedFacIds' = m
        /\ form' = [form EXCEPT !.facilities = m \cap facilityList, !.courts = {}]
        /\ LoadCourts(selectedFacIds')
    BY <1>2 DEF ToggleFacility
  <1>4. /\ form' \in Forms /\ form'.sport = form.sport /\ form'.courts = {}
        /\ form'.facilities = m \cap facilityList
    BY <1>1, <1>3 DEF Forms
  <1>5. \/ m = {} /\ courtList' = {} /\ UNCHANGED <<loadingCourt, pending, sent>>
        \/ /\ m # {} /\ loadingCourt' = TRUE /\ UNCHANGED courtList
           /\ SendTo(pending, "courts", m, FALSE)
    BY <1>3 DEF LoadCourts
  <1>6. Clickable /\ f \in facilityList /\ UNCHANGED <<types, selectedStId, facilityList, error>>
    BY DEF ToggleFacility
  <1> QED BY <1>2, <1>3, <1>4, <1>5, <1>6

LEMMA ToggleCourtFacts ==
    ASSUME Shape, NEW c \in CourtsOf(AllFacilities), ToggleCourt(c)
    PROVE  /\ Clickable /\ c \in courtList
           /\ form' \in Forms /\ form'.sport = form.sport /\ form'.facilities = form.facilities
           /\ form'.courts \subseteq form.courts \cup {c}
           /\ UNCHANGED <<types, selectedStId, selectedFacIds, facilityList, courtList,
                          loadingCourt, error, pending, sent>>
  <1>1. form \in Forms
    BY DEF Shape, TypeOK
  <1>2. Toggled(c, form.courts) \subseteq form.courts \cup {c}
    BY DEF Toggled
  <1>3. form' = [form EXCEPT !.courts = Toggled(c, form.courts)]
    BY <1>1 DEF ToggleCourt
  <1>4. /\ form' \in Forms /\ form'.sport = form.sport /\ form'.facilities = form.facilities
        /\ form'.courts = Toggled(c, form.courts)
    BY <1>1, <1>2, <1>3 DEF Forms
  <1> QED BY <1>2, <1>4 DEF ToggleCourt

\* One click or one answer in the selectors.
SelectorStep ==
    \/ SportTypesAnswer \/ SportTypesFail
    \/ \E s \in Sports : SelectSportType(s)
    \/ \E f \in AllFacilities : ToggleFacility(f)
    \/ \E c \in CourtsOf(AllFacilities) : ToggleCourt(c)
    \/ \E r \in pending : FacilitiesAnswer(r) \/ CourtsAnswer(r) \/ RequestFails(r)

LEMMA ShapeStep ==
    ASSUME Shape, SelectorStep, UNCHANGED setting
    PROVE  Shape'
  <1> USE DEF Shape
  <1>1. CASE SportTypesAnswer
    <2>1. /\ form \in Forms /\ types = "loading" /\ types' = "there"
          /\ UNCHANGED <<form, selectedFacIds, facilityList, courtList, loadingCourt, error>>
          /\ sent \in Nat
      BY <1>1 DEF SportTypesAnswer, TypeOK, PendingOK
    <2>2. CASE form.sport \in Sports
      <3>1. selectedStId' = form.sport /\ SendTo(pending, "facilities", {form.sport}, TRUE)
        BY <1>1, <2>2 DEF SportTypesAnswer
      <3>2. PendingOK'
        BY <2>2, <3>1, Sending
      <3> QED BY <2>1, <2>2, <3>1, <3>2 DEF TypeOK, Untouched, PendingOK
    <2>3. CASE form.sport \notin Sports
      <3>1. UNCHANGED <<selectedStId, pending, sent>>
        BY <1>1, <2>3 DEF SportTypesAnswer
      <3> QED BY <2>1, <3>1, FewerRequests DEF TypeOK, Untouched
    <2> QED BY <2>2, <2>3
  <1>2. CASE SportTypesFail
    BY <1>2, FewerRequests DEF SportTypesFail, TypeOK, Untouched
  <1>3. ASSUME NEW s \in Sports, SelectSportType(s) PROVE Shape'
    <2>1. /\ types = "there" /\ types' = "there" /\ selectedStId' = s /\ selectedFacIds' = {}
          /\ courtList' = {} /\ form' = [sport |-> s, facilities |-> {}, courts |-> {}]
          /\ SendTo(pending, "facilities", {s}, FALSE)
          /\ UNCHANGED <<facilityList, loadingCourt, error>>
      BY <1>3 DEF SelectSportType, Clickable
    <2>2. PendingOK'
      BY <2>1, Sending
    <2>3. form' \in Forms
      BY <2>1 DEF Forms
    <2> QED BY <2>1, <2>2, <2>3 DEF TypeOK, Untouched, PendingOK
  <1>4. ASSUME NEW f \in AllFacilities, ToggleFacility(f) PROVE Shape'
    <2>1. PICK m \in SUBSET AllFacilities :
                /\ selectedFacIds' = m
                /\ \/ m = {} /\ courtList' = {} /\ UNCHANGED <<loadingCourt, pending, sent>>
                   \/ /\ m # {} /\ loadingCourt' = TRUE /\ UNCHANGED courtList
                      /\ SendTo(pending, "courts", m, FALSE)
      BY <1>4, ToggleFacilityFacts
    <2>2. /\ types' = "there" /\ form' \in Forms
          /\ UNCHANGED <<selectedStId, facilityList, error>>
      BY <1>4, ToggleFacilityFacts DEF Clickable
    <2>3. PendingOK'
      BY <2>1, Sending, FewerRequests
    <2>4. courtList' \subseteq CourtsOf(AllFacilities) /\ loadingCourt' \in BOOLEAN
      BY <2>1 DEF TypeOK
    <2> QED BY <2>1, <2>2, <2>3, <2>4 DEF TypeOK, Untouched, PendingOK
  <1>5. ASSUME NEW c \in CourtsOf(AllFacilities), ToggleCourt(c) PROVE Shape'
    BY <1>5, ToggleCourtFacts, FewerRequests DEF TypeOK, Untouched, Clickable
  <1>6. ASSUME NEW r \in pending, FacilitiesAnswer(r) PROVE Shape'
    <2>1. PICK s \in Sports, m \in SUBSET AllFacilities :
             /\ facilityList' = Facilities[s]
             /\ m = IF r.preserve THEN setting.saved.facilities \cap Facilities[s] ELSE {}
             /\ \/ /\ m = {} /\ pending' = pending \ {r}
                   /\ UNCHANGED <<selectedFacIds, loadingCourt, sent>>
                \/ /\ m # {} /\ selectedFacIds' = m /\ loadingCourt' = TRUE
                   /\ SendTo(pending \ {r}, "courts", m, FALSE)
             /\ UNCHANGED <<form, types, selectedStId, courtList, error>>
      BY <1>6, FacilitiesAnswerFacts
    <2>2. m \subseteq AllFacilities
      BY <2>1
    <2>3. PendingOK'
      BY <2>1, <2>2, Sending, FewerRequests
    <2>4. types' # "loading"
      BY <2>1 DEF TypeOK, Untouched
    <2> QED BY <2>1, <2>2, <2>3, <2>4 DEF TypeOK, Untouched, PendingOK
  <1>7. ASSUME NEW r \in pending, CourtsAnswer(r) PROVE Shape'
    <2>1. /\ r.of \subseteq AllFacilities /\ courtList' = CourtsOf(r.of) /\ loadingCourt' = FALSE
          /\ pending' = pending \ {r}
          /\ UNCHANGED <<form, types, selectedStId, selectedFacIds, facilityList, error, sent>>
      BY <1>7 DEF CourtsAnswer, PendingOK
    <2>2. PendingOK' /\ courtList' \subseteq CourtsOf(AllFacilities)
      BY <2>1, FewerRequests, CourtsGrow
    <2> QED BY <2>1, <2>2 DEF TypeOK, Untouched, PendingOK
  <1>8. ASSUME NEW r \in pending, RequestFails(r) PROVE Shape'
    <2>1. /\ error' = TRUE /\ pending' = pending \ {r} /\ loadingCourt' \in BOOLEAN
          /\ UNCHANGED <<form, types, selectedStId, selectedFacIds, facilityList, courtList, sent>>
      BY <1>8 DEF RequestFails, TypeOK
    <2>2. PendingOK'
      BY <2>1, FewerRequests
    <2> QED BY <2>1, <2>2 DEF TypeOK, Untouched, PendingOK
  <1> QED BY <1>1, <1>2, <1>3, <1>4, <1>5, <1>6, <1>7, <1>8 DEF SelectorStep

\* The facilities of the form stay those of one sport, or those it had.
LEMMA OneSportStep ==
    ASSUME Shape, OneSport, SelectorStep, UNCHANGED setting
    PROVE  OneSport'
  <1> USE DEF OneSport, Known
  <1>1. CASE UNCHANGED form
    BY <1>1
  <1>2. ASSUME NEW s \in Sports, SelectSportType(s) PROVE OneSport'
    BY <1>2 DEF SelectSportType
  <1>3. ASSUME NEW f \in AllFacilities, ToggleFacility(f) PROVE OneSport'
    <2>1. form'.facilities \subseteq facilityList
      BY <1>3, ToggleFacilityFacts
    <2>2. \E s \in Sports : facilityList \subseteq Facilities[s]
      BY DEF Shape, TypeOK
    <2> QED BY <2>1, <2>2
  <1>4. ASSUME NEW c \in CourtsOf(AllFacilities), ToggleCourt(c) PROVE OneSport'
    BY <1>4, ToggleCourtFacts
  <1> QED BY <1>1, <1>2, <1>3, <1>4
          DEF SelectorStep, SportTypesAnswer, SportTypesFail, FacilitiesAnswer, CourtsAnswer,
              RequestFails

-----------------------------------------------------------------------------
(* Answers that come in order *)

\* The request that is sent last is for what is selected.
LEMMA FacilitiesSent ==
    ASSUME NEW S, NEW new, NEW preserve,
           IsSent(new, S, "facilities", {selectedStId'}, preserve)
    PROVE  LastFacilities'
  BY DEF IsSent, LastFacilities, FacilityRequest

LEMMA FacilitiesKept ==
    ASSUME LastFacilities, UNCHANGED <<selectedStId, facilityList>>,
           \A r : FacilityRequest(r) <=> r \in pending' /\ r.kind = "facilities"
    PROVE  LastFacilities'
  BY DEF LastFacilities, FacilityRequest

LEMMA CourtsSent ==
    ASSUME NEW S, NEW new, NEW preserve, IsSent(new, S, "courts", selectedFacIds', preserve)
    PROVE  LastCourts'
  BY DEF IsSent, LastCourts, CourtRequest

LEMMA CourtsKept ==
    ASSUME LastCourts, UNCHANGED <<selectedFacIds, courtList>>,
           \A r : CourtRequest(r) <=> r \in pending' /\ r.kind = "courts"
    PROVE  LastCourts'
  BY DEF LastCourts, CourtRequest

\* The answer to the oldest request: the last one of its kind is still to come, or it
\* was this one.
LEMMA FacilitiesAnswered ==
    ASSUME PendingOK, LastFacilities, NEW r \in pending, r.kind = "facilities",
           \A q \in pending : r.n <= q.n, NEW s, r.of = {s}, facilityList' = Facilities[s],
           UNCHANGED selectedStId,
           \A q : q \in pending' /\ q.kind = "facilities" <=> FacilityRequest(q) /\ q # r
    PROVE  LastFacilities'
  <1>1. ASSUME NEW x \in pending', x.kind = "facilities",
               \A q \in pending' : q.kind = "facilities" => q.n <= x.n
        PROVE  x.of = {selectedStId}
    <2>1. x \in pending /\ r.n <= x.n
      BY <1>1 DEF FacilityRequest
    <2>2. \A q \in pending : q.kind = "facilities" => q.n <= x.n
      BY <1>1, <2>1 DEF FacilityRequest
    <2> QED BY <1>1, <2>1, <2>2 DEF LastFacilities, FacilityRequest
  <1>2. ASSUME \A x \in pending' : x.kind # "facilities"
        PROVE  s = selectedStId
    <2>1. \A q \in pending : q.kind = "facilities" => q = r
      BY <1>2 DEF FacilityRequest
    <2>2. r.n <= r.n
      OBVIOUS
    <2>3. r.of = {selectedStId}
      BY <2>1, <2>2 DEF LastFacilities, FacilityRequest
    <2> QED BY <2>3
  <1> QED BY <1>1, <1>2 DEF LastFacilities, FacilityRequest

LEMMA CourtsAnswered ==
    ASSUME PendingOK, LastCourts, NEW r \in pending, r.kind = "courts",
           \A q \in pending : r.n <= q.n, courtList' = CourtsOf(r.of),
           UNCHANGED selectedFacIds, pending' = pending \ {r}
    PROVE  LastCourts'
  <1> SUFFICES ASSUME selectedFacIds # {} PROVE LastCourts'
    BY DEF LastCourts
  <1>1. ASSUME NEW x \in pending', x.kind = "courts",
               \A q \in pending' : q.kind = "courts" => q.n <= x.n
        PROVE  x.of = selectedFacIds
    <2>1. x \in pending /\ r.n <= x.n
      BY <1>1
    <2>2. \A q \in pending : q.kind = "courts" => q.n <= x.n
      BY <1>1, <2>1
    <2> QED BY <1>1, <2>1, <2>2 DEF LastCourts, CourtRequest
  <1>2. ASSUME \A x \in pending' : x.kind # "courts"
        PROVE  r.of = selectedFacIds
    <2>1. \A q \in pending : q.kind = "courts" => q = r
      BY <1>2
    <2>2. r.n <= r.n
      OBVIOUS
    <2> QED BY <2>1, <2>2 DEF LastCourts, CourtRequest
  <1> QED BY <1>1, <1>2 DEF LastCourts, CourtRequest

LEMMA InOrderStep ==
    ASSUME Shape, InOrder, SelectorStep, UNCHANGED setting
    PROVE  InOrder'
  <1> USE DEF Shape
  <1> SUFFICES ASSUME setting.inOrder, ~error' PROVE LastFacilities' /\ LastCourts'
    BY DEF InOrder
  <1>0. ASSUME UNCHANGED error PROVE LastFacilities /\ LastCourts
    BY <1>0 DEF InOrder
  <1>1. CASE SportTypesAnswer
    <2>1. /\ UNCHANGED <<selectedFacIds, facilityList, courtList, error>>
          /\ types = "loading"
      BY <1>1 DEF SportTypesAnswer
    <2>2. selectedFacIds' = {} /\ pending = {} /\ selectedStId = None
      BY <2>1 DEF Untouched
    <2>3. LastCourts'
      BY <2>2 DEF LastCourts
    <2>4. CASE form.sport \in Sports
      <3>1. selectedStId' = form.sport /\ SendTo(pending, "facilities", {form.sport}, TRUE)
        BY <1>1, <2>4 DEF SportTypesAnswer
      <3>2. PICK new : IsSent(new, pending, "facilities", {form.sport}, TRUE)
        BY <2>4, <3>1, SendingFacilities
      <3>3. LastFacilities'
        BY <3>1, <3>2, FacilitiesSent
      <3> QED BY <2>3, <3>3
    <2>5. CASE form.sport \notin Sports
      <3>1. UNCHANGED <<selectedStId, pending, facilityList>>
        BY <1>1, <2>5 DEF SportTypesAnswer
      <3>2. LastFacilities'
        BY <2>2, <3>1 DEF LastFacilities
      <3> QED BY <2>3, <3>2
    <2> QED BY <2>4, <2>5
  <1>2. CASE SportTypesFail
    BY <1>2 DEF SportTypesFail
  <1>3. ASSUME NEW s \in Sports, SelectSportType(s) PROVE LastFacilities' /\ LastCourts'
    <2>1. /\ selectedStId' = s /\ selectedFacIds' = {}
          /\ SendTo(pending, "facilities", {s}, FALSE)
      BY <1>3 DEF SelectSportType
    <2>2. PICK new : IsSent(new, pending, "facilities", {s}, FALSE)
      BY <2>1, SendingFacilities
    <2>3. LastFacilities'
      BY <2>1, <2>2, FacilitiesSent
    <2>4. LastCourts'
      BY <2>1 DEF LastCourts
    <2> QED BY <2>3, <2>4
  <1>4. ASSUME NEW f \in AllFacilities, ToggleFacility(f) PROVE LastFacilities' /\ LastCourts'
    <2>1. PICK m \in SUBSET AllFacilities :
                /\ selectedFacIds' = m
                /\ \/ m = {} /\ courtList' = {} /\ UNCHANGED <<loadingCourt, pending, sent>>
                   \/ /\ m # {} /\ loadingCourt' = TRUE /\ UNCHANGED courtList
                      /\ SendTo(pending, "courts", m, FALSE)
      BY <1>4, ToggleFacilityFacts
    <2>2. UNCHANGED <<selectedStId, facilityList, error>> /\ LastFacilities
      BY <1>0, <1>4, ToggleFacilityFacts
    <2>3. CASE m = {}
      <3>1. UNCHANGED pending
        BY <2>1, <2>3
      <3>2. LastFacilities'
        BY <2>2, <3>1, FacilitiesKept DEF FacilityRequest
      <3> QED BY <2>1, <2>3, <3>2 DEF LastCourts
    <2>4. CASE m # {}
      <3>0. /\ SendTo(pending, "courts", m, FALSE) /\ pending \in SUBSET pending
            /\ PendingOK /\ FALSE \in BOOLEAN
        BY <2>1, <2>4
      <3>1. PICK new : IsSent(new, pending, "courts", m, FALSE)
        BY <3>0, SendingCourts
      <3>2. LastFacilities'
        BY <2>2, <3>1, FacilitiesKept DEF FacilityRequest, IsSent
      <3>3. LastCourts'
        BY <2>1, <3>1, CourtsSent
      <3> QED BY <3>2, <3>3
    <2> QED BY <2>3, <2>4
  <1>5. ASSUME NEW c \in CourtsOf(AllFacilities), ToggleCourt(c)
        PROVE  LastFacilities' /\ LastCourts'
    <2>1. UNCHANGED <<selectedStId, selectedFacIds, facilityList, courtList, error, pending>>
      BY <1>5, ToggleCourtFacts
    <2> QED BY <1>0, <2>1, FacilitiesKept, CourtsKept DEF FacilityRequest, CourtRequest
  <1>6. ASSUME NEW r \in pending, FacilitiesAnswer(r) PROVE LastFacilities' /\ LastCourts'
    <2>1. PICK s \in Sports, m \in SUBSET AllFacilities :
             /\ r.kind = "facilities" /\ r.of = {s}
             /\ \A q \in pending : r.n <= q.n
             /\ facilityList' = Facilities[s]
             /\ m = IF r.preserve THEN setting.saved.facilities \cap Facilities[s] ELSE {}
             /\ \/ /\ m = {} /\ pending' = pending \ {r}
                   /\ UNCHANGED <<selectedFacIds, loadingCourt, sent>>
                \/ /\ m # {} /\ selectedFacIds' = m /\ loadingCourt' = TRUE
                   /\ SendTo(pending \ {r}, "courts", m, FALSE)
             /\ UNCHANGED <<form, types, selectedStId, courtList, error>>
      BY <1>6, FacilitiesAnswerFacts
    <2>2. LastFacilities /\ LastCourts
      BY <1>0, <2>1
    <2>3. CASE m = {}
      <3>1. pending' = pending \ {r} /\ UNCHANGED selectedFacIds
        BY <2>1, <2>3
      <3>2. \A q : q \in pending' /\ q.kind = "facilities" <=> FacilityRequest(q) /\ q # r
        BY <3>1 DEF FacilityRequest
      <3>3. LastFacilities'
        BY <2>1, <2>2, <3>2, FacilitiesAnswered
      <3>4. \A q : CourtRequest(q) <=> q \in pending' /\ q.kind = "courts"
        BY <2>1, <3>1 DEF CourtRequest
      <3>5. LastCourts'
        BY <2>1, <2>2, <3>1, <3>4, CourtsKept
      <3> QED BY <3>3, <3>5
    <2>4. CASE m # {}
      <3>1. /\ selectedFacIds' = m /\ SendTo(pending \ {r}, "courts", m, FALSE)
            /\ m \in SUBSET AllFacilities
        BY <2>1, <2>4, SportFacilities
      <3>0. pending \ {r} \in SUBSET pending /\ PendingOK /\ FALSE \in BOOLEAN
        OBVIOUS
      <3>2. PICK new : IsSent(new, pending \ {r}, "courts", m, FALSE)
        BY <3>0, <3>1, SendingCourts
      <3>3. \A q : q \in pending' /\ q.kind = "facilities" <=> FacilityRequest(q) /\ q # r
        BY <3>2 DEF FacilityRequest, IsSent
      <3>4. LastFacilities'
        BY <2>1, <2>2, <3>3, FacilitiesAnswered
      <3>5. LastCourts'
        BY <3>1, <3>2, CourtsSent
      <3> QED BY <3>4, <3>5
    <2> QED BY <2>3, <2>4
  <1>7. ASSUME NEW r \in pending, CourtsAnswer(r) PROVE LastFacilities' /\ LastCourts'
    <2>1. /\ r.kind = "courts" /\ (\A q \in pending : r.n <= q.n)
          /\ courtList' = CourtsOf(r.of) /\ pending' = pending \ {r}
          /\ UNCHANGED <<selectedStId, selectedFacIds, facilityList, error>>
      BY <1>7 DEF CourtsAnswer, MayAnswer
    <2>2. LastFacilities /\ LastCourts
      BY <1>0, <2>1
    <2>3. \A q : FacilityRequest(q) <=> q \in pending' /\ q.kind = "facilities"
      BY <2>1 DEF FacilityRequest
    <2>4. LastFacilities'
      BY <2>1, <2>2, <2>3, FacilitiesKept
    <2>5. LastCourts'
      BY <2>1, <2>2, CourtsAnswered
    <2> QED BY <2>4, <2>5
  <1>8. ASSUME NEW r \in pending, RequestFails(r) PROVE LastFacilities' /\ LastCourts'
    BY <1>8 DEF RequestFails
  <1> QED BY <1>1, <1>2, <1>3, <1>4, <1>5, <1>6, <1>7, <1>8 DEF SelectorStep

-----------------------------------------------------------------------------
(* A patient user *)

\* Marked and Answered, of the patient user who has the dropdowns.
Ready == types = "there" /\ ~error

\* The form that shows what was saved, or the defaults.
LEMMA SavedAlone ==
    ASSUME form \in {setting.saved, NewForm}
    PROVE  FormAlone
  <1>1. CASE form = NewForm
    <2>1. /\ Known(form) = {} /\ KnownCourts(form) = {}
          /\ \E s \in Sports : TRUE
      BY <1>1, SelectorAssumption DEF Known, KnownCourts, NewForm
    <2> QED BY <2>1 DEF FormAlone, Sound
  <1>2. CASE form = setting.saved
    BY <1>2 DEF FormAlone, LeftAlone
  <1> QED BY <1>1, <1>2

\* What does not touch the form leaves it as sound as it was.
LEMMA SoundKept ==
    ASSUME FormAlone, UNCHANGED <<setting, form>>
    PROVE  FormAlone'
  BY DEF FormAlone, Sound, LeftAlone, Known, KnownCourts

LEMMA FormAloneStep ==
    ASSUME Shape, setting.patient, Patience, SelectorStep, UNCHANGED setting
    PROVE  FormAlone'
  <1>0. FormAlone
    BY DEF Patience
  <1>1. CASE UNCHANGED form
    BY <1>0, <1>1, SoundKept
  <1>2. ASSUME NEW s \in Sports, SelectSportType(s) PROVE FormAlone'
    <2>1. form'.facilities = {} /\ form'.courts = {}
      BY <1>2 DEF SelectSportType
    <2> QED BY <2>1 DEF FormAlone, Sound, Known, KnownCourts
  <1>3. ASSUME NEW f \in AllFacilities, ToggleFacility(f) PROVE FormAlone'
    <2>1. /\ form'.facilities \subseteq facilityList /\ form'.sport = form.sport
          /\ form'.courts = {} /\ f \in facilityList
          /\ Ready /\ pending = {}
      BY <1>3, ToggleFacilityFacts DEF Clickable, Ready
    <2>2. facilityList = Facilities[form.sport] /\ form.sport \in Sports
      BY <2>1 DEF Patience, Ready, Marked, Answered, Shape, TypeOK
    <2> QED BY <2>1, <2>2 DEF FormAlone, Sound, Known, KnownCourts
  <1>4. ASSUME NEW c \in CourtsOf(AllFacilities), ToggleCourt(c) PROVE FormAlone'
    <2>1. /\ form'.courts \subseteq form.courts \cup {c} /\ c \in courtList
          /\ form'.sport = form.sport /\ form'.facilities = form.facilities
          /\ Ready /\ pending = {}
      BY <1>4, ToggleCourtFacts DEF Clickable, Ready
    <2>2. courtList = CourtsOf(selectedFacIds) /\ selectedFacIds \subseteq Known(form)
      BY <2>1 DEF Patience, Ready, Marked, Answered, Known, Shape, TypeOK
    <2>3. c \in CourtsOf(Known(form)) /\ Known(form') = Known(form)
      BY <2>1, <2>2, CourtsGrow DEF Known
    <2>4. CASE Sound(form)
      BY <2>1, <2>3, <2>4 DEF FormAlone, Sound, KnownCourts
    <2>5. CASE LeftAlone(form)
      <3>1. Sound(setting.saved)' = Sound(setting.saved)
        BY DEF Sound, Known, KnownCourts
      <3> QED BY <2>1, <2>5, <3>1 DEF FormAlone, LeftAlone
    <2> QED BY <1>0, <2>4, <2>5 DEF FormAlone
  <1> QED BY <1>1, <1>2, <1>3, <1>4
          DEF SelectorStep, SportTypesAnswer, SportTypesFail, FacilitiesAnswer, CourtsAnswer,
              RequestFails

\* A patient user has one request under way at most.
LEMMA AtMostOne ==
    ASSUME Shape, setting.patient, Patience, SelectorStep, UNCHANGED setting
    PROVE  \A q, r \in pending' : q = r
  <1> USE DEF Shape
  <1>0. \A q, r \in pending : q = r
    BY DEF Patience
  <1>1. CASE pending' \subseteq pending
    BY <1>0, <1>1
  <1>2. CASE \E new : pending' = {new}
    BY <1>2
  <1>3. ASSUME NEW kind, NEW of, NEW preserve, SendTo({}, kind, of, preserve)
        PROVE  \E new : pending' = {new}
    BY <1>3 DEF SendTo
  <1>4. CASE SportTypesAnswer
    BY <1>1, <1>2, <1>3, <1>4 DEF SportTypesAnswer, Untouched
  <1>5. CASE SportTypesFail
    BY <1>1, <1>5 DEF SportTypesFail
  <1>6. ASSUME NEW s \in Sports, SelectSportType(s) PROVE \A q, r \in pending' : q = r
    BY <1>2, <1>3, <1>6 DEF SelectSportType, Clickable
  <1>7. ASSUME NEW f \in AllFacilities, ToggleFacility(f) PROVE \A q, r \in pending' : q = r
    <2>1. pending = {}
      BY <1>7 DEF ToggleFacility, Clickable
    <2>2. UNCHANGED pending \/ \E m : SendTo(pending, "courts", m, FALSE)
      BY <1>7, ToggleFacilityFacts
    <2> QED BY <1>1, <1>2, <1>3, <2>1, <2>2
  <1>8. ASSUME NEW c \in CourtsOf(AllFacilities), ToggleCourt(c)
        PROVE  \A q, r \in pending' : q = r
    BY <1>1, <1>8 DEF ToggleCourt
  <1>9. ASSUME NEW r \in pending, FacilitiesAnswer(r) PROVE \A q, x \in pending' : q = x
    <2>1. pending \ {r} = {}
      BY <1>0
    <2>2. pending' \subseteq pending \/ \E m : SendTo(pending \ {r}, "courts", m, FALSE)
      BY <1>9, FacilitiesAnswerFacts
    <2>3. pending' \subseteq pending \/ \E new : pending' = {new}
      BY <2>1, <2>2 DEF SendTo
    <2> QED BY <1>1, <1>2, <2>3
  <1>10. ASSUME NEW r \in pending, CourtsAnswer(r) \/ RequestFails(r)
         PROVE  \A q, x \in pending' : q = x
    BY <1>1, <1>10 DEF CourtsAnswer, RequestFails
  <1> QED BY <1>4, <1>5, <1>6, <1>7, <1>8, <1>9, <1>10 DEF SelectorStep

LEMMA ReadyStep ==
    ASSUME Shape, setting.patient, Patience, SelectorStep, UNCHANGED setting, Ready'
    PROVE  Marked' /\ Answered'
  <1> USE DEF Shape
  <1>0. (\A q, r \in pending : q = r) /\ (Ready => Marked /\ Answered)
    BY DEF Patience, Ready
  <1>1. CASE SportTypesAnswer
    <2>1. /\ UNCHANGED <<form, selectedFacIds, facilityList, courtList, error>>
          /\ types = "loading"
      BY <1>1 DEF SportTypesAnswer
    <2>2. /\ selectedStId = None /\ selectedFacIds = {} /\ facilityList = {} /\ courtList = {}
          /\ pending = {} /\ form \in {setting.saved, NewForm}
      BY <2>1 DEF Untouched
    <2>3. CASE form.sport \in Sports
      <3>1. selectedStId' = form.sport /\ SendTo(pending, "facilities", {form.sport}, TRUE)
        BY <1>1, <2>3 DEF SportTypesAnswer
      <3>2. PICK new : IsSent(new, pending, "facilities", {form.sport}, TRUE)
        BY <2>3, <3>1, SendingFacilities
      <3>3. /\ pending' = {new} /\ new.kind = "facilities" /\ new.of = {form.sport}
            /\ new.preserve
        BY <2>2, <3>2 DEF IsSent
      <3>4. form = setting.saved
        BY <2>2, <2>3, SelectorAssumption DEF NewForm
      <3>5. Marked'
        BY <2>1, <2>3, <3>1, <3>3, <3>4 DEF Marked
      <3>6. Answered'
        BY <2>1, <2>2, <3>1, <3>3 DEF Answered
      <3> QED BY <3>5, <3>6
    <2>4. CASE form.sport \notin Sports
      <3>1. UNCHANGED <<selectedStId, pending>>
        BY <1>1, <2>4 DEF SportTypesAnswer
      <3>2. form.facilities # {} => form.facilities = setting.saved.facilities
        BY <2>2 DEF NewForm
      <3>3. Marked'
        BY <2>1, <2>2, <2>4, <3>1, <3>2 DEF Marked
      <3>4. Answered'
        BY <2>1, <2>2, <3>1, CourtsGrow DEF Answered
      <3> QED BY <3>3, <3>4
    <2> QED BY <2>3, <2>4
  <1>2. CASE SportTypesFail
    BY <1>2 DEF SportTypesFail, Ready
  <1>3. ASSUME NEW s \in Sports, SelectSportType(s) PROVE Marked' /\ Answered'
    <2>1. /\ selectedStId' = s /\ selectedFacIds' = {} /\ courtList' = {}
          /\ form' = [sport |-> s, facilities |-> {}, courts |-> {}]
          /\ SendTo(pending, "facilities", {s}, FALSE) /\ pending = {}
      BY <1>3 DEF SelectSportType, Clickable
    <2>2. PICK new : IsSent(new, pending, "facilities", {s}, FALSE)
      BY <2>1, SendingFacilities
    <2>3. pending' = {new} /\ new.kind = "facilities" /\ new.of = {s} /\ ~new.preserve
      BY <2>1, <2>2 DEF IsSent
    <2>4. Marked'
      BY <2>1, <2>3 DEF Marked
    <2>5. Answered'
      BY <2>1, <2>3 DEF Answered
    <2> QED BY <2>4, <2>5
  <1>4. ASSUME NEW f \in AllFacilities, ToggleFacility(f) PROVE Marked' /\ Answered'
    <2>1. /\ pending = {} /\ f \in facilityList /\ Marked /\ Answered
          /\ form'.sport = form.sport /\ UNCHANGED <<selectedStId, facilityList>>
      BY <1>0, <1>4, ToggleFacilityFacts DEF Clickable, Ready
    <2>2. PICK m \in SUBSET AllFacilities :
                /\ m \subseteq selectedFacIds \cup {f}
                /\ selectedFacIds' = m /\ form'.facilities = m \cap facilityList
                /\ \/ m = {} /\ courtList' = {} /\ UNCHANGED <<loadingCourt, pending, sent>>
                   \/ /\ m # {} /\ loadingCourt' = TRUE /\ UNCHANGED courtList
                      /\ SendTo(pending, "courts", m, FALSE)
      BY <1>4, ToggleFacilityFacts
    <2>3. selectedFacIds \subseteq facilityList
      BY <2>1 DEF Marked
    <2>4. form'.facilities = m /\ m \subseteq facilityList'
      BY <2>1, <2>2, <2>3
    <2>5. facilityList = IF selectedStId = None THEN {} ELSE Facilities[selectedStId]
      BY <2>1 DEF Answered
    <2>6. selectedStId' = IF form'.sport \in Sports THEN form'.sport ELSE None
      BY <2>1 DEF Marked
    <2>7. CASE m = {}
      <3>1. pending' = {} /\ courtList' = {}
        BY <2>1, <2>2, <2>7
      <3>2. Marked'
        BY <2>2, <2>4, <2>6, <3>1 DEF Marked
      <3>3. Answered'
        BY <2>1, <2>2, <2>5, <2>7, <3>1, CourtsGrow DEF Answered
      <3> QED BY <3>2, <3>3
    <2>8. CASE m # {}
      <3>0. /\ SendTo(pending, "courts", m, FALSE) /\ pending \in SUBSET pending
            /\ PendingOK /\ FALSE \in BOOLEAN
        BY <2>2, <2>8
      <3>1. PICK new : IsSent(new, pending, "courts", m, FALSE)
        BY <3>0, SendingCourts
      <3>2. pending' = {new} /\ new.kind = "courts" /\ new.of = m /\ ~new.preserve
        BY <2>1, <3>1 DEF IsSent
      <3>3. Marked'
        BY <2>2, <2>4, <2>6, <3>2 DEF Marked
      <3>4. Answered'
        BY <2>1, <2>2, <2>5, <3>2 DEF Answered
      <3> QED BY <3>3, <3>4
    <2> QED BY <2>7, <2>8
  <1>5. ASSUME NEW c \in CourtsOf(AllFacilities), ToggleCourt(c) PROVE Marked' /\ Answered'
    <2>1. /\ pending = {} /\ Marked /\ Answered
          /\ form'.sport = form.sport /\ form'.facilities = form.facilities
          /\ UNCHANGED <<selectedStId, selectedFacIds, facilityList, courtList, pending>>
      BY <1>0, <1>5, ToggleCourtFacts DEF Clickable, Ready
    <2> QED BY <2>1 DEF Marked, Answered
  <1>6. ASSUME NEW r \in pending, FacilitiesAnswer(r) PROVE Marked' /\ Answered'
    <2>1. PICK s \in Sports, m \in SUBSET AllFacilities :
             /\ r.kind = "facilities" /\ r.of = {s}
             /\ facilityList' = Facilities[s]
             /\ m = IF r.preserve THEN setting.saved.facilities \cap Facilities[s] ELSE {}
             /\ \/ /\ m = {} /\ pending' = pending \ {r}
                   /\ UNCHANGED <<selectedFacIds, loadingCourt, sent>>
                \/ /\ m # {} /\ selectedFacIds' = m /\ loadingCourt' = TRUE
                   /\ SendTo(pending \ {r}, "courts", m, FALSE)
             /\ UNCHANGED <<form, types, selectedStId, courtList, error>>
      BY <1>6, FacilitiesAnswerFacts
    <2>2. Marked /\ Answered /\ pending \ {r} = {}
      BY <1>0, <2>1 DEF Ready
    <2>3. /\ s = selectedStId /\ s # None /\ selectedFacIds = {} /\ courtList = {}
          /\ ~r.preserve => form.facilities = {}
      BY <2>1, <2>2, SelectorAssumption DEF Answered
    <2>4. r.preserve => m = form.facilities \cap facilityList' /\ form = setting.saved
      BY <2>1, <2>2 DEF Marked
    <2>5. ~r.preserve => m = {} /\ form.facilities \cap facilityList' = {}
      BY <2>1, <2>3
    <2>6. CASE m = {}
      <3>1. pending' = {} /\ selectedFacIds' = {} /\ courtList' = {}
        BY <2>1, <2>2, <2>3, <2>6
      <3>2. Marked'
        BY <2>1, <2>2, <2>3, <2>4, <2>5, <2>6, <3>1 DEF Marked
      <3>3. Answered'
        BY <2>1, <2>3, <3>1, CourtsGrow DEF Answered
      <3> QED BY <3>2, <3>3
    <2>7. CASE m # {}
      <3>0. /\ pending \ {r} \in SUBSET pending /\ PendingOK /\ FALSE \in BOOLEAN
            /\ SendTo(pending \ {r}, "courts", m, FALSE) /\ m \in SUBSET AllFacilities
        BY <2>1, <2>7, SportFacilities
      <3>1. PICK new : IsSent(new, pending \ {r}, "courts", m, FALSE)
        BY <3>0, SendingCourts
      <3>2. /\ pending' = {new} /\ new.kind = "courts" /\ new.of = m /\ ~new.preserve
            /\ selectedFacIds' = m /\ m = form.facilities \cap facilityList'
        BY <2>1, <2>2, <2>4, <2>5, <2>7, <3>1 DEF IsSent
      <3>3. form = setting.saved
        BY <2>4, <2>5, <2>7
      <3>4. Marked'
        BY <2>1, <2>2, <2>3, <3>2, <3>3 DEF Marked
      <3>5. Answered'
        BY <2>1, <2>3, <3>2 DEF Answered
      <3> QED BY <3>4, <3>5
    <2> QED BY <2>6, <2>7
  <1>7. ASSUME NEW r \in pending, CourtsAnswer(r) PROVE Marked' /\ Answered'
    <2>1. /\ r.kind = "courts" /\ courtList' = CourtsOf(r.of) /\ pending' = pending \ {r}
          /\ UNCHANGED <<form, types, selectedStId, selectedFacIds, facilityList, error>>
      BY <1>7 DEF CourtsAnswer
    <2>2. Marked /\ Answered /\ pending' = {}
      BY <1>0, <2>1 DEF Ready
    <2>3. r.of = selectedFacIds /\ \A q \in pending : ~q.preserve /\ q.kind # "facilities"
      BY <1>0, <2>1, <2>2 DEF Answered
    <2>4. Marked'
      BY <2>1, <2>2, <2>3 DEF Marked
    <2>5. Answered'
      BY <2>1, <2>2, <2>3 DEF Answered
    <2> QED BY <2>4, <2>5
  <1>8. ASSUME NEW r \in pending, RequestFails(r) PROVE Marked' /\ Answered'
    BY <1>8 DEF RequestFails, Ready
  <1> QED BY <1>1, <1>2, <1>3, <1>4, <1>5, <1>6, <1>7, <1>8 DEF SelectorStep

LEMMA PatienceStep ==
    ASSUME Shape, Patience, SelectorStep, UNCHANGED setting
    PROVE  Patience'
  BY FormAloneStep, AtMostOne, ReadyStep DEF Patience, Ready

-----------------------------------------------------------------------------
(* The form and the request to save it *)

\* Whether a job can be saved is not a matter of the step.
LEMMA SavableKept ==
    ASSUME UNCHANGED setting
    PROVE  \A x : Savable(x)' = Savable(x)
  BY DEF Savable, Sound, LeftAlone, Known, KnownCourts

\* The selectors change the form of an open page only, and never that of a patient
\* user who saves it.
LEMMA SelectKeepsSaving ==
    ASSUME Saving, Once, Select
    PROVE  Saving' /\ Once'
  <1>1. UNCHANGED <<setting, page, save, stored, made, submits>>
    BY DEF Select, Next, formVars
  <1>2. setting.patient /\ save.pc # "idle" => UNCHANGED form
    BY DEF Select, NoSave, Next
  <1>3. setting.patient /\ page = "saved" => UNCHANGED form
    BY DEF Select
  <1> QED BY <1>1, <1>2, <1>3, SavableKept DEF Saving, Once

\* A form that can be submitted is sound, or has the facilities of an unsound job.
LEMMA SubmittedFits ==
    ASSUME OneSport, Patience, form.facilities # {}
    PROVE  Savable(form)
  <1>1. CASE setting.patient
    BY <1>1 DEF Patience, FormAlone, Savable
  <1>2. CASE ~setting.patient
    <2>1. CASE \E s \in Sports : Known(form) \subseteq Facilities[s]
      BY <1>2, <2>1 DEF Savable, Sound
    <2>2. CASE form.facilities = setting.saved.facilities
      BY <1>2, <2>2 DEF Savable, Sound, LeftAlone, Known
    <2> QED BY <2>1, <2>2 DEF OneSport
  <1> QED BY <1>1, <1>2

LEMMA SubmitKeepsSaving ==
    ASSUME Shape, OneSport, Patience, Saving, Once, Submit
    PROVE  Saving' /\ Once'
  <1>1. form \in Forms /\ Savable(form)
    BY SubmittedFits DEF Submit, Shape, TypeOK
  <1>2. /\ page = "open" /\ save = NoSave /\ submits < MaxSubmits
        /\ save' = [pc |-> "sent", form |-> form] /\ submits' = submits + 1
        /\ UNCHANGED <<setting, form, page, stored, made>>
    BY DEF Submit, vars
  <1>3. /\ save' \in [pc : {"idle", "sent", "written", "refused"}, form : Forms]
        /\ save'.pc = "sent" /\ save'.form = form
    BY <1>1, <1>2
  <1>4. save.pc = "idle"
    BY <1>2 DEF NoSave
  <1>5. /\ submits' \in 0..MaxSubmits /\ made' \in Nat /\ made' + 1 <= submits'
    BY <1>2, <1>4, FormAssumption DEF Saving
  <1>6. Saving'
    BY <1>1, <1>2, <1>3, <1>5, SavableKept DEF Saving
  <1>7. Once'
    BY <1>2, <1>4 DEF Once
  <1> QED BY <1>6, <1>7

LEMMA ServeKeepsSaving ==
    ASSUME Shape, Saving, Once, SaveServe
    PROVE  Saving' /\ Once'
  <1>1. /\ save.pc = "sent" /\ save.form \in Forms /\ Savable(save.form)
        /\ page # "saved" /\ UNCHANGED <<setting, form, page, submits>>
    BY DEF Saving, SaveServe, vars, NoSave
  <1>2. ASSUME NEW x \in {"written", "refused"}, save' = [save EXCEPT !.pc = x]
        PROVE  /\ save' \in [pc : {"idle", "sent", "written", "refused"}, form : Forms]
               /\ save'.pc = x /\ save'.form = save.form
    BY <1>2 DEF Saving
  <1>3. CASE save' = [save EXCEPT !.pc = "written"] /\ stored' = save.form
             /\ made' = IF setting.edit THEN made ELSE made + 1
    <2>1. /\ save' \in [pc : {"idle", "sent", "written", "refused"}, form : Forms]
          /\ save'.pc = "written" /\ save'.form = save.form
      BY <1>2, <1>3
    <2>2. made' \in Nat /\ made' <= submits'
      BY <1>1, <1>3 DEF Saving
    <2>3. Saving'
      BY <1>1, <1>3, <2>1, <2>2, SavableKept DEF Saving
    <2>4. ~setting.failing => made = 0
      BY <1>1 DEF Once
    <2>5. Once'
      BY <1>1, <1>3, <2>1, <2>4 DEF Once
    <2> QED BY <2>3, <2>5
  <1>4. CASE save' = [save EXCEPT !.pc = "refused"] /\ UNCHANGED <<stored, made>>
    <2>1. /\ save' \in [pc : {"idle", "sent", "written", "refused"}, form : Forms]
          /\ save'.pc = "refused" /\ save'.form = save.form
      BY <1>2, <1>4
    <2>2. made' \in Nat /\ made' <= submits'
      BY <1>1, <1>4 DEF Saving
    <2>3. Saving'
      BY <1>1, <1>4, <2>1, <2>2, SavableKept DEF Saving
    <2>4. Once'
      BY <1>1, <1>4 DEF Once
    <2> QED BY <2>3, <2>4
  <1> QED BY <1>3, <1>4 DEF SaveServe

LEMMA AnswerKeepsSaving ==
    ASSUME Shape, Saving, Once, SaveAnswer \/ SaveLost \/ Leave
    PROVE  Saving' /\ Once'
  <1>1. NoSave \in [pc : {"idle", "sent", "written", "refused"}, form : Forms]
    BY DEF NoSave, NewForm, Forms
  <1>2. NoSave.pc = "idle"
    BY DEF NoSave
  <1>3. CASE SaveAnswer
    <2>1. /\ save.pc \in {"written", "refused"} /\ save' = NoSave /\ save'.pc = "idle"
          /\ page' = IF save.pc = "written" THEN "saved" ELSE page
          /\ UNCHANGED <<setting, form, stored, made, submits>>
      BY <1>2, <1>3 DEF SaveAnswer, vars
    <2>2. page # "saved"
      BY <1>2, <2>1 DEF Saving
    <2>3. made' \in Nat /\ made' <= submits'
      BY <2>1 DEF Saving
    <2>4. setting.patient /\ page' = "saved" => stored = form
      BY <2>1, <2>2 DEF Saving
    <2>5. Saving'
      BY <1>1, <2>1, <2>3, <2>4, SavableKept DEF Saving
    <2>6. Once'
      BY <2>1, <2>2 DEF Once
    <2> QED BY <2>5, <2>6
  <1>4. CASE SaveLost
    <2>1. /\ setting.failing /\ save # NoSave /\ save' = NoSave /\ save'.pc = "idle"
          /\ UNCHANGED <<setting, form, page, stored, made, submits>>
      BY <1>2, <1>4 DEF SaveLost, vars
    <2>2. made' \in Nat /\ made' <= submits'
      BY <2>1 DEF Saving
    <2>3. Saving'
      BY <1>1, <2>1, <2>2, SavableKept DEF Saving
    <2> QED BY <2>1, <2>3 DEF Once
  <1>5. CASE Leave
    <2>1. page' = "left" /\ page = "open" /\ UNCHANGED <<setting, form, save, stored, made, submits>>
      BY <1>5 DEF Leave, vars
    <2> QED BY <2>1, SavableKept DEF Saving, Once
  <1> QED BY <1>3, <1>4, <1>5

-----------------------------------------------------------------------------
(* The invariant *)

LEMMA InitInv == FormInit => IndInv
  <1> SUFFICES ASSUME FormInit PROVE IndInv
    OBVIOUS
  <1> USE DEF FormInit, Mounted
  <1>1. setting \in Settings /\ setting.saved \in Forms /\ NewForm \in Forms
    BY FormAssumption DEF NewForm, Forms
  <1>2. \E s \in Sports : TRUE
    BY SelectorAssumption
  <1>3. Shape
    BY <1>1, <1>2 DEF Shape, TypeOK, PendingOK, Untouched
  <1>5. OneSport
    BY <1>2 DEF OneSport, Known, NewForm
  <1>6. InOrder
    BY DEF InOrder, LastFacilities, LastCourts
  <1>7. Patience
    <2>1. setting.patient => FormAlone
      BY SavedAlone
    <2> QED BY <2>1 DEF Patience
  <1>8. Saving
    <2>1. save \in [pc : {"idle", "sent", "written", "refused"}, form : Forms]
          /\ save.pc = "idle"
      BY <1>1 DEF NoSave
    <2> QED BY <1>1, <2>1, FormAssumption DEF Saving
  <1>9. Once
    BY DEF Once
  <1> QED BY <1>3, <1>5, <1>6, <1>7, <1>8, <1>9 DEF IndInv

\* What the selectors keep, of a step that leaves their variables alone.
LEMMA SelectorsKept ==
    ASSUME Shape, OneSport, InOrder, Patience, UNCHANGED vars
    PROVE  Shape' /\ OneSport' /\ InOrder' /\ Patience'
  <1> USE DEF vars
  <1>1. Shape'
    BY DEF Shape, TypeOK, PendingOK, Untouched
  <1>2. OneSport'
    BY DEF OneSport
  <1>3. InOrder'
    BY DEF InOrder, LastFacilities, LastCourts, FacilityRequest, CourtRequest
  <1>4. Patience'
    BY SoundKept DEF Patience, Marked, Answered
  <1> QED BY <1>1, <1>2, <1>3, <1>4

LEMMA NextInv == IndInv /\ [FormNext]_allVars => IndInv'
  <1> SUFFICES ASSUME IndInv, [FormNext]_allVars PROVE IndInv'
    OBVIOUS
  <1> USE DEF IndInv
  <1>1. CASE Select
    <2>1. SelectorStep /\ UNCHANGED setting
      BY <1>1 DEF Select, Next, SelectorStep
    <2>2. Shape' /\ OneSport' /\ InOrder' /\ Patience'
      BY <2>1, ShapeStep, OneSportStep, InOrderStep, PatienceStep
    <2> QED BY <1>1, <2>2, SelectKeepsSaving
  <1>2. CASE Submit \/ SaveServe \/ SaveAnswer \/ SaveLost \/ Leave
    <2>1. UNCHANGED vars
      BY <1>2 DEF Submit, SaveServe, SaveAnswer, SaveLost, Leave
    <2>2. Shape' /\ OneSport' /\ InOrder' /\ Patience'
      BY <2>1, SelectorsKept
    <2>3. Saving' /\ Once'
      BY <1>2, SubmitKeepsSaving, ServeKeepsSaving, AnswerKeepsSaving
    <2> QED BY <2>2, <2>3
  <1>3. CASE UNCHANGED allVars
    <2>1. UNCHANGED vars /\ UNCHANGED formVars
      BY <1>3 DEF allVars
    <2>2. Shape' /\ OneSport' /\ InOrder' /\ Patience'
      BY <2>1, SelectorsKept
    <2>3. Saving' /\ Once'
      BY <2>1, SavableKept DEF Saving, Once, vars, formVars
    <2> QED BY <2>2, <2>3
  <1> QED BY <1>1, <1>2, <1>3 DEF FormNext

LEMMA Invariance == FormSpec => []IndInv
  BY InitInv, NextInv, PTL DEF FormSpec

-----------------------------------------------------------------------------
(* The theorems *)

\* However fast the user clicks and however late or broken the answers are: the form
\* never holds facilities of two sports, the job that is saved can be searched for, one
\* click on the button makes one job unless an answer was lost, and a patient user is
\* taken to the job that was on the screen (handleSubmit in JobForm.tsx and the
\* selectors of CatalogSelectors.tsx).
THEOREM FormSafe == FormSpec => []FormInv
  <1>1. ASSUME IndInv PROVE FormInv
    <2>0. Shape /\ OneSport /\ Saving /\ Once
      BY <1>1 DEF IndInv
    <2>1. made \in Nat /\ submits \in 0..MaxSubmits /\ made <= submits /\ MaxSubmits \in Nat
      BY <2>0, FormAssumption DEF Saving
    <2>2. made \in 0..submits
      BY <2>1
    <2>3. FormTypeOK
      BY <2>0, <2>2 DEF FormTypeOK, Saving
    <2>4. SelectorInv
      BY <2>0 DEF SelectorInv, Shape
    <2>5. OneJob
      BY <2>0, <2>1 DEF Once, OneJob
    <2>6. SavedFits /\ SavedIsShown
      BY <2>0 DEF Saving, Savable, SavedFits, SavedIsShown
    <2> QED BY <2>3, <2>4, <2>5, <2>6 DEF FormInv
  <1> QED BY <1>1, Invariance, PTL

\* A patient user gets what the dropdowns mark: when all answers are there, what is marked
\* is the form's sport and its facilities, which are of that sport, and the courts are
\* theirs; whatever the edited job was, once its facilities are chosen anew.
THEOREM SelectionFits == FormSpec => []FormFits
  <1>1. ASSUME IndInv PROVE FormFits
    <2> SUFFICES ASSUME setting.patient, pending = {}, types = "there", ~error
                 PROVE  /\ selectedStId = IF form.sport \in Sports THEN form.sport ELSE None
                        /\ selectedFacIds = form.facilities \cap facilityList
                        /\ form.facilities # selectedFacIds =>
                             form.facilities = setting.saved.facilities
                        /\ Sound(form) \/ LeftAlone(form)
      BY DEF FormFits
    <2>1. FormAlone /\ Marked
      BY <1>1 DEF IndInv, Patience
    <2> QED BY <2>1 DEF Marked, FormAlone
  <1> QED BY <1>1, Invariance, PTL

\* When the answers come in the order of the requests, the last list that comes is that
\* of the selected sport and facilities: nothing needs to cancel the earlier requests.
THEOREM ListsCatchUp == FormSpec => []ListsSettle
  <1>1. ASSUME IndInv PROVE ListsSettle
    BY <1>1 DEF IndInv, InOrder, LastFacilities, LastCourts, ListsSettle
  <1> QED BY <1>1, Invariance, PTL

-----------------------------------------------------------------------------
(* The inductive invariant of the job's page *)

\* What the page knows of a job that is there, when no request fails and answers come in order.
InTime == ~failing /\ inOrder /\ row # "gone"

GoneIsDeleted == ~failing => (row = "gone" <=> del \in {"served", "left"})

Loaded ==
    InTime =>
        /\ act.pc \in Rows => act.pc = row /\ refresh \notin Rows
        /\ refresh \in Rows => refresh = row \/ act.pc = "load"
        /\ act.pc \in {"idle", "request"} => job = row
        /\ act.pc = "request" => act.kind # "none"

OneAnswer == inOrder => \A p, q \in polls : p.value # NoAnswer /\ q.value # NoAnswer => p = q

Fresh(p) == p.value = NoAnswer \/ p.value.row = row

BadgeNews ==
    InTime =>
        \/ polls = {} /\ badge \in {Unknown, row}
        \/ \E p \in polls : Fresh(p)
        \/ act.kind # "none" /\ act.pc \in {"load"} \cup Rows

\* The types in parts, the polls with their slots.
PagePlaces ==
    /\ row \in Rows \cup {"gone"} /\ job \in Rows \cup {Unknown} /\ badge \in Rows \cup {Unknown}
    /\ act \in [pc : {"idle", "request", "load"} \cup Rows,
                kind : {"none", "start", "stop", "run"}]
    /\ refresh \in {"none", "load"} \cup Rows /\ del \in {"no", "request", "served", "left"}

PageNumbers ==
    /\ sms \in 0..waits /\ waits \in 0..MaxWaits /\ closed \in 0..MaxWaits
    /\ acts \in 0..MaxActs

PageFlags == {failing, inOrder, waiting, show, loadError} \subseteq BOOLEAN

PollTypes == [slot : 1..MaxFlight, value : [sms : BOOLEAN, row : Rows] \cup {NoAnswer}]

PollsOK ==
    /\ polls \subseteq PollTypes
    /\ \A p, q \in polls : p.slot = q.slot => p = q
    /\ IsFiniteSet(polls)

PageIndInv ==
    /\ PagePlaces /\ PageNumbers /\ PageFlags /\ PollsOK
    /\ GoneIsDeleted /\ Loaded /\ OneAnswer /\ BadgeNews

LEMMA PageTypes == PagePlaces /\ PageNumbers /\ PageFlags /\ PollsOK => PageTypeOK
  BY DEF PagePlaces, PageNumbers, PageFlags, PollsOK, PollTypes, PageTypeOK

LEMMA PageBounds == MaxFlight \in Nat /\ MaxActs \in Nat /\ MaxWaits \in Nat
  BY PageAssumption

-----------------------------------------------------------------------------
(* The polls *)

\* While fewer polls than the bound are in flight, a slot is free.
LEMMA SlotFree ==
    ASSUME PollsOK, Cardinality(polls) < MaxFlight
    PROVE  Free(polls) # {}
  <1> DEFINE Taken == {p.slot : p \in polls}
             slotOf == [p \in polls |-> p.slot]
  <1>1. IsFiniteSet(Taken) /\ Cardinality(Taken) <= Cardinality(polls)
    <2>1. slotOf \in Surjection(polls, Taken)
      BY Zenon DEF Surjection
    <2> QED BY <2>1, FS_Surjection DEF PollsOK
  <1>2. IsFiniteSet(1..MaxFlight) /\ Cardinality(1..MaxFlight) = MaxFlight
    BY FS_Interval, PageBounds
  <1>3. Cardinality(polls) \in Nat /\ Cardinality(Taken) \in Nat
    BY <1>1, FS_CardinalityType DEF PollsOK
  <1>4. Taken \subseteq 1..MaxFlight
    BY DEF PollsOK, PollTypes
  <1> HIDE DEF Taken
  <1>5. Taken # 1..MaxFlight
    BY <1>1, <1>2, <1>3, PageBounds
  <1>6. Free(polls) = (1..MaxFlight) \ Taken
    BY DEF Free, Taken
  <1> QED BY <1>4, <1>5, <1>6

\* A poll that is sent is not answered, and has a slot of its own.
LEMMA Sent ==
    ASSUME PollsOK, Cardinality(polls) < MaxFlight, polls' = Send(polls)
    PROVE  /\ PollsOK'
           /\ \E new : polls' = polls \cup {new} /\ new.value = NoAnswer
  <1> DEFINE n == CHOOSE k \in Free(polls) : TRUE
             new == [slot |-> n, value |-> NoAnswer]
  <1>1. n \in Free(polls)
    BY SlotFree
  <1>2. polls' = polls \cup {new}
    BY DEF Send
  <1>3. n \in 1..MaxFlight /\ \A p \in polls : p.slot # n
    BY <1>1 DEF Free
  <1> HIDE DEF n
  <1>4. new \in PollTypes /\ new.slot = n /\ new.value = NoAnswer
    BY <1>3 DEF PollTypes
  <1> HIDE DEF new
  <1>5. IsFiniteSet(polls')
    BY <1>2, FS_AddElement DEF PollsOK
  <1> QED BY <1>2, <1>3, <1>4, <1>5 DEF PollsOK

LEMMA Withdrawn == ASSUME PollsOK, polls' \subseteq polls PROVE PollsOK'
  BY FS_Subset DEF PollsOK

\* What an answer makes of a poll.
LEMMA Served ==
    ASSUME PollsOK, PagePlaces, PageFlags, NEW p \in polls, Serve(p)
    PROVE  /\ PollsOK'
           /\ \E new : /\ polls' = (polls \ {p}) \cup {new}
                       /\ new.value # NoAnswer /\ new.value.row = row
  <1> DEFINE value == [sms |-> sms # 0, row |-> row]
             new == [p EXCEPT !.value = value]
  <1>1. row \in Rows
    BY DEF Serve, PagePlaces
  <1>2. value \in [sms : BOOLEAN, row : Rows] /\ value.row = row
    BY <1>1
  <1>3. value # NoAnswer
    BY <1>1 DEF NoAnswer, Rows, Unknown
  <1>4. polls' = (polls \ {p}) \cup {new}
    BY DEF Serve
  <1> HIDE DEF value
  <1>5. new \in PollTypes /\ new.slot = p.slot /\ new.value = value
    BY <1>2 DEF PollsOK, PollTypes
  <1> HIDE DEF new
  <1>6. IsFiniteSet(polls')
    BY <1>4, FS_RemoveElement, FS_AddElement DEF PollsOK
  <1>7. PollsOK'
    BY <1>4, <1>5, <1>6 DEF PollsOK
  <1> QED BY <1>2, <1>3, <1>4, <1>5, <1>7

LEMMA PollsStep == PollsOK /\ PagePlaces /\ PageFlags /\ PageNext => PollsOK'
  <1> SUFFICES ASSUME PollsOK, PagePlaces, PageFlags, PageNext PROVE PollsOK'
    OBVIOUS
  <1>1. CASE Tick
    BY <1>1, Sent, Withdrawn DEF Tick
  <1>2. CASE \E p \in polls : Serve(p)
    BY <1>2, Served
  <1>3. CASE \E p \in polls : Receive(p)
    BY <1>3, Sent, Withdrawn DEF Receive
  <1>4. CASE \E p \in polls : PollFails(p)
    BY <1>4, Sent, Withdrawn DEF PollFails
  <1>5. CASE \E kind \in {"start", "stop", "run"} : ActBegin(kind)
    BY <1>5, Sent, Withdrawn DEF ActBegin
  <1>6. CASE ActDone
    BY <1>6, Sent, Withdrawn DEF ActDone
  <1>7. CASE ActFails
    BY <1>7, Sent, Withdrawn DEF ActFails
  <1>8. CASE LoadServe
    BY <1>8, Sent, Withdrawn DEF LoadServe, Refreshed
  <1>9. CASE LoadReceive
    BY <1>9, Sent, Withdrawn DEF LoadReceive, Refreshed
  <1>10. CASE LoadFails
    BY <1>10, Sent, Withdrawn DEF LoadFails, Refreshed
  <1>11. CASE Refresh
    BY <1>11, Sent, Withdrawn DEF Refresh
  <1>12. CASE RefreshServe
    BY <1>12, Sent, Withdrawn DEF RefreshServe
  <1>13. CASE RefreshReceive
    BY <1>13, Sent, Withdrawn DEF RefreshReceive
  <1>14. CASE RefreshFails
    BY <1>14, Sent, Withdrawn DEF RefreshFails
  <1>15. CASE DeleteBegin
    BY <1>15, Sent, Withdrawn DEF DeleteBegin
  <1>16. CASE DeleteServe
    BY <1>16, Sent, Withdrawn DEF DeleteServe
  <1>17. CASE DeleteDone
    BY <1>17, Sent, Withdrawn DEF DeleteDone
  <1>18. CASE DeleteFails
    BY <1>18, Sent, Withdrawn DEF DeleteFails
  <1>19. CASE Close
    BY <1>19, Sent, Withdrawn DEF Close
  <1>20. CASE Reopen
    BY <1>20, Sent, Withdrawn DEF Reopen
  <1>21. CASE SubmitCode
    BY <1>21, Sent, Withdrawn DEF SubmitCode
  <1>22. CASE WaitBegins
    BY <1>22, Sent, Withdrawn DEF WaitBegins
  <1>23. CASE WaitEnds
    BY <1>23, Sent, Withdrawn DEF WaitEnds
  <1> QED
    BY <1>1, <1>2, <1>3, <1>4, <1>5, <1>6, <1>7, <1>8, <1>9, <1>10, <1>11, <1>12, <1>13, <1>14, <1>15, <1>16, <1>17, <1>18, <1>19, <1>20, <1>21, <1>22, <1>23 DEF PageNext

LEMMA PlacesStep == PollsOK /\ PagePlaces /\ PageNext => PagePlaces'
  <1> SUFFICES ASSUME PollsOK, PagePlaces, PageNext PROVE PagePlaces'
    OBVIOUS
  <1>1. CASE Tick
    BY <1>1 DEF PagePlaces, Tick, server, loads
  <1>2. CASE \E p \in polls : Serve(p)
    BY <1>2 DEF PagePlaces, Serve, server, loads
  <1>3. CASE \E p \in polls : Receive(p)
    <2>1. PICK p \in polls : Receive(p)
      BY <1>3
    <2>2. p.value \in [sms : BOOLEAN, row : Rows]
      BY <2>1 DEF Receive, PollsOK, PollTypes
    <2> QED BY <2>1, <2>2 DEF Receive, PagePlaces, server, loads
  <1>4. CASE \E p \in polls : PollFails(p)
    BY <1>4 DEF PagePlaces, PollFails, server, loads
  <1>5. CASE \E kind \in {"start", "stop", "run"} : ActBegin(kind)
    BY <1>5 DEF PagePlaces, ActBegin, server, loads
  <1>6. CASE ActDone
    BY <1>6 DEF PagePlaces, ActDone, server, loads, Done, Rows, Idle
  <1>7. CASE ActFails
    BY <1>7 DEF PagePlaces, ActFails, server, loads, Done, Rows, Idle
  <1>8. CASE LoadServe
    BY <1>8 DEF PagePlaces, LoadServe, server, loads
  <1>9. CASE LoadReceive
    BY <1>9 DEF PagePlaces, LoadReceive, server, loads, Done, Rows, Idle
  <1>10. CASE LoadFails
    BY <1>10 DEF PagePlaces, LoadFails, server, loads, Rows, Idle
  <1>11. CASE Refresh
    BY <1>11 DEF PagePlaces, Refresh, server, loads
  <1>12. CASE RefreshServe
    BY <1>12 DEF PagePlaces, RefreshServe, server, loads
  <1>13. CASE RefreshReceive
    BY <1>13 DEF PagePlaces, RefreshReceive, server, loads
  <1>14. CASE RefreshFails
    BY <1>14 DEF PagePlaces, RefreshFails, server, loads
  <1>15. CASE DeleteBegin
    BY <1>15 DEF PagePlaces, DeleteBegin, server, loads
  <1>16. CASE DeleteServe
    BY <1>16 DEF PagePlaces, DeleteServe, server, loads
  <1>17. CASE DeleteDone
    BY <1>17 DEF PagePlaces, DeleteDone, server, loads
  <1>18. CASE DeleteFails
    BY <1>18 DEF PagePlaces, DeleteFails, server, loads
  <1>19. CASE Close
    BY <1>19 DEF PagePlaces, Close, server, loads
  <1>20. CASE Reopen
    BY <1>20 DEF PagePlaces, Reopen, server, loads
  <1>21. CASE SubmitCode
    BY <1>21 DEF PagePlaces, SubmitCode, server, loads
  <1>22. CASE WaitBegins
    BY <1>22 DEF PagePlaces, WaitBegins, server, loads
  <1>23. CASE WaitEnds
    BY <1>23 DEF PagePlaces, WaitEnds, server, loads
  <1> QED
    BY <1>1, <1>2, <1>3, <1>4, <1>5, <1>6, <1>7, <1>8, <1>9, <1>10, <1>11, <1>12, <1>13, <1>14, <1>15, <1>16, <1>17, <1>18, <1>19, <1>20, <1>21, <1>22, <1>23 DEF PageNext

LEMMA PageNumbersStep == PageNumbers /\ PageNext => PageNumbers'
  <1> SUFFICES ASSUME PageNumbers, PageNext PROVE PageNumbers'
    OBVIOUS
  <1>1. CASE Tick
    BY <1>1, PageBounds DEF PageNumbers, Tick, server, loads
  <1>2. CASE \E p \in polls : Serve(p)
    BY <1>2, PageBounds DEF PageNumbers, Serve, server, loads
  <1>3. CASE \E p \in polls : Receive(p)
    BY <1>3, PageBounds DEF PageNumbers, Receive, server, loads
  <1>4. CASE \E p \in polls : PollFails(p)
    BY <1>4, PageBounds DEF PageNumbers, PollFails, server, loads
  <1>5. CASE \E kind \in {"start", "stop", "run"} : ActBegin(kind)
    BY <1>5, PageBounds DEF PageNumbers, ActBegin, server, loads
  <1>6. CASE ActDone
    BY <1>6, PageBounds DEF PageNumbers, ActDone, server, loads
  <1>7. CASE ActFails
    BY <1>7, PageBounds DEF PageNumbers, ActFails, server, loads
  <1>8. CASE LoadServe
    BY <1>8, PageBounds DEF PageNumbers, LoadServe, server, loads
  <1>9. CASE LoadReceive
    BY <1>9, PageBounds DEF PageNumbers, LoadReceive, server, loads
  <1>10. CASE LoadFails
    BY <1>10, PageBounds DEF PageNumbers, LoadFails, server, loads
  <1>11. CASE Refresh
    BY <1>11, PageBounds DEF PageNumbers, Refresh, server, loads
  <1>12. CASE RefreshServe
    BY <1>12, PageBounds DEF PageNumbers, RefreshServe, server, loads
  <1>13. CASE RefreshReceive
    BY <1>13, PageBounds DEF PageNumbers, RefreshReceive, server, loads
  <1>14. CASE RefreshFails
    BY <1>14, PageBounds DEF PageNumbers, RefreshFails, server, loads
  <1>15. CASE DeleteBegin
    BY <1>15, PageBounds DEF PageNumbers, DeleteBegin, server, loads
  <1>16. CASE DeleteServe
    BY <1>16, PageBounds DEF PageNumbers, DeleteServe, server, loads
  <1>17. CASE DeleteDone
    BY <1>17, PageBounds DEF PageNumbers, DeleteDone, server, loads
  <1>18. CASE DeleteFails
    BY <1>18, PageBounds DEF PageNumbers, DeleteFails, server, loads
  <1>19. CASE Close
    BY <1>19, PageBounds DEF PageNumbers, Close, server, loads
  <1>20. CASE Reopen
    BY <1>20, PageBounds DEF PageNumbers, Reopen, server, loads
  <1>21. CASE SubmitCode
    BY <1>21, PageBounds DEF PageNumbers, SubmitCode, server, loads
  <1>22. CASE WaitBegins
    BY <1>22, PageBounds DEF PageNumbers, WaitBegins, server, loads
  <1>23. CASE WaitEnds
    BY <1>23, PageBounds DEF PageNumbers, WaitEnds, server, loads
  <1> QED
    BY <1>1, <1>2, <1>3, <1>4, <1>5, <1>6, <1>7, <1>8, <1>9, <1>10, <1>11, <1>12, <1>13, <1>14, <1>15, <1>16, <1>17, <1>18, <1>19, <1>20, <1>21, <1>22, <1>23 DEF PageNext

LEMMA PageFlagsStep == PollsOK /\ PageFlags /\ PageNext => PageFlags'
  <1> SUFFICES ASSUME PollsOK, PageFlags, PageNext PROVE PageFlags'
    OBVIOUS
  <1>1. CASE Tick
    BY <1>1 DEF PageNext, PageFlags, Tick, server, loads
  <1>2. CASE \E p \in polls : Serve(p)
    BY <1>2 DEF PageNext, PageFlags, Serve, server, loads
  <1>3. CASE \E p \in polls : Receive(p)
    <2>1. PICK p \in polls : Receive(p)
      BY <1>3
    <2>2. p.value.sms \in BOOLEAN
      BY <2>1 DEF Receive, PollsOK, PollTypes
    <2> QED BY <2>1, <2>2 DEF PageNext, Receive, ShowOn, PageFlags, server, loads
  <1>4. CASE \E p \in polls : PollFails(p)
    BY <1>4 DEF PageNext, PageFlags, PollFails, server, loads
  <1>5. CASE \E kind \in {"start", "stop", "run"} : ActBegin(kind)
    BY <1>5 DEF PageNext, PageFlags, ActBegin, server, loads
  <1>6. CASE ActDone
    BY <1>6 DEF PageNext, PageFlags, ActDone, server, loads, Done, Refused
  <1>7. CASE ActFails
    BY <1>7 DEF PageNext, PageFlags, ActFails, server, loads, Done, Refused
  <1>8. CASE LoadServe
    BY <1>8 DEF PageNext, PageFlags, LoadServe, server, loads
  <1>9. CASE LoadReceive
    BY <1>9 DEF PageNext, PageFlags, LoadReceive, server, loads, Refreshed
  <1>10. CASE LoadFails
    BY <1>10 DEF PageNext, PageFlags, LoadFails, server, loads, Refreshed
  <1>11. CASE Refresh
    BY <1>11 DEF PageNext, PageFlags, Refresh, server, loads
  <1>12. CASE RefreshServe
    BY <1>12 DEF PageNext, PageFlags, RefreshServe, server, loads
  <1>13. CASE RefreshReceive
    BY <1>13 DEF PageNext, PageFlags, RefreshReceive, server, loads
  <1>14. CASE RefreshFails
    BY <1>14 DEF PageNext, PageFlags, RefreshFails, server, loads
  <1>15. CASE DeleteBegin
    BY <1>15 DEF PageNext, PageFlags, DeleteBegin, server, loads
  <1>16. CASE DeleteServe
    BY <1>16 DEF PageNext, PageFlags, DeleteServe, server, loads
  <1>17. CASE DeleteDone
    BY <1>17 DEF PageNext, PageFlags, DeleteDone, server, loads
  <1>18. CASE DeleteFails
    BY <1>18 DEF PageNext, PageFlags, DeleteFails, server, loads
  <1>19. CASE Close
    BY <1>19 DEF PageNext, PageFlags, Close, server, loads
  <1>20. CASE Reopen
    BY <1>20 DEF PageNext, PageFlags, Reopen, server, loads
  <1>21. CASE SubmitCode
    BY <1>21 DEF PageNext, PageFlags, SubmitCode, server, loads
  <1>22. CASE WaitBegins
    BY <1>22 DEF PageNext, PageFlags, WaitBegins, server, loads
  <1>23. CASE WaitEnds
    BY <1>23 DEF PageNext, PageFlags, WaitEnds, server, loads
  <1> QED
    BY <1>1, <1>2, <1>3, <1>4, <1>5, <1>6, <1>7, <1>8, <1>9, <1>10, <1>11, <1>12, <1>13, <1>14, <1>15, <1>16, <1>17, <1>18, <1>19, <1>20, <1>21, <1>22, <1>23 DEF PageNext

-----------------------------------------------------------------------------
(* The page against the server *)

LEMMA GoneStep == GoneIsDeleted /\ PagePlaces /\ PageNext => GoneIsDeleted'
  <1> SUFFICES ASSUME GoneIsDeleted, PagePlaces, PageNext PROVE GoneIsDeleted'
    OBVIOUS
  <1>1. CASE Tick
    BY <1>1 DEF PageNext, GoneIsDeleted, PagePlaces, Tick, server, loads
  <1>2. CASE \E p \in polls : Serve(p)
    BY <1>2 DEF PageNext, GoneIsDeleted, PagePlaces, Serve, server, loads
  <1>3. CASE \E p \in polls : Receive(p)
    BY <1>3 DEF PageNext, GoneIsDeleted, PagePlaces, Receive, server, loads
  <1>4. CASE \E p \in polls : PollFails(p)
    BY <1>4 DEF PageNext, GoneIsDeleted, PagePlaces, PollFails, server, loads
  <1>5. CASE \E kind \in {"start", "stop", "run"} : ActBegin(kind)
    BY <1>5 DEF PageNext, GoneIsDeleted, PagePlaces, ActBegin, server, loads
  <1>6. CASE ActDone
    BY <1>6 DEF PageNext, GoneIsDeleted, PagePlaces, ActDone, server, loads, Done, Rows
  <1>7. CASE ActFails
    BY <1>7 DEF PageNext, GoneIsDeleted, PagePlaces, ActFails, server, loads, Done, Rows
  <1>8. CASE LoadServe
    BY <1>8 DEF PageNext, GoneIsDeleted, PagePlaces, LoadServe, server, loads
  <1>9. CASE LoadReceive
    BY <1>9 DEF PageNext, GoneIsDeleted, PagePlaces, LoadReceive, server, loads
  <1>10. CASE LoadFails
    BY <1>10 DEF PageNext, GoneIsDeleted, PagePlaces, LoadFails, server, loads
  <1>11. CASE Refresh
    BY <1>11 DEF PageNext, GoneIsDeleted, PagePlaces, Refresh, server, loads
  <1>12. CASE RefreshServe
    BY <1>12 DEF PageNext, GoneIsDeleted, PagePlaces, RefreshServe, server, loads
  <1>13. CASE RefreshReceive
    BY <1>13 DEF PageNext, GoneIsDeleted, PagePlaces, RefreshReceive, server, loads
  <1>14. CASE RefreshFails
    BY <1>14 DEF PageNext, GoneIsDeleted, PagePlaces, RefreshFails, server, loads
  <1>15. CASE DeleteBegin
    BY <1>15 DEF PageNext, GoneIsDeleted, PagePlaces, DeleteBegin, server, loads
  <1>16. CASE DeleteServe
    BY <1>16 DEF PageNext, GoneIsDeleted, PagePlaces, DeleteServe, server, loads
  <1>17. CASE DeleteDone
    BY <1>17 DEF PageNext, GoneIsDeleted, PagePlaces, DeleteDone, server, loads
  <1>18. CASE DeleteFails
    BY <1>18 DEF PageNext, GoneIsDeleted, PagePlaces, DeleteFails, server, loads
  <1>19. CASE Close
    BY <1>19 DEF PageNext, GoneIsDeleted, PagePlaces, Close, server, loads
  <1>20. CASE Reopen
    BY <1>20 DEF PageNext, GoneIsDeleted, PagePlaces, Reopen, server, loads
  <1>21. CASE SubmitCode
    BY <1>21 DEF PageNext, GoneIsDeleted, PagePlaces, SubmitCode, server, loads
  <1>22. CASE WaitBegins
    BY <1>22 DEF PageNext, GoneIsDeleted, PagePlaces, WaitBegins, server, loads
  <1>23. CASE WaitEnds
    BY <1>23 DEF PageNext, GoneIsDeleted, PagePlaces, WaitEnds, server, loads
  <1> QED
    BY <1>1, <1>2, <1>3, <1>4, <1>5, <1>6, <1>7, <1>8, <1>9, <1>10, <1>11, <1>12, <1>13, <1>14, <1>15, <1>16, <1>17, <1>18, <1>19, <1>20, <1>21, <1>22, <1>23 DEF PageNext

LEMMA LoadedStep == GoneIsDeleted /\ Loaded /\ PagePlaces /\ PageNext => Loaded'
  <1> SUFFICES ASSUME GoneIsDeleted, Loaded, PagePlaces, PageNext PROVE Loaded'
    OBVIOUS
  <1>1. CASE Tick
    BY <1>1 DEF PageNext, GoneIsDeleted, Loaded, InTime, PagePlaces, Rows, Idle, Tick, server, loads
  <1>2. CASE \E p \in polls : Serve(p)
    BY <1>2 DEF PageNext, GoneIsDeleted, Loaded, InTime, PagePlaces, Rows, Idle, Serve, server, loads
  <1>3. CASE \E p \in polls : Receive(p)
    BY <1>3 DEF PageNext, GoneIsDeleted, Loaded, InTime, PagePlaces, Rows, Idle, Receive, server, loads
  <1>4. CASE \E p \in polls : PollFails(p)
    BY <1>4 DEF PageNext, GoneIsDeleted, Loaded, InTime, PagePlaces, Rows, Idle, PollFails, server, loads
  <1>5. CASE \E kind \in {"start", "stop", "run"} : ActBegin(kind)
    BY <1>5 DEF PageNext, GoneIsDeleted, Loaded, InTime, PagePlaces, Rows, Idle, ActBegin, server, loads
  <1>6. CASE ActDone
    BY <1>6 DEF PageNext, GoneIsDeleted, Loaded, InTime, PagePlaces, Rows, Idle, ActDone, server, loads, Done, Refused
  <1>7. CASE ActFails
    BY <1>7 DEF PageNext, GoneIsDeleted, Loaded, InTime, PagePlaces, Rows, Idle, ActFails, server, loads, Done, Refused
  <1>8. CASE LoadServe
    BY <1>8 DEF PageNext, GoneIsDeleted, Loaded, InTime, PagePlaces, Rows, Idle, LoadServe, server, loads
  <1>9. CASE LoadReceive
    BY <1>9 DEF PageNext, GoneIsDeleted, Loaded, InTime, PagePlaces, Rows, Idle, LoadReceive, server, loads
  <1>10. CASE LoadFails
    BY <1>10 DEF PageNext, GoneIsDeleted, Loaded, InTime, PagePlaces, Rows, Idle, LoadFails, server, loads
  <1>11. CASE Refresh
    BY <1>11 DEF PageNext, GoneIsDeleted, Loaded, InTime, PagePlaces, Rows, Idle, Refresh, server, loads
  <1>12. CASE RefreshServe
    BY <1>12 DEF PageNext, GoneIsDeleted, Loaded, InTime, PagePlaces, Rows, Idle, RefreshServe, server, loads
  <1>13. CASE RefreshReceive
    BY <1>13 DEF PageNext, GoneIsDeleted, Loaded, InTime, PagePlaces, Rows, Idle, RefreshReceive, server, loads
  <1>14. CASE RefreshFails
    BY <1>14 DEF PageNext, GoneIsDeleted, Loaded, InTime, PagePlaces, Rows, Idle, RefreshFails, server, loads
  <1>15. CASE DeleteBegin
    BY <1>15 DEF PageNext, GoneIsDeleted, Loaded, InTime, PagePlaces, Rows, Idle, DeleteBegin, server, loads
  <1>16. CASE DeleteServe
    BY <1>16 DEF PageNext, GoneIsDeleted, Loaded, InTime, PagePlaces, Rows, Idle, DeleteServe, server, loads
  <1>17. CASE DeleteDone
    BY <1>17 DEF PageNext, GoneIsDeleted, Loaded, InTime, PagePlaces, Rows, Idle, DeleteDone, server, loads
  <1>18. CASE DeleteFails
    BY <1>18 DEF PageNext, GoneIsDeleted, Loaded, InTime, PagePlaces, Rows, Idle, DeleteFails, server, loads
  <1>19. CASE Close
    BY <1>19 DEF PageNext, GoneIsDeleted, Loaded, InTime, PagePlaces, Rows, Idle, Close, server, loads
  <1>20. CASE Reopen
    BY <1>20 DEF PageNext, GoneIsDeleted, Loaded, InTime, PagePlaces, Rows, Idle, Reopen, server, loads
  <1>21. CASE SubmitCode
    BY <1>21 DEF PageNext, GoneIsDeleted, Loaded, InTime, PagePlaces, Rows, Idle, SubmitCode, server, loads
  <1>22. CASE WaitBegins
    BY <1>22 DEF PageNext, GoneIsDeleted, Loaded, InTime, PagePlaces, Rows, Idle, WaitBegins, server, loads
  <1>23. CASE WaitEnds
    BY <1>23 DEF PageNext, GoneIsDeleted, Loaded, InTime, PagePlaces, Rows, Idle, WaitEnds, server, loads
  <1> QED
    BY <1>1, <1>2, <1>3, <1>4, <1>5, <1>6, <1>7, <1>8, <1>9, <1>10, <1>11, <1>12, <1>13, <1>14, <1>15, <1>16, <1>17, <1>18, <1>19, <1>20, <1>21, <1>22, <1>23 DEF PageNext

LEMMA OneAnswerStep == OneAnswer /\ PollsOK /\ PagePlaces /\ PageFlags /\ PageNext => OneAnswer'
  <1> SUFFICES ASSUME OneAnswer, PollsOK, PagePlaces, PageFlags, PageNext PROVE OneAnswer'
    OBVIOUS
  <1>1. CASE Tick
    BY <1>1, Sent DEF PageNext, OneAnswer, Tick
  <1>2. CASE \E p \in polls : Serve(p)
    <2>1. PICK p \in polls : Serve(p)
      BY <1>2
    <2>2. PICK new : polls' = (polls \ {p}) \cup {new}
      BY <2>1, Served
    <2>3. inOrder' = inOrder /\ (inOrder => \A q \in polls : q.value = NoAnswer)
      BY <2>1 DEF PageNext, Serve
    <2> QED BY <2>2, <2>3 DEF OneAnswer
  <1>3. CASE \E p \in polls : Receive(p)
    BY <1>3, Sent DEF PageNext, OneAnswer, Receive
  <1>4. CASE \E p \in polls : PollFails(p)
    BY <1>4, Sent DEF PageNext, OneAnswer, PollFails
  <1>5. CASE \E kind \in {"start", "stop", "run"} : ActBegin(kind)
    BY <1>5, Sent DEF PageNext, OneAnswer, ActBegin
  <1>6. CASE ActDone
    BY <1>6, Sent DEF PageNext, OneAnswer, ActDone
  <1>7. CASE ActFails
    BY <1>7, Sent DEF PageNext, OneAnswer, ActFails
  <1>8. CASE LoadServe
    BY <1>8, Sent DEF PageNext, OneAnswer, LoadServe, Refreshed
  <1>9. CASE LoadReceive
    BY <1>9, Sent DEF PageNext, OneAnswer, LoadReceive, Refreshed
  <1>10. CASE LoadFails
    BY <1>10, Sent DEF PageNext, OneAnswer, LoadFails, Refreshed
  <1>11. CASE Refresh
    BY <1>11, Sent DEF PageNext, OneAnswer, Refresh
  <1>12. CASE RefreshServe
    BY <1>12, Sent DEF PageNext, OneAnswer, RefreshServe
  <1>13. CASE RefreshReceive
    BY <1>13, Sent DEF PageNext, OneAnswer, RefreshReceive
  <1>14. CASE RefreshFails
    BY <1>14, Sent DEF PageNext, OneAnswer, RefreshFails
  <1>15. CASE DeleteBegin
    BY <1>15, Sent DEF PageNext, OneAnswer, DeleteBegin
  <1>16. CASE DeleteServe
    BY <1>16, Sent DEF PageNext, OneAnswer, DeleteServe
  <1>17. CASE DeleteDone
    BY <1>17, Sent DEF PageNext, OneAnswer, DeleteDone
  <1>18. CASE DeleteFails
    BY <1>18, Sent DEF PageNext, OneAnswer, DeleteFails
  <1>19. CASE Close
    BY <1>19, Sent DEF PageNext, OneAnswer, Close
  <1>20. CASE Reopen
    BY <1>20, Sent DEF PageNext, OneAnswer, Reopen
  <1>21. CASE SubmitCode
    BY <1>21, Sent DEF PageNext, OneAnswer, SubmitCode
  <1>22. CASE WaitBegins
    BY <1>22, Sent DEF PageNext, OneAnswer, WaitBegins
  <1>23. CASE WaitEnds
    BY <1>23, Sent DEF PageNext, OneAnswer, WaitEnds
  <1> QED
    BY <1>1, <1>2, <1>3, <1>4, <1>5, <1>6, <1>7, <1>8, <1>9, <1>10, <1>11, <1>12, <1>13, <1>14, <1>15, <1>16, <1>17, <1>18, <1>19, <1>20, <1>21, <1>22, <1>23 DEF PageNext

LEMMA BadgeStep == BadgeNews /\ OneAnswer /\ Loaded /\ GoneIsDeleted /\ PollsOK /\ PagePlaces /\ PageFlags /\ PageNext => BadgeNews'
  <1> SUFFICES ASSUME BadgeNews, OneAnswer, Loaded, GoneIsDeleted, PollsOK, PagePlaces, PageFlags, PageNext PROVE BadgeNews'
    OBVIOUS
  <1>1. CASE Tick
    <2>1. PICK new : polls' = polls \cup {new} /\ new.value = NoAnswer
      BY <1>1, Sent DEF Tick
    <2> QED BY <2>1 DEF BadgeNews, Fresh
  <1>2. CASE \E p \in polls : Serve(p)
    <2>1. PICK p \in polls : Serve(p)
      BY <1>2
    <2>2. PICK new : polls' = (polls \ {p}) \cup {new} /\ new.value.row = row
      BY <2>1, Served
    <2>3. row' = row
      BY <2>1 DEF Serve, server
    <2> QED BY <2>2, <2>3 DEF BadgeNews, Fresh
  <1>3. CASE \E p \in polls : Receive(p)
    <2>1. PICK p \in polls : Receive(p)
      BY <1>3
    <2>2. /\ p.value # NoAnswer /\ polls' = polls \ {p} /\ badge' = p.value.row
          /\ UNCHANGED <<failing, inOrder, row, act>>
      BY <2>1 DEF PageNext, Receive, server, loads
    <2>3. CASE InTime /\ Fresh(p)
      <3>1. \A q \in polls' : q.value = NoAnswer
        BY <2>2, <2>3 DEF OneAnswer, InTime
      <3>2. badge' = row'
        BY <2>2, <2>3 DEF Fresh
      <3> QED BY <3>1, <3>2 DEF BadgeNews, Fresh
    <2>4. CASE InTime /\ ~Fresh(p)
      <3>1. (\E q \in polls : Fresh(q)) => \E q \in polls' : Fresh(q)
        BY <2>2, <2>4
      <3>2. (\E q \in polls' : Fresh(q)) => (\E q \in polls : Fresh(q))'
        BY <2>2 DEF Fresh
      <3> QED BY <2>2, <2>4, <3>1, <3>2 DEF BadgeNews, InTime
    <2>5. CASE ~InTime
      BY <2>2, <2>5 DEF BadgeNews, InTime
    <2> QED BY <2>3, <2>4, <2>5
  <1>4. CASE \E p \in polls : PollFails(p)
    BY <1>4 DEF PageNext, BadgeNews, Loaded, GoneIsDeleted, InTime, Fresh, PagePlaces, Rows, Idle, PollFails, server, loads
  <1>5. CASE \E kind \in {"start", "stop", "run"} : ActBegin(kind)
    BY <1>5 DEF PageNext, BadgeNews, Loaded, GoneIsDeleted, InTime, Fresh, PagePlaces, Rows, Idle, ActBegin, server, loads
  <1>6. CASE ActDone
    BY <1>6 DEF PageNext, BadgeNews, Loaded, GoneIsDeleted, InTime, Fresh, PagePlaces, Rows, Idle, ActDone, server, loads, Done, Refused
  <1>7. CASE ActFails
    BY <1>7 DEF PageNext, BadgeNews, Loaded, GoneIsDeleted, InTime, Fresh, PagePlaces, Rows, Idle, ActFails, server, loads, Done, Refused
  <1>8. CASE LoadServe
    BY <1>8 DEF PageNext, BadgeNews, Loaded, GoneIsDeleted, InTime, Fresh, PagePlaces, Rows, Idle, LoadServe, server, loads
  <1>9. CASE LoadReceive
    <2>1. /\ act.pc \in Rows /\ act' = Idle /\ Refreshed
          /\ UNCHANGED <<failing, inOrder, row, badge>>
      BY <1>9 DEF PageNext, LoadReceive, server
    <2>2. CASE act.kind = "none"
      BY <2>1, <2>2 DEF Refreshed, BadgeNews, InTime, Fresh
    <2>3. CASE act.kind # "none"
      <3>1. PICK new : polls' = polls \cup {new} /\ new.value = NoAnswer
        BY <2>1, <2>3, Sent DEF Refreshed
      <3> QED BY <3>1 DEF BadgeNews, Fresh
    <2> QED BY <2>2, <2>3
  <1>10. CASE LoadFails
    BY <1>10 DEF PageNext, BadgeNews, Loaded, GoneIsDeleted, InTime, Fresh, PagePlaces, Rows, Idle, LoadFails, server, loads
  <1>11. CASE Refresh
    BY <1>11 DEF PageNext, BadgeNews, Loaded, GoneIsDeleted, InTime, Fresh, PagePlaces, Rows, Idle, Refresh, server, loads
  <1>12. CASE RefreshServe
    BY <1>12 DEF PageNext, BadgeNews, Loaded, GoneIsDeleted, InTime, Fresh, PagePlaces, Rows, Idle, RefreshServe, server, loads
  <1>13. CASE RefreshReceive
    BY <1>13 DEF PageNext, BadgeNews, Loaded, GoneIsDeleted, InTime, Fresh, PagePlaces, Rows, Idle, RefreshReceive, server, loads
  <1>14. CASE RefreshFails
    BY <1>14 DEF PageNext, BadgeNews, Loaded, GoneIsDeleted, InTime, Fresh, PagePlaces, Rows, Idle, RefreshFails, server, loads
  <1>15. CASE DeleteBegin
    BY <1>15 DEF PageNext, BadgeNews, Loaded, GoneIsDeleted, InTime, Fresh, PagePlaces, Rows, Idle, DeleteBegin, server, loads
  <1>16. CASE DeleteServe
    BY <1>16 DEF PageNext, BadgeNews, Loaded, GoneIsDeleted, InTime, Fresh, PagePlaces, Rows, Idle, DeleteServe, server, loads
  <1>17. CASE DeleteDone
    BY <1>17 DEF PageNext, BadgeNews, Loaded, GoneIsDeleted, InTime, Fresh, PagePlaces, Rows, Idle, DeleteDone, server, loads
  <1>18. CASE DeleteFails
    BY <1>18 DEF PageNext, BadgeNews, Loaded, GoneIsDeleted, InTime, Fresh, PagePlaces, Rows, Idle, DeleteFails, server, loads
  <1>19. CASE Close
    BY <1>19 DEF PageNext, BadgeNews, Loaded, GoneIsDeleted, InTime, Fresh, PagePlaces, Rows, Idle, Close, server, loads
  <1>20. CASE Reopen
    BY <1>20 DEF PageNext, BadgeNews, Loaded, GoneIsDeleted, InTime, Fresh, PagePlaces, Rows, Idle, Reopen, server, loads
  <1>21. CASE SubmitCode
    BY <1>21 DEF PageNext, BadgeNews, Loaded, GoneIsDeleted, InTime, Fresh, PagePlaces, Rows, Idle, SubmitCode, server, loads
  <1>22. CASE WaitBegins
    BY <1>22 DEF PageNext, BadgeNews, Loaded, GoneIsDeleted, InTime, Fresh, PagePlaces, Rows, Idle, WaitBegins, server, loads
  <1>23. CASE WaitEnds
    BY <1>23 DEF PageNext, BadgeNews, Loaded, GoneIsDeleted, InTime, Fresh, PagePlaces, Rows, Idle, WaitEnds, server, loads
  <1> QED
    BY <1>1, <1>2, <1>3, <1>4, <1>5, <1>6, <1>7, <1>8, <1>9, <1>10, <1>11, <1>12, <1>13, <1>14, <1>15, <1>16, <1>17, <1>18, <1>19, <1>20, <1>21, <1>22, <1>23 DEF PageNext

-----------------------------------------------------------------------------

LEMMA PageInitInv == PageInit => PageIndInv
  <1> SUFFICES ASSUME PageInit PROVE PageIndInv
    OBVIOUS
  <1> USE DEF PageInit
  <1>1. PagePlaces /\ PageFlags
    BY DEF PagePlaces, PageFlags, Rows, Unknown
  <1>2. PageNumbers
    BY PageBounds DEF PageNumbers
  <1>3. PollsOK
    BY FS_EmptySet DEF PollsOK
  <1>4. GoneIsDeleted /\ Loaded
    BY DEF GoneIsDeleted, Loaded, Rows
  <1>5. OneAnswer /\ BadgeNews
    BY DEF OneAnswer, BadgeNews
  <1> QED BY <1>1, <1>2, <1>3, <1>4, <1>5 DEF PageIndInv

LEMMA PageNextInv == PageIndInv /\ [PageNext]_pageVars => PageIndInv'
  <1> SUFFICES ASSUME PageIndInv, [PageNext]_pageVars PROVE PageIndInv'
    OBVIOUS
  <1>1. CASE PageNext
    BY <1>1, PollsStep, PlacesStep, PageNumbersStep, PageFlagsStep, GoneStep, LoadedStep,
       OneAnswerStep, BadgeStep DEF PageIndInv
  <1>2. CASE UNCHANGED pageVars
    <2>1. UNCHANGED <<failing, inOrder, row, sms, waits, job, waiting, badge, show, polls, act,
                      refresh, loadError, del, acts, closed>>
      BY <1>2 DEF pageVars, server, loads
    <2>2. (PagePlaces /\ PageNumbers /\ PageFlags)'
      BY <2>1 DEF PageIndInv, PagePlaces, PageNumbers, PageFlags
    <2>3. PollsOK'
      BY <2>1, Withdrawn DEF PageIndInv
    <2>4. (GoneIsDeleted /\ Loaded)'
      BY <2>1 DEF PageIndInv, GoneIsDeleted, Loaded, InTime
    <2>5. (OneAnswer /\ BadgeNews)'
      BY <2>1 DEF PageIndInv, OneAnswer, BadgeNews, InTime, Fresh
    <2> QED BY <2>2, <2>3, <2>4, <2>5 DEF PageIndInv
  <1> QED BY <1>1, <1>2

\* With nothing under way the buttons and the badge are those of the row in the table,
\* whatever loads and polls overlapped, unless requests fail or answers overtake each
\* other; and no more polls are in flight than there are slots for them.
THEOREM PageFollows == PageSpec => []PageInv
  <1>1. PageSpec => []PageIndInv
    BY PageInitInv, PageNextInv, PTL DEF PageSpec
  <1>2. PageIndInv => PageInv
    <2> SUFFICES ASSUME PageIndInv PROVE PageInv
      OBVIOUS
    <2>1. PageTypeOK
      BY PageTypes DEF PageIndInv
    <2>2. ~failing /\ inOrder /\ Quiet => InTime
      BY DEF PageIndInv, GoneIsDeleted, InTime, Quiet
    <2>3. ButtonsFit
      BY <2>2 DEF PageIndInv, Loaded, ButtonsFit, Quiet
    <2>4. BadgeFits
      BY <2>2 DEF PageIndInv, BadgeNews, BadgeFits, Quiet, Rows
    <2> QED BY <2>1, <2>3, <2>4 DEF PageInv
  <1> QED BY <1>1, <1>2, PTL
=============================================================================
