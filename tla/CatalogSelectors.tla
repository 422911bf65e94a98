--------------------------- MODULE CatalogSelectors ---------------------------
(***************************************************************************)
(* The three dropdowns of the job form                                     *)
(* (ui/src/components/CatalogSelectors.tsx): choosing a sport fetches its  *)
(* facilities, choosing facilities fetches their courts.  Nothing cancels  *)
(* a request that is out of date, and the old list can be clicked while    *)
(* the new one is on its way.                                              *)
(*                                                                         *)
(* A row of the catalog is its name: no name is used twice.  The requests  *)
(* are numbered in the order they are sent.                                *)
(***************************************************************************)
EXTENDS Naturals, FiniteSets

CONSTANTS
    Sports,
    Facilities,   \* Facilities[s]: those of sport s
    Courts,       \* Courts[f]: those of facility f
    Former,       \* names in saved jobs that the catalog does not have
    None,
    Settings      \* the users and networks that are looked at:
                  \* edit: a job is edited
                  \* saved: its form, whatever fits together in it; empty for a new job
                  \* patient: the user waits for every answer before the next click
                  \* inOrder: answers come in the order of the requests
                  \* failing: requests may fail
                  \* maxRequests: bound on the requests in all

ASSUME SelectorAssumption ==
    /\ Sports # {} /\ None \notin Sports
    /\ Former \cap UNION {Facilities[s] : s \in Sports} = {}
    /\ \A x \in Settings : /\ {x.edit, x.patient, x.inOrder, x.failing} \subseteq BOOLEAN
                          /\ x.maxRequests \in Nat

VARIABLES
    setting,       \* one of Settings, the same throughout
    form,          \* sportType, facilities and courts of the form
    types,         \* the sport list: "loading", "there"
    selectedStId, selectedFacIds,
    facilityList, courtList,
    loadingCourt,
    error,         \* the error screen: no dropdowns any more
    pending,       \* the requests in flight
    sent           \* requests sent so far

vars == <<setting, form, types, selectedStId, selectedFacIds, facilityList, courtList, loadingCourt,
          error, pending, sent>>

\* The component when it appears.
Mounted ==
    /\ types = "loading"
    /\ selectedStId = None /\ selectedFacIds = {}
    /\ facilityList = {} /\ courtList = {} /\ loadingCourt = FALSE
    /\ error = FALSE
    /\ pending = {} /\ sent = 0

-----------------------------------------------------------------------------

AllFacilities == UNION {Facilities[s] : s \in Sports}
CourtsOf(fs) == UNION {Courts[f] : f \in fs}

Request(kind, of, preserve) ==
    [n |-> sent + 1, kind |-> kind, of |-> of, preserve |-> preserve]

\* The request comes in addition to those of a set.
SendTo(requests, kind, of, preserve) ==
    /\ pending' = requests \cup {Request(kind, of, preserve)}
    /\ sent' = sent + 1

\* Clicks: the dropdowns are there, and a patient user has all answers.
Clickable ==
    /\ types = "there" /\ ~error /\ sent < setting.maxRequests
    /\ setting.patient => pending = {}

\* The answer that may come next.
MayAnswer(r) == setting.inOrder => \A q \in pending : r.n <= q.n

\* The sport types; a sport that is saved and in the catalog is selected, and what
\* is saved with it stays.
SportTypesAnswer ==
    /\ types = "loading"
    /\ types' = "there"
    /\ IF form.sport \in Sports
       THEN /\ selectedStId' = form.sport
            /\ SendTo(pending, "facilities", {form.sport}, TRUE)
       ELSE UNCHANGED <<selectedStId, pending, sent>>
    /\ UNCHANGED <<form, selectedFacIds, facilityList, courtList, loadingCourt, error>>

SportTypesFail ==
    /\ setting.failing /\ types = "loading"
    /\ types' = "there" /\ error' = TRUE
    /\ UNCHANGED <<form, selectedStId, selectedFacIds, facilityList, courtList, loadingCourt,
                   pending, sent>>

\* Faulty: what was selected before stays.
SelectSportType_Kept(s) ==
    /\ Clickable
    /\ selectedStId' = s
    /\ form' = [form EXCEPT !.sport = s]
    /\ SendTo(pending, "facilities", {s}, FALSE)
    /\ UNCHANGED <<types, selectedFacIds, facilityList, courtList, loadingCourt, error>>

\* selectSportTypeById by a click: the selection is emptied, the facility list not.
SelectSportType(s) ==
    /\ Clickable
    /\ selectedStId' = s
    /\ selectedFacIds' = {} /\ courtList' = {}
    /\ form' = [sport |-> s, facilities |-> {}, courts |-> {}]
    /\ SendTo(pending, "facilities", {s}, FALSE)
    /\ UNCHANGED <<types, facilityList, loadingCourt, error>>

\* What the answer to a preserving request selects: the facilities saved with the
\* job, as they were when the form was opened.
Matched(r) == IF r.preserve THEN setting.saved.facilities \cap facilityList' ELSE {}

\* Faulty: the new facilities come in addition to the old.
FacilitiesAnswer_Added(r) ==
    /\ r \in pending /\ r.kind = "facilities" /\ MayAnswer(r)
    /\ facilityList' = facilityList \cup UNION {Facilities[s] : s \in r.of}
    /\ IF Matched(r) = {}
       THEN pending' = pending \ {r} /\ UNCHANGED <<selectedFacIds, loadingCourt, sent>>
       ELSE /\ selectedFacIds' = Matched(r)
            /\ loadingCourt' = TRUE
            /\ SendTo(pending \ {r}, "courts", Matched(r), FALSE)
    /\ UNCHANGED <<form, types, selectedStId, courtList, error>>

\* The facilities of a sport, whatever is selected by now.
FacilitiesAnswer(r) ==
    /\ r \in pending /\ r.kind = "facilities" /\ MayAnswer(r)
    /\ facilityList' = UNION {Facilities[s] : s \in r.of}
    /\ IF Matched(r) = {}
       THEN pending' = pending \ {r} /\ UNCHANGED <<selectedFacIds, loadingCourt, sent>>
       ELSE /\ selectedFacIds' = Matched(r)
            /\ loadingCourt' = TRUE
            /\ SendTo(pending \ {r}, "courts", Matched(r), FALSE)
    /\ UNCHANGED <<form, types, selectedStId, courtList, error>>

Toggled(x, set) == IF x \in set THEN set \ {x} ELSE set \cup {x}

\* loadCourtsForFacilities
LoadCourts(fs) ==
    IF fs = {} THEN courtList' = {} /\ UNCHANGED <<loadingCourt, pending, sent>>
    ELSE /\ loadingCourt' = TRUE
         /\ SendTo(pending, "courts", fs, FALSE)
         /\ UNCHANGED courtList

\* Faulty: the name is added to, or taken from, the form's names.
ToggleFacility_FormNames(f) ==
    /\ Clickable /\ f \in facilityList
    /\ selectedFacIds' = Toggled(f, selectedFacIds)
    /\ form' = [form EXCEPT !.facilities = Toggled(f, @), !.courts = {}]
    /\ LoadCourts(selectedFacIds')
    /\ UNCHANGED <<types, selectedStId, facilityList, error>>

\* The form gets the names of the selected ones that are in the list.
ToggleFacility(f) ==
    /\ Clickable /\ f \in facilityList
    /\ selectedFacIds' = Toggled(f, selectedFacIds)
    /\ form' = [form EXCEPT !.facilities = selectedFacIds' \cap facilityList, !.courts = {}]
    /\ LoadCourts(selectedFacIds')
    /\ UNCHANGED <<types, selectedStId, facilityList, error>>

\* All courts of a request are there.
CourtsAnswer(r) ==
    /\ r \in pending /\ r.kind = "courts" /\ MayAnswer(r)
    /\ courtList' = CourtsOf(r.of)
    /\ loadingCourt' = FALSE
    /\ pending' = pending \ {r}
    /\ UNCHANGED <<form, types, selectedStId, selectedFacIds, facilityList, error, sent>>

\* The court dropdown opens only when facilities are selected.
ToggleCourt(c) ==
    /\ Clickable /\ selectedFacIds # {} /\ c \in courtList
    /\ form' = [form EXCEPT !.courts = Toggled(c, @)]
    /\ UNCHANGED <<types, selectedStId, selectedFacIds, facilityList, courtList, loadingCourt,
                   error, pending, sent>>

\* The error takes the dropdowns' place and stays.
RequestFails(r) ==
    /\ setting.failing /\ r \in pending
    /\ error' = TRUE
    /\ pending' = pending \ {r}
    /\ loadingCourt' = IF r.kind = "courts" THEN FALSE ELSE loadingCourt
    /\ UNCHANGED <<form, types, selectedStId, selectedFacIds, facilityList, courtList, sent>>

Next ==
    /\ \/ SportTypesAnswer \/ SportTypesFail
       \/ \E s \in Sports : SelectSportType(s)
       \/ \E f \in AllFacilities : ToggleFacility(f)
       \/ \E c \in CourtsOf(AllFacilities) : ToggleCourt(c)
       \/ \E r \in pending : FacilitiesAnswer(r) \/ CourtsAnswer(r) \/ RequestFails(r)
    /\ UNCHANGED setting

-----------------------------------------------------------------------------

Forms == [sport : Sports \cup Former \cup {None}, facilities : SUBSET (AllFacilities \cup Former),
          courts : SUBSET (CourtsOf(AllFacilities) \cup Former)]

TypeOK ==
    /\ form \in Forms
    /\ types \in {"loading", "there"}
    /\ selectedStId \in Sports \cup {None}
    /\ selectedFacIds \subseteq AllFacilities
    /\ \E s \in Sports : facilityList \in {{}, Facilities[s]}
    /\ courtList \subseteq CourtsOf(AllFacilities)
    /\ loadingCourt \in BOOLEAN /\ error \in BOOLEAN
    /\ \A r \in pending : r.n \in 1..sent

\* What the site still has of a form's facilities and courts.
Known(x) == x.facilities \cap AllFacilities
KnownCourts(x) == x.courts \cap CourtsOf(AllFacilities)

\* The facilities are of one sport; when the user is patient they are of the form's
\* sport, and the courts are theirs.
Sound(x) ==
    /\ \E s \in Sports : Known(x) \subseteq Facilities[s]
    /\ setting.patient =>
         /\ Known(x) # {} => x.sport \in Sports /\ Known(x) \subseteq Facilities[x.sport]
         /\ KnownCourts(x) \subseteq CourtsOf(Known(x))

\* The edited job was not sound, saved in haste or without this form, and its facilities
\* are as they were.
LeftAlone(x) == ~Sound(setting.saved) /\ x.facilities = setting.saved.facilities

\* The form never gets facilities of two sports, however fast the user clicks and however
\* late the answers come: such a job would search for what does not exist.  Only a job
\* that had them when it was opened keeps them, until a facility or a sport is clicked.
OneSport ==
    \/ \E s \in Sports : Known(form) \subseteq Facilities[s]
    \/ form.facilities = setting.saved.facilities

\* The types, and the form against the catalog.
SelectorInv == TypeOK /\ OneSport

\* A patient user gets what the form shows: marked are the form's sport and those of its
\* facilities that are in the list; the form is sound, whatever the edited job was, once
\* its facilities are chosen anew; and what the job had and the list has not stays,
\* unseen, until a facility or a sport is clicked.
FormFits ==
    setting.patient /\ pending = {} /\ types = "there" /\ ~error =>
        /\ selectedStId = IF form.sport \in Sports THEN form.sport ELSE None
        /\ selectedFacIds = form.facilities \cap facilityList
        /\ form.facilities # selectedFacIds => form.facilities = setting.saved.facilities
        /\ Sound(form) \/ LeftAlone(form)

\* When the answers come in the order of the requests, the lists are in the end those
\* of the selected sport and facilities, although the clicks do not wait for them.
ListsSettle ==
    setting.inOrder /\ pending = {} /\ ~error =>
        /\ selectedStId # None => facilityList = Facilities[selectedStId]
        /\ selectedFacIds # {} => courtList = CourtsOf(selectedFacIds)
=============================================================================
