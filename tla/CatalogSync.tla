----------------------------- MODULE CatalogSync -----------------------------
(***************************************************************************)
(* The walk through the site's three dropdowns that collects the catalog   *)
(* (Scraper.Sync, internal/catalog/scraper.go).                            *)
(*                                                                         *)
(* The site is external: choosing a sport asks for its facilities, and     *)
(* choosing a facility for its courts; the answer replaces the options at  *)
(* some later time, and a new request cancels one on its way.  Until then  *)
(* the old options stay unless the site clears them.  waitForOptions only  *)
(* counts options.  getOptions reads the values and the texts of the       *)
(* options in two calls and pairs them by their places; here an option of  *)
(* the site is one name, which is both its value and its text.             *)
(***************************************************************************)
EXTENDS Naturals, FiniteSets

CONSTANTS
    Sports,       \* the options of the first dropdown
    Facilities,   \* Facilities[s]: those of sport s
    Courts,       \* Courts[f]: those of facility f
    None          \* the option that stands for no choice

ASSUME SiteAssumption ==
    /\ None \notin Sports
    /\ \A s \in Sports : None \notin Facilities[s] /\ \A f \in Facilities[s] : None \notin Courts[f]

VARIABLES
    site,      \* the manners of the site, the same throughout:
               \* clears: it empties a dropdown when it is asked for again
               \* prompt: answers come before waitForOptions gives up
               \* failing: calls may fail while the browser context is alive
    pc,
    todo,      \* the sports still to be walked through, the current one excluded
    sport,
    values,    \* rawValues of getOptions
    facTodo,   \* the options of the facilities still to be walked through
    facility,  \* the current one
    shown,     \* the options of the facility and the court dropdown
    asked,     \* the sport and the facility asked for and not answered, or None
    alive,     \* the browser's 90 seconds are not over
    items,     \* the items collected: sport, option of the facility, of the court or None
    written    \* the items handed to UpsertCatalog, None before

vars == <<site, pc, todo, sport, values, facTodo, facility, shown, asked, alive, items, written>>

Init ==
    /\ site \in [clears : BOOLEAN, prompt : BOOLEAN, failing : BOOLEAN]
    /\ pc = "login"
    /\ todo = {} /\ sport = None
    /\ values = {}
    /\ facTodo = {} /\ facility = None
    /\ shown = [facilities |-> {}, courts |-> {}]
    /\ asked = [sport |-> None, facility |-> None]
    /\ alive = TRUE
    /\ items = {} /\ written = None

-----------------------------------------------------------------------------

MayFail == ~alive \/ site.failing

Option(x) == [value |-> x, text |-> x]

\* What getOptions can make of values and texts: options of the site when both are of
\* the same ones, otherwise values and texts paired by places, as far as both go.
OptionSets(V, T) ==
    IF V = T THEN {{Option(x) : x \in V}}
    ELSE {P \in SUBSET [value : V, text : T] :
            /\ \A o, p \in P : o.value = p.value <=> o.text = p.text
            /\ Cardinality(P) = IF Cardinality(V) < Cardinality(T) THEN Cardinality(V)
                                ELSE Cardinality(T)}

\* login, the rental tab and the sport options; an error ends Sync.
ReadSports ==
    /\ pc = "login"
    /\ \/ alive /\ pc' = "sport" /\ todo' = Sports
       \/ MayFail /\ pc' = "error" /\ UNCHANGED todo
    /\ UNCHANGED <<sport, values, facTodo, facility, shown, asked, alive, items, written>>

\* triggerSelect for the next sport; an error moves on to the one after it.
SelectSport ==
    /\ pc = "sport"
    /\ \E s \in todo :
         /\ todo' = todo \ {s}
         /\ sport' = s
         /\ \/ /\ alive
               /\ pc' = "awaitFacilities"
               /\ asked' = [sport |-> s, facility |-> None]
               /\ shown' = IF site.clears THEN [facilities |-> {}, courts |-> {}] ELSE shown
            \/ MayFail /\ UNCHANGED <<pc, asked, shown>>
    /\ UNCHANGED <<values, facTodo, facility, alive, items, written>>

\* Faulty: the option that stands for no choice is enough.
FacilitiesThere_Placeholder ==
    /\ pc = "awaitFacilities"
    /\ alive
    /\ pc' = "facilityValues"
    /\ UNCHANGED <<todo, sport, values, facTodo, facility, shown, asked, alive, items, written>>

\* waitForOptions: enough options, whosever they are.
FacilitiesThere ==
    /\ pc = "awaitFacilities"
    /\ alive /\ shown.facilities # {}
    /\ pc' = "facilityValues"
    /\ UNCHANGED <<todo, sport, values, facTodo, facility, shown, asked, alive, items, written>>

\* Faulty: waits without a limit.
FacilitiesMissing_Never ==
    /\ FALSE
    /\ UNCHANGED <<pc, todo, sport, values, facTodo, facility, shown, asked, alive, items, written>>

\* It gives up: the sport is left out.
FacilitiesMissing ==
    /\ pc = "awaitFacilities"
    /\ ~alive \/ (shown.facilities = {} /\ (asked.sport = None \/ ~site.prompt))
    /\ pc' = "sport"
    /\ UNCHANGED <<todo, sport, values, facTodo, facility, shown, asked, alive, items, written>>

\* The first call of getOptions; an error leaves the sport out.
ReadFacilityValues ==
    /\ pc = "facilityValues"
    /\ \/ alive /\ pc' = "facilityTexts" /\ values' = shown.facilities
       \/ MayFail /\ pc' = "sport" /\ UNCHANGED values
    /\ UNCHANGED <<todo, sport, facTodo, facility, shown, asked, alive, items, written>>

\* The second call; likewise.
ReadFacilities ==
    /\ pc = "facilityTexts"
    /\ \/ alive /\ pc' = "facility" /\ facTodo' \in OptionSets(values, shown.facilities)
       \/ MayFail /\ pc' = "sport" /\ UNCHANGED facTodo
    /\ UNCHANGED <<todo, sport, values, facility, shown, asked, alive, items, written>>

Item(f, c) == [sport |-> sport, facility |-> f, court |-> c]

\* triggerSelect for the next facility; after an error it is recorded alone.  A value
\* that is not among the options any more chooses none.
SelectFacility ==
    /\ pc = "facility"
    /\ \E f \in facTodo :
         /\ facTodo' = facTodo \ {f}
         /\ facility' = f
         /\ \/ /\ alive
               /\ pc' = "awaitCourts"
               /\ asked' = [asked EXCEPT !.facility = IF f.value \in shown.facilities THEN f.value
                                                     ELSE None]
               /\ shown' = IF site.clears THEN [shown EXCEPT !.courts = {}] ELSE shown
               /\ UNCHANGED items
            \/ /\ MayFail
               /\ items' = items \cup {Item(f, None)}
               /\ UNCHANGED <<pc, asked, shown>>
    /\ UNCHANGED <<todo, sport, values, alive, written>>

LastFacility ==
    /\ pc = "facility" /\ facTodo = {}
    /\ pc' = "sport"
    /\ UNCHANGED <<todo, sport, values, facTodo, facility, shown, asked, alive, items, written>>

CourtsThere ==
    /\ pc = "awaitCourts"
    /\ alive /\ shown.courts # {}
    /\ pc' = "courtValues"
    /\ UNCHANGED <<todo, sport, values, facTodo, facility, shown, asked, alive, items, written>>

\* Faulty: a facility whose courts do not come is left out.
CourtsMissing_LeftOut ==
    /\ pc = "awaitCourts"
    /\ ~alive \/ (shown.courts = {} /\ (asked.facility = None \/ ~site.prompt))
    /\ pc' = "facility"
    /\ UNCHANGED <<todo, sport, values, facTodo, facility, shown, asked, alive, items, written>>

\* waitForOptions gives up: the facility is recorded alone.
CourtsMissing ==
    /\ pc = "awaitCourts"
    /\ ~alive \/ (shown.courts = {} /\ (asked.facility = None \/ ~site.prompt))
    /\ items' = items \cup {Item(facility, None)}
    /\ pc' = "facility"
    /\ UNCHANGED <<todo, sport, values, facTodo, facility, shown, asked, alive, written>>

\* getOptions; an error of either call leaves the facility out.
ReadCourtValues ==
    /\ pc = "courtValues"
    /\ \/ alive /\ pc' = "courtTexts" /\ values' = shown.courts
       \/ MayFail /\ pc' = "facility" /\ UNCHANGED values
    /\ UNCHANGED <<todo, sport, facTodo, facility, shown, asked, alive, items, written>>

\* Faulty: the courts are recorded for all the facilities shown.
ReadCourts_EveryFacility ==
    /\ pc = "courtTexts"
    /\ items' = items \cup
                  {Item(Option(f), Option(c)) : f \in shown.facilities, c \in shown.courts}
    /\ pc' = "facility"
    /\ UNCHANGED <<todo, sport, values, facTodo, facility, shown, asked, alive, written>>

\* The second call, and one item for each court.
ReadCourts ==
    /\ pc = "courtTexts"
    /\ \/ /\ alive
          /\ \E P \in OptionSets(values, shown.courts) :
               items' = items \cup {Item(facility, c) : c \in P}
       \/ MayFail /\ UNCHANGED items
    /\ pc' = "facility"
    /\ UNCHANGED <<todo, sport, values, facTodo, facility, shown, asked, alive, written>>

\* UpsertCatalog has the context of the process, not the browser's.
Write ==
    /\ pc = "sport" /\ todo = {}
    /\ written' = items
    /\ pc' = "done"
    /\ UNCHANGED <<todo, sport, values, facTodo, facility, shown, asked, alive, items>>

-----------------------------------------------------------------------------
(* Surroundings *)

Ended == pc \in {"done", "error"}

\* The answer to the last request for a dropdown; new facilities come with an
\* empty court dropdown.
AnswerFacilities ==
    /\ asked.sport # None /\ ~Ended
    /\ shown' = [facilities |-> Facilities[asked.sport], courts |-> {}]
    /\ asked' = [asked EXCEPT !.sport = None]
    /\ UNCHANGED <<pc, todo, sport, values, facTodo, facility, alive, items, written>>

AnswerCourts ==
    /\ asked.facility # None /\ ~Ended
    /\ shown' = [shown EXCEPT !.courts = Courts[asked.facility]]
    /\ asked' = [asked EXCEPT !.facility = None]
    /\ UNCHANGED <<pc, todo, sport, values, facTodo, facility, alive, items, written>>

Deadline ==
    /\ alive /\ ~Ended
    /\ alive' = FALSE
    /\ UNCHANGED <<pc, todo, sport, values, facTodo, facility, shown, asked, items, written>>

Step ==
    \/ ReadSports \/ SelectSport \/ FacilitiesThere \/ FacilitiesMissing
    \/ ReadFacilityValues \/ ReadFacilities \/ SelectFacility \/ LastFacility
    \/ CourtsThere \/ CourtsMissing \/ ReadCourtValues \/ ReadCourts \/ Write

Next == (Step \/ AnswerFacilities \/ AnswerCourts \/ Deadline) /\ UNCHANGED site

Spec == Init /\ [][Next]_vars

\* Sync goes on; the browser's context has a deadline.
FairSpec == Spec /\ WF_vars(Step /\ UNCHANGED site) /\ WF_vars(Deadline /\ UNCHANGED site)

-----------------------------------------------------------------------------

AllFacilities == UNION {Facilities[s] : s \in Sports}
AllCourts == UNION {Courts[f] : f \in AllFacilities}
Options(S) == [value : S, text : S]
AllItems == [sport : Sports, facility : Options(AllFacilities),
             court : Options(AllCourts) \cup {None}]

TypeOK ==
    /\ pc \in {"login", "sport", "awaitFacilities", "facilityValues", "facilityTexts", "facility",
               "awaitCourts", "courtValues", "courtTexts", "done", "error"}
    /\ todo \subseteq Sports /\ sport \in Sports \cup {None}
    /\ pc = "facilityTexts" => values \subseteq AllFacilities
    /\ pc = "courtTexts" => values \subseteq AllCourts
    /\ facTodo \subseteq Options(AllFacilities)
    /\ facility \in Options(AllFacilities) \cup {None}
    /\ shown \in [facilities : SUBSET AllFacilities, courts : SUBSET AllCourts]
    /\ asked \in [sport : Sports \cup {None}, facility : AllFacilities \cup {None}]
    /\ alive \in BOOLEAN
    /\ items \subseteq AllItems
    /\ written = None \/ written \subseteq AllItems

\* What the site offers: each name with its own value, at its own place.
Real ==
    {x \in AllItems : \E f \in Facilities[x.sport] :
        /\ x.facility = Option(f)
        /\ x.court \in {Option(c) : c \in Courts[f]} \cup {None}}

\* No court is recorded for a facility of another, no facility for another sport, and
\* none with the value of another one: when the site empties the dropdowns, slow
\* answers, failing calls and the deadline make the walk leave something out, never
\* mix it up.
ItemsReal == site.clears => items \subseteq Real

\* A facility that was read is recorded, with courts or alone, although its courts
\* may be missing or late: before the deadline, when no call fails by itself.
FacilityRecorded ==
    site.clears /\ ~site.failing /\ alive
    /\ pc = "facility" /\ facility # None /\ facility \notin facTodo =>
        \E x \in items : x.facility = facility

\* With prompt answers and time enough everything is written.
AllWhenPrompt ==
    pc = "done" /\ site.clears /\ site.prompt /\ ~site.failing /\ alive =>
        \A s \in Sports : \A f \in Facilities[s] : \A c \in Courts[f] :
            [sport |-> s, facility |-> Option(f), court |-> Option(c)] \in written

\* The types, and what may be missing.
SyncInv == TypeOK /\ FacilityRecorded /\ AllWhenPrompt

\* Sync ends, however slowly the site answers, or if it never does.
SyncEnds == <>Ended
=============================================================================
