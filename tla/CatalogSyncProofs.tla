-------------------------- MODULE CatalogSyncProofs --------------------------
(* Theorems about CatalogSync, for every site: any sports, facilities and     *)
(* courts, with any answers late or missing.                                  *)
EXTENDS CatalogSync, TLAPS

-----------------------------------------------------------------------------
(* The inductive invariant *)

\* Where the walk is inside a sport, and where inside a facility.
InFacility == {"awaitCourts", "courtValues", "courtTexts"}
InSport == InFacility \cup {"awaitFacilities", "facilityValues", "facilityTexts", "facility"}

Shape ==
    /\ TypeOK
    /\ pc \in InSport => sport \in Sports
    /\ pc \in InFacility => facility \in Options(AllFacilities)

\* A site that clears its dropdowns shows the options of what was chosen, or has still
\* to answer and shows none.
FacilitiesFit ==
    /\ \/ asked.sport = sport /\ shown.facilities = {}
       \/ asked.sport = None /\ shown.facilities = Facilities[sport]
    /\ pc # "awaitFacilities" => asked.sport = None
    /\ pc = "facilityTexts" => values = Facilities[sport]

CourtsFit ==
    /\ facility \in {Option(f) : f \in Facilities[sport]}
    /\ \/ asked.facility = facility.value /\ shown.courts = {}
       \/ asked.facility = None /\ shown.courts = Courts[facility.value]
    /\ pc # "awaitCourts" => shown.courts # {}
    /\ pc = "courtTexts" => values = shown.courts

Fit ==
    site.clears =>
        /\ pc \in InSport => FacilitiesFit
        /\ pc \in InFacility \cup {"facility"} => facTodo \subseteq {Option(f) : f \in Facilities[sport]}
        /\ pc \in InFacility => CourtsFit

\* Until the deadline, and when no call fails by itself:
Undisturbed == site.clears /\ ~site.failing /\ alive

\* the facility chosen last is recorded, but while its courts are awaited;
LastRecorded ==
    Undisturbed /\ pc \notin InFacility /\ facility # None => \E x \in items : x.facility = facility

\* and on a prompt site so are all courts of the facilities behind, and of the sports behind.
Recorded(s, f) ==
    \A c \in Courts[f] : [sport |-> s, facility |-> Option(f), court |-> Option(c)] \in items

BehindSports == Sports \ (todo \cup IF pc \in InSport THEN {sport} ELSE {})
BehindFacilities ==
    {f \in Facilities[sport] :
        Option(f) \notin facTodo \cup IF pc \in InFacility THEN {facility} ELSE {}}

BehindRecorded ==
    Undisturbed /\ site.prompt =>
        /\ pc \notin {"login", "error"} => \A s \in BehindSports : \A f \in Facilities[s] : Recorded(s, f)
        /\ pc \in InFacility \cup {"facility"} => \A f \in BehindFacilities : Recorded(sport, f)

Handed == pc = "done" => todo = {} /\ written = items

IndInv == Shape /\ Fit /\ ItemsReal /\ LastRecorded /\ BehindRecorded /\ Handed

-----------------------------------------------------------------------------
(* Types *)

LEMMA ItemTypes ==
    ASSUME sport \in Sports, NEW f \in Options(AllFacilities),
           NEW c \in Options(AllCourts) \cup {None}
    PROVE  Item(f, c) \in AllItems
  BY DEF Item, AllItems

\* What the site answers.
LEMMA OptionTypes ==
    /\ \A s \in Sports : Facilities[s] \subseteq AllFacilities
    /\ \A f \in AllFacilities : Courts[f] \subseteq AllCourts
    /\ None \notin Sports /\ None \notin AllFacilities
    /\ \A f \in AllFacilities : None \notin Courts[f]
  BY SiteAssumption DEF AllFacilities, AllCourts

\* What getOptions makes of the two calls.
LEMMA OptionSetTypes ==
    ASSUME NEW V, NEW T, NEW P \in OptionSets(V, T)
    PROVE  /\ P \subseteq [value : V, text : T]
           /\ V = T => P = {Option(x) : x \in V}
  BY DEF OptionSets, Option

\* The two loops, by what they are at afterwards.
LEMMA SelectSportFacts ==
    ASSUME SelectSport
    PROVE  /\ pc = "sport" /\ sport' \in todo /\ todo' = todo \ {sport'}
           /\ UNCHANGED <<values, facTodo, facility, alive, items, written>>
           /\ \/ /\ alive
                 /\ pc' = "awaitFacilities"
                 /\ asked' = [sport |-> sport', facility |-> None]
                 /\ shown' = IF site.clears THEN [facilities |-> {}, courts |-> {}] ELSE shown
              \/ MayFail /\ UNCHANGED <<pc, asked, shown>>
  BY DEF SelectSport

LEMMA SelectFacilityFacts ==
    ASSUME SelectFacility
    PROVE  /\ pc = "facility" /\ facility' \in facTodo /\ facTodo' = facTodo \ {facility'}
           /\ UNCHANGED <<todo, sport, values, alive, written>>
           /\ \/ /\ alive
                 /\ pc' = "awaitCourts"
                 /\ asked' = [asked EXCEPT !.facility =
                                IF facility'.value \in shown.facilities THEN facility'.value
                                ELSE None]
                 /\ shown' = IF site.clears THEN [shown EXCEPT !.courts = {}] ELSE shown
                 /\ UNCHANGED items
              \/ /\ MayFail
                 /\ items' = items \cup {Item(facility', None)}
                 /\ UNCHANGED <<pc, asked, shown>>
  BY DEF SelectFacility

LEMMA ShapeStep ==
    ASSUME Shape, Next
    PROVE  Shape'
  <1> USE DEF Shape, InSport, InFacility
  <1>1. CASE ReadSports
    BY <1>1 DEF ReadSports, TypeOK
  <1>2. CASE SelectSport
    <2>1. sport' \in Sports
      BY <1>2, SelectSportFacts DEF TypeOK
    <2> QED BY <1>2, <2>1, SelectSportFacts DEF TypeOK
  <1>3. CASE FacilitiesThere \/ FacilitiesMissing
    BY <1>3 DEF FacilitiesThere, FacilitiesMissing, TypeOK
  <1>4. CASE ReadFacilityValues \/ ReadCourtValues
    BY <1>4 DEF ReadFacilityValues, ReadCourtValues, TypeOK
  <1>r. CASE ReadFacilities
    <2>1. \A P \in OptionSets(values, shown.facilities) : P \subseteq Options(AllFacilities)
      BY <1>r, OptionSetTypes DEF ReadFacilities, TypeOK, Options
    <2> QED BY <1>r, <2>1 DEF ReadFacilities, TypeOK
  <1>5. CASE SelectFacility
    <2>1. facility' \in Options(AllFacilities)
      BY <1>5, SelectFacilityFacts DEF TypeOK
    <2>2. Item(facility', None) \in AllItems
      BY <1>5, <2>1, SelectFacilityFacts, ItemTypes
    <2>3. items' \subseteq AllItems
      BY <1>5, <2>2, SelectFacilityFacts DEF TypeOK
    <2>4. /\ shown' \in [facilities : SUBSET AllFacilities, courts : SUBSET AllCourts]
          /\ asked' \in [sport : Sports \cup {None}, facility : AllFacilities \cup {None}]
      BY <1>5, <2>1, SelectFacilityFacts DEF TypeOK, Options
    <2> QED BY <1>5, <2>1, <2>3, <2>4, SelectFacilityFacts DEF TypeOK
  <1>6. CASE LastFacility \/ CourtsThere
    BY <1>6 DEF LastFacility, CourtsThere, TypeOK
  <1>7. CASE CourtsMissing
    <2>1. Item(facility, None) \in AllItems
      BY <1>7, ItemTypes DEF CourtsMissing
    <2> QED BY <1>7, <2>1 DEF CourtsMissing, TypeOK
  <1>8. CASE ReadCourts
    <2>1. \A P \in OptionSets(values, shown.courts) : \A c \in P : Item(facility, c) \in AllItems
      <3> SUFFICES ASSUME NEW P \in OptionSets(values, shown.courts), NEW c \in P
                   PROVE  Item(facility, c) \in AllItems
        OBVIOUS
      <3>1. c \in Options(AllCourts)
        BY <1>8, OptionSetTypes DEF ReadCourts, TypeOK, Options
      <3> QED BY <1>8, <3>1, ItemTypes DEF ReadCourts
    <2>2. items' \subseteq AllItems
      BY <1>8, <2>1 DEF ReadCourts, TypeOK
    <2> QED BY <1>8, <2>2 DEF ReadCourts, TypeOK
  <1>9. CASE Write
    BY <1>9 DEF Write, TypeOK
  <1>10. CASE AnswerFacilities
    <2>1. asked.sport \in Sports
      BY <1>10 DEF AnswerFacilities, TypeOK
    <2> QED BY <1>10, <2>1, OptionTypes DEF AnswerFacilities, TypeOK
  <1>11. CASE AnswerCourts
    <2>1. asked.facility \in AllFacilities
      BY <1>11 DEF AnswerCourts, TypeOK
    <2> QED BY <1>11, <2>1, OptionTypes DEF AnswerCourts, TypeOK
  <1>12. CASE Deadline
    BY <1>12 DEF Deadline, TypeOK
  <1> QED
    BY <1>1, <1>2, <1>3, <1>4, <1>r, <1>5, <1>6, <1>7, <1>8, <1>9, <1>10, <1>11, <1>12
       DEF Next, Step

-----------------------------------------------------------------------------
(* The dropdowns of a site that clears them *)

LEMMA FitStep ==
    ASSUME Shape, Fit, Next, site.clears
    PROVE  /\ pc' \in InSport => FacilitiesFit'
           /\ pc' \in InFacility \cup {"facility"} => facTodo' \subseteq {Option(f) : f \in Facilities[sport']}
           /\ pc' \in InFacility => CourtsFit'
  <1> USE DEF InSport, InFacility
  <1>0. /\ pc \in InSport => FacilitiesFit
        /\ pc \in InFacility \cup {"facility"} => facTodo \subseteq {Option(f) : f \in Facilities[sport]}
        /\ pc \in InFacility => CourtsFit
    BY DEF Fit
  <1>t. TypeOK
    BY DEF Shape
  <1>1. CASE ReadSports
    BY <1>1 DEF ReadSports
  <1>2. CASE SelectSport
    BY <1>2, SelectSportFacts DEF FacilitiesFit
  <1>3. CASE FacilitiesThere \/ FacilitiesMissing
    BY <1>0, <1>3 DEF FacilitiesThere, FacilitiesMissing, FacilitiesFit
  <1>4. CASE ReadFacilityValues \/ ReadCourtValues
    BY <1>0, <1>4, OptionTypes DEF ReadFacilityValues, ReadCourtValues, FacilitiesFit, CourtsFit, Shape
  <1>r. CASE ReadFacilities
    <2>1. pc = "facilityTexts" => values = Facilities[sport] /\ shown.facilities = Facilities[sport]
      BY <1>0, SiteAssumption DEF FacilitiesFit, Shape
    <2>2. \A P \in OptionSets(values, shown.facilities) :
            pc = "facilityTexts" => P = {Option(f) : f \in Facilities[sport]}
      BY <2>1, OptionSetTypes
    <2> QED BY <1>0, <1>r, <2>2 DEF ReadFacilities, FacilitiesFit
  <1>5. CASE SelectFacility
    <2>1. asked'.sport = asked.sport /\ shown'.facilities = shown.facilities
      BY <1>5, <1>t, SelectFacilityFacts DEF TypeOK
    <2>0. /\ facility' \in {Option(f) : f \in Facilities[sport]} /\ sport' = sport
          /\ shown.facilities = Facilities[sport]
      BY <1>0, <1>5, SelectFacilityFacts, SiteAssumption DEF FacilitiesFit, Shape
    <2>2. pc' = "awaitCourts" => asked'.facility = facility'.value /\ shown'.courts = {}
      BY <1>5, <1>t, <2>0, SelectFacilityFacts DEF TypeOK, Option
    <2>3. FacilitiesFit' /\ facTodo' \subseteq {Option(f) : f \in Facilities[sport']}
      BY <1>0, <1>5, <2>1, SelectFacilityFacts DEF FacilitiesFit
    <2>5. pc' \in InFacility => pc' = "awaitCourts"
      BY <1>5, SelectFacilityFacts
    <2> QED BY <2>0, <2>2, <2>3, <2>5 DEF CourtsFit
  <1>6. CASE LastFacility \/ CourtsThere
    BY <1>0, <1>6 DEF LastFacility, CourtsThere, FacilitiesFit, CourtsFit
  <1>7. CASE CourtsMissing \/ ReadCourts
    BY <1>0, <1>7 DEF CourtsMissing, ReadCourts, FacilitiesFit
  <1>8. CASE Write
    BY <1>8 DEF Write
  <1>9. CASE AnswerFacilities
    <2>1. asked.sport # None /\ UNCHANGED <<pc, sport, values, facTodo, facility>>
          /\ shown' = [facilities |-> Facilities[asked.sport], courts |-> {}]
          /\ asked'.sport = None /\ asked'.facility = asked.facility
      BY <1>9, <1>t DEF AnswerFacilities, TypeOK
    <2>2. pc \in InSport => pc = "awaitFacilities" /\ asked.sport = sport
      BY <1>0, <2>1 DEF FacilitiesFit
    <2> QED BY <2>1, <2>2 DEF FacilitiesFit
  <1>10. CASE AnswerCourts
    <2>1. asked.facility # None /\ UNCHANGED <<pc, sport, values, facTodo, facility>>
          /\ shown'.facilities = shown.facilities /\ shown'.courts = Courts[asked.facility]
          /\ asked'.facility = None /\ asked'.sport = asked.sport
      BY <1>10, <1>t DEF AnswerCourts, TypeOK
    <2>2. pc \in InFacility => asked.facility = facility.value /\ pc = "awaitCourts"
      BY <1>0, <2>1 DEF CourtsFit
    <2> QED BY <1>0, <2>1, <2>2 DEF FacilitiesFit, CourtsFit
  <1>11. CASE Deadline
    BY <1>0, <1>11 DEF Deadline, FacilitiesFit, CourtsFit
  <1> QED
    BY <1>1, <1>2, <1>3, <1>4, <1>r, <1>5, <1>6, <1>7, <1>8, <1>9, <1>10, <1>11 DEF Next, Step

-----------------------------------------------------------------------------
(* What is recorded *)

\* Which items a step adds: none but what is there for the facility.
LEMMA NewItems ==
    ASSUME Shape, Fit, Next, site.clears
    PROVE  /\ items \subseteq items'
           /\ items' \subseteq items \cup Real
  <1> USE DEF Shape, InSport, InFacility
  <1>1. CASE SelectFacility
    <2>1. /\ facility' \in {Option(f) : f \in Facilities[sport]}
          /\ facility' \in Options(AllFacilities) /\ sport \in Sports
      BY <1>1, SelectFacilityFacts DEF Fit, TypeOK
    <2>2. Item(facility', None) \in AllItems
      BY <2>1, ItemTypes
    <2>3. Item(facility', None) \in Real
      BY <2>1, <2>2 DEF Real, Item
    <2> QED BY <1>1, <2>3, SelectFacilityFacts
  <1>2. CASE CourtsMissing
    <2>1. /\ facility \in {Option(f) : f \in Facilities[sport]}
          /\ facility \in Options(AllFacilities) /\ sport \in Sports
      BY <1>2 DEF CourtsMissing, Fit, CourtsFit
    <2>2. Item(facility, None) \in AllItems
      BY <2>1, ItemTypes
    <2>3. Item(facility, None) \in Real
      BY <2>1, <2>2 DEF Real, Item
    <2> QED BY <1>2, <2>3 DEF CourtsMissing
  <1>3. CASE ReadCourts
    <2>1. PICK f \in Facilities[sport] :
            /\ facility = Option(f) /\ facility \in Options(AllFacilities) /\ sport \in Sports
            /\ shown.courts \subseteq Courts[f] /\ shown.courts \subseteq AllCourts
            /\ values = shown.courts
      BY <1>3 DEF ReadCourts, Fit, CourtsFit, TypeOK, Option
    <2>2. ASSUME NEW c \in {Option(x) : x \in shown.courts} PROVE Item(facility, c) \in Real
      <3>1. c \in Options(AllCourts) /\ c \in {Option(x) : x \in Courts[f]}
        BY <2>1 DEF Option, Options
      <3>2. Item(facility, c) \in AllItems
        BY <2>1, <3>1, ItemTypes
      <3> QED BY <2>1, <3>1, <3>2 DEF Real, Item
    <2>3. \A P \in OptionSets(values, shown.courts) : P = {Option(x) : x \in shown.courts}
      BY <2>1, OptionSetTypes
    <2> QED BY <1>3, <2>2, <2>3 DEF ReadCourts
  <1>4. CASE \/ ReadSports \/ FacilitiesThere \/ FacilitiesMissing \/ ReadFacilityValues
             \/ ReadFacilities \/ LastFacility \/ CourtsThere \/ ReadCourtValues \/ Write
    BY <1>4 DEF ReadSports, FacilitiesThere, FacilitiesMissing, ReadFacilityValues,
                ReadFacilities, LastFacility, CourtsThere, ReadCourtValues, Write
  <1>5. CASE AnswerFacilities \/ AnswerCourts \/ Deadline
    BY <1>5 DEF AnswerFacilities, AnswerCourts, Deadline
  <1>6. CASE SelectSport
    BY <1>6, SelectSportFacts
  <1> QED BY <1>1, <1>2, <1>3, <1>4, <1>5, <1>6 DEF Next, Step

\* A facility that was chosen is recorded when its courts are done with.
LEMMA LastRecordedStep ==
    ASSUME Shape, Fit, LastRecorded, Next, UNCHANGED site
    PROVE  LastRecorded'
  <1> SUFFICES ASSUME Undisturbed', pc' \notin InFacility, facility' # None
               PROVE  \E x \in items' : x.facility = facility'
    BY DEF LastRecorded
  <1>0. site.clears /\ ~site.failing /\ alive /\ ~MayFail
    BY DEF Undisturbed, MayFail, Next, Step, ReadSports, SelectSport, FacilitiesThere,
           FacilitiesMissing, ReadFacilityValues, ReadFacilities, SelectFacility, LastFacility,
           CourtsThere, CourtsMissing, ReadCourtValues, ReadCourts, Write, AnswerFacilities, AnswerCourts, Deadline
  <1>1. items \subseteq items'
    BY <1>0, NewItems
  <1>2. CASE pc \notin InFacility /\ facility' = facility
    <2>1. \E x \in items : x.facility = facility
      BY <1>0, <1>2 DEF LastRecorded, Undisturbed
    <2> QED BY <1>1, <1>2, <2>1
  <1>3. CASE CourtsMissing
    <2>1. Item(facility, None) \in items' /\ facility' = facility
      BY <1>3 DEF CourtsMissing
    <2>2. Item(facility, None).facility = facility
      BY DEF Item
    <2> QED BY <2>1, <2>2
  <1>4. CASE ReadCourts
    <2>1. shown.courts # {} /\ values = shown.courts
      BY <1>0, <1>4 DEF ReadCourts, Fit, CourtsFit, InFacility
    <2>p. PICK P \in OptionSets(values, shown.courts) : items' = items \cup {Item(facility, c) : c \in P}
      BY <1>0, <1>4 DEF ReadCourts
    <2>q. PICK c \in P : TRUE
      BY <2>1, <2>p, OptionSetTypes
    <2>2. Item(facility, c) \in items' /\ facility' = facility
      BY <1>4, <2>p, <2>q DEF ReadCourts
    <2>3. Item(facility, c).facility = facility
      BY DEF Item
    <2> QED BY <2>2, <2>3
  <1>5. CASE SelectFacility
    BY <1>0, <1>5, SelectFacilityFacts DEF InFacility
  <1>6. CASE SelectSport
    BY <1>2, <1>6, SelectSportFacts DEF InFacility
  <1>7. CASE \/ ReadSports \/ FacilitiesThere \/ FacilitiesMissing \/ ReadFacilityValues
             \/ ReadFacilities \/ LastFacility \/ Write
    BY <1>2, <1>7 DEF ReadSports, FacilitiesThere, FacilitiesMissing, ReadFacilityValues,
                      ReadFacilities, LastFacility, Write, InFacility
  <1>8. CASE CourtsThere \/ ReadCourtValues
    BY <1>0, <1>8 DEF CourtsThere, ReadCourtValues, InFacility
  <1>9. CASE AnswerFacilities \/ AnswerCourts \/ Deadline
    BY <1>2, <1>9 DEF AnswerFacilities, AnswerCourts, Deadline
  <1> QED BY <1>3, <1>4, <1>5, <1>6, <1>7, <1>8, <1>9 DEF Next, Step

\* All that is behind the place of the walk.
LEMMA BehindStep ==
    ASSUME Shape, Fit, BehindRecorded, Next, UNCHANGED site
    PROVE  BehindRecorded'
  <1> SUFFICES ASSUME Undisturbed', site'.prompt PROVE BehindRecorded'
    BY DEF BehindRecorded
  <1> USE DEF InSport, InFacility
  <1>0. site.clears /\ ~site.failing /\ site.prompt /\ alive /\ ~MayFail
    BY DEF Undisturbed, MayFail, Next, Step, ReadSports, SelectSport, FacilitiesThere,
           FacilitiesMissing, ReadFacilityValues, ReadFacilities, SelectFacility, LastFacility,
           CourtsThere, CourtsMissing, ReadCourtValues, ReadCourts, Write, AnswerFacilities, AnswerCourts, Deadline
  <1>1. items \subseteq items'
    BY <1>0, NewItems
  <1>2. /\ pc \notin {"login", "error"} =>
             \A s \in BehindSports : \A f \in Facilities[s] : Recorded(s, f)
        /\ pc \in InFacility \cup {"facility"} => \A f \in BehindFacilities : Recorded(sport, f)
    BY <1>0 DEF BehindRecorded, Undisturbed
  <1>3. SUFFICES
          /\ pc' \notin {"login", "error"} =>
               \A s \in BehindSports' : \A f \in Facilities[s] : Recorded(s, f)'
          /\ pc' \in InFacility \cup {"facility"} =>
               \A f \in BehindFacilities' : Recorded(sport, f)' /\ sport' = sport
    BY DEF BehindRecorded, Recorded
  <1>4. \A s, f : Recorded(s, f) => Recorded(s, f)'
    BY <1>1 DEF Recorded
  <1>5. CASE ReadSports
    BY <1>0, <1>5 DEF ReadSports, BehindSports
  <1>6. CASE SelectSport
    <2>1. pc = "sport" /\ pc' = "awaitFacilities" /\ BehindSports' = BehindSports
      BY <1>0, <1>6, SelectSportFacts DEF BehindSports
    <2> QED BY <1>2, <1>4, <2>1
  <1>7. CASE FacilitiesThere
    BY <1>2, <1>4, <1>7 DEF FacilitiesThere, BehindSports
  <1>8. CASE FacilitiesMissing
    <2>1. Facilities[sport] = {}
      BY <1>0, <1>8, SiteAssumption DEF FacilitiesMissing, Fit, FacilitiesFit, Shape
    <2>2. BehindSports' \subseteq BehindSports \cup {sport} /\ pc' = "sport" /\ pc = "awaitFacilities"
      BY <1>8 DEF FacilitiesMissing, BehindSports
    <2> QED BY <1>2, <1>4, <2>1, <2>2
  <1>v. CASE ReadFacilityValues \/ ReadCourtValues
    BY <1>0, <1>2, <1>4, <1>v DEF ReadFacilityValues, ReadCourtValues, BehindSports, BehindFacilities
  <1>9. CASE ReadFacilities
    <2>0. values = Facilities[sport] /\ shown.facilities = Facilities[sport]
      BY <1>0, <1>9, SiteAssumption DEF ReadFacilities, Fit, FacilitiesFit, Shape
    <2>1. /\ pc = "facilityTexts" /\ pc' = "facility" /\ sport' = sport /\ todo' = todo
          /\ facTodo' = {Option(f) : f \in Facilities[sport]}
      BY <1>0, <1>9, <2>0, OptionSetTypes DEF ReadFacilities
    <2>2. BehindSports' = BehindSports /\ BehindFacilities' = {}
      BY <2>1 DEF BehindSports, BehindFacilities
    <2> QED BY <1>2, <1>4, <2>1, <2>2
  <1>10. CASE SelectFacility
    <2>1. /\ pc = "facility" /\ pc' = "awaitCourts" /\ facility' \in facTodo
          /\ facTodo' = facTodo \ {facility'} /\ sport' = sport /\ todo' = todo
      BY <1>0, <1>10, SelectFacilityFacts
    <2>2. BehindSports' = BehindSports /\ BehindFacilities' = BehindFacilities
      BY <2>1 DEF BehindSports, BehindFacilities
    <2> QED BY <1>2, <1>4, <2>1, <2>2
  <1>11. CASE LastFacility
    <2>1. pc = "facility" /\ pc' = "sport" /\ BehindFacilities = Facilities[sport]
          /\ BehindSports' \subseteq BehindSports \cup {sport}
      BY <1>11 DEF LastFacility, BehindFacilities, BehindSports
    <2> QED BY <1>2, <1>4, <2>1
  <1>12. CASE CourtsThere
    BY <1>2, <1>4, <1>12 DEF CourtsThere, BehindSports, BehindFacilities
  <1>13. CASE CourtsMissing \/ ReadCourts
    <2>1. /\ pc \in InFacility /\ pc' = "facility" /\ sport' = sport /\ facility' = facility
          /\ BehindSports' = BehindSports
          /\ \A f \in BehindFacilities' : f \in BehindFacilities \/ facility = Option(f)
      BY <1>13 DEF CourtsMissing, ReadCourts, BehindSports, BehindFacilities
    <2>2. PICK f \in Facilities[sport] :
            /\ facility = Option(f)
            /\ \/ asked.facility = f /\ shown.courts = {}
               \/ asked.facility = None /\ shown.courts = Courts[f]
      BY <1>0, <2>1 DEF Fit, CourtsFit, Option
    <2>3. f \in AllFacilities /\ f # None
      BY <2>1, OptionTypes DEF Shape
    <2>4. Recorded(sport, f)'
      <3>1. CASE CourtsMissing
        <4>1. Courts[f] = {}
          BY <1>0, <2>2, <2>3, <3>1 DEF CourtsMissing
        <4> QED BY <2>1, <4>1 DEF Recorded
      <3>2. CASE ReadCourts
        <4>1. shown.courts = Courts[f] /\ values = Courts[f]
          BY <1>0, <2>2, <3>2 DEF ReadCourts, Fit, CourtsFit
        <4>2. \A c \in Courts[f] : Item(facility, Option(c)) \in items'
          BY <1>0, <3>2, <4>1, OptionSetTypes DEF ReadCourts
        <4> QED BY <2>1, <2>2, <4>2 DEF Recorded, Item
      <3> QED BY <1>13, <3>1, <3>2
    <2>5. \A g : facility = Option(g) => g = f
      BY <2>2 DEF Option
    <2> QED BY <1>2, <1>4, <2>1, <2>4, <2>5
  <1>14. CASE Write
    BY <1>2, <1>4, <1>14 DEF Write, BehindSports
  <1>15. CASE AnswerFacilities \/ AnswerCourts \/ Deadline
    BY <1>2, <1>4, <1>15 DEF AnswerFacilities, AnswerCourts, Deadline, BehindSports, BehindFacilities
  <1> QED
    BY <1>5, <1>6, <1>7, <1>8, <1>v, <1>9, <1>10, <1>11, <1>12, <1>13, <1>14, <1>15 DEF Next, Step

LEMMA HandedStep ==
    ASSUME Handed, Next
    PROVE  Handed'
  <1>1. pc # "done" => Write \/ pc' # "done"
    BY SelectSportFacts, SelectFacilityFacts
       DEF Next, Step, ReadSports, FacilitiesThere, FacilitiesMissing, ReadFacilityValues,
           ReadFacilities, LastFacility, CourtsThere, CourtsMissing, ReadCourtValues, ReadCourts, AnswerFacilities,
           AnswerCourts, Deadline
  <1>2. pc = "done" => FALSE
    BY SelectSportFacts, SelectFacilityFacts
       DEF Next, Step, ReadSports, FacilitiesThere, FacilitiesMissing, ReadFacilityValues,
           ReadFacilities, LastFacility, CourtsThere, CourtsMissing, ReadCourtValues, ReadCourts, Write, AnswerFacilities,
           AnswerCourts, Deadline, Ended
  <1> QED BY <1>1, <1>2 DEF Handed, Write

-----------------------------------------------------------------------------
(* The theorems *)

LEMMA InitInv == Init => IndInv
  <1> SUFFICES ASSUME Init PROVE IndInv
    OBVIOUS
  <1> USE DEF Init, InSport, InFacility
  <1>1. Shape
    BY DEF Shape, TypeOK
  <1>2. Fit /\ ItemsReal /\ Handed
    BY DEF Fit, ItemsReal, Handed
  <1>3. LastRecorded /\ BehindRecorded
    BY DEF LastRecorded, BehindRecorded
  <1> QED BY <1>1, <1>2, <1>3 DEF IndInv

LEMMA NextInv == IndInv /\ [Next]_vars => IndInv'
  <1> SUFFICES ASSUME IndInv, [Next]_vars PROVE IndInv'
    OBVIOUS
  <1> USE DEF IndInv
  <1>1. CASE Next
    <2>0. UNCHANGED site
      BY <1>1 DEF Next
    <2>1. Shape' /\ LastRecorded' /\ BehindRecorded' /\ Handed'
      BY <1>1, <2>0, ShapeStep, LastRecordedStep, BehindStep, HandedStep
    <2>2. Fit'
      BY <1>1, <2>0, FitStep DEF Fit
    <2>3. ItemsReal'
      BY <1>1, <2>0, NewItems DEF ItemsReal
    <2> QED BY <2>1, <2>2, <2>3
  <1>2. CASE UNCHANGED vars
    <2> USE <1>2 DEF vars
    <2>1. Shape' /\ Handed' /\ ItemsReal'
      BY DEF Shape, TypeOK, Handed, ItemsReal
    <2>2. Fit'
      BY DEF Fit, FacilitiesFit, CourtsFit
    <2>3. LastRecorded'
      BY DEF LastRecorded, Undisturbed
    <2>4. BehindRecorded'
      BY DEF BehindRecorded, Undisturbed, BehindSports, BehindFacilities, Recorded
    <2> QED BY <2>1, <2>2, <2>3, <2>4
  <1> QED BY <1>1, <1>2

LEMMA Invariance == Spec => []IndInv
  BY InitInv, NextInv, PTL DEF Spec

\* No facility is recorded under another sport, no court under another facility and no
\* name with the value of another one, however late the answers come and whatever calls
\* fail: choosing an option empties what depends on it, so waitForOptions in Sync cannot
\* count the options of before.
THEOREM NothingMixedUp == Spec => []ItemsReal
  <1>1. IndInv => ItemsReal
    BY DEF IndInv
  <1> QED BY <1>1, Invariance, PTL

\* A facility Sync has read is recorded, alone when its courts do not come; and on a
\* prompt site, before the deadline, all that there is is handed to UpsertCatalog.
THEOREM NothingLeftOut == Spec => []SyncInv
  <1>1. ASSUME IndInv PROVE SyncInv
    <2>1. TypeOK
      BY <1>1 DEF IndInv, Shape
    <2>2. FacilityRecorded
      BY <1>1 DEF IndInv, LastRecorded, Undisturbed, FacilityRecorded, InFacility
    <2>3. AllWhenPrompt
      <3> SUFFICES ASSUME pc = "done", Undisturbed, site.prompt,
                          NEW s \in Sports, NEW f \in Facilities[s]
                   PROVE  \A c \in Courts[f] :
                            [sport |-> s, facility |-> Option(f), court |-> Option(c)] \in written
        BY DEF AllWhenPrompt, Undisturbed
      <3>1. todo = {} /\ written = items
        BY <1>1 DEF IndInv, Handed
      <3>2. s \in BehindSports
        BY <3>1 DEF BehindSports, InSport, InFacility
      <3>3. Recorded(s, f)
        BY <1>1, <3>2 DEF IndInv, BehindRecorded
      <3> QED BY <3>1, <3>3 DEF Recorded
    <2> QED BY <2>1, <2>2, <2>3 DEF SyncInv
  <1> QED BY <1>1, Invariance, PTL
=============================================================================
