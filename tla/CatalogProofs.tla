---------------------------- MODULE CatalogProofs ----------------------------
(* Theorems about Catalog, for every value of its constants: any number of  *)
(* syncs, any items, in any order, overlapping or not.                      *)
EXTENDS Catalog, WellFoundedInduction, TLAPS

-----------------------------------------------------------------------------
(* The inductive invariant *)

Ids == Syncs \X Nat
Rows == [sports     : SUBSET [id : Ids, name : Names],
         facilities : SUBSET [id : Ids, sport : Ids, name : Names],
         courts     : SUBSET [id : Ids, facility : Ids, name : Names]]
Labels == {"begin", "sport", "insertSport", "facility", "insertFacility", "court", "commit",
           "done", "failed"}

Shape ==
    /\ setting \in Settings
    /\ tables \in Rows
    /\ own \in [Syncs -> Rows]
    /\ locked \in [Syncs -> SUBSET Names]
    /\ pc \in [Syncs -> Labels]
    /\ i \in [Syncs -> Nat]
    /\ st \in [Syncs -> Ids \cup {None}]
    /\ fac \in [Syncs -> Ids \cup {None}]

Courts(p) == tables.courts \cup own[p].courts

\* What p sees of an item: its sport, its facility in that sport, its court there.
HasSport(p, n, s) == s \in Sports(p) /\ s.name = Items[p][n].sport
HasFacility(p, n, f) ==
    /\ f \in Facilities(p) /\ f.name = Items[p][n].facility
    /\ \E s \in Sports(p) : HasSport(p, n, s) /\ s.id = f.sport
HasCourt(p, n, c) ==
    /\ c \in Courts(p) /\ c.name = Items[p][n].court
    /\ \E f \in Facilities(p) : HasFacility(p, n, f) /\ f.id = c.facility

\* A sync at work is at one of its items; one that is not has no rows of its own
\* and no locks.
Placed(p) ==
    /\ i[p] \in {1} \cup DOMAIN Items[p]
    /\ pc[p] = "begin" => i[p] = 1
    /\ pc[p] \in {"sport", "insertSport", "facility", "insertFacility", "court"} =>
         i[p] \in DOMAIN Items[p]
    /\ pc[p] \in {"begin", "done", "failed"} => own[p] = NoRows /\ locked[p] = {}

\* The rows of a transaction were made for items of its sync, and hang together.
MadeSports(p) ==
    \A r \in own[p].sports : \E n \in DOMAIN Items[p] :
        /\ r.id = <<p, n>> /\ HasSport(p, n, r)
        /\ n <= i[p] /\ (pc[p] \in {"sport", "insertSport"} => n < i[p])

MadeFacilities(p) ==
    \A r \in own[p].facilities : \E n \in DOMAIN Items[p] :
        /\ r.id = <<p, n>> /\ HasFacility(p, n, r)
        /\ n <= i[p]
        /\ pc[p] \in {"sport", "insertSport", "facility", "insertFacility"} => n < i[p]

MadeCourts(p) ==
    \A r \in own[p].courts : r.name # None /\ \E n \in DOMAIN Items[p] : HasCourt(p, n, r)

\* A transaction holds the sports of its rows; it sees what it holds, and has come
\* across it at one of the items up to now.
Locks(p) ==
    /\ \A r \in own[p].sports : r.name \in locked[p]
    /\ \A x \in locked[p] :
         /\ \E r \in Sports(p) : r.name = x
         /\ \E n \in DOMAIN Items[p] :
              /\ x = Items[p][n].sport
              /\ n <= i[p] /\ (pc[p] \in {"sport", "insertSport"} => n < i[p])

\* stID and fID are the ids of rows p sees, those of its item; it inserts a sport it
\* does not hold.
Current(p) ==
    /\ pc[p] \in {"facility", "insertFacility", "court"} =>
         \E s \in Sports(p) : HasSport(p, i[p], s) /\ s.id = st[p]
    /\ pc[p] = "court" => \E f \in Facilities(p) : HasFacility(p, i[p], f) /\ f.id = fac[p]
    /\ pc[p] = "insertSport" => Items[p][i[p]].sport \notin locked[p]

\* The items a sync has been through, and what it has to show for them.
Behind(p) == {n \in DOMAIN Items[p] : n < i[p] \/ pc[p] = "commit"}

Recorded(p) ==
    pc[p] \in Labels \ {"begin", "done", "failed"} => \A n \in Behind(p) :
        /\ \E f \in Facilities(p) : HasFacility(p, n, f)
        /\ Items[p][n].court # None => \E c \in Courts(p) : HasCourt(p, n, c)

SyncOK(p) ==
    /\ Placed(p)
    /\ MadeSports(p) /\ MadeFacilities(p) /\ MadeCourts(p)
    /\ Locks(p)
    /\ Current(p)
    /\ Recorded(p)

\* Every committed row was made by a sync that is done.
DoneRows ==
    /\ \A r \in tables.sports \cup tables.facilities : pc[r.id[1]] = "done"
    /\ \A r \in tables.courts : r.name # None

AllSports == tables.sports \cup UNION {own[p].sports : p \in Syncs}
AllFacilities == tables.facilities \cup UNION {own[p].facilities : p \in Syncs}

\* Of all rows, committed or not, no two sports have one name, and no two sports or
\* facilities have one id.
OneRow ==
    /\ \A r, s \in AllSports : r.name = s.name \/ r.id = s.id => r = s
    /\ \A r, s \in AllFacilities : r.id = s.id => r = s

\* Without overlap one sync at most is at work, and no facility is there twice.
OneByOne ==
    ~setting.overlap =>
        /\ \A p, q \in Syncs : Running(p) /\ Running(q) => p = q
        /\ \A p \in Syncs : \A f, g \in Facilities(p) :
             f.sport = g.sport /\ f.name = g.name => f = g
        /\ \A p \in Syncs : pc[p] = "insertFacility" => FacilityIds(p) = {}

IndInv ==
    /\ Shape
    /\ \A p \in Syncs : SyncOK(p)
    /\ DoneRows /\ OneRow /\ NoOrphans /\ OneByOne
    /\ NoSyncFails

-----------------------------------------------------------------------------
(* What a step of one sync leaves alone *)

Same(q) ==
    /\ own'[q] = own[q] /\ locked'[q] = locked[q] /\ pc'[q] = pc[q]
    /\ i'[q] = i[q] /\ st'[q] = st[q] /\ fac'[q] = fac[q]

\* The other syncs stay where they are, and no committed row goes away.
Frame(p) ==
    /\ setting' = setting
    /\ \A q \in Syncs \ {p} : Same(q)
    /\ tables.sports \subseteq tables'.sports
    /\ tables.facilities \subseteq tables'.facilities
    /\ tables.courts \subseteq tables'.courts

LEMMA ItemTypes ==
    ASSUME Shape, NEW p \in Syncs
    PROVE  /\ Items[p] \in Seq(FoundItem)
           /\ DOMAIN Items[p] = 1..Len(Items[p]) /\ Len(Items[p]) \in Nat
           /\ \A n \in DOMAIN Items[p] : Items[p][n] \in FoundItem
  BY CatalogAssumption DEF Shape, Items

\* The rows of an empty transaction, and of one with a row more.
LEMMA RowTypes ==
    /\ NoRows \in Rows
    /\ \A t \in Rows, r \in [id : Ids, name : Names] :
         [t EXCEPT !.sports = @ \cup {r}] \in Rows
    /\ \A t \in Rows, r \in [id : Ids, sport : Ids, name : Names] :
         [t EXCEPT !.facilities = @ \cup {r}] \in Rows
    /\ \A t \in Rows, r \in [id : Ids, facility : Ids, name : Names] :
         [t EXCEPT !.courts = @ \cup {r}] \in Rows
  BY DEF NoRows, Rows

\* What Commit makes of the tables.
LEMMA CommitTables ==
    ASSUME Shape, NEW p \in Syncs, Commit(p)
    PROVE  /\ tables' \in Rows
           /\ tables'.sports = tables.sports \cup own[p].sports
           /\ tables'.facilities = tables.facilities \cup own[p].facilities
           /\ tables'.courts = tables.courts \cup own[p].courts
  <1>1. DOMAIN tables = {"sports", "facilities", "courts"}
    BY DEF Shape, Rows
  <1>2. tables' = [t \in {"sports", "facilities", "courts"} |-> tables[t] \cup own[p][t]]
    BY <1>1 DEF Commit
  <1>3. /\ tables'["sports"] = tables["sports"] \cup own[p]["sports"]
        /\ tables'["facilities"] = tables["facilities"] \cup own[p]["facilities"]
        /\ tables'["courts"] = tables["courts"] \cup own[p]["courts"]
    BY <1>2
  <1>4. tables' = [sports |-> tables.sports \cup own[p].sports,
                   facilities |-> tables.facilities \cup own[p].facilities,
                   courts |-> tables.courts \cup own[p].courts]
    BY <1>2, <1>3
  <1>5. tables \in Rows /\ own[p] \in Rows
    BY DEF Shape
  <1> QED BY <1>4, <1>5 DEF Rows

LEMMA StepFrame ==
    ASSUME Shape, NEW p \in Syncs, Step(p), UNCHANGED setting
    PROVE  Frame(p)
  <1> USE DEF Shape, Frame, Same, Goto
  <1>1. CASE Begin(p)
    BY <1>1 DEF Begin
  <1>2. CASE SelectSport(p)
    BY <1>2 DEF SelectSport
  <1>3. CASE InsertSport(p)
    BY <1>3 DEF InsertSport
  <1>4. CASE SelectFacility(p)
    BY <1>4 DEF SelectFacility
  <1>5. CASE InsertFacility(p)
    BY <1>5 DEF InsertFacility, Over
  <1>6. CASE InsertCourt(p)
    BY <1>6 DEF InsertCourt, NextItem
  <1>7. CASE Commit(p)
    BY <1>7, CommitTables DEF Commit, Over
  <1>8. CASE Fail(p)
    BY <1>8 DEF Fail, Over
  <1> QED BY <1>1, <1>2, <1>3, <1>4, <1>5, <1>6, <1>7, <1>8 DEF Step

-----------------------------------------------------------------------------
(* What each statement does to its sync *)

LEMMA BeginFacts ==
    ASSUME Shape, NEW p \in Syncs, Begin(p)
    PROVE  /\ pc[p] = "begin" /\ (setting.overlap \/ \A q \in Syncs : ~Running(q))
           /\ pc'[p] = IF Items[p] = << >> THEN "commit" ELSE "sport"
           /\ UNCHANGED <<tables, own, locked, i, st, fac>>
  BY DEF Shape, Begin, Goto

LEMMA SelectSportFacts ==
    ASSUME Shape, NEW p \in Syncs, SelectSport(p)
    PROVE  /\ pc[p] = "sport"
           /\ \/ pc'[p] = "insertSport" /\ SportIds(p) = {} /\ UNCHANGED st
              \/ pc'[p] = "facility" /\ st'[p] \in SportIds(p)
           /\ st' \in [Syncs -> Ids \cup {None}]
           /\ UNCHANGED <<tables, own, locked, i, fac>>
  <1>1. SportIds(p) \subseteq Ids
    BY DEF SportIds, Sports, Shape, Rows
  <1> QED BY <1>1 DEF Shape, SelectSport, Goto

LEMMA InsertSportFacts ==
    ASSUME Shape, NEW p \in Syncs, SyncOK(p), InsertSport(p)
    PROVE  /\ pc[p] = "insertSport" /\ pc'[p] = "facility"
           /\ \A q \in Syncs : ~Blocks(q, p)
           /\ NewSports(p) \subseteq [id : Ids, name : Names]
           /\ own' \in [Syncs -> Rows]
           /\ own'[p].sports = own[p].sports \cup NewSports(p)
           /\ own'[p].facilities = own[p].facilities
           /\ own'[p].courts = own[p].courts
           /\ st'[p] \in SportIds(p) \cup {r.id : r \in NewSports(p)}
           /\ st' \in [Syncs -> Ids \cup {None}]
           /\ locked'[p] = locked[p] \cup {Item(p).sport}
           /\ locked' \in [Syncs -> SUBSET Names]
           /\ UNCHANGED <<tables, i, fac>>
  <1>1. pc[p] = "insertSport" /\ i[p] \in DOMAIN Items[p] /\ Item(p) \in FoundItem
    BY ItemTypes DEF InsertSport, SyncOK, Placed, Item
  <1>2. NewSports(p) \subseteq [id : Ids, name : Names]
    BY <1>1 DEF NewSports, NewId, Ids, FoundItem, Shape
  <1>3. own[p] \in Rows /\ own' = [own EXCEPT ![p] = [own[p] EXCEPT !.sports = @ \cup NewSports(p)]]
    BY DEF Shape, InsertSport
  <1>4. [own[p] EXCEPT !.sports = @ \cup NewSports(p)] \in Rows
    BY <1>2, <1>3 DEF Rows
  <1>5. own'[p] = [own[p] EXCEPT !.sports = @ \cup NewSports(p)] /\ own' \in [Syncs -> Rows]
    BY <1>3, <1>4 DEF Shape
  <1>6. /\ own'[p].sports = own[p].sports \cup NewSports(p)
        /\ own'[p].facilities = own[p].facilities
        /\ own'[p].courts = own[p].courts
    BY <1>3, <1>5 DEF Rows
  <1>7. SportIds(p) \cup {r.id : r \in NewSports(p)} \subseteq Ids
    BY <1>2 DEF SportIds, Sports, Shape, Rows
  <1>8. /\ st'[p] \in SportIds(p) \cup {r.id : r \in NewSports(p)}
        /\ st' \in [Syncs -> Ids \cup {None}]
    BY <1>7 DEF InsertSport, Shape
  <1>9. pc'[p] = "facility" /\ (\A q \in Syncs : ~Blocks(q, p)) /\ UNCHANGED <<tables, i, fac>>
    BY DEF InsertSport, Goto, Shape
  <1>10. /\ locked'[p] = locked[p] \cup {Item(p).sport}
         /\ locked' \in [Syncs -> SUBSET Names]
    BY <1>1 DEF InsertSport, Shape, FoundItem
  <1> QED BY <1>1, <1>2, <1>5, <1>6, <1>8, <1>9, <1>10

LEMMA SelectFacilityFacts ==
    ASSUME Shape, NEW p \in Syncs, SelectFacility(p)
    PROVE  /\ pc[p] = "facility"
           /\ \/ pc'[p] = "insertFacility" /\ FacilityIds(p) = {} /\ UNCHANGED fac
              \/ pc'[p] = "court" /\ fac'[p] \in FacilityIds(p)
           /\ fac' \in [Syncs -> Ids \cup {None}]
           /\ UNCHANGED <<tables, own, locked, i, st>>
  <1>1. FacilityIds(p) \subseteq Ids
    BY DEF FacilityIds, Facilities, Shape, Rows
  <1> QED BY <1>1 DEF Shape, SelectFacility, Goto

\* The row InsertFacility makes.
NewFacility(p) == [id |-> NewId(p), sport |-> st[p], name |-> Item(p).facility]

LEMMA InsertFacilityFacts ==
    ASSUME Shape, NEW p \in Syncs, SyncOK(p), InsertFacility(p)
    PROVE  /\ pc[p] = "insertFacility" /\ pc'[p] = "court"
           /\ NewFacility(p) \in [id : Ids, sport : Ids, name : Names]
           /\ own' \in [Syncs -> Rows]
           /\ own'[p].sports = own[p].sports
           /\ own'[p].facilities = own[p].facilities \cup {NewFacility(p)}
           /\ own'[p].courts = own[p].courts
           /\ fac'[p] \in FacilityIds(p) \cup {NewId(p)}
           /\ fac' \in [Syncs -> Ids \cup {None}]
           /\ UNCHANGED <<tables, locked, i, st>>
  <1>1. /\ pc[p] = "insertFacility" /\ i[p] \in DOMAIN Items[p] /\ Item(p) \in FoundItem
        /\ NewId(p) \in Ids
    BY ItemTypes DEF InsertFacility, SyncOK, Placed, Item, Shape, NewId, Ids
  <1>2. st[p] \in {r.id : r \in Sports(p)}
    BY <1>1 DEF SyncOK, Current
  <1>3. st[p] \in Ids
    BY <1>2 DEF Sports, Shape, Rows
  <1>4. NewFacility(p) \in [id : Ids, sport : Ids, name : Names]
    BY <1>1, <1>3 DEF NewFacility, FoundItem
  <1>5. /\ own[p] \in Rows
        /\ own' = [own EXCEPT ![p] = [own[p] EXCEPT !.facilities = @ \cup {NewFacility(p)}]]
    BY <1>2 DEF Shape, InsertFacility, NewFacility
  <1>6. [own[p] EXCEPT !.facilities = @ \cup {NewFacility(p)}] \in Rows
    BY <1>4, <1>5, RowTypes
  <1>7. own'[p] = [own[p] EXCEPT !.facilities = @ \cup {NewFacility(p)}] /\ own' \in [Syncs -> Rows]
    BY <1>5, <1>6 DEF Shape
  <1>8. /\ own'[p].sports = own[p].sports
        /\ own'[p].facilities = own[p].facilities \cup {NewFacility(p)}
        /\ own'[p].courts = own[p].courts
    BY <1>5, <1>7 DEF Rows
  <1>9. FacilityIds(p) \cup {NewId(p)} \subseteq Ids
    BY <1>1 DEF FacilityIds, Facilities, Shape, Rows
  <1>10. /\ fac'[p] \in FacilityIds(p) \cup {NewId(p)}
         /\ fac' \in [Syncs -> Ids \cup {None}]
    BY <1>2, <1>9 DEF InsertFacility, Shape
  <1>11. pc'[p] = "court" /\ UNCHANGED <<tables, locked, i, st>>
    BY <1>2 DEF InsertFacility, Goto, Shape
  <1> QED BY <1>1, <1>4, <1>7, <1>8, <1>10, <1>11

LEMMA InsertCourtFacts ==
    ASSUME Shape, NEW p \in Syncs, SyncOK(p), InsertCourt(p)
    PROVE  /\ pc[p] = "court"
           /\ NewCourts(p) \subseteq [id : Ids, facility : Ids, name : Names]
           /\ own' \in [Syncs -> Rows]
           /\ own'[p].sports = own[p].sports
           /\ own'[p].facilities = own[p].facilities
           /\ own'[p].courts = own[p].courts \cup NewCourts(p)
           /\ i[p] \in 1..Len(Items[p])
           /\ i' \in [Syncs -> Nat]
           /\ \/ i[p] < Len(Items[p]) /\ pc'[p] = "sport" /\ i'[p] = i[p] + 1
              \/ i[p] = Len(Items[p]) /\ pc'[p] = "commit" /\ i'[p] = i[p]
           /\ UNCHANGED <<tables, locked, st, fac>>
  <1>1. /\ pc[p] = "court" /\ i[p] \in DOMAIN Items[p] /\ Item(p) \in FoundItem
        /\ NewId(p) \in Ids
    BY ItemTypes DEF InsertCourt, SyncOK, Placed, Item, Shape, NewId, Ids
  <1>2. fac[p] \in Ids
    BY <1>1 DEF SyncOK, Current, HasFacility, Facilities, Shape, Rows
  <1>3. NewCourts(p) \subseteq [id : Ids, facility : Ids, name : Names]
    BY <1>1, <1>2 DEF NewCourts, FoundItem
  <1>4. own[p] \in Rows /\ own' = [own EXCEPT ![p] = [own[p] EXCEPT !.courts = @ \cup NewCourts(p)]]
    BY DEF Shape, InsertCourt
  <1>5. [own[p] EXCEPT !.courts = @ \cup NewCourts(p)] \in Rows
    BY <1>3, <1>4 DEF Rows
  <1>6. own'[p] = [own[p] EXCEPT !.courts = @ \cup NewCourts(p)] /\ own' \in [Syncs -> Rows]
    BY <1>4, <1>5 DEF Shape
  <1>7. /\ own'[p].sports = own[p].sports
        /\ own'[p].facilities = own[p].facilities
        /\ own'[p].courts = own[p].courts \cup NewCourts(p)
    BY <1>4, <1>6 DEF Rows
  <1>8. i[p] \in 1..Len(Items[p]) /\ Len(Items[p]) \in Nat
    BY <1>1, ItemTypes
  <1>9. /\ i'[p] = IF i[p] < Len(Items[p]) THEN i[p] + 1 ELSE i[p]
        /\ i' \in [Syncs -> Nat]
    BY <1>8 DEF InsertCourt, NextItem, Shape
  <1>10. pc'[p] = IF i[p] < Len(Items[p]) THEN "sport" ELSE "commit"
    BY DEF InsertCourt, NextItem, Goto, Shape
  <1>11. \/ i[p] < Len(Items[p]) /\ pc'[p] = "sport" /\ i'[p] = i[p] + 1
         \/ i[p] = Len(Items[p]) /\ pc'[p] = "commit" /\ i'[p] = i[p]
    BY <1>8, <1>9, <1>10
  <1> QED BY <1>1, <1>3, <1>6, <1>7, <1>8, <1>9, <1>11 DEF InsertCourt

LEMMA CommitFacts ==
    ASSUME Shape, NEW p \in Syncs, Commit(p)
    PROVE  /\ pc[p] = "commit" /\ pc'[p] = "done"
           /\ own'[p] = NoRows /\ own' \in [Syncs -> Rows]
           /\ locked'[p] = {} /\ locked' \in [Syncs -> SUBSET Names]
           /\ UNCHANGED <<i, st, fac>>
  BY RowTypes DEF Shape, Commit, Over, Goto

LEMMA FailFacts ==
    ASSUME Shape, NEW p \in Syncs, Fail(p)
    PROVE  /\ Running(p) /\ pc'[p] = "failed"
           /\ own'[p] = NoRows /\ own' \in [Syncs -> Rows]
           /\ locked'[p] = {} /\ locked' \in [Syncs -> SUBSET Names]
           /\ UNCHANGED <<tables, i, st, fac>>
  BY RowTypes DEF Shape, Fail, Over, Goto, Deadlocked, Blocks, Running

LEMMA ShapeStep ==
    ASSUME Shape, NEW p \in Syncs, SyncOK(p), Step(p), UNCHANGED setting
    PROVE  Shape'
  <1>0. pc' \in [Syncs -> Labels]
    BY DEF Shape, Labels, Step, Begin, SelectSport, InsertSport, SelectFacility, InsertFacility,
           InsertCourt, NextItem, Commit, Fail, Goto
  <1>1. CASE Begin(p)
    BY <1>0, <1>1 DEF Begin, Shape
  <1>2. CASE SelectSport(p)
    BY <1>0, <1>2, SelectSportFacts DEF Shape
  <1>3. CASE InsertSport(p)
    BY <1>0, <1>3, InsertSportFacts DEF Shape
  <1>4. CASE SelectFacility(p)
    BY <1>0, <1>4, SelectFacilityFacts DEF Shape
  <1>5. CASE InsertFacility(p)
    BY <1>0, <1>5, InsertFacilityFacts DEF Shape
  <1>6. CASE InsertCourt(p)
    BY <1>0, <1>6, InsertCourtFacts DEF Shape
  <1>7. CASE Commit(p)
    BY <1>0, <1>7, CommitFacts, CommitTables DEF Shape
  <1>8. CASE Fail(p)
    BY <1>0, <1>8, FailFacts DEF Shape
  <1> QED BY <1>1, <1>2, <1>3, <1>4, <1>5, <1>6, <1>7, <1>8 DEF Step

-----------------------------------------------------------------------------
(* Each sync's own part of the invariant *)

\* What a transaction sees only grows while it sees more rows.
LEMMA SeeMore ==
    ASSUME UNCHANGED setting, NEW p \in Syncs,
           Sports(p) \subseteq Sports(p)', Facilities(p) \subseteq Facilities(p)',
           Courts(p) \subseteq Courts(p)'
    PROVE  \A n, x : /\ HasSport(p, n, x) => HasSport(p, n, x)'
                     /\ HasFacility(p, n, x) => HasFacility(p, n, x)'
                     /\ HasCourt(p, n, x) => HasCourt(p, n, x)'
  <1>1. Items' = Items
    BY DEF Items
  <1>2. \A n, x : HasSport(p, n, x) => HasSport(p, n, x)'
    BY <1>1 DEF HasSport
  <1>3. \A n, x : HasFacility(p, n, x) => HasFacility(p, n, x)'
    BY <1>1, <1>2 DEF HasFacility
  <1>4. \A n, x : HasCourt(p, n, x) => HasCourt(p, n, x)'
    BY <1>1, <1>3 DEF HasCourt
  <1> QED BY <1>2, <1>3, <1>4

\* A sync that stands still keeps its part, whatever the others commit.
LEMMA Elsewhere ==
    ASSUME NEW p \in Syncs, NEW q \in Syncs, Frame(p), q # p, SyncOK(q)
    PROVE  SyncOK(q)'
  <1>1. Same(q) /\ UNCHANGED setting /\ Items' = Items
    BY DEF Frame, Items
  <1>2. /\ Sports(q) \subseteq Sports(q)' /\ Facilities(q) \subseteq Facilities(q)'
        /\ Courts(q) \subseteq Courts(q)'
    BY <1>1 DEF Frame, Same, Sports, Facilities, Courts
  <1>3. \A n, x : /\ HasSport(q, n, x) => HasSport(q, n, x)'
                  /\ HasFacility(q, n, x) => HasFacility(q, n, x)'
                  /\ HasCourt(q, n, x) => HasCourt(q, n, x)'
    BY <1>1, <1>2, SeeMore
  <1> USE DEF SyncOK, Same
  <1>4. Placed(q)'
    BY <1>1 DEF Placed
  <1>5. MadeSports(q)'
    BY <1>1, <1>3 DEF MadeSports
  <1>6. MadeFacilities(q)'
    BY <1>1, <1>3 DEF MadeFacilities
  <1>7. MadeCourts(q)'
    BY <1>1, <1>3 DEF MadeCourts
  <1>8. Current(q)' /\ Locks(q)'
    BY <1>1, <1>2, <1>3 DEF Current, Locks
  <1>9. Recorded(q)'
    <2>1. Behind(q)' = Behind(q)
      BY <1>1 DEF Behind
    <2> QED BY <1>1, <1>2, <1>3, <2>1 DEF Recorded
  <1> QED BY <1>4, <1>5, <1>6, <1>7, <1>8, <1>9

\* A step that leaves the rows alone, at one and the same item.
LEMMA StayOK ==
    ASSUME Shape, NEW p \in Syncs, SyncOK(p), UNCHANGED <<setting, tables, own, locked, i>>,
           pc[p] \in Labels \ {"begin", "done", "failed", "commit"},
           pc'[p] \in Labels \ {"begin", "done", "failed", "commit", "sport"},
           pc'[p] = "insertSport" => pc[p] = "sport",
           pc'[p] # "court" => pc[p] \in {"sport", "insertSport", "facility", "insertFacility"},
           Current(p)'
    PROVE  SyncOK(p)'
  <1>1. Items' = Items
    BY DEF Items
  <1>2. \A n, x : /\ HasSport(p, n, x) => HasSport(p, n, x)'
                  /\ HasFacility(p, n, x) => HasFacility(p, n, x)'
                  /\ HasCourt(p, n, x) => HasCourt(p, n, x)'
    BY SeeMore DEF Sports, Facilities, Courts
  <1> USE DEF SyncOK, Labels
  <1>3. Placed(p)'
    BY <1>1 DEF Placed
  <1>4. MadeSports(p)'
    BY <1>1, <1>2 DEF MadeSports
  <1>5. MadeCourts(p)'
    BY <1>1, <1>2 DEF MadeCourts
  <1>6. Recorded(p)'
    <2>1. Behind(p)' = Behind(p)
      BY <1>1 DEF Behind
    <2>2. Facilities(p)' = Facilities(p) /\ Courts(p)' = Courts(p)
      BY DEF Facilities, Courts
    <2> QED BY <1>1, <1>2, <2>1, <2>2 DEF Recorded
  <1>7. MadeFacilities(p)'
    <2> SUFFICES ASSUME NEW r \in own[p].facilities
                 PROVE  \E n \in DOMAIN Items[p] :
                          /\ r.id = <<p, n>> /\ HasFacility(p, n, r)'
                          /\ n <= i[p]
                          /\ pc'[p] \in {"sport", "insertSport", "facility", "insertFacility"} => n < i[p]
      BY <1>1 DEF MadeFacilities
    <2>1. PICK n \in DOMAIN Items[p] :
            /\ r.id = <<p, n>> /\ HasFacility(p, n, r)
            /\ n <= i[p]
            /\ pc[p] \in {"sport", "insertSport", "facility", "insertFacility"} => n < i[p]
      BY DEF MadeFacilities
    <2>2. pc'[p] \in {"sport", "insertSport", "facility", "insertFacility"} => n < i[p]
      BY <2>1
    <2> QED BY <1>2, <2>1, <2>2
  <1>8. Locks(p)'
    BY <1>1 DEF Locks, Sports
  <1> QED BY <1>3, <1>4, <1>5, <1>6, <1>7, <1>8

LEMMA BeginOK ==
    ASSUME Shape, NEW p \in Syncs, SyncOK(p), Begin(p), UNCHANGED setting
    PROVE  SyncOK(p)'
  <1>1. /\ pc[p] = "begin" /\ pc'[p] = IF Items[p] = << >> THEN "commit" ELSE "sport"
        /\ UNCHANGED <<tables, own, locked, i, st, fac>> /\ Items' = Items
    BY BeginFacts DEF Items
  <1>2. own[p] = NoRows /\ i[p] = 1 /\ locked[p] = {}
    BY <1>1 DEF SyncOK, Placed
  <1>3. Items[p] # << >> => 1 \in DOMAIN Items[p]
    BY ItemTypes
  <1>4. Items[p] = << >> => DOMAIN Items[p] = {}
    OBVIOUS
  <1>5. \A n \in DOMAIN Items[p] : ~(n < 1)
    BY ItemTypes
  <1> USE DEF SyncOK
  <1>6. Placed(p)'
    BY <1>1, <1>2, <1>3 DEF Placed
  <1>7. (MadeSports(p) /\ MadeFacilities(p) /\ MadeCourts(p))'
    BY <1>1, <1>2 DEF MadeSports, MadeFacilities, MadeCourts, NoRows
  <1>8. Current(p)' /\ Locks(p)'
    BY <1>1, <1>2 DEF Current, Locks, NoRows
  <1>9. Behind(p)' = {}
    BY <1>1, <1>2, <1>4, <1>5 DEF Behind
  <1>10. Recorded(p)'
    BY <1>9 DEF Recorded
  <1> QED BY <1>6, <1>7, <1>8, <1>10

LEMMA SelectSportOK ==
    ASSUME Shape, NEW p \in Syncs, SyncOK(p), SelectSport(p), UNCHANGED setting
    PROVE  SyncOK(p)'
  <1>1. /\ pc[p] = "sport"
        /\ \/ pc'[p] = "insertSport" /\ SportIds(p) = {} /\ UNCHANGED st
           \/ pc'[p] = "facility" /\ st'[p] \in SportIds(p)
        /\ UNCHANGED <<tables, own, locked, i, fac>>
    BY SelectSportFacts
  <1>2. Sports(p)' = Sports(p) /\ Items' = Items
    BY <1>1 DEF Sports, Items
  <1>3. Current(p)'
    <2>1. CASE pc'[p] = "insertSport"
      <3>1. \A r \in Sports(p) : r.name # Items[p][i[p]].sport
        BY <1>1, <2>1 DEF SportIds, Item
      <3>2. Items[p][i[p]].sport \notin locked[p]
        BY <3>1 DEF SyncOK, Locks
      <3> QED BY <1>1, <1>2, <2>1, <3>2 DEF Current
    <2>2. CASE pc'[p] = "facility"
      <3>1. \E s \in Sports(p) : HasSport(p, i[p], s) /\ s.id = st'[p]
        BY <1>1, <2>2 DEF SportIds, HasSport, Item
      <3>2. \A s \in Sports(p) : HasSport(p, i[p], s) => HasSport(p, i[p], s)'
        BY <1>1, <1>2 DEF HasSport
      <3> QED BY <1>1, <1>2, <2>2, <3>1, <3>2 DEF Current
    <2> QED BY <1>1, <2>1, <2>2
  <1> QED BY <1>1, <1>3, StayOK DEF Labels

LEMMA SelectFacilityOK ==
    ASSUME Shape, NEW p \in Syncs, SyncOK(p), SelectFacility(p), UNCHANGED setting
    PROVE  SyncOK(p)'
  <1>1. /\ pc[p] = "facility"
        /\ \/ pc'[p] = "insertFacility" /\ FacilityIds(p) = {} /\ UNCHANGED fac
           \/ pc'[p] = "court" /\ fac'[p] \in FacilityIds(p)
        /\ UNCHANGED <<tables, own, locked, i, st>>
    BY SelectFacilityFacts
  <1>2. /\ Sports(p)' = Sports(p) /\ Facilities(p)' = Facilities(p) /\ Courts(p)' = Courts(p)
        /\ Items' = Items
    BY <1>1 DEF Sports, Facilities, Courts, Items
  <1>3. \A n, x : /\ HasSport(p, n, x) => HasSport(p, n, x)'
                  /\ HasFacility(p, n, x) => HasFacility(p, n, x)'
    BY <1>2, SeeMore
  <1>4. \E s \in Sports(p) : HasSport(p, i[p], s) /\ s.id = st[p]
    BY <1>1 DEF SyncOK, Current
  <1>5. pc'[p] = "court" => \E f \in Facilities(p) : HasFacility(p, i[p], f) /\ f.id = fac'[p]
    BY <1>1, <1>4 DEF FacilityIds, HasFacility, Item
  <1>6. Current(p)'
    BY <1>1, <1>2, <1>3, <1>4, <1>5 DEF Current
  <1> QED BY <1>1, <1>6, StayOK DEF Labels

LEMMA InsertSportOK ==
    ASSUME Shape, NEW p \in Syncs, SyncOK(p), InsertSport(p), UNCHANGED setting
    PROVE  SyncOK(p)'
  <1>1. /\ pc[p] = "insertSport" /\ pc'[p] = "facility"
        /\ own'[p].sports = own[p].sports \cup NewSports(p)
        /\ own'[p].facilities = own[p].facilities
        /\ own'[p].courts = own[p].courts
        /\ st'[p] \in SportIds(p) \cup {r.id : r \in NewSports(p)}
        /\ locked'[p] = locked[p] \cup {Item(p).sport}
        /\ UNCHANGED <<tables, i, fac>>
    BY InsertSportFacts
  <1>2. /\ Sports(p)' = Sports(p) \cup NewSports(p)
        /\ Facilities(p)' = Facilities(p) /\ Courts(p)' = Courts(p)
        /\ Items' = Items
    BY <1>1 DEF Sports, Facilities, Courts, Items
  <1>3. \A n, x : /\ HasSport(p, n, x) => HasSport(p, n, x)'
                  /\ HasFacility(p, n, x) => HasFacility(p, n, x)'
                  /\ HasCourt(p, n, x) => HasCourt(p, n, x)'
    BY <1>2, SeeMore
  <1>4. PICK k \in DOMAIN Items[p] : k = i[p] /\ k \in Nat
    BY <1>1 DEF SyncOK, Placed, Shape
  <1>5. \A r \in NewSports(p) : r.id = <<p, k>> /\ HasSport(p, k, r)'
    BY <1>1, <1>2, <1>4 DEF NewSports, NewId, Item, HasSport
  <1> USE DEF SyncOK
  <1>6. Placed(p)'
    BY <1>1, <1>2, <1>4 DEF Placed
  <1>7. MadeSports(p)'
    BY <1>1, <1>2, <1>3, <1>4, <1>5 DEF MadeSports
  <1>8. MadeFacilities(p)'
    BY <1>1, <1>2, <1>3 DEF MadeFacilities
  <1>9. MadeCourts(p)'
    BY <1>1, <1>2, <1>3 DEF MadeCourts
  <1>10. \E s \in Sports(p)' : HasSport(p, k, s)' /\ s.id = st'[p]
    <2>1. CASE st'[p] \in SportIds(p)
      <3>1. \E s \in Sports(p) : HasSport(p, k, s) /\ s.id = st'[p]
        BY <1>4, <2>1 DEF SportIds, HasSport, Item
      <3> QED BY <1>2, <1>3, <3>1
    <2>2. CASE st'[p] \in {r.id : r \in NewSports(p)}
      BY <1>2, <1>5, <2>2
    <2> QED BY <1>1, <2>1, <2>2
  <1>11. Current(p)'
    BY <1>1, <1>4, <1>10 DEF Current
  <1>12. Recorded(p)'
    <2>1. Behind(p)' = Behind(p)
      BY <1>1, <1>2 DEF Behind
    <2> QED BY <1>1, <1>2, <1>3, <2>1 DEF Recorded, Labels
  <1>13. Locks(p)'
    <2>1. \A r \in own'[p].sports : r.name \in locked'[p]
      BY <1>1 DEF Locks, NewSports
    <2>2. \E r \in Sports(p)' : r.name = Items[p][k].sport
      BY <1>2, <1>10 DEF HasSport
    <2>3. Item(p).sport = Items[p][k].sport /\ k <= i'[p]
      BY <1>1, <1>4 DEF Item
    <2> QED BY <1>1, <1>2, <2>1, <2>2, <2>3 DEF Locks
  <1> QED BY <1>6, <1>7, <1>8, <1>9, <1>11, <1>12, <1>13

LEMMA InsertFacilityOK ==
    ASSUME Shape, NEW p \in Syncs, SyncOK(p), InsertFacility(p), UNCHANGED setting
    PROVE  SyncOK(p)'
  <1>0. PICK new : new = NewFacility(p)
    OBVIOUS
  <1>1. /\ pc[p] = "insertFacility" /\ pc'[p] = "court"
        /\ own'[p].sports = own[p].sports
        /\ own'[p].facilities = own[p].facilities \cup {new}
        /\ own'[p].courts = own[p].courts
        /\ fac'[p] \in FacilityIds(p) \cup {NewId(p)}
        /\ UNCHANGED <<tables, locked, i, st>>
    BY <1>0, InsertFacilityFacts
  <1>2. /\ Sports(p)' = Sports(p) /\ Courts(p)' = Courts(p)
        /\ Facilities(p)' = Facilities(p) \cup {new}
        /\ Items' = Items
    BY <1>1 DEF Sports, Facilities, Courts, Items
  <1>3. \A n, x : /\ HasSport(p, n, x) => HasSport(p, n, x)'
                  /\ HasFacility(p, n, x) => HasFacility(p, n, x)'
                  /\ HasCourt(p, n, x) => HasCourt(p, n, x)'
    BY <1>2, SeeMore
  <1>4. PICK k \in DOMAIN Items[p] : k = i[p] /\ k \in Nat
    BY <1>1 DEF SyncOK, Placed, Shape
  <1>5. \E s \in Sports(p) : HasSport(p, k, s) /\ s.id = st[p]
    BY <1>1, <1>4 DEF SyncOK, Current
  <1>6. /\ new.id = <<p, k>> /\ new.sport = st[p] /\ new.name = Items[p][k].facility
        /\ NewId(p) = <<p, k>>
    BY <1>0, <1>4 DEF NewFacility, NewId, Item
  <1>7. HasFacility(p, k, new)'
    BY <1>1, <1>2, <1>3, <1>5, <1>6 DEF HasFacility
  <1> USE DEF SyncOK
  <1>8. Placed(p)'
    BY <1>1, <1>2, <1>4 DEF Placed
  <1>9. MadeSports(p)'
    BY <1>1, <1>2, <1>3 DEF MadeSports
  <1>10. MadeFacilities(p)'
    <2> SUFFICES ASSUME NEW r \in own[p].facilities \cup {new}
                 PROVE  \E n \in DOMAIN Items[p] : r.id = <<p, n>> /\ HasFacility(p, n, r)' /\ n <= i[p]
      BY <1>1, <1>2 DEF MadeFacilities
    <2>1. CASE r = new
      BY <1>1, <1>4, <1>6, <1>7, <2>1
    <2>2. CASE r \in own[p].facilities
      BY <1>3, <2>2 DEF MadeFacilities
    <2> QED BY <2>1, <2>2
  <1>11. MadeCourts(p)'
    BY <1>1, <1>2, <1>3 DEF MadeCourts
  <1>12. \E f \in Facilities(p)' : HasFacility(p, k, f)' /\ f.id = fac'[p]
    <2>1. CASE fac'[p] \in FacilityIds(p)
      <3>1. \E f \in Facilities(p) : HasFacility(p, k, f) /\ f.id = fac'[p]
        BY <1>4, <1>5, <2>1 DEF FacilityIds, HasFacility, Item
      <3> QED BY <1>2, <1>3, <3>1
    <2>2. CASE fac'[p] = NewId(p)
      BY <1>2, <1>6, <1>7, <2>2
    <2> QED BY <1>1, <2>1, <2>2
  <1>13. Current(p)'
    BY <1>1, <1>2, <1>3, <1>4, <1>5, <1>12 DEF Current
  <1>14. Recorded(p)'
    <2>1. Behind(p)' = Behind(p)
      BY <1>1, <1>2 DEF Behind
    <2> QED BY <1>1, <1>2, <1>3, <2>1 DEF Recorded, Labels
  <1>15. Locks(p)'
    BY <1>1, <1>2 DEF Locks
  <1> QED BY <1>8, <1>9, <1>10, <1>11, <1>13, <1>14, <1>15

LEMMA InsertCourtOK ==
    ASSUME Shape, NEW p \in Syncs, SyncOK(p), InsertCourt(p), UNCHANGED setting
    PROVE  SyncOK(p)'
  <1>1. /\ pc[p] = "court"
        /\ own'[p].sports = own[p].sports
        /\ own'[p].facilities = own[p].facilities
        /\ own'[p].courts = own[p].courts \cup NewCourts(p)
        /\ i[p] \in 1..Len(Items[p])
        /\ \/ i[p] < Len(Items[p]) /\ pc'[p] = "sport" /\ i'[p] = i[p] + 1
           \/ i[p] = Len(Items[p]) /\ pc'[p] = "commit" /\ i'[p] = i[p]
        /\ UNCHANGED <<tables, locked, st, fac>>
    BY InsertCourtFacts
  <1>2. /\ Sports(p)' = Sports(p) /\ Facilities(p)' = Facilities(p)
        /\ Courts(p)' = Courts(p) \cup NewCourts(p)
        /\ Items' = Items
    BY <1>1 DEF Sports, Facilities, Courts, Items
  <1>3. \A n, x : /\ HasSport(p, n, x) => HasSport(p, n, x)'
                  /\ HasFacility(p, n, x) => HasFacility(p, n, x)'
                  /\ HasCourt(p, n, x) => HasCourt(p, n, x)'
    BY <1>2, SeeMore
  <1>4. /\ DOMAIN Items[p] = 1..Len(Items[p]) /\ Len(Items[p]) \in Nat
        /\ i[p] \in DOMAIN Items[p] /\ i'[p] \in DOMAIN Items[p]
        /\ i[p] <= i'[p] /\ (pc'[p] # "commit" => i[p] < i'[p])
    BY <1>1, ItemTypes
  <1>k. PICK k \in DOMAIN Items[p] : k = i[p]
    BY <1>4
  <1>5. \E f \in Facilities(p) : HasFacility(p, k, f) /\ f.id = fac[p]
    BY <1>k, <1>1 DEF SyncOK, Current
  <1>6. \A r \in NewCourts(p) : r.name # None /\ HasCourt(p, k, r)'
    <2>1. \A r \in NewCourts(p) : /\ r.name # None /\ r.name = Items[p][k].court
                                  /\ r.facility = fac[p]
      BY <1>k DEF NewCourts, Item
    <2>2. PICK f \in Facilities(p) : HasFacility(p, k, f) /\ f.id = fac[p]
      BY <1>5
    <2>3. f \in Facilities(p)' /\ HasFacility(p, k, f)'
      BY <1>2, <1>3, <2>2
    <2> QED BY <1>2, <2>1, <2>2, <2>3 DEF HasCourt
  <1> USE DEF SyncOK
  <1>7. Placed(p)'
    BY <1>1, <1>2, <1>4 DEF Placed
  <1>8. MadeSports(p)'
    <2> SUFFICES ASSUME NEW r \in own[p].sports
                 PROVE  \E n \in DOMAIN Items[p] :
                          /\ r.id = <<p, n>> /\ HasSport(p, n, r)'
                          /\ n <= i'[p] /\ (pc'[p] \in {"sport", "insertSport"} => n < i'[p])
      BY <1>1, <1>2 DEF MadeSports
    <2>1. PICK n \in DOMAIN Items[p] : r.id = <<p, n>> /\ HasSport(p, n, r) /\ n <= i[p]
      BY DEF MadeSports
    <2>2. n <= i'[p] /\ (pc'[p] \in {"sport", "insertSport"} => n < i'[p])
      BY <1>4, <2>1
    <2> QED BY <1>3, <2>1, <2>2
  <1>9. MadeFacilities(p)'
    <2> SUFFICES ASSUME NEW r \in own[p].facilities
                 PROVE  \E n \in DOMAIN Items[p] :
                          /\ r.id = <<p, n>> /\ HasFacility(p, n, r)'
                          /\ n <= i'[p]
                          /\ pc'[p] \in {"sport", "insertSport", "facility", "insertFacility"} =>
                               n < i'[p]
      BY <1>1, <1>2 DEF MadeFacilities
    <2>1. PICK n \in DOMAIN Items[p] : r.id = <<p, n>> /\ HasFacility(p, n, r) /\ n <= i[p]
      BY DEF MadeFacilities
    <2>2. /\ n <= i'[p]
          /\ pc'[p] \in {"sport", "insertSport", "facility", "insertFacility"} => n < i'[p]
      BY <1>4, <2>1
    <2> QED BY <1>3, <2>1, <2>2
  <1>10. MadeCourts(p)'
    BY <1>1, <1>2, <1>3, <1>4, <1>6 DEF MadeCourts
  <1>11. Current(p)'
    BY <1>1 DEF Current
  <1>12. Recorded(p)'
    <2>1. ASSUME NEW n \in DOMAIN Items[p], n < i'[p] \/ pc'[p] = "commit"
          PROVE  n < i[p] \/ n = k
      BY <1>k, <1>1, <1>4, <2>1
    <2>2. ASSUME NEW n \in Behind(p)
          PROVE  /\ \E f \in Facilities(p)' : HasFacility(p, n, f)'
                 /\ Items[p][n].court # None => \E c \in Courts(p)' : HasCourt(p, n, c)'
      <3>1. /\ \E f \in Facilities(p) : HasFacility(p, n, f)
            /\ Items[p][n].court # None => \E c \in Courts(p) : HasCourt(p, n, c)
        BY <1>1 DEF Recorded, Labels
      <3> QED BY <1>2, <1>3, <3>1
    <2>3. \E f \in Facilities(p)' : HasFacility(p, k, f)'
      BY <1>2, <1>3, <1>5
    <2>4. Items[p][k].court # None => \E c \in Courts(p)' : HasCourt(p, k, c)'
      <3>1. Items[p][k].court # None => \E c \in NewCourts(p) : TRUE
        BY <1>k DEF NewCourts, Item
      <3> QED BY <1>2, <1>6, <3>1
    <2> SUFFICES ASSUME NEW n \in DOMAIN Items[p], n < i'[p] \/ pc'[p] = "commit"
                 PROVE  /\ \E f \in Facilities(p)' : HasFacility(p, n, f)'
                        /\ Items[p][n].court # None => \E c \in Courts(p)' : HasCourt(p, n, c)'
      BY <1>2 DEF Recorded, Behind
    <2>5. n \in Behind(p) \/ n = k
      BY <2>1 DEF Behind
    <2> QED BY <2>2, <2>3, <2>4, <2>5
  <1>13. Locks(p)'
    <2> SUFFICES ASSUME NEW x \in locked[p]
                 PROVE  \E n \in DOMAIN Items[p] :
                          /\ x = Items[p][n].sport
                          /\ n <= i'[p] /\ (pc'[p] \in {"sport", "insertSport"} => n < i'[p])
      BY <1>1, <1>2 DEF Locks
    <2>1. PICK n \in DOMAIN Items[p] : x = Items[p][n].sport /\ n <= i[p]
      BY DEF Locks
    <2>2. n <= i'[p] /\ (pc'[p] \in {"sport", "insertSport"} => n < i'[p])
      BY <1>4, <2>1
    <2> QED BY <2>1, <2>2
  <1> QED BY <1>7, <1>8, <1>9, <1>10, <1>11, <1>12, <1>13

\* A transaction that is over has nothing left to show.
LEMMA OverOK ==
    ASSUME Shape, NEW p \in Syncs, SyncOK(p), UNCHANGED <<setting, i>>,
           own'[p] = NoRows, locked'[p] = {}, pc'[p] \in {"done", "failed"}
    PROVE  SyncOK(p)'
  <1>1. Items' = Items
    BY DEF Items
  <1>2. Placed(p)'
    BY <1>1 DEF SyncOK, Placed
  <1>3. (MadeSports(p) /\ MadeFacilities(p) /\ MadeCourts(p))'
    BY DEF MadeSports, MadeFacilities, MadeCourts, NoRows
  <1>4. (Current(p) /\ Locks(p) /\ Recorded(p))'
    BY DEF Current, Locks, Recorded, NoRows
  <1> QED BY <1>2, <1>3, <1>4 DEF SyncOK

LEMMA SyncStep ==
    ASSUME Shape, \A q \in Syncs : SyncOK(q), NEW p \in Syncs, Step(p), UNCHANGED setting
    PROVE  \A q \in Syncs : SyncOK(q)'
  <1>1. \A q \in Syncs \ {p} : SyncOK(q)'
    BY StepFrame, Elsewhere
  <1>2. SyncOK(p)'
    BY BeginOK, SelectSportOK, InsertSportOK, SelectFacilityOK, InsertFacilityOK, InsertCourtOK,
       OverOK, CommitFacts, FailFacts DEF Step
  <1> QED BY <1>1, <1>2

-----------------------------------------------------------------------------
(* The rows of all syncs together *)

\* A sync that takes a step other than its first is at work; none is done.
LEMMA AtWork ==
    ASSUME Shape, NEW p \in Syncs, SyncOK(p), Step(p)
    PROVE  /\ pc[p] # "done"
           /\ Begin(p) \/ Running(p)
           /\ pc'[p] \in {"begin", "done", "failed"} => Commit(p) \/ Fail(p)
  <1>1. CASE Begin(p)
    BY <1>1, BeginFacts
  <1>2. CASE SelectSport(p)
    BY <1>2, SelectSportFacts DEF Running
  <1>3. CASE InsertSport(p) \/ SelectFacility(p)
    BY <1>3 DEF InsertSport, SelectFacility, Goto, Shape, Running
  <1>4. CASE InsertFacility(p) \/ InsertCourt(p)
    BY <1>4, InsertFacilityFacts, InsertCourtFacts DEF Running
  <1>5. CASE Commit(p)
    BY <1>5, CommitFacts DEF Running
  <1>6. CASE Fail(p)
    BY <1>6, FailFacts DEF Running
  <1> QED BY <1>1, <1>2, <1>3, <1>4, <1>5, <1>6 DEF Step

LEMMA DoneRowsStep ==
    ASSUME Shape, \A q \in Syncs : SyncOK(q), DoneRows, NEW p \in Syncs, Step(p), UNCHANGED setting
    PROVE  DoneRows'
  <1>1. /\ \A r \in tables.sports \cup tables.facilities : r.id[1] \in Syncs
        /\ pc[p] # "done" /\ \A q \in Syncs \ {p} : pc'[q] = pc[q]
    BY AtWork, StepFrame DEF Shape, Rows, Ids, Frame, Same
  <1>2. \A r \in tables.sports \cup tables.facilities : pc'[r.id[1]] = "done"
    BY <1>1 DEF DoneRows
  <1>3. CASE UNCHANGED tables
    BY <1>2, <1>3 DEF DoneRows
  <1>4. CASE Commit(p)
    <2>1. pc'[p] = "done"
      BY <1>4, CommitFacts
    <2>2. \A r \in own[p].sports \cup own[p].facilities : r.id[1] = p
      BY DEF SyncOK, MadeSports, MadeFacilities
    <2>3. \A r \in own[p].courts : r.name # None
      BY DEF SyncOK, MadeCourts
    <2> QED BY <1>2, <1>4, <2>1, <2>2, <2>3, CommitTables DEF DoneRows
  <1> QED BY <1>3, <1>4 DEF Step, Begin, SelectSport, InsertSport, SelectFacility, InsertFacility,
                            InsertCourt, Fail

\* Fewer rows cannot spoil uniqueness.
LEMMA FewerRows ==
    ASSUME OneRow, AllSports' \subseteq AllSports, AllFacilities' \subseteq AllFacilities
    PROVE  OneRow'
  BY DEF OneRow

LEMMA OneRowStep ==
    ASSUME Shape, \A q \in Syncs : SyncOK(q), DoneRows, OneRow, NEW p \in Syncs, Step(p),
           UNCHANGED setting
    PROVE  OneRow'
  <1>0. \A q \in Syncs \ {p} : own'[q] = own[q]
    BY StepFrame DEF Frame, Same
  <1>1. ASSUME UNCHANGED tables, own'[p].sports \subseteq own[p].sports,
               own'[p].facilities \subseteq own[p].facilities
        PROVE  OneRow'
    <2>1. AllSports' \subseteq AllSports /\ AllFacilities' \subseteq AllFacilities
      BY <1>0, <1>1 DEF AllSports, AllFacilities
    <2> QED BY <2>1, FewerRows
  <1>2. CASE Begin(p) \/ SelectSport(p) \/ SelectFacility(p)
    BY <1>1, <1>2 DEF Begin, SelectSport, SelectFacility
  <1>3. CASE InsertCourt(p)
    BY <1>1, <1>3, InsertCourtFacts
  <1>4. CASE Fail(p)
    BY <1>1, <1>4, FailFacts DEF NoRows
  <1>5. CASE Commit(p)
    <2>1. AllSports' \subseteq AllSports /\ AllFacilities' \subseteq AllFacilities
      BY <1>0, <1>5, CommitTables, CommitFacts DEF AllSports, AllFacilities, NoRows
    <2> QED BY <2>1, FewerRows
  <1>6. CASE InsertSport(p)
    <2>1. /\ pc[p] = "insertSport"
          /\ \A q \in Syncs : ~Blocks(q, p)
          /\ own'[p].sports = own[p].sports \cup NewSports(p)
          /\ own'[p].facilities = own[p].facilities
          /\ UNCHANGED tables
      BY <1>6, InsertSportFacts
    <2>2. AllSports' = AllSports \cup NewSports(p) /\ AllFacilities' = AllFacilities
      BY <1>0, <2>1 DEF AllSports, AllFacilities
    <2>3. ASSUME NEW r \in NewSports(p), NEW s \in AllSports PROVE r.name # s.name /\ r.id # s.id
      <3>1. SportIds(p) = {} /\ r.id = <<p, i[p]>> /\ r.name = Item(p).sport
        BY DEF NewSports, NewId
      <3>2. CASE s \in tables.sports
        BY <2>1, <3>1, <3>2 DEF SportIds, Sports, DoneRows
      <3>3. CASE s \in own[p].sports
        <4>1. s.name # r.name
          BY <3>1, <3>3 DEF SportIds, Sports
        <4>2. PICK n \in DOMAIN Items[p] : s.id = <<p, n>> /\ n < i[p]
          BY <2>1, <3>3 DEF SyncOK, MadeSports
        <4>3. n # i[p]
          BY <4>2, ItemTypes DEF Shape
        <4> QED BY <3>1, <4>1, <4>2, <4>3
      <3>4. ASSUME NEW q \in Syncs \ {p}, s \in own[q].sports PROVE r.name # s.name /\ r.id # s.id
        <4>1. s.name # r.name
          BY <2>1, <3>1, <3>4 DEF Blocks, SyncOK, Locks
        <4>2. \E n : s.id = <<q, n>>
          BY <3>4 DEF SyncOK, MadeSports
        <4> QED BY <3>1, <4>1, <4>2
      <3> QED BY <3>2, <3>3, <3>4 DEF AllSports
    <2>4. \A r, s \in NewSports(p) : r = s
      BY DEF NewSports
    <2> QED BY <2>2, <2>3, <2>4 DEF OneRow
  <1>7. CASE InsertFacility(p)
    <2>1. /\ pc[p] = "insertFacility"
          /\ own'[p].sports = own[p].sports
          /\ own'[p].facilities = own[p].facilities \cup {NewFacility(p)}
          /\ UNCHANGED tables
      BY <1>7, InsertFacilityFacts
    <2>2. AllSports' = AllSports /\ AllFacilities' = AllFacilities \cup {NewFacility(p)}
      BY <1>0, <2>1 DEF AllSports, AllFacilities
    <2>3. ASSUME NEW s \in AllFacilities PROVE NewFacility(p).id # s.id
      <3>1. NewFacility(p).id = <<p, i[p]>>
        BY DEF NewFacility, NewId
      <3>2. CASE s \in tables.facilities
        BY <2>1, <3>1, <3>2 DEF DoneRows
      <3>3. CASE s \in own[p].facilities
        <4>1. PICK n \in DOMAIN Items[p] : s.id = <<p, n>> /\ n < i[p]
          BY <2>1, <3>3 DEF SyncOK, MadeFacilities
        <4>2. n # i[p]
          BY <4>1, ItemTypes DEF Shape
        <4> QED BY <3>1, <4>1, <4>2
      <3>4. ASSUME NEW q \in Syncs \ {p}, s \in own[q].facilities PROVE NewFacility(p).id # s.id
        <4>1. \E n : s.id = <<q, n>>
          BY <3>4 DEF SyncOK, MadeFacilities
        <4> QED BY <3>1, <4>1
      <3> QED BY <3>2, <3>3, <3>4 DEF AllFacilities
    <2> QED BY <2>2, <2>3 DEF OneRow
  <1> QED BY <1>2, <1>3, <1>4, <1>5, <1>6, <1>7 DEF Step

LEMMA NoOrphansStep ==
    ASSUME Shape, \A q \in Syncs : SyncOK(q), NoOrphans, NEW p \in Syncs, Step(p), UNCHANGED setting
    PROVE  NoOrphans'
  <1>1. CASE UNCHANGED tables
    BY <1>1 DEF NoOrphans
  <1>2. CASE Commit(p)
    <2>1. \A f \in own[p].facilities : \E r \in Sports(p) : r.id = f.sport
      BY DEF SyncOK, MadeFacilities, HasFacility
    <2>2. \A c \in own[p].courts : \E f \in Facilities(p) : f.id = c.facility
      BY DEF SyncOK, MadeCourts, HasCourt
    <2> QED BY <1>2, <2>1, <2>2, CommitTables DEF NoOrphans, Sports, Facilities
  <1> QED BY <1>1, <1>2 DEF Step, Begin, SelectSport, InsertSport, SelectFacility, InsertFacility,
                            InsertCourt, Fail

LEMMA OneByOneStep ==
    ASSUME Shape, \A q \in Syncs : SyncOK(q), OneByOne, NEW p \in Syncs, Step(p), UNCHANGED setting
    PROVE  OneByOne'
  <1> SUFFICES ASSUME ~setting.overlap PROVE OneByOne'
    BY DEF OneByOne
  <1>0. \A q \in Syncs \ {p} : own'[q] = own[q] /\ pc'[q] = pc[q]
    BY StepFrame DEF Frame, Same
  <1>1. \A q \in Syncs \ {p} : ~Running(q) /\ own[q] = NoRows
    <2>1. \A q \in Syncs \ {p} : ~Running(q)
      BY AtWork, BeginFacts DEF OneByOne
    <2> QED BY <2>1 DEF SyncOK, Placed, Running
  <1>2. \A q, x \in Syncs : Running(q)' /\ Running(x)' => q = x
    BY <1>0, <1>1 DEF Running
  <1>3. \A q \in Syncs \ {p} : pc'[q] # "insertFacility"
    BY <1>0, <1>1 DEF Running
  <1>4. \A q \in Syncs \ {p} : Facilities(q) = tables.facilities /\ Facilities(q)' = tables'.facilities
    BY <1>0, <1>1 DEF Facilities, NoRows
  <1>5. ASSUME Facilities(p)' \subseteq Facilities(p), tables'.facilities \subseteq Facilities(p),
               pc'[p] = "insertFacility" => FacilityIds(p)' = {}
        PROVE  OneByOne'
    <2>1. \A q \in Syncs : Facilities(q)' \subseteq Facilities(p)
      BY <1>4, <1>5
    <2>2. \A q \in Syncs : \A f, g \in Facilities(q)' : f.sport = g.sport /\ f.name = g.name => f = g
      BY <2>1 DEF OneByOne
    <2> QED BY <1>2, <1>3, <1>5, <2>2 DEF OneByOne
  <1>6. CASE UNCHANGED <<tables, own>> /\ (pc'[p] = "insertFacility" => FacilityIds(p)' = {})
    BY <1>5, <1>6 DEF Facilities
  <1>7. CASE Begin(p)
    BY <1>6, <1>7, BeginFacts
  <1>8. CASE SelectSport(p)
    BY <1>6, <1>8, SelectSportFacts
  <1>9. CASE SelectFacility(p)
    <2>1. pc'[p] = "insertFacility" => FacilityIds(p) = {}
      BY <1>9, SelectFacilityFacts
    <2>2. UNCHANGED <<tables, own, locked, i, st>>
      BY <1>9, SelectFacilityFacts
    <2>3. FacilityIds(p)' = FacilityIds(p)
      BY <2>2 DEF FacilityIds, Facilities, Item, Items
    <2> QED BY <1>6, <2>1, <2>2, <2>3
  <1>10. CASE InsertSport(p) \/ InsertCourt(p)
    <2>1. /\ pc'[p] # "insertFacility" /\ UNCHANGED tables
          /\ own'[p].facilities = own[p].facilities
      BY <1>10, InsertSportFacts, InsertCourtFacts
    <2> QED BY <1>5, <2>1 DEF Facilities
  <1>11. CASE Commit(p)
    <2>1. tables'.facilities = Facilities(p) /\ own'[p] = NoRows /\ pc'[p] = "done"
      BY <1>11, CommitTables, CommitFacts DEF Facilities
    <2> QED BY <1>5, <2>1 DEF Facilities, NoRows
  <1>12. CASE Fail(p)
    <2>1. UNCHANGED tables /\ own'[p] = NoRows /\ pc'[p] = "failed"
      BY <1>12, FailFacts
    <2> QED BY <1>5, <2>1 DEF Facilities, NoRows
  <1>13. CASE InsertFacility(p)
    <2>1. /\ pc[p] = "insertFacility" /\ pc'[p] = "court" /\ UNCHANGED tables
          /\ own'[p].facilities = own[p].facilities \cup {NewFacility(p)}
      BY <1>13, InsertFacilityFacts
    <2>2. \A f \in Facilities(p) : ~(f.sport = NewFacility(p).sport /\ f.name = NewFacility(p).name)
      BY <2>1 DEF OneByOne, FacilityIds, NewFacility
    <2>3. Facilities(p)' = Facilities(p) \cup {NewFacility(p)}
      BY <2>1 DEF Facilities
    <2>4. \A f, g \in Facilities(p)' : f.sport = g.sport /\ f.name = g.name => f = g
      BY <2>2, <2>3 DEF OneByOne
    <2>5. \A q \in Syncs : Facilities(q)' \subseteq Facilities(p)'
      BY <1>4, <2>1 DEF Facilities
    <2>6. \A q \in Syncs : \A f, g \in Facilities(q)' : f.sport = g.sport /\ f.name = g.name => f = g
      BY <2>4, <2>5
    <2> QED BY <1>2, <1>3, <2>1, <2>6 DEF OneByOne
  <1> QED BY <1>7, <1>8, <1>9, <1>10, <1>11, <1>12, <1>13 DEF Step

\* A set of natural numbers has a smallest one.
LEMMA Smallest ==
    ASSUME NEW S, S \subseteq Nat, S # {}
    PROVE  \E m \in S : \A n \in S : m <= n
  <1> DEFINE R == OpToRel(<, Nat)
  <1>1. IsWellFoundedOn(R, Nat)
    BY NatLessThanWellFounded
  <1>2. ASSUME NEW x \in Nat, NEW y \in Nat, <<y, x>> \notin R
        PROVE  x <= y
    <2>1. <<y, x>> \in Nat \X Nat /\ <<y, x>>[1] = y /\ <<y, x>>[2] = x
      OBVIOUS
    <2>2. ~(y < x)
      BY <1>2, <2>1, Zenon DEF OpToRel
    <2> QED BY <2>2
  <1> HIDE DEF R
  <1>3. PICK x \in S : \A y \in S : ~ (<<y, x>> \in R)
    BY <1>1, WFMin, Zenon
  <1> QED BY <1>2, <1>3

\* One that waits wants a sport the site lists after all the holder has come across.
LEMMA WaitsUp ==
    ASSUME Shape, OneOrder, NEW q \in Syncs, NEW r \in Syncs, SyncOK(q), Blocks(q, r),
           pc[q] = "insertSport"
    PROVE  SiteOrder[Item(r).sport] < SiteOrder[Item(q).sport]
  <1>1. PICK n \in DOMAIN Items[q] : Item(r).sport = Items[q][n].sport /\ n < i[q]
    BY DEF Blocks, SyncOK, Locks
  <1>2. PICK k \in DOMAIN Items[q] : k = i[q]
    BY DEF SyncOK, Placed
  <1>3. Items[q][n].sport # Items[q][k].sport
    BY <1>1, <1>2 DEF SyncOK, Current, Blocks
  <1> QED BY <1>1, <1>2, <1>3 DEF OneOrder, Item

\* So none of a circle can hold what the site lists first of all they wait for.
LEMMA NoCircle ==
    ASSUME Shape, OneOrder, \A q \in Syncs : SyncOK(q), NEW p \in Syncs
    PROVE  ~Deadlocked(p)
  <1> SUFFICES ASSUME NEW C \in SUBSET Syncs, p \in C,
                      \A q \in C : (\E r \in C : Blocks(r, q)) /\ (\E r \in C : Blocks(q, r))
               PROVE  FALSE
    BY DEF Deadlocked
  <1>1. \A q \in C : pc[q] = "insertSport" /\ Item(q).sport \in Names
    <2> SUFFICES ASSUME NEW q \in C PROVE pc[q] = "insertSport" /\ Item(q).sport \in Names
      OBVIOUS
    <2>1. pc[q] = "insertSport"
      BY DEF Blocks
    <2>2. i[q] \in DOMAIN Items[q]
      BY <2>1 DEF SyncOK, Placed
    <2> QED BY <2>1, <2>2, ItemTypes DEF Item, FoundItem
  <1> DEFINE Place(q) == SiteOrder[Item(q).sport]
             Places == {Place(q) : q \in C}
  <1>2. Places \subseteq Nat /\ Places # {}
    <2>1. \A q \in C : Place(q) \in Nat
      BY <1>1, CatalogAssumption
    <2>2. Place(p) \in Places
      OBVIOUS
    <2> QED BY <2>1, <2>2
  <1>3. PICK m \in Places : \A n \in Places : m <= n
    <2> HIDE DEF Places
    <2> QED BY <1>2, Smallest
  <1>4. PICK q \in C : m = Place(q)
    OBVIOUS
  <1>5. PICK r \in C : Blocks(q, r)
    OBVIOUS
  <1>6. Place(r) < Place(q)
    BY <1>1, <1>5, WaitsUp
  <1>7. m <= Place(r) /\ m \in Nat /\ Place(r) \in Nat
    BY <1>2, <1>3
  <1> QED BY <1>4, <1>6, <1>7

LEMMA NoSyncFailsStep ==
    ASSUME Shape, \A q \in Syncs : SyncOK(q), NoSyncFails, NEW p \in Syncs, Step(p), UNCHANGED setting
    PROVE  NoSyncFails'
  <1>1. OneOrder' = OneOrder
    BY DEF OneOrder, Items
  <1> SUFFICES ASSUME OneOrder, ~setting.faults PROVE \A q \in Syncs : pc'[q] # "failed"
    BY <1>1 DEF NoSyncFails
  <1>2. ~Fail(p)
    BY NoCircle DEF Fail
  <1>3. pc'[p] # "failed"
    BY <1>2, AtWork, CommitFacts
  <1> QED BY <1>3, StepFrame DEF NoSyncFails, Frame, Same

-----------------------------------------------------------------------------
(* The invariant *)

LEMMA InitInv == Init => IndInv
  <1> SUFFICES ASSUME Init PROVE IndInv
    OBVIOUS
  <1>1. Shape
    BY RowTypes DEF Init, Shape, Labels
  <1>2. ASSUME NEW p \in Syncs PROVE SyncOK(p)
    <2>1. pc[p] = "begin" /\ i[p] = 1 /\ own[p] = NoRows /\ locked[p] = {}
      BY DEF Init
    <2> QED BY <2>1 DEF SyncOK, Placed, MadeSports, MadeFacilities, MadeCourts, Locks, Current,
                        Recorded, NoRows
  <1>3. tables = NoRows /\ \A p \in Syncs : own[p] = NoRows /\ pc[p] = "begin"
    BY DEF Init
  <1>4. DoneRows /\ NoOrphans /\ NoSyncFails
    BY <1>3 DEF DoneRows, NoOrphans, NoSyncFails, NoRows
  <1>5. AllSports = {} /\ AllFacilities = {}
    BY <1>3 DEF AllSports, AllFacilities, NoRows
  <1>6. OneRow
    BY <1>5 DEF OneRow
  <1>7. (\A p \in Syncs : ~Running(p) /\ pc[p] # "insertFacility" /\ Facilities(p) = {})
    BY <1>3 DEF Running, Facilities, NoRows
  <1>8. OneByOne
    BY <1>7 DEF OneByOne
  <1> QED BY <1>1, <1>2, <1>4, <1>6, <1>8 DEF IndInv

LEMMA Stutter == IndInv /\ UNCHANGED vars => IndInv'
  <1> SUFFICES ASSUME IndInv, UNCHANGED vars PROVE IndInv'
    OBVIOUS
  <1> USE DEF vars
  <1>1. Shape'
    BY DEF IndInv, Shape
  <1>2. \A p \in Syncs : SyncOK(p)'
    BY DEF IndInv, SyncOK, Placed, MadeSports, MadeFacilities, MadeCourts, Locks, Current,
           Recorded, Behind, HasSport, HasFacility, HasCourt, Sports, Facilities, Courts, Items
  <1>3. DoneRows' /\ NoOrphans' /\ NoSyncFails'
    BY DEF IndInv, DoneRows, NoOrphans, NoSyncFails, OneOrder, Items
  <1>4. OneRow'
    BY DEF IndInv, OneRow, AllSports, AllFacilities
  <1>5. OneByOne'
    BY DEF IndInv, OneByOne, Running, Facilities, FacilityIds, Item, Items
  <1> QED BY <1>1, <1>2, <1>3, <1>4, <1>5 DEF IndInv

LEMMA NextInv == IndInv /\ [Next]_vars => IndInv'
  <1> SUFFICES ASSUME IndInv, [Next]_vars PROVE IndInv'
    OBVIOUS
  <1>1. ASSUME NEW p \in Syncs, Step(p), UNCHANGED setting PROVE IndInv'
    <2>1. Shape' /\ \A q \in Syncs : SyncOK(q)'
      BY <1>1, ShapeStep, SyncStep DEF IndInv
    <2>2. DoneRows' /\ NoOrphans' /\ NoSyncFails'
      BY <1>1, DoneRowsStep, NoOrphansStep, NoSyncFailsStep DEF IndInv
    <2>3. OneRow' /\ OneByOne'
      BY <1>1, OneRowStep, OneByOneStep DEF IndInv
    <2> QED BY <2>1, <2>2, <2>3 DEF IndInv
  <1> QED BY <1>1, Stutter DEF Next

LEMMA Invariance == Spec => []IndInv
  BY InitInv, NextInv, PTL DEF Spec

-----------------------------------------------------------------------------
(* What follows from it *)

LEMMA SafeTables == IndInv => CatalogInv
  <1> SUFFICES ASSUME IndInv PROVE CatalogInv
    OBVIOUS
  <1>1. Shape /\ None \notin Ids
    BY CatalogAssumption DEF IndInv, Ids
  <1>2. ASSUME NEW p \in Syncs
        PROVE  /\ i[p] \in {1} \cup DOMAIN Items[p]
               /\ pc[p] \in {"facility", "insertFacility", "court"} => st[p] # None
               /\ pc[p] = "court" => fac[p] # None
               /\ pc[p] \in {"begin", "done", "failed"} => own[p] = NoRows /\ locked[p] = {}
    <2>1. /\ \A s \in Sports(p) : s.id \in Ids
          /\ \A f \in Facilities(p) : f.id \in Ids
      BY <1>1 DEF Shape, Rows, Sports, Facilities
    <2>2. SyncOK(p)
      BY DEF IndInv
    <2> QED BY <1>1, <2>1, <2>2 DEF SyncOK, Placed, Current
  <1>3. ASSUME NEW t \in {tables} \cup {own[p] : p \in Syncs}
        PROVE  /\ \A r \in t.facilities : r.sport # None
               /\ \A r \in t.courts : r.facility # None /\ r.name # None
    <2>1. t \in Rows
      BY <1>1 DEF Shape
    <2>2. /\ \A r \in t.facilities : r.sport # None
          /\ \A r \in t.courts : r.facility # None
      BY <1>1, <2>1 DEF Rows
    <2>3. \A r \in t.courts : r.name # None
      BY DEF IndInv, DoneRows, SyncOK, MadeCourts
    <2> QED BY <2>2, <2>3
  <1>4. TypeOK
    BY <1>2, <1>3 DEF TypeOK
  <1>5. NoOrphans /\ SportOnce
    BY DEF IndInv, OneRow, AllSports, SportOnce
  <1>6. FacilityOnce
    <2> SUFFICES ASSUME ~setting.overlap, NEW f \in tables.facilities, NEW g \in tables.facilities,
                        f.sport = g.sport, f.name = g.name
                 PROVE  f = g
      BY DEF FacilityOnce
    <2>1. PICK p \in Syncs : p = f.id[1]
      BY <1>1 DEF Shape, Rows, Ids
    <2>2. f \in Facilities(p) /\ g \in Facilities(p)
      BY DEF Facilities
    <2> QED BY <2>2 DEF IndInv, OneByOne
  <1> QED BY <1>4, <1>5, <1>6 DEF CatalogInv

\* The names that hang together in three tables, row by row.
LEMMA HangTogether ==
    ASSUME NEW S, NEW F, NEW C, NEW o
    PROVE  o \in {[sport |-> x[1].name, facility |-> x[2].name, court |-> None] :
                    x \in {y \in S \X F : y[2].sport = y[1].id}}
                 \cup
                 {[sport |-> x[1].name, facility |-> x[2].name, court |-> x[3].name] :
                    x \in {y \in S \X F \X C : y[2].sport = y[1].id /\ y[3].facility = y[2].id}}
           <=> \E s \in S, f \in F :
                 /\ f.sport = s.id
                 /\ \/ o = [sport |-> s.name, facility |-> f.name, court |-> None]
                    \/ \E c \in C :
                         /\ c.facility = f.id
                         /\ o = [sport |-> s.name, facility |-> f.name, court |-> c.name]
  <1> DEFINE Pairs == {y \in S \X F : y[2].sport = y[1].id}
             Triples == {y \in S \X F \X C : y[2].sport = y[1].id /\ y[3].facility = y[2].id}
             Pair(x) == [sport |-> x[1].name, facility |-> x[2].name, court |-> None]
             Triple(x) == [sport |-> x[1].name, facility |-> x[2].name, court |-> x[3].name]
  <1>1. ASSUME NEW x \in Pairs PROVE x[1] \in S /\ x[2] \in F /\ x[2].sport = x[1].id
    OBVIOUS
  <1>2. ASSUME NEW x \in Triples
        PROVE  /\ x[1] \in S /\ x[2] \in F /\ x[3] \in C
               /\ x[2].sport = x[1].id /\ x[3].facility = x[2].id
    OBVIOUS
  <1>3. ASSUME NEW s \in S, NEW f \in F, f.sport = s.id
        PROVE  <<s, f>> \in Pairs
    BY <1>3
  <1>4. ASSUME NEW s \in S, NEW f \in F, NEW c \in C, f.sport = s.id, c.facility = f.id
        PROVE  <<s, f, c>> \in Triples
    BY <1>4
  <1>5. \A s, f : Pair(<<s, f>>) = [sport |-> s.name, facility |-> f.name, court |-> None]
    OBVIOUS
  <1>6. \A s, f, c :
          Triple(<<s, f, c>>) = [sport |-> s.name, facility |-> f.name, court |-> c.name]
    OBVIOUS
  <1> HIDE DEF Pairs, Triples
  <1>7. (\E x \in Pairs : o = Pair(x)) <=>
          \E s \in S, f \in F : /\ f.sport = s.id
                               /\ o = [sport |-> s.name, facility |-> f.name, court |-> None]
    <2>1. ASSUME NEW x \in Pairs, o = Pair(x)
          PROVE  \E s \in S, f \in F :
                   f.sport = s.id /\ o = [sport |-> s.name, facility |-> f.name, court |-> None]
      BY <1>1, <2>1
    <2>2. ASSUME NEW s \in S, NEW f \in F, f.sport = s.id,
                 o = [sport |-> s.name, facility |-> f.name, court |-> None]
          PROVE  \E x \in Pairs : o = Pair(x)
      <3>1. <<s, f>> \in Pairs
        BY <1>3, <2>2
      <3>2. o = Pair(<<s, f>>)
        BY <1>5, <2>2
      <3> QED BY <3>1, <3>2
    <2> QED BY <2>1, <2>2
  <1>8. (\E x \in Triples : o = Triple(x)) <=>
          \E s \in S, f \in F, c \in C :
            /\ f.sport = s.id /\ c.facility = f.id
            /\ o = [sport |-> s.name, facility |-> f.name, court |-> c.name]
    <2>1. ASSUME NEW x \in Triples, o = Triple(x)
          PROVE  \E s \in S, f \in F, c \in C :
                   /\ f.sport = s.id /\ c.facility = f.id
                   /\ o = [sport |-> s.name, facility |-> f.name, court |-> c.name]
      BY <1>2, <2>1
    <2>2. ASSUME NEW s \in S, NEW f \in F, NEW c \in C, f.sport = s.id, c.facility = f.id,
                 o = [sport |-> s.name, facility |-> f.name, court |-> c.name]
          PROVE  \E x \in Triples : o = Triple(x)
      <3>1. <<s, f, c>> \in Triples
        BY <1>4, <2>2
      <3>2. o = Triple(<<s, f, c>>)
        BY <1>6, <2>2
      <3> QED BY <3>1, <3>2
    <2> QED BY <2>1, <2>2
  <1>9. o \in {Pair(x) : x \in Pairs} \cup {Triple(x) : x \in Triples} <=>
          (\E x \in Pairs : o = Pair(x)) \/ (\E x \in Triples : o = Triple(x))
    OBVIOUS
  <1>10. o \in {Pair(x) : x \in Pairs} \cup {Triple(x) : x \in Triples} <=>
           \E s \in S, f \in F :
             /\ f.sport = s.id
             /\ \/ o = [sport |-> s.name, facility |-> f.name, court |-> None]
                \/ \E c \in C : /\ c.facility = f.id
                                /\ o = [sport |-> s.name, facility |-> f.name, court |-> c.name]
    BY <1>7, <1>8, <1>9
  <1> QED BY <1>10 DEF Pairs, Triples

\* What the lists offer, row by row.
LEMMA OfferedIs ==
    ASSUME NEW o
    PROVE  o \in Offered <=>
             \E s \in tables.sports, f \in tables.facilities :
               /\ f.sport = s.id
               /\ \/ o = [sport |-> s.name, facility |-> f.name, court |-> None]
                  \/ \E c \in tables.courts :
                       /\ c.facility = f.id
                       /\ o = [sport |-> s.name, facility |-> f.name, court |-> c.name]
  BY HangTogether DEF Offered

\* The same of the tables a commit leaves.
LEMMA OfferedThen ==
    ASSUME Shape, NEW p \in Syncs, Commit(p), NEW o
    PROVE  o \in Offered' <=>
             \E s \in Sports(p), f \in Facilities(p) :
               /\ f.sport = s.id
               /\ \/ o = [sport |-> s.name, facility |-> f.name, court |-> None]
                  \/ \E c \in Courts(p) :
                       /\ c.facility = f.id
                       /\ o = [sport |-> s.name, facility |-> f.name, court |-> c.name]
  <1>1. /\ tables'.sports = Sports(p) /\ tables'.facilities = Facilities(p)
        /\ tables'.courts = Courts(p)
    BY CommitTables DEF Sports, Facilities, Courts
  <1>2. o \in Offered' <=>
             \E s \in tables'.sports, f \in tables'.facilities :
               /\ f.sport = s.id
               /\ \/ o = [sport |-> s.name, facility |-> f.name, court |-> None]
                  \/ \E c \in tables'.courts :
                       /\ c.facility = f.id
                       /\ o = [sport |-> s.name, facility |-> f.name, court |-> c.name]
    BY HangTogether DEF Offered
  <1> QED BY <1>1, <1>2

\* An item, and its sport and facility alone, as records.
LEMMA ItemRecords ==
    ASSUME Shape, NEW p \in Syncs, NEW n \in DOMAIN Items[p]
    PROVE  /\ Items[p][n] = [sport |-> Items[p][n].sport, facility |-> Items[p][n].facility,
                             court |-> Items[p][n].court]
           /\ [Items[p][n] EXCEPT !.court = None] =
                [sport |-> Items[p][n].sport, facility |-> Items[p][n].facility, court |-> None]
  BY ItemTypes DEF FoundItem

\* What a commit adds is among the items of its sync.
LEMMA OnlyItems ==
    ASSUME IndInv, NEW p \in Syncs, Commit(p), NEW o \in Offered'
    PROVE  o \in Offered \cup ItemsOf(p)
  <1>1. Shape /\ SyncOK(p) /\ OneRow /\ NoOrphans
    BY DEF IndInv
  <1>2. PICK s \in Sports(p), f \in Facilities(p) :
          /\ f.sport = s.id
          /\ \/ o = [sport |-> s.name, facility |-> f.name, court |-> None]
             \/ \E c \in Courts(p) :
                  /\ c.facility = f.id
                  /\ o = [sport |-> s.name, facility |-> f.name, court |-> c.name]
    BY <1>1, OfferedThen
  <1>3. Sports(p) \subseteq AllSports /\ Facilities(p) \subseteq AllFacilities
    BY DEF Sports, Facilities, AllSports, AllFacilities
  <1>4. ASSUME f \in tables.facilities PROVE s \in tables.sports
    BY <1>1, <1>2, <1>3, <1>4 DEF NoOrphans, OneRow, Sports
  <1>5. ASSUME NEW n \in DOMAIN Items[p], HasFacility(p, n, f)
        PROVE  s.name = Items[p][n].sport /\ f.name = Items[p][n].facility
    <2>1. PICK z \in Sports(p) : z.name = Items[p][n].sport /\ z.id = f.sport
      BY <1>5 DEF HasFacility, HasSport
    <2>2. z = s
      BY <1>1, <1>2, <1>3, <2>1 DEF OneRow
    <2> QED BY <1>5, <2>1, <2>2 DEF HasFacility
  <1>6. CASE o = [sport |-> s.name, facility |-> f.name, court |-> None]
    <2>1. CASE f \in tables.facilities
      BY <1>2, <1>4, <1>6, <2>1, OfferedIs
    <2>2. CASE f \in own[p].facilities
      <3>1. PICK n \in DOMAIN Items[p] : HasFacility(p, n, f)
        BY <1>1, <2>2 DEF SyncOK, MadeFacilities
      <3>2. s.name = Items[p][n].sport /\ f.name = Items[p][n].facility
        BY <1>5, <3>1
      <3>3. [Items[p][n] EXCEPT !.court = None] =
              [sport |-> Items[p][n].sport, facility |-> Items[p][n].facility, court |-> None]
        BY <1>1, ItemRecords
      <3>4. o = [Items[p][n] EXCEPT !.court = None]
        BY <1>6, <3>2, <3>3
      <3> QED BY <3>4 DEF ItemsOf
    <2> QED BY <1>2, <2>1, <2>2 DEF Facilities
  <1>7. ASSUME NEW c \in Courts(p), c.facility = f.id,
               o = [sport |-> s.name, facility |-> f.name, court |-> c.name]
        PROVE  o \in Offered \cup ItemsOf(p)
    <2>1. CASE c \in tables.courts
      <3>1. f \in tables.facilities
        BY <1>1, <1>3, <1>7, <2>1 DEF NoOrphans, OneRow, Facilities
      <3> QED BY <1>2, <1>4, <1>7, <2>1, <3>1, OfferedIs
    <2>2. CASE c \in own[p].courts
      <3>1. PICK n \in DOMAIN Items[p] : HasCourt(p, n, c)
        BY <1>1, <2>2 DEF SyncOK, MadeCourts
      <3>2. PICK g \in Facilities(p) : HasFacility(p, n, g) /\ g.id = c.facility
        BY <3>1 DEF HasCourt
      <3>3. g = f
        BY <1>1, <1>3, <1>7, <3>2 DEF OneRow
      <3>4. s.name = Items[p][n].sport /\ f.name = Items[p][n].facility
        BY <1>5, <3>2, <3>3
      <3>5. o = Items[p][n]
        BY <1>1, <1>7, <3>1, <3>4, ItemRecords DEF HasCourt
      <3> QED BY <3>5 DEF ItemsOf
    <2> QED BY <1>7, <2>1, <2>2 DEF Courts
  <1> QED BY <1>2, <1>6, <1>7

\* A commit shows every item of its sync, and hides nothing.
LEMMA AllItems ==
    ASSUME IndInv, NEW p \in Syncs, Commit(p), NEW o \in Offered \cup ItemsOf(p)
    PROVE  o \in Offered'
  <1>1. Shape /\ SyncOK(p)
    BY DEF IndInv
  <1>2. CASE o \in Offered
    <2>1. /\ tables.sports \subseteq Sports(p) /\ tables.facilities \subseteq Facilities(p)
          /\ tables.courts \subseteq Courts(p)
      BY DEF Sports, Facilities, Courts
    <2> QED BY <1>1, <1>2, <2>1, OfferedIs, OfferedThen
  <1>3. CASE o \in ItemsOf(p)
    <2>1. PICK n \in DOMAIN Items[p] : o \in {Items[p][n], [Items[p][n] EXCEPT !.court = None]}
      BY <1>3 DEF ItemsOf
    <2>2. pc[p] = "commit" /\ n \in Behind(p)
      BY DEF Commit, Behind
    <2>3. /\ \E f \in Facilities(p) : HasFacility(p, n, f)
          /\ Items[p][n].court # None => \E c \in Courts(p) : HasCourt(p, n, c)
      BY <1>1, <2>2 DEF SyncOK, Recorded, Labels
    <2>4. CASE o = [sport |-> Items[p][n].sport, facility |-> Items[p][n].facility, court |-> None]
      <3>1. PICK f \in Facilities(p) : HasFacility(p, n, f)
        BY <2>3
      <3>2. PICK s \in Sports(p) : HasSport(p, n, s) /\ s.id = f.sport
        BY <3>1 DEF HasFacility
      <3>3. s.name = Items[p][n].sport /\ f.name = Items[p][n].facility
        BY <3>1, <3>2 DEF HasFacility, HasSport
      <3> QED BY <1>1, <2>4, <3>2, <3>3, OfferedThen
    <2>5. CASE /\ Items[p][n].court # None
               /\ o = [sport |-> Items[p][n].sport, facility |-> Items[p][n].facility,
                       court |-> Items[p][n].court]
      <3>1. PICK c \in Courts(p) : HasCourt(p, n, c)
        BY <2>3, <2>5
      <3>2. PICK f \in Facilities(p) : HasFacility(p, n, f) /\ f.id = c.facility
        BY <3>1 DEF HasCourt
      <3>3. PICK s \in Sports(p) : HasSport(p, n, s) /\ s.id = f.sport
        BY <3>2 DEF HasFacility
      <3>4. /\ s.name = Items[p][n].sport /\ f.name = Items[p][n].facility
            /\ c.name = Items[p][n].court
        BY <3>1, <3>2, <3>3 DEF HasFacility, HasSport, HasCourt
      <3> QED BY <1>1, <2>5, <3>2, <3>3, <3>4, OfferedThen
    <2>6. /\ Items[p][n] = [sport |-> Items[p][n].sport, facility |-> Items[p][n].facility,
                             court |-> Items[p][n].court]
          /\ [Items[p][n] EXCEPT !.court = None] =
               [sport |-> Items[p][n].sport, facility |-> Items[p][n].facility, court |-> None]
      BY <1>1, ItemRecords
    <2>7. CASE o = [Items[p][n] EXCEPT !.court = None]
      BY <2>4, <2>6, <2>7
    <2>8. CASE o = Items[p][n] /\ Items[p][n].court # None
      BY <2>5, <2>6, <2>8
    <2>9. CASE o = Items[p][n] /\ Items[p][n].court = None
      BY <2>4, <2>6, <2>9
    <2> QED BY <2>1, <2>7, <2>8, <2>9
  <1> QED BY <1>2, <1>3

\* A step shows what the syncs that commit in it found, and nothing else.
LEMMA ShowsAtOnce ==
    IndInv /\ [Next]_vars =>
      [Offered' = Offered \cup UNION {ItemsOf(p) : p \in {q \in Syncs : Commits(q)}}]_vars
  <1> SUFFICES ASSUME IndInv, Next
               PROVE  Offered' = Offered \cup UNION {ItemsOf(p) : p \in {q \in Syncs : Commits(q)}}
    OBVIOUS
  <1>1. PICK p \in Syncs : Step(p) /\ UNCHANGED setting
    BY DEF Next
  <1>2. Shape /\ SyncOK(p)
    BY DEF IndInv
  <1>3. \A q \in Syncs \ {p} : ~Commits(q)
    BY <1>1, <1>2, StepFrame DEF Frame, Same, Commits
  <1>4. Commits(p) <=> Commit(p)
    <2>1. Commit(p) => Commits(p)
      BY <1>2, CommitFacts DEF Commits
    <2>2. Commits(p) => Commit(p)
      BY <1>1, <1>2, AtWork, FailFacts DEF Commits
    <2> QED BY <2>1, <2>2
  <1>5. CASE Commit(p)
    <2>1. {q \in Syncs : Commits(q)} = {p}
      BY <1>3, <1>4, <1>5
    <2>2. UNION {ItemsOf(q) : q \in {x \in Syncs : Commits(x)}} = ItemsOf(p)
      BY <2>1
    <2>3. \A o : o \in Offered' <=> o \in Offered \cup ItemsOf(p)
      BY <1>5, OnlyItems, AllItems
    <2> QED BY <2>2, <2>3
  <1>6. CASE ~Commit(p)
    <2>1. UNCHANGED tables
      BY <1>1, <1>6 DEF Step, Begin, SelectSport, InsertSport, SelectFacility, InsertFacility,
                        InsertCourt, Fail
    <2>2. Offered' = Offered
      BY <2>1 DEF Offered
    <2>3. {q \in Syncs : Commits(q)} = {}
      BY <1>3, <1>4, <1>6
    <2> QED BY <2>2, <2>3
  <1> QED BY <1>5, <1>6

-----------------------------------------------------------------------------
(* The theorems *)

\* However many syncs run at once: every committed facility has its sport type and
\* every committed court its facility (the foreign keys of model/catalog.go hold
\* together), no sport type is there twice; and one after the other syncs do not
\* make a facility twice either (Upsert in catalog_repo.go).
THEOREM CatalogSafe == Spec => []CatalogInv
  BY Invariance, SafeTables, PTL

\* Syncs that list the sports in the order of the site never make each other fail: no
\* circle of them at the names and rows of the sport types, whatever the number of
\* syncs and of items.
THEOREM SyncsDoNotCollide == Spec => []NoSyncFails
  <1>1. IndInv => NoSyncFails
    BY DEF IndInv
  <1> QED BY <1>1, Invariance, PTL

\* The transaction of Upsert shows all items of a sync or none: all of them are in the
\* lists of the form from its commit on, which adds nothing else, and no other step
\* changes what the lists offer.
THEOREM UpsertIsAtomic == Spec => SyncAtomic
  <1>1. IndInv /\ [Next]_vars =>
          [/\ \A p \in Syncs : Commits(p) => ItemsOf(p) \subseteq Offered'
           /\ Offered' \ Offered \subseteq UNION {ItemsOf(p) : p \in {q \in Syncs : Commits(q)}}
           /\ (\A p \in Syncs : ~Commits(p)) => Offered' = Offered]_vars
    <2> SUFFICES ASSUME Offered' =
                          Offered \cup UNION {ItemsOf(p) : p \in {q \in Syncs : Commits(q)}}
                 PROVE  /\ \A p \in Syncs : Commits(p) => ItemsOf(p) \subseteq Offered'
                        /\ Offered' \ Offered \subseteq
                             UNION {ItemsOf(p) : p \in {q \in Syncs : Commits(q)}}
                        /\ (\A p \in Syncs : ~Commits(p)) => Offered' = Offered
      BY ShowsAtOnce
    <2> DEFINE Now == {q \in Syncs : Commits(q)}
    <2>1. (\A p \in Syncs : ~Commits(p)) => Now = {}
      OBVIOUS
    <2>2. \A p \in Syncs : Commits(p) => p \in Now
      OBVIOUS
    <2> HIDE DEF Now
    <2>3. Offered' = Offered \cup UNION {ItemsOf(p) : p \in Now}
      BY DEF Now
    <2>4. \A p \in Syncs : Commits(p) => ItemsOf(p) \subseteq Offered'
      BY <2>2, <2>3
    <2>5. Offered' \ Offered \subseteq UNION {ItemsOf(p) : p \in Now}
      BY <2>3
    <2>6. (\A p \in Syncs : ~Commits(p)) => Offered' = Offered
      BY <2>1, <2>3
    <2> QED BY <2>4, <2>5, <2>6 DEF Now
  <1> QED BY <1>1, Invariance, PTL DEF Spec, SyncAtomic
=============================================================================
