------------------------------- MODULE Catalog -------------------------------
(***************************************************************************)
(* The catalog tables sport_types, facilities and courts, and the          *)
(* transaction that writes them (repository/catalog/catalog_repo.go).      *)
(* Nothing keeps two catalog-sync processes from running at once.          *)
(*                                                                         *)
(* PostgreSQL is external: read committed, the unique index on the name of *)
(* a sport type is the only one (model/catalog.go), an INSERT waits for a  *)
(* transaction that has inserted its key or updated the row that has it,   *)
(* and of transactions that wait for each other in a circle one is         *)
(* aborted.  A row's id is the sync and the item it was made for.          *)
(* site_value is left out: nothing but the user interface's lists shows it.*)
(***************************************************************************)
EXTENDS Naturals, Sequences, FiniteSets

CONSTANTS
    Syncs,    \* catalog-sync processes, each of one sync
    Names,    \* what the site calls its sports, facilities and courts
    None,     \* the court of an item without one
    SiteOrder,  \* the place of each name in the site's list of sports
    Settings  \* what the syncs found and how they run, the cases that are looked at:
              \* items: of each sync a sequence of [sport, facility, court]
              \* overlap: a sync may start while another one runs
              \* faults: statements may fail

FoundItem == [sport : Names, facility : Names, court : Names \cup {None}]

ASSUME CatalogAssumption ==
    /\ None \notin Syncs \X Nat
    /\ SiteOrder \in [Names -> Nat]
    /\ Settings \subseteq
         [items : [Syncs -> Seq(FoundItem)], overlap : BOOLEAN, faults : BOOLEAN]

VARIABLES
    setting,  \* one of Settings, the same throughout
    tables,   \* the committed rows: [sports, facilities, courts]
    own,      \* the rows of each transaction that are not committed yet
    locked,   \* the sport types each transaction has inserted or updated
    pc, i,    \* where each sync is, and at which item
    st, fac   \* stID, fID

vars == <<setting, tables, own, locked, pc, i, st, fac>>

NoRows == [sports |-> {}, facilities |-> {}, courts |-> {}]

Init ==
    /\ setting \in Settings
    /\ tables = NoRows
    /\ own = [p \in Syncs |-> NoRows]
    /\ locked = [p \in Syncs |-> {}]
    /\ pc = [p \in Syncs |-> "begin"]
    /\ i = [p \in Syncs |-> 1]
    /\ st = [p \in Syncs |-> None] /\ fac = [p \in Syncs |-> None]

-----------------------------------------------------------------------------

Items == setting.items
Item(p) == Items[p][i[p]]
NewId(p) == <<p, i[p]>>
Running(p) == pc[p] \notin {"begin", "done", "failed"}
Goto(p, label) == pc' = [pc EXCEPT ![p] = label]

\* What the statements of p's transaction see.
Sports(p) == tables.sports \cup own[p].sports
Facilities(p) == tables.facilities \cup own[p].facilities

SportIds(p) == {r.id : r \in {x \in Sports(p) : x.name = Item(p).sport}}

\* Faulty: a facility is looked up by its name alone.
FacilityIds_ByName(p) == {r.id : r \in {x \in Facilities(p) : x.name = Item(p).facility}}

FacilityIds(p) ==
    {r.id : r \in {x \in Facilities(p) : x.sport = st[p] /\ x.name = Item(p).facility}}

\* The row the insert makes: none when the name is there by now.
NewSports(p) == IF SportIds(p) # {} THEN {} ELSE {[id |-> NewId(p), name |-> Item(p).sport]}

\* p waits for q, whose transaction holds the row p inserts or updates.
Blocks(q, p) == p # q /\ pc[p] = "insertSport" /\ Item(p).sport \in locked[q]

\* p is one of a circle of transactions.
Deadlocked(p) ==
    \E C \in SUBSET Syncs :
        p \in C /\ \A q \in C : (\E r \in C : Blocks(r, q)) /\ (\E r \in C : Blocks(q, r))

\* The end of a transaction: its locks are gone.
Over(p) ==
    /\ own' = [own EXCEPT ![p] = NoRows]
    /\ locked' = [locked EXCEPT ![p] = {}]

-----------------------------------------------------------------------------

Begin(p) ==
    /\ pc[p] = "begin"
    /\ setting.overlap \/ \A q \in Syncs : ~Running(q)
    /\ Goto(p, IF Items[p] = << >> THEN "commit" ELSE "sport")
    /\ UNCHANGED <<tables, own, locked, i, st, fac>>

\* SELECT id FROM sport_types
SelectSport(p) ==
    /\ pc[p] = "sport"
    /\ IF SportIds(p) = {}
       THEN Goto(p, "insertSport") /\ UNCHANGED st
       ELSE Goto(p, "facility") /\ \E id \in SportIds(p) : st' = [st EXCEPT ![p] = id]
    /\ UNCHANGED <<tables, own, locked, i, fac>>

\* Faulty: inserted whatever other transactions hold.
InsertSport_NoConflict(p) ==
    /\ pc[p] = "insertSport"
    /\ own' = [own EXCEPT ![p].sports = @ \cup {[id |-> NewId(p), name |-> Item(p).sport]}]
    /\ st' = [st EXCEPT ![p] = NewId(p)]
    /\ locked' = [locked EXCEPT ![p] = @ \cup {Item(p).sport}]
    /\ Goto(p, "facility")
    /\ UNCHANGED <<tables, i, fac>>

\* Faulty: the id made for the insert is used, the row's is not read again.
InsertSport_NoReread(p) ==
    /\ pc[p] = "insertSport"
    /\ \A q \in Syncs : ~Blocks(q, p)
    /\ own' = [own EXCEPT ![p].sports = @ \cup NewSports(p)]
    /\ st' = [st EXCEPT ![p] = NewId(p)]
    /\ locked' = [locked EXCEPT ![p] = @ \cup {Item(p).sport}]
    /\ Goto(p, "facility")
    /\ UNCHANGED <<tables, i, fac>>

\* INSERT ... ON CONFLICT(name) DO UPDATE, then the id is read again.
InsertSport(p) ==
    /\ pc[p] = "insertSport"
    /\ \A q \in Syncs : ~Blocks(q, p)
    /\ own' = [own EXCEPT ![p].sports = @ \cup NewSports(p)]
    /\ \E id \in SportIds(p) \cup {r.id : r \in NewSports(p)} : st' = [st EXCEPT ![p] = id]
    /\ locked' = [locked EXCEPT ![p] = @ \cup {Item(p).sport}]
    /\ Goto(p, "facility")
    /\ UNCHANGED <<tables, i, fac>>

\* Faulty: facilities are inserted without a look.
SelectFacility_Missing(p) ==
    /\ pc[p] = "facility"
    /\ Goto(p, "insertFacility")
    /\ UNCHANGED <<tables, own, locked, i, st, fac>>

\* SELECT id FROM facilities: of several rows, some one.
SelectFacility(p) ==
    /\ pc[p] = "facility"
    /\ IF FacilityIds(p) = {}
       THEN Goto(p, "insertFacility") /\ UNCHANGED fac
       ELSE Goto(p, "court") /\ \E id \in FacilityIds(p) : fac' = [fac EXCEPT ![p] = id]
    /\ UNCHANGED <<tables, own, locked, i, st>>

\* INSERT INTO facilities: no key but the id conflicts; the foreign key must be a
\* sport type the transaction sees.  Then the id is read again.
InsertFacility(p) ==
    /\ pc[p] = "insertFacility"
    /\ IF st[p] \in {r.id : r \in Sports(p)}
       THEN /\ own' = [own EXCEPT ![p].facilities =
                         @ \cup {[id |-> NewId(p), sport |-> st[p], name |-> Item(p).facility]}]
            /\ \E id \in FacilityIds(p) \cup {NewId(p)} : fac' = [fac EXCEPT ![p] = id]
            /\ Goto(p, "court")
            /\ UNCHANGED locked
       ELSE Over(p) /\ Goto(p, "failed") /\ UNCHANGED fac
    /\ UNCHANGED <<tables, i, st>>

NewCourts(p) ==
    IF Item(p).court = None THEN {}
    ELSE {[id |-> NewId(p), facility |-> fac[p], name |-> Item(p).court]}

\* Faulty: the last item is written again and again.
NextItem_Stuck(p) ==
    /\ i' = [i EXCEPT ![p] = IF @ < Len(Items[p]) THEN @ + 1 ELSE @]
    /\ Goto(p, IF i[p] <= Len(Items[p]) THEN "sport" ELSE "commit")

NextItem(p) ==
    /\ i' = [i EXCEPT ![p] = IF @ < Len(Items[p]) THEN @ + 1 ELSE @]
    /\ Goto(p, IF i[p] < Len(Items[p]) THEN "sport" ELSE "commit")

\* Faulty: outside the transaction.
InsertCourt_AutoCommit(p) ==
    /\ pc[p] = "court"
    /\ tables' = [tables EXCEPT !.courts = @ \cup NewCourts(p)]
    /\ NextItem(p)
    /\ UNCHANGED <<own, locked, st, fac>>

\* INSERT INTO courts, when the item has a court: nothing ever conflicts.
InsertCourt(p) ==
    /\ pc[p] = "court"
    /\ own' = [own EXCEPT ![p].courts = @ \cup NewCourts(p)]
    /\ NextItem(p)
    /\ UNCHANGED <<tables, locked, st, fac>>

Commit(p) ==
    /\ pc[p] = "commit"
    /\ tables' = [t \in DOMAIN tables |-> tables[t] \cup own[p][t]]
    /\ Over(p)
    /\ Goto(p, "done")
    /\ UNCHANGED <<i, st, fac>>

\* A statement fails, the connection breaks, the context ends or the process is
\* killed; or p is the victim of a deadlock.  The transaction is rolled back.
Fail(p) ==
    /\ \/ setting.faults /\ Running(p)
       \/ Deadlocked(p)
    /\ Over(p)
    /\ Goto(p, "failed")
    /\ UNCHANGED <<tables, i, st, fac>>

Step(p) ==
    \/ Begin(p) \/ SelectSport(p) \/ InsertSport(p) \/ SelectFacility(p) \/ InsertFacility(p)
    \/ InsertCourt(p) \/ Commit(p) \/ Fail(p)

Next == (\E p \in Syncs : Step(p)) /\ UNCHANGED setting

Spec == Init /\ [][Next]_vars

\* Every process runs; the database ends every deadlock.
FairSpec == Spec /\ \A p \in Syncs : WF_vars(Step(p) /\ UNCHANGED setting)

-----------------------------------------------------------------------------

Ended(p) == pc[p] \in {"done", "failed"}

\* Every reference is to a row of a sync, and every sync is at one of its items.
TypeOK ==
    /\ \A p \in Syncs : /\ i[p] \in {1} \cup DOMAIN Items[p]
                        /\ pc[p] \in {"facility", "insertFacility", "court"} => st[p] # None
                        /\ pc[p] = "court" => fac[p] # None
                        /\ pc[p] \in {"begin", "done", "failed"} =>
                             own[p] = NoRows /\ locked[p] = {}
    /\ \A t \in {tables} \cup {own[p] : p \in Syncs} :
         /\ \A r \in t.facilities : r.sport # None
         /\ \A r \in t.courts : r.facility # None /\ r.name # None

\* What a user finds in the lists of the form: the names that hang together in the
\* committed tables, with court None for the facility itself.
Offered ==
    {[sport |-> x[1].name, facility |-> x[2].name, court |-> None] :
        x \in {y \in tables.sports \X tables.facilities : y[2].sport = y[1].id}}
    \cup
    {[sport |-> x[1].name, facility |-> x[2].name, court |-> x[3].name] :
        x \in {y \in tables.sports \X tables.facilities \X tables.courts :
                 y[2].sport = y[1].id /\ y[3].facility = y[2].id}}

ItemsOf(p) == UNION {{Items[p][n], [Items[p][n] EXCEPT !.court = None]} : n \in DOMAIN Items[p]}

Commits(p) == pc[p] = "commit" /\ pc'[p] = "done"

\* A sync shows all of its items at once and under the sport and the facility they
\* belong to, or, when it fails, none; it shows nothing else, and nothing but a commit
\* changes what is offered.  What becomes of the rows the site no longer lists is left
\* open: the comment on UpsertCatalog says that it renews the catalog completely, but
\* the code keeps them.
SyncAtomic ==
    [][/\ \A p \in Syncs : Commits(p) => ItemsOf(p) \subseteq Offered'
       /\ Offered' \ Offered \subseteq UNION {ItemsOf(p) : p \in {q \in Syncs : Commits(q)}}
       /\ (\A p \in Syncs : ~Commits(p)) => Offered' = Offered]_vars

\* Syncs that overlap never make two sport types of one name.
SportOnce == \A r, s \in tables.sports : r.name = s.name => r = s

\* No committed row refers to one that is not there.
NoOrphans ==
    /\ \A f \in tables.facilities : \E r \in tables.sports : r.id = f.sport
    /\ \A c \in tables.courts : \E f \in tables.facilities : f.id = c.facility

\* One after the other, syncs never make two facilities of one name in a sport.
FacilityOnce ==
    ~setting.overlap => \A f, g \in tables.facilities : f.sport = g.sport /\ f.name = g.name => f = g

\* The types, and the committed rows among each other.
CatalogInv == TypeOK /\ NoOrphans /\ SportOnce /\ FacilityOnce

\* Every sync lists the sports as the site does, each in one go.
OneOrder ==
    \A p \in Syncs : \A a, b \in DOMAIN Items[p] :
        a < b => \/ Items[p][a].sport = Items[p][b].sport
                 \/ SiteOrder[Items[p][a].sport] < SiteOrder[Items[p][b].sport]

\* Syncs that list the sports in one order do not make each other fail: however many
\* of their transactions meet at the names and rows of the sport types, they wait and
\* go on, and never in a circle.
NoSyncFails == OneOrder /\ ~setting.faults => \A p \in Syncs : pc[p] # "failed"

\* Every sync ends, in whatever order they list the sports.
SyncsEnd == <>(\A p \in Syncs : Ended(p))
=============================================================================
