-------------------------- MODULE JobServiceProofs --------------------------
(* Theorems about JobService, for every value of its constants. *)
EXTENDS JobService, TLAPS

-----------------------------------------------------------------------------
(* The inductive invariant *)

\* A request in progress is about a job; a scheduler variable holds a scheduler
\* of that job; a scheduler that was never built does nothing.
Assigned ==
    /\ \A t \in Threads : req[t].pc # "idle" => req[t].job \in Jobs
    /\ \A t \in Threads : req[t].sched # None =>
            req[t].job \in Jobs /\ sched[req[t].sched].job = req[t].job
    /\ \A s \in Scheds : sched[s].job = None =>
            ~sched[s].open /\ sched[s].loop = "none" /\ sched[s].manual = 0

\* A scheduler on its way into the map is open, in no entry yet, and known to
\* one goroutine only: a Stop cannot reach it before Put.
PutReady ==
    /\ \A t \in Threads : req[t].pc = "put" =>
            /\ req[t].sched \in Scheds
            /\ sched[req[t].sched].open
            /\ sched[req[t].sched].loop \in {"wait", "run"}
            /\ \A j \in Jobs : jobs[j] # req[t].sched
    /\ \A t, u \in Threads :
            req[t].pc = "put" /\ req[u].pc = "put" /\ req[t].sched = req[u].sched => t = u

IndInv == TypeOK /\ Assigned /\ MappedOpen /\ PutReady

-----------------------------------------------------------------------------
(* Type correctness *)

\* The rows, schedulers and requests the actions write have their types.
LEMMA ValueTypes ==
    /\ NoRow \in Row
    /\ Unbuilt \in Sched
    /\ NoRequest \in Request
    /\ \A j \in Jobs, c \in Cfgs \cup {None} : Built(j, c) \in Sched
  BY NoneAssumption DEF NoRow, Row, Statuses, Unbuilt, Sched, NoRequest, Request, Labels, Built

\* Every SQL statement takes a table to a table.
LEMMA TableTypes ==
    ASSUME row \in [Jobs -> Row], NEW j \in Jobs
    PROVE  /\ \A st \in Statuses : StatusWritten(j, st) \in [Jobs -> Row]
           /\ \A snap \in Row, c \in Cfgs \cup {None} : RowWritten(j, snap, c) \in [Jobs -> Row]
           /\ RunCounted(j) \in [Jobs -> Row]
           /\ RowDeleted(j) \in [Jobs -> Row]
  <1>1. \A st \in Statuses : StatusWritten(j, st) \in [Jobs -> Row]
    BY DEF StatusWritten, Row, Statuses
  <1>2. \A snap \in Row, c \in Cfgs \cup {None} : RowWritten(j, snap, c) \in [Jobs -> Row]
    BY DEF RowWritten, Row
  <1>3. RunCounted(j) \in [Jobs -> Row]
    BY DEF RunCounted, Row
  <1>4. RowDeleted(j) \in [Jobs -> Row]
    BY DEF RowDeleted, Row
  <1> QED BY <1>1, <1>2, <1>3, <1>4

\* A statement that commits or fails leaves a table and a fault count.
LEMMA ExecTypes ==
    ASSUME NEW table \in [Jobs -> Row], row \in [Jobs -> Row], faults \in Nat, Exec(table)
    PROVE  row' \in [Jobs -> Row] /\ faults' \in Nat
  BY DEF Exec

\* Moving a goroutine on, or ending its request, leaves a request.
LEMMA RequestTypes ==
    ASSUME req \in [Threads -> Request], NEW t \in Threads
    PROVE  /\ \A pc \in Labels : Goto(t, pc) => req' \in [Threads -> Request]
           /\ Return(t) => req' \in [Threads -> Request]
           /\ \A r \in Request : Begin(t, r) => req' \in [Threads -> Request]
  BY ValueTypes DEF Goto, Return, Begin, Request

\* Every step keeps the variables in their types.
LEMMA TypeStep == TypeOK /\ Assigned /\ [Next]_vars => TypeOK'
  <1> SUFFICES ASSUME TypeOK, Assigned, [Next]_vars PROVE TypeOK'
    OBVIOUS
  <1> USE DEF TypeOK
  <1>1. ASSUME NEW j \in Jobs, NEW c \in Cfgs, CreateJob(j, c) PROVE TypeOK'
    <2>1. [row EXCEPT ![j] = [status |-> "pending", cfg |-> c, runs |-> 0]] \in [Jobs -> Row]
      BY DEF Row, Statuses
    <2> QED BY <1>1, <2>1, ExecTypes DEF CreateJob
  <1>2. ASSUME NEW t \in Threads, NEW j \in Jobs, Accept(t, j) PROVE TypeOK'
    <2>1. CASE StartRead(t, j)
      BY <2>1, ValueTypes DEF StartRead, Begin, Request, Labels
    <2>2. ASSUME StopAndUnmap(j) PROVE jobs' \in [Jobs -> Scheds \cup {None}] /\ sched' \in [Scheds -> Sched]
      <3>1. jobs' \in [Jobs -> Scheds \cup {None}]
        BY <2>2 DEF StopAndUnmap
      <3>2. CASE Running(j)
        <4>1. jobs[j] \in Scheds
          BY <3>2 DEF Running
        <4>2. Closed(jobs[j]) \in [Scheds -> Sched]
          BY <4>1 DEF Closed, Sched
        <4> QED BY <2>2, <3>1, <3>2, <4>2 DEF StopAndUnmap
      <3>3. CASE ~Running(j)
        BY <2>2, <3>1, <3>3 DEF StopAndUnmap
      <3> QED BY <3>2, <3>3
    <2>3. CASE StopLock(t, j)
      <3>1. req' \in [Threads -> Request]
        BY <2>3, ValueTypes DEF StopLock, Begin, Request, Labels
      <3> QED BY <2>2, <2>3, <3>1 DEF StopLock
    <2>4. CASE DeleteLock(t, j)
      <3>1. req' \in [Threads -> Request]
        BY <2>4, ValueTypes DEF DeleteLock, Begin, Request, Labels
      <3> QED BY <2>2, <2>4, <3>1 DEF DeleteLock
    <2>5. CASE RunLook(t, j)
      BY <2>5, ValueTypes DEF RunLook, Begin, Request, Labels
    <2>6. ASSUME NEW c \in Cfgs, UpdateRead(t, j, c) PROVE TypeOK'
      BY <2>6, ValueTypes DEF UpdateRead, Begin, Request, Labels
    <2> QED BY <1>2, <2>1, <2>3, <2>4, <2>5, <2>6 DEF Accept
  <1>3. ASSUME NEW t \in Threads, Continue(t) PROVE TypeOK'
    <2> req[t].pc # "idle" /\ req[t].job \in Jobs /\ req[t] \in Request
      BY <1>3 DEF Continue, At, StartCheck, New, Put, SetActive, StopStatus, DeleteRow,
           RunRead, RunRelook, RunFire, RunPanic, UpdateCheck, UpdateWrite, Assigned
    <2>1. CASE StartCheck(t)
      BY <2>1, RequestTypes DEF StartCheck, Labels
    <2>2. CASE New(t)
      <3>1. PICK s \in Unused :
              /\ sched' = [sched EXCEPT ![s] = Built(req[t].job, req[t].snap.cfg)]
              /\ req' = [req EXCEPT ![t].pc = "put", ![t].sched = s, ![t].snap = NoRow]
        BY <2>2 DEF New
      <3>2. sched' \in [Scheds -> Sched]
        BY <3>1, ValueTypes DEF Request, Row
      <3>3. req' \in [Threads -> Request]
        BY <3>1, ValueTypes DEF Unused, Request, Labels
      <3> QED BY <2>2, <3>2, <3>3 DEF New
    <2>3. CASE Put(t)
      BY <2>3 DEF Put, Request, Labels
    <2>4. CASE SetActive(t)
      BY <2>4, TableTypes, ExecTypes, RequestTypes DEF SetActive, Statuses, Labels
    <2>5. CASE StopStatus(t)
      BY <2>5, TableTypes, ExecTypes, RequestTypes DEF StopStatus, Statuses
    <2>6. CASE DeleteRow(t)
      BY <2>6, TableTypes, ExecTypes, RequestTypes DEF DeleteRow
    <2>7. CASE RunRead(t)
      <3>1. [req EXCEPT ![t].pc = "new", ![t].snap = row[req[t].job]] \in [Threads -> Request]
        BY DEF Request, Labels
      <3> QED BY <2>7, <3>1, RequestTypes DEF RunRead
    <2>8. CASE RunRelook(t)
      BY <2>8 DEF RunRelook, Request, Labels
    <2>9. CASE RunFire(t)
      <3>1. sched' \in [Scheds -> Sched]
        BY <2>9 DEF RunFire, Sched, Request
      <3> QED BY <2>9, <3>1, RequestTypes DEF RunFire
    <2>10. CASE RunPanic(t)
      BY <2>10, RequestTypes DEF RunPanic
    <2>11. CASE UpdateCheck(t)
      BY <2>11, RequestTypes DEF UpdateCheck, Labels
    <2>12. CASE UpdateWrite(t)
      <3>1. RowWritten(req[t].job, req[t].snap, req[t].cfg) \in [Jobs -> Row]
        BY TableTypes DEF Request
      <3> QED BY <2>12, <3>1, ExecTypes, RequestTypes DEF UpdateWrite
    <2> QED BY <1>3, <2>1, <2>2, <2>3, <2>4, <2>5, <2>6, <2>7, <2>8, <2>9, <2>10, <2>11,
               <2>12 DEF Continue
  <1>4. ASSUME NEW s \in Scheds, LoopWake(s) \/ LoopRunEnd(s) \/ LoopExit(s) \/ ManualRunEnd(s)
        PROVE TypeOK'
    <2>1. CASE LoopWake(s)
      BY <2>1 DEF LoopWake, Sched
    <2>2. CASE LoopRunEnd(s)
      <3>1. sched[s].job \in Jobs
        BY <2>2 DEF LoopRunEnd, Assigned, Sched
      <3>2. sched' \in [Scheds -> Sched]
        BY <2>2 DEF LoopRunEnd, Sched
      <3> QED BY <2>2, <3>1, <3>2, TableTypes, ExecTypes DEF LoopRunEnd
    <2>3. CASE LoopExit(s)
      BY <2>3 DEF LoopExit, Sched
    <2>4. CASE ManualRunEnd(s)
      <3>1. sched[s].job \in Jobs
        BY <2>4 DEF ManualRunEnd, Assigned, Sched
      <3>2. sched' \in [Scheds -> Sched]
        BY <2>4 DEF ManualRunEnd, Sched
      <3> QED BY <2>4, <3>1, <3>2, TableTypes, ExecTypes DEF ManualRunEnd
    <2> QED BY <1>4, <2>1, <2>2, <2>3, <2>4
  <1>5. CASE RestoreList
    BY <1>5 DEF RestoreList
  <1>6. ASSUME NEW j \in Jobs, RestoreOne(j) PROVE TypeOK'
    <2>1. PICK s \in Unused : /\ sched' = [sched EXCEPT ![s] = Built(j, row[j].cfg)]
                              /\ jobs' = [jobs EXCEPT ![j] = s]
      BY <1>6 DEF RestoreOne
    <2>2. sched' \in [Scheds -> Sched] /\ jobs' \in [Jobs -> Scheds \cup {None}]
      BY <2>1, ValueTypes DEF Row, Unused
    <2> QED BY <1>6, <2>2 DEF RestoreOne
  <1>7. CASE RestoreDone
    BY <1>7 DEF RestoreDone
  <1>8. CASE Crash
    BY <1>8, ValueTypes DEF Crash
  <1>9. CASE UNCHANGED vars
    BY <1>9 DEF vars
  <1> QED BY <1>1, <1>2, <1>3, <1>4, <1>5, <1>6, <1>7, <1>8, <1>9 DEF Next

-----------------------------------------------------------------------------
(* The inductive invariant is one *)

LEMMA InitInv == Init => IndInv
  <1> SUFFICES ASSUME Init PROVE IndInv
    OBVIOUS
  <1>1. TypeOK
    BY ValueTypes DEF Init, TypeOK
  <1>2. Assigned /\ PutReady
    BY DEF Init, Assigned, PutReady, NoRequest, Unbuilt
  <1>3. MappedOpen
    BY DEF Init, MappedOpen, Running
  <1> QED BY <1>1, <1>2, <1>3 DEF IndInv

\* A step that touches neither the map, the schedulers nor the requests.
LEMMA FrameInv ==
    ASSUME Assigned, MappedOpen, PutReady, UNCHANGED <<jobs, sched, req>>
    PROVE  Assigned' /\ MappedOpen' /\ PutReady'
  BY DEF Assigned, MappedOpen, PutReady, Running

\* Stopping and unmapping the job of a new request: the entry's scheduler is
\* closed, no other entry and no goroutine at Put shares it.
LEMMA StopInv ==
    ASSUME IndInv, TypeOK', NEW t \in Threads, NEW j \in Jobs, StopAndUnmap(j),
           NEW r \in Request, Begin(t, r), r.pc \notin {"idle", "put"}, r.job = j, r.sched = None
    PROVE  Assigned' /\ MappedOpen' /\ PutReady'
  <1> USE DEF IndInv, TypeOK
  <1>1. \A s \in Scheds : /\ sched'[s].job = sched[s].job
                          /\ sched'[s].loop = sched[s].loop
                          /\ sched'[s].manual = sched[s].manual
                          /\ s # jobs[j] => sched'[s] = sched[s]
    BY DEF StopAndUnmap, Closed, Sched
  <1>2. \A u \in Threads : req'[u] = IF u = t THEN r ELSE req[u]
    BY DEF Begin
  <1>3. \A k \in Jobs : jobs'[k] = IF k = j THEN None ELSE jobs[k]
    BY DEF StopAndUnmap
  <1>4. Assigned'
    <2>1. \A s \in Scheds : sched'[s].open => sched[s].open
      <3>1. CASE Running(j)
        BY <3>1 DEF StopAndUnmap, Closed, Sched
      <3>2. CASE ~Running(j)
        BY <3>2 DEF StopAndUnmap
      <3> QED BY <3>1, <3>2
    <2>2. \A u \in Threads : req'[u].pc # "idle" => req'[u].job \in Jobs
      BY <1>2 DEF Assigned
    <2>3. ASSUME NEW u \in Threads, req'[u].sched # None
          PROVE  req'[u].job \in Jobs /\ sched'[req'[u].sched].job = req'[u].job
      <3>1. u # t /\ req'[u] = req[u] /\ req[u].sched \in Scheds
        BY <1>2, <2>3 DEF Request
      <3> QED BY <1>1, <2>3, <3>1 DEF Assigned
    <2>4. ASSUME NEW s \in Scheds, sched'[s].job = None
          PROVE  ~sched'[s].open /\ sched'[s].loop = "none" /\ sched'[s].manual = 0
      BY <1>1, <2>1, <2>4 DEF Assigned
    <2> QED BY <2>2, <2>3, <2>4 DEF Assigned
  <1>5. MappedOpen'
    <2> SUFFICES ASSUME NEW k \in Jobs, jobs'[k] # None
                 PROVE  /\ sched'[jobs'[k]].job = k
                        /\ sched'[jobs'[k]].open
                        /\ sched'[jobs'[k]].loop \in {"wait", "run"}
      BY DEF MappedOpen, Running
    <2>1. k # j /\ jobs'[k] = jobs[k] /\ jobs[k] \in Scheds
      BY <1>3
    <2>2. jobs[k] # jobs[j]
      BY <2>1 DEF MappedOpen, Running
    <2> QED BY <1>1, <2>1, <2>2 DEF MappedOpen, Running
  <1>6. PutReady'
    <2>1. \A u \in Threads : req'[u].pc = "put" => u # t /\ req'[u] = req[u]
      BY <1>2
    <2>2. ASSUME NEW u \in Threads, req'[u].pc = "put"
          PROVE  /\ req'[u].sched \in Scheds
                 /\ sched'[req'[u].sched] = sched[req[u].sched]
                 /\ \A k \in Jobs : jobs'[k] # req'[u].sched
      BY <1>1, <1>3, <2>1, <2>2, NoneAssumption DEF PutReady
    <2> QED BY <2>1, <2>2 DEF PutReady
  <1> QED BY <1>4, <1>5, <1>6

\* A request that moves on, ends or looks up an entry, and changes nothing else.
LEMMA MoveInv ==
    ASSUME IndInv, NEW t \in Threads, NEW r \in Request, Begin(t, r), UNCHANGED <<jobs, sched>>,
           r.pc # "put", r.pc # "idle" => r.job \in Jobs,
           r.sched # None => r.job \in Jobs /\ sched[r.sched].job = r.job
    PROVE  Assigned' /\ MappedOpen' /\ PutReady'
  <1> USE DEF IndInv, TypeOK
  <1>1. \A u \in Threads : req'[u] = IF u = t THEN r ELSE req[u]
    BY DEF Begin
  <1> QED BY <1>1 DEF Assigned, MappedOpen, PutReady, Running

\* A scheduler that changes in no other way than its loop moving on, its runs
\* being counted, or its loop ending once it is closed.
LEMMA LoopInv ==
    ASSUME IndInv, NEW s \in Scheds, NEW x \in Sched, sched' = [sched EXCEPT ![s] = x],
           UNCHANGED <<jobs, req>>,
           sched[s].job # None, x.job = sched[s].job, x.open = sched[s].open,
           x.loop \in {"wait", "run"} \/ ~x.open
    PROVE  Assigned' /\ MappedOpen' /\ PutReady'
  <1> USE DEF IndInv, TypeOK
  <1>1. \A z \in Scheds : sched'[z] = IF z = s THEN x ELSE sched[z]
    OBVIOUS
  <1>2. Assigned'
    BY <1>1 DEF Assigned, Request
  <1>3. MappedOpen'
    BY <1>1 DEF MappedOpen, Running
  <1>4. PutReady'
    BY <1>1 DEF PutReady
  <1> QED BY <1>2, <1>3, <1>4

\* A built scheduler is new to the map and to every request.
LEMMA UnusedFresh ==
    ASSUME IndInv, NEW s \in Unused
    PROVE  /\ s \in Scheds
           /\ \A j \in Jobs : jobs[j] # s
           /\ \A u \in Threads : req[u].sched # s
  BY NoneAssumption DEF IndInv, Unused, MappedOpen, Running, Assigned, PutReady

LEMMA InvStep == IndInv /\ [Next]_vars => IndInv'
  <1> SUFFICES ASSUME IndInv, [Next]_vars PROVE IndInv'
    OBVIOUS
  <1> TypeOK'
    BY TypeStep DEF IndInv
  <1> SUFFICES Assigned' /\ MappedOpen' /\ PutReady'
    BY DEF IndInv
  <1> USE DEF IndInv
  <1>1. ASSUME NEW j \in Jobs, NEW c \in Cfgs, CreateJob(j, c)
        PROVE  Assigned' /\ MappedOpen' /\ PutReady'
    BY <1>1, FrameInv DEF CreateJob
  <1>2. ASSUME NEW t \in Threads, NEW j \in Jobs, Accept(t, j)
        PROVE  Assigned' /\ MappedOpen' /\ PutReady'
    <2> USE ValueTypes DEF NoRequest, Request, Labels, TypeOK
    <2>1. CASE StartRead(t, j)
      BY <2>1, MoveInv DEF StartRead
    <2>2. CASE StopLock(t, j)
      BY <2>2, StopInv DEF StopLock
    <2>3. CASE DeleteLock(t, j)
      BY <2>3, StopInv DEF DeleteLock
    <2>4. CASE RunLook(t, j)
      <3> DEFINE r == [NoRequest EXCEPT !.op = "run", !.job = j, !.sched = jobs[j],
                                        !.pc = IF Running(j) THEN "fire" ELSE "read"]
      <3>1. r \in Request /\ r.pc \in {"fire", "read"} /\ r.job = j /\ r.sched = jobs[j]
        OBVIOUS
      <3>2. Begin(t, r) /\ UNCHANGED <<jobs, sched>>
        BY <2>4 DEF RunLook
      <3>3. r.sched # None => sched[r.sched].job = j
        BY <3>1 DEF MappedOpen, Running
      <3> HIDE DEF r
      <3> QED BY <3>1, <3>2, <3>3, MoveInv
    <2>5. ASSUME NEW c \in Cfgs, UpdateRead(t, j, c)
          PROVE  Assigned' /\ MappedOpen' /\ PutReady'
      BY <2>5, MoveInv DEF UpdateRead
    <2> QED BY <1>2, <2>1, <2>2, <2>3, <2>4, <2>5 DEF Accept
  <1>3. ASSUME NEW t \in Threads, Continue(t)
        PROVE  Assigned' /\ MappedOpen' /\ PutReady'
    <2> DEFINE P == Assigned' /\ MappedOpen' /\ PutReady'
    <2>0. /\ req[t] \in Request /\ req[t].pc # "idle" /\ req[t].job \in Jobs
          /\ req[t].sched # None => sched[req[t].sched].job = req[t].job
      BY <1>3 DEF Continue, At, StartCheck, New, Put, SetActive, StopStatus, DeleteRow,
           RunRead, RunRelook, RunFire, RunPanic, UpdateCheck, UpdateWrite, Assigned, TypeOK
    <2>1. ASSUME Return(t), UNCHANGED <<jobs, sched>> PROVE P
      BY <2>1, MoveInv, ValueTypes DEF Return, Begin, NoRequest
    <2>2. ASSUME NEW pc \in Labels, pc # "put", Goto(t, pc), UNCHANGED <<jobs, sched>> PROVE P
      <3> DEFINE r == [req[t] EXCEPT !.pc = pc]
      <3>1. r \in Request /\ r.pc = pc /\ r.job = req[t].job /\ r.sched = req[t].sched
        BY <2>0 DEF Request
      <3>2. Begin(t, r)
        BY <2>2 DEF Goto, Begin, TypeOK
      <3> HIDE DEF r
      <3> QED BY <2>0, <2>2, <3>1, <3>2, MoveInv
    <2>3. CASE StartCheck(t) \/ UpdateCheck(t)
      BY <2>1, <2>2, <2>3 DEF StartCheck, UpdateCheck, Labels
    <2>4. CASE StopStatus(t) \/ DeleteRow(t) \/ RunPanic(t) \/ UpdateWrite(t)
      BY <2>1, <2>4 DEF StopStatus, DeleteRow, RunPanic, UpdateWrite
    <2>5. CASE SetActive(t)
      BY <2>1, <2>2, <2>5 DEF SetActive, Labels
    <2>6. CASE RunRead(t)
      <3>1. CASE Return(t)
        BY <2>1, <2>6, <3>1 DEF RunRead
      <3>2. CASE Exists(req[t].job)
        <4> DEFINE r == [req[t] EXCEPT !.pc = "new", !.snap = row[req[t].job]]
        <4>1. r \in Request /\ r.pc = "new" /\ r.job = req[t].job /\ r.sched = req[t].sched
          BY <2>0 DEF Request, Labels, TypeOK
        <4>2. Begin(t, r) /\ UNCHANGED <<jobs, sched>>
          BY <2>6, <3>2 DEF RunRead, Begin, TypeOK
        <4> HIDE DEF r
        <4> QED BY <2>0, <4>1, <4>2, MoveInv
      <3> QED BY <2>6, <3>1, <3>2 DEF RunRead
    <2>7. CASE RunRelook(t)
      <3> DEFINE r == [req[t] EXCEPT !.pc = "fire", !.sched = jobs[req[t].job]]
      <3>1. r \in Request /\ r.pc = "fire" /\ r.job = req[t].job /\ r.sched = jobs[req[t].job]
        BY <2>0 DEF Request, Labels, TypeOK
      <3>2. Begin(t, r) /\ UNCHANGED <<jobs, sched>>
        BY <2>7 DEF RunRelook, Begin, TypeOK
      <3>3. r.sched # None => sched[r.sched].job = r.job
        BY <2>0, <3>1 DEF MappedOpen, Running
      <3> HIDE DEF r
      <3> QED BY <2>0, <3>1, <3>2, <3>3, MoveInv
    <2>8. CASE New(t)
      <3>1. PICK s \in Unused :
              /\ sched' = [sched EXCEPT ![s] = Built(req[t].job, req[t].snap.cfg)]
              /\ req' = [req EXCEPT ![t].pc = "put", ![t].sched = s, ![t].snap = NoRow]
        BY <2>8 DEF New
      <3>2. /\ s \in Scheds
            /\ \A j \in Jobs : jobs[j] # s
            /\ \A u \in Threads : req[u].sched # s
        BY UnusedFresh
      <3>3. \A z \in Scheds :
              sched'[z] = IF z = s THEN Built(req[t].job, req[t].snap.cfg) ELSE sched[z]
        BY <3>1 DEF TypeOK
      <3>4. /\ \A u \in Threads \ {t} : req'[u] = req[u]
            /\ req'[t].pc = "put" /\ req'[t].sched = s /\ req'[t].job = req[t].job
        BY <3>1 DEF TypeOK, Request
      <3>5. UNCHANGED jobs
        BY <2>8 DEF New
      <3>6. Assigned'
        <4>1. \A u \in Threads : req'[u].pc # "idle" => req'[u].job \in Jobs
          BY <2>0, <3>4 DEF Assigned
        <4>2. \A u \in Threads : req'[u].sched # None =>
                req'[u].job \in Jobs /\ sched'[req'[u].sched].job = req'[u].job
          BY <2>0, <3>2, <3>3, <3>4 DEF Assigned, Built, TypeOK, Request
        <4>3. \A z \in Scheds : sched'[z].job = None =>
                ~sched'[z].open /\ sched'[z].loop = "none" /\ sched'[z].manual = 0
          BY <2>0, <3>3, NoneAssumption DEF Assigned, Built
        <4> QED BY <4>1, <4>2, <4>3 DEF Assigned
      <3>7. MappedOpen'
        BY <3>2, <3>3, <3>5 DEF MappedOpen, Running, TypeOK
      <3>8. PutReady'
        BY <3>2, <3>3, <3>4, <3>5 DEF PutReady, Built
      <3> QED BY <3>6, <3>7, <3>8
    <2>9. CASE Put(t)
      <3>1. /\ \A u \in Threads \ {t} : req'[u] = req[u]
            /\ req'[t].pc = "status" /\ req'[t].sched = None /\ req'[t].job = req[t].job
        BY <2>9 DEF Put, TypeOK, Request
      <3>2. /\ \A j \in Jobs : jobs'[j] = IF j = req[t].job THEN req[t].sched ELSE jobs[j]
            /\ UNCHANGED sched
            /\ req[t].pc = "put" /\ req[t].sched \in Scheds /\ req[t].sched # None
        BY <2>9, NoneAssumption DEF Put, TypeOK, PutReady
      <3>3. Assigned'
        BY <2>0, <3>1, <3>2 DEF Assigned
      <3>4. MappedOpen'
        BY <2>0, <3>2 DEF MappedOpen, Running, PutReady
      <3>5. PutReady'
        BY <3>1, <3>2 DEF PutReady
      <3> QED BY <3>3, <3>4, <3>5
    <2>10. CASE RunFire(t)
      <3>1. req[t].sched \in Scheds /\ sched[req[t].sched].job \in Jobs
        BY <2>0, <2>10 DEF RunFire, Request
      <3>2. /\ \A z \in Scheds : /\ sched'[z].job = sched[z].job
                                 /\ sched'[z].open = sched[z].open
                                 /\ sched'[z].loop = sched[z].loop
                                 /\ z # req[t].sched => sched'[z] = sched[z]
            /\ UNCHANGED jobs
        BY <2>10, <3>1 DEF RunFire, TypeOK, Sched
      <3>3. \A u \in Threads : req'[u] = IF u = t THEN NoRequest ELSE req[u]
        BY <2>10 DEF RunFire, Return, TypeOK
      <3>4. Assigned'
        <4>1. \A u \in Threads : req'[u].pc # "idle" => req'[u].job \in Jobs
          BY <3>3 DEF Assigned, NoRequest
        <4>2. \A u \in Threads : req'[u].sched # None =>
                req'[u].job \in Jobs /\ sched'[req'[u].sched].job = req'[u].job
          BY <3>2, <3>3 DEF Assigned, NoRequest, TypeOK, Request
        <4>3. \A z \in Scheds : sched'[z].job = None =>
                ~sched'[z].open /\ sched'[z].loop = "none" /\ sched'[z].manual = 0
          BY <3>1, <3>2, NoneAssumption DEF Assigned
        <4> QED BY <4>1, <4>2, <4>3 DEF Assigned
      <3>5. MappedOpen'
        BY <3>2 DEF MappedOpen, Running, TypeOK
      <3>6. PutReady'
        BY <3>2, <3>3 DEF PutReady, NoRequest
      <3> QED BY <3>4, <3>5, <3>6
    <2> QED BY <1>3, <2>3, <2>4, <2>5, <2>6, <2>7, <2>8, <2>9, <2>10 DEF Continue
  <1>4. ASSUME NEW s \in Scheds, LoopWake(s) \/ LoopRunEnd(s) \/ LoopExit(s) \/ ManualRunEnd(s)
        PROVE  Assigned' /\ MappedOpen' /\ PutReady'
    <2>0. /\ sched[s] \in Sched
          /\ sched[s].loop # "none" \/ sched[s].manual > 0 => sched[s].job # None
      BY DEF TypeOK, Assigned
    <2>1. CASE LoopWake(s)
      <3> DEFINE x == [sched[s] EXCEPT !.loop = "run"]
      <3>1. x \in Sched /\ x.loop = "run" /\ x.job = sched[s].job /\ x.open = sched[s].open
        BY <2>0 DEF Sched
      <3>2. sched' = [sched EXCEPT ![s] = x] /\ UNCHANGED <<jobs, req>>
        BY <2>1 DEF LoopWake, TypeOK
      <3> HIDE DEF x
      <3> QED BY <2>0, <2>1, <3>1, <3>2, LoopInv DEF LoopWake
    <2>2. CASE LoopRunEnd(s)
      <3> DEFINE x == [sched[s] EXCEPT !.loop = "wait"]
      <3>1. x \in Sched /\ x.loop = "wait" /\ x.job = sched[s].job /\ x.open = sched[s].open
        BY <2>0 DEF Sched
      <3>2. sched' = [sched EXCEPT ![s] = x] /\ UNCHANGED <<jobs, req>>
        BY <2>2 DEF LoopRunEnd, TypeOK
      <3> HIDE DEF x
      <3> QED BY <2>0, <2>2, <3>1, <3>2, LoopInv DEF LoopRunEnd
    <2>3. CASE LoopExit(s)
      <3> DEFINE x == [sched[s] EXCEPT !.loop = "done"]
      <3>1. x \in Sched /\ ~x.open /\ x.job = sched[s].job /\ x.open = sched[s].open
        BY <2>0, <2>3 DEF Sched, LoopExit
      <3>2. sched' = [sched EXCEPT ![s] = x] /\ UNCHANGED <<jobs, req>>
        BY <2>3 DEF LoopExit, TypeOK
      <3> HIDE DEF x
      <3> QED BY <2>0, <2>3, <3>1, <3>2, LoopInv DEF LoopExit
    <2>4. CASE ManualRunEnd(s)
      <3>1. /\ \A z \in Scheds : /\ sched'[z].job = sched[z].job
                                 /\ sched'[z].open = sched[z].open
                                 /\ sched'[z].loop = sched[z].loop
                                 /\ z # s => sched'[z] = sched[z]
            /\ UNCHANGED <<jobs, req>>
        BY <2>4 DEF ManualRunEnd, TypeOK, Sched
      <3>2. Assigned'
        BY <2>0, <2>4, <3>1 DEF Assigned, ManualRunEnd, TypeOK, Request
      <3>3. MappedOpen' /\ PutReady'
        BY <3>1 DEF MappedOpen, Running, PutReady, TypeOK
      <3> QED BY <3>2, <3>3
    <2> QED BY <1>4, <2>1, <2>2, <2>3, <2>4
  <1>5. CASE RestoreList \/ RestoreDone \/ UNCHANGED vars
    BY <1>5, FrameInv DEF RestoreList, RestoreDone, vars
  <1>6. ASSUME NEW j \in Jobs, RestoreOne(j) PROVE Assigned' /\ MappedOpen' /\ PutReady'
    <2>1. PICK s \in Unused : /\ sched' = [sched EXCEPT ![s] = Built(j, row[j].cfg)]
                              /\ jobs' = [jobs EXCEPT ![j] = s]
      BY <1>6 DEF RestoreOne
    <2>2. /\ s \in Scheds
          /\ \A k \in Jobs : jobs[k] # s
          /\ \A u \in Threads : req[u].sched # s
      BY UnusedFresh
    <2>3. /\ \A z \in Scheds : sched'[z] = IF z = s THEN Built(j, row[j].cfg) ELSE sched[z]
          /\ \A k \in Jobs : jobs'[k] = IF k = j THEN s ELSE jobs[k]
          /\ UNCHANGED req
      BY <1>6, <2>1 DEF RestoreOne, TypeOK
    <2>4. Assigned'
      BY <2>2, <2>3, NoneAssumption DEF Assigned, Built, TypeOK, Request
    <2>5. MappedOpen'
      BY <2>2, <2>3 DEF MappedOpen, Running, Built, TypeOK
    <2>6. PutReady'
      BY <2>2, <2>3 DEF PutReady
    <2> QED BY <2>4, <2>5, <2>6
  <1>7. CASE Crash
    BY <1>7 DEF Crash, Assigned, MappedOpen, Running, PutReady, NoRequest, Unbuilt
  <1> QED BY <1>1, <1>2, <1>3, <1>4, <1>5, <1>6, <1>7 DEF Next

-----------------------------------------------------------------------------
(* The theorems *)

\* The inductive invariant holds in every reachable state.
LEMMA Invariance == Spec => []IndInv
  BY InitInv, InvStep, PTL DEF Spec

\* Every variable keeps its type.
THEOREM TypeCorrect == Spec => []TypeOK
  <1>1. IndInv => TypeOK
    BY DEF IndInv
  <1> QED BY <1>1, Invariance, PTL

\* However many requests overlap, the job map only holds schedulers of the
\* right job that have not been stopped, so none is stopped twice.
THEOREM MapHoldsOpenSchedulers == Spec => []MappedOpen
  <1>1. IndInv => MappedOpen
    BY DEF IndInv
  <1> QED BY <1>1, Invariance, PTL

\* What no statement may do to the table: bring a deleted row back, or lose
\* recorded runs.
Ages(table) ==
    /\ \A j \in Jobs : row[j].status = "deleted" => table[j].status = "deleted"
    /\ \A j \in Jobs : Exists(j) => table[j].runs >= row[j].runs

\* Every SQL statement ages the table.
LEMMA StatementsAge ==
    ASSUME row \in [Jobs -> Row], NEW j \in Jobs
    PROVE  /\ \A st \in Statuses : Ages(StatusWritten(j, st))
           /\ \A snap \in Row, c \in Cfgs \cup {None} : Ages(RowWritten(j, snap, c))
           /\ Ages(RunCounted(j))
           /\ Ages(RowDeleted(j))
           /\ Ages(row)
           /\ \A c \in Cfgs : row[j].status = "absent" =>
                Ages([row EXCEPT ![j] = [status |-> "pending", cfg |-> c, runs |-> 0]])
  <1> USE DEF Ages, Exists, Statuses, Row
  <1>1. \A st \in Statuses : Ages(StatusWritten(j, st))
    BY DEF StatusWritten
  <1>2. \A snap \in Row, c \in Cfgs \cup {None} : Ages(RowWritten(j, snap, c))
    BY DEF RowWritten
  <1>3. Ages(RunCounted(j))
    BY DEF RunCounted
  <1>4. Ages(RowDeleted(j))
    BY DEF RowDeleted
  <1>5. Ages(row)
    OBVIOUS
  <1>6. \A c \in Cfgs : row[j].status = "absent" =>
          Ages([row EXCEPT ![j] = [status |-> "pending", cfg |-> c, runs |-> 0]])
    OBVIOUS
  <1> QED BY <1>1, <1>2, <1>3, <1>4, <1>5, <1>6

\* Every step ages the table.
LEMMA StepAges == IndInv /\ [Next]_vars => Ages(row')
  <1> SUFFICES ASSUME IndInv, [Next]_vars PROVE Ages(row')
    OBVIOUS
  <1> USE StatementsAge DEF IndInv, TypeOK, Exec
  <1>1. CASE UNCHANGED row
    <2>1. Jobs = {} => Ages(row)
      BY DEF Ages
    <2> QED BY <1>1, <2>1
  <1>2. ASSUME NEW j \in Jobs, NEW c \in Cfgs, CreateJob(j, c) PROVE Ages(row')
    BY <1>2 DEF CreateJob
  <1>3. ASSUME NEW t \in Threads, Continue(t) PROVE Ages(row')
    <2>1. req[t] \in Request /\ req[t].job \in Jobs
      BY <1>3 DEF Continue, At, StartCheck, New, Put, SetActive, StopStatus, DeleteRow,
           RunRead, RunRelook, RunFire, RunPanic, UpdateCheck, UpdateWrite, Assigned
    <2>2. CASE SetActive(t) \/ StopStatus(t)
      BY <2>1, <2>2 DEF SetActive, StopStatus, Statuses
    <2>3. CASE DeleteRow(t)
      BY <2>1, <2>3 DEF DeleteRow
    <2>4. CASE UpdateWrite(t)
      BY <2>1, <2>4 DEF UpdateWrite, Request
    <2>5. CASE UNCHANGED row
      BY <1>1, <2>5
    <2> QED BY <1>3, <2>2, <2>3, <2>4, <2>5
          DEF Continue, StartCheck, New, Put, RunRead, RunRelook, RunFire, RunPanic, UpdateCheck
  <1>4. ASSUME NEW s \in Scheds, LoopWake(s) \/ LoopRunEnd(s) \/ LoopExit(s) \/ ManualRunEnd(s)
        PROVE  Ages(row')
    <2>1. CASE LoopRunEnd(s) \/ ManualRunEnd(s)
      <3>1. sched[s].job \in Jobs
        BY <2>1 DEF LoopRunEnd, ManualRunEnd, Assigned, Sched
      <3> QED BY <2>1, <3>1 DEF LoopRunEnd, ManualRunEnd
    <2>2. CASE UNCHANGED row
      BY <1>1, <2>2
    <2> QED BY <1>4, <2>1, <2>2 DEF LoopWake, LoopExit
  <1>5. CASE UNCHANGED vars
    BY <1>1, <1>5 DEF vars
  <1> QED BY <1>1, <1>2, <1>3, <1>4, <1>5
        DEF Next, Accept, StartRead, StopLock, DeleteLock, RunLook, UpdateRead,
            RestoreList, RestoreOne, RestoreDone, Crash

\* A deleted job stays deleted, whatever statements of other requests and of
\* its own runs are still on their way.
THEOREM DeletedForGood == Spec => DeletedStaysDeleted
  <1>1. IndInv /\ [Next]_vars =>
          [\A j \in Jobs : row[j].status = "deleted" => row'[j].status = "deleted"]_vars
    BY StepAges DEF Ages
  <1> QED BY <1>1, Invariance, PTL DEF Spec, DeletedStaysDeleted

\* No update, however stale the row it read, winds the run statistics back.
THEOREM StatsNeverLost == Spec => StatsKept
  <1>1. IndInv /\ [Next]_vars => [\A j \in Jobs : Exists(j) => row'[j].runs >= row[j].runs]_vars
    BY StepAges DEF Ages
  <1> QED BY <1>1, Invariance, PTL DEF Spec, StatsKept

-----------------------------------------------------------------------------
(* Restart: what RestoreActiveJobs has done so far                         *)

\* No request is in progress until RestoreActiveJobs has returned.  While it
\* runs, the active jobs are those still listed and those already started,
\* each with the configuration of its row; the runs of the latter only count.
Restoring ==
    /\ \A t \in Threads : req[t].pc # "idle" => boot = "up"
    /\ boot = "down" => \A j \in Jobs : ~Running(j)
    /\ boot # "restoring" => todo = {}
    /\ boot = "restoring" => \A j \in Jobs :
         /\ row[j].status = "active" <=> j \in todo \/ Running(j)
         /\ j \in todo => ~Running(j)
         /\ Running(j) => sched[jobs[j]].cfg = row[j].cfg

\* The steps of a scheduler's goroutines leave the map and the requests alone;
\* in the table they only count runs.
LEMMA LoopFacts ==
    ASSUME IndInv, NEW s \in Scheds, LoopWake(s) \/ LoopRunEnd(s) \/ LoopExit(s) \/ ManualRunEnd(s)
    PROVE  /\ UNCHANGED <<jobs, req, boot, todo>>
           /\ \A z \in Scheds : /\ sched'[z].job = sched[z].job
                                /\ sched'[z].cfg = sched[z].cfg
                                /\ sched'[z].open = sched[z].open
           /\ \A j \in Jobs : /\ row'[j].status = row[j].status
                              /\ row'[j].cfg = row[j].cfg
  <1> USE DEF IndInv, TypeOK
  <1>1. \A z \in Scheds : /\ sched'[z].job = sched[z].job
                          /\ sched'[z].cfg = sched[z].cfg
                          /\ sched'[z].open = sched[z].open
    BY DEF LoopWake, LoopRunEnd, LoopExit, ManualRunEnd, Sched
  <1>2. \A j \in Jobs : /\ RunCounted(sched[s].job)[j].status = row[j].status
                        /\ RunCounted(sched[s].job)[j].cfg = row[j].cfg
    BY DEF RunCounted, Row
  <1>3. \A j \in Jobs : /\ row'[j].status = row[j].status
                        /\ row'[j].cfg = row[j].cfg
    BY <1>2 DEF LoopWake, LoopRunEnd, LoopExit, ManualRunEnd, Exec
  <1>4. UNCHANGED <<jobs, req, boot, todo>>
    BY DEF LoopWake, LoopRunEnd, LoopExit, ManualRunEnd
  <1> QED BY <1>1, <1>3, <1>4

\* A step of a request is a step of a process that has been restored.
LEMMA RequestFacts ==
    ASSUME IndInv, Restoring, NEW t \in Threads,
           Continue(t) \/ \E j \in Jobs : Accept(t, j)
    PROVE  boot = "up" /\ UNCHANGED <<boot, todo>>
  <1>1. CASE Continue(t)
    <2>1. req[t].pc # "idle"
      BY <1>1 DEF Continue, At, StartCheck, New, Put, SetActive, StopStatus, DeleteRow,
           RunRead, RunRelook, RunFire, RunPanic, UpdateCheck, UpdateWrite
    <2>2. UNCHANGED <<boot, todo>>
      BY <1>1 DEF Continue, StartCheck, New, Put, SetActive, StopStatus, DeleteRow,
           RunRead, RunRelook, RunFire, RunPanic, UpdateCheck, UpdateWrite
    <2> QED BY <2>1, <2>2 DEF Restoring
  <1>2. ASSUME NEW j \in Jobs, Accept(t, j) PROVE boot = "up" /\ UNCHANGED <<boot, todo>>
    BY <1>2 DEF Accept, StartRead, StopLock, DeleteLock, RunLook, UpdateRead, Idle
  <1> QED BY <1>1, <1>2

\* What RestoreOne does, with the scheduler it takes named.
LEMMA RestoreOneFacts ==
    ASSUME IndInv, NEW j \in Jobs, RestoreOne(j)
    PROVE  \E s \in Scheds :
             /\ sched[s].job = None
             /\ \A k \in Jobs : jobs[k] # s
             /\ \A z \in Scheds : sched'[z] = IF z = s THEN Built(j, row[j].cfg) ELSE sched[z]
             /\ \A k \in Jobs : jobs'[k] = IF k = j THEN s ELSE jobs[k]
             /\ boot = "restoring" /\ j \in todo
             /\ todo' = todo \ {j}
             /\ UNCHANGED <<row, req, boot>>
  <1>1. PICK s \in Unused : /\ sched' = [sched EXCEPT ![s] = Built(j, row[j].cfg)]
                            /\ jobs' = [jobs EXCEPT ![j] = s]
    BY DEF RestoreOne
  <1>2. s \in Scheds /\ sched[s].job = None /\ \A k \in Jobs : jobs[k] # s
    BY UnusedFresh DEF Unused
  <1>3. /\ \A z \in Scheds : sched'[z] = IF z = s THEN Built(j, row[j].cfg) ELSE sched[z]
        /\ \A k \in Jobs : jobs'[k] = IF k = j THEN s ELSE jobs[k]
    BY <1>1, <1>2 DEF IndInv, TypeOK
  <1> QED BY <1>2, <1>3 DEF RestoreOne

LEMMA RestoringStep == IndInv /\ Restoring /\ [Next]_vars => Restoring'
  <1> SUFFICES ASSUME IndInv, Restoring, [Next]_vars PROVE Restoring'
    OBVIOUS
  <1>1. ASSUME boot = "up", UNCHANGED <<boot, todo>> PROVE Restoring'
    BY <1>1 DEF Restoring
  <1>2. ASSUME NEW j \in Jobs, NEW c \in Cfgs, CreateJob(j, c) PROVE Restoring'
    BY <1>1, <1>2 DEF CreateJob
  <1>3. ASSUME NEW t \in Threads, Continue(t) \/ \E j \in Jobs : Accept(t, j) PROVE Restoring'
    BY <1>1, <1>3, RequestFacts
  <1>4. ASSUME NEW s \in Scheds, LoopWake(s) \/ LoopRunEnd(s) \/ LoopExit(s) \/ ManualRunEnd(s)
        PROVE  Restoring'
    BY <1>4, LoopFacts DEF Restoring, Running, IndInv, TypeOK
  <1>5. CASE RestoreList
    BY <1>5 DEF RestoreList, Restoring, Running
  <1>6. ASSUME NEW j \in Jobs, RestoreOne(j) PROVE Restoring'
    <2>1. PICK s \in Scheds :
            /\ sched[s].job = None
            /\ \A k \in Jobs : jobs[k] # s
            /\ \A z \in Scheds : sched'[z] = IF z = s THEN Built(j, row[j].cfg) ELSE sched[z]
            /\ \A k \in Jobs : jobs'[k] = IF k = j THEN s ELSE jobs[k]
            /\ boot = "restoring" /\ j \in todo
            /\ todo' = todo \ {j}
            /\ UNCHANGED <<row, req, boot>>
      BY <1>6, RestoreOneFacts
    <2>2. s # None /\ Built(j, row[j].cfg).cfg = row[j].cfg
      BY NoneAssumption DEF Built
    <2> QED BY <2>1, <2>2 DEF Restoring, Running, IndInv, TypeOK
  <1>7. CASE RestoreDone
    BY <1>7 DEF RestoreDone, Restoring
  <1>8. CASE Crash
    BY <1>8 DEF Crash, Restoring, Running, NoRequest
  <1>9. CASE UNCHANGED vars
    BY <1>9 DEF vars, Restoring, Running
  <1> QED BY <1>2, <1>3, <1>4, <1>5, <1>6, <1>7, <1>8, <1>9 DEF Next

LEMMA RestoringInvariance == Spec => []Restoring
  <1>1. Init => Restoring
    BY DEF Init, Restoring, Running, NoRequest
  <1> QED BY <1>1, RestoringStep, Invariance, PTL DEF Spec

\* When the process serves requests again, every job whose row is active runs,
\* with the configuration its row holds then.
THEOREM RestartIsComplete == Spec => RestoreComplete
  <1>1. IndInv /\ Restoring /\ [Next]_vars =>
          [boot = "restoring" /\ boot' = "up" =>
             \A j \in Jobs : row[j].status = "active" =>
                 Running(j) /\ sched[jobs[j]].cfg = row[j].cfg]_vars
    <2> SUFFICES ASSUME IndInv, Restoring, Next, boot = "restoring", boot' = "up",
                        NEW j \in Jobs, row[j].status = "active"
                 PROVE  Running(j) /\ sched[jobs[j]].cfg = row[j].cfg
      OBVIOUS
    <2>1. todo = {}
      <3>1. ASSUME NEW t \in Threads, Continue(t) \/ \E k \in Jobs : Accept(t, k) PROVE FALSE
        BY <3>1, RequestFacts
      <3>2. ASSUME NEW s \in Scheds, LoopWake(s) \/ LoopRunEnd(s) \/ LoopExit(s) \/ ManualRunEnd(s)
            PROVE  FALSE
        BY <3>2, LoopFacts
      <3>3. RestoreDone
        BY <3>1, <3>2 DEF Next, CreateJob, RestoreList, RestoreOne, Crash
      <3> QED BY <3>3 DEF RestoreDone
    <2> QED BY <2>1 DEF Restoring
  <1> QED BY <1>1, Invariance, RestoringInvariance, PTL DEF Spec, RestoreComplete

-----------------------------------------------------------------------------
(* One request at a time                                                   *)

OneAtATime == \A t, u \in Threads : t = u

\* What a request may rely on between two of its steps: the row it read is
\* still there as it read it, and the job runs, or does not, as it found it.
Phase(t) ==
    /\ req[t].pc \in {"check", "new", "put", "updateCheck", "updateWrite"} => Exists(req[t].job)
    /\ req[t].pc \in {"check", "new"} => req[t].snap.cfg = row[req[t].job].cfg
    /\ req[t].pc = "put" => sched[req[t].sched].cfg = row[req[t].job].cfg
    /\ req[t].pc \in {"new", "put", "read", "stopStatus", "deleteRow", "updateWrite"} =>
         ~Running(req[t].job)
    /\ req[t].pc \in {"status", "relook"} => Running(req[t].job)
    /\ req[t].pc = "fire" => req[t].sched # None
    /\ req[t].pc \in {"updateCheck", "updateWrite"} =>
         req[t].snap.status = row[req[t].job].status /\ req[t].cfg \in Cfgs

\* A saved row has a configuration.
CfgSaved == \A j \in Jobs : Exists(j) => row[j].cfg \in Cfgs

SerialIndInv ==
    /\ IndInv
    /\ Restoring
    /\ \A t \in Threads : Phase(t)
    /\ RunningIsMapped
    /\ RunsItsConfig
    /\ NoGhost
    /\ CfgSaved

\* The status column and the map disagree about a job only while a request
\* that has changed the one has still to change the other.
Agreement ==
    boot = "up" => \A j \in Jobs :
        \/ Running(j) <=> row[j].status = "active"
        \/ \E t \in Threads :
             req[t].job = j /\ req[t].pc \in {"status", "stopStatus", "deleteRow"}

\* The parts of the invariant that only hold for one request at a time.
SerialParts ==
    /\ \A t \in Threads : Phase(t)
    /\ RunningIsMapped
    /\ RunsItsConfig
    /\ NoGhost
    /\ CfgSaved

\* A statement that only changes a status, or that fails: every row is still
\* there and has its configuration.
StatusOnly ==
    \A j \in Jobs : /\ Exists(j)' <=> Exists(j)
                    /\ row'[j].cfg = row[j].cfg

\* No scheduler is built, closed or given to another job.
SameSchedulers ==
    \A z \in Scheds : /\ sched'[z].job = sched[z].job
                      /\ sched'[z].cfg = sched[z].cfg
                      /\ sched'[z].open = sched[z].open

\* A request at work is the only one.
LEMMA Alone ==
    ASSUME OneAtATime, IndInv, NEW t \in Threads, NEW r, Begin(t, r)
    PROVE  req'[t] = r /\ \A u \in Threads : u = t
  BY DEF OneAtATime, IndInv, TypeOK, Begin

\* Steps that move no request: runs that begin, end and are counted.
LEMMA QuietSerial ==
    ASSUME SerialIndInv, UNCHANGED <<jobs, req>>, SameSchedulers,
           \A j \in Jobs : row'[j].status = row[j].status /\ row'[j].cfg = row[j].cfg
    PROVE  SerialParts'
  <1> USE DEF SerialIndInv, IndInv, TypeOK
  <1>1. \A j \in Jobs : (Exists(j)' <=> Exists(j)) /\ (Running(j)' <=> Running(j))
    BY DEF Exists, Running
  <1>2. ASSUME NEW t \in Threads PROVE Phase(t)'
    <2>1. req[t].pc # "idle" => req[t].job \in Jobs
      BY DEF Assigned
    <2>2. req[t].pc = "put" => req[t].sched \in Scheds
      BY DEF PutReady
    <2> QED BY <1>1, <2>1, <2>2 DEF Phase, SameSchedulers
  <1>3. RunningIsMapped'
    BY DEF RunningIsMapped, SameSchedulers
  <1>4. RunsItsConfig' /\ NoGhost' /\ CfgSaved'
    BY <1>1 DEF RunsItsConfig, NoGhost, CfgSaved, SameSchedulers, Running
  <1> QED BY <1>2, <1>3, <1>4 DEF SerialParts

\* A request that moves on, and at most changes a status.
LEMMA MoveSerial ==
    ASSUME OneAtATime, SerialIndInv, NEW t \in Threads, NEW r, Begin(t, r),
           UNCHANGED jobs, SameSchedulers, StatusOnly, req[t].pc # "put", Phase(t)'
    PROVE  SerialParts'
  <1> USE DEF SerialIndInv, IndInv, TypeOK
  <1>1. \A u \in Threads : Phase(u)'
    BY Alone
  <1>2. RunningIsMapped'
    BY Alone DEF RunningIsMapped, SameSchedulers
  <1>3. RunsItsConfig' /\ NoGhost' /\ CfgSaved'
    BY DEF RunsItsConfig, NoGhost, CfgSaved, SameSchedulers, Running, StatusOnly
  <1> QED BY <1>1, <1>2, <1>3 DEF SerialParts

\* The job of a new StopJob or DeleteJob no longer runs; its scheduler is
\* closed and every other one stays as it was.
LEMMA StopFacts ==
    ASSUME IndInv, NEW j \in Jobs, StopAndUnmap(j)
    PROVE  /\ \A k \in Jobs : jobs'[k] = IF k = j THEN None ELSE jobs[k]
           /\ \A z \in Scheds : /\ sched'[z].job = sched[z].job
                                /\ sched'[z].cfg = sched[z].cfg
                                /\ sched'[z].open => sched[z].open /\ z # jobs[j]
                                /\ z # jobs[j] => sched'[z] = sched[z]
  <1> USE DEF IndInv, TypeOK
  <1>1. CASE Running(j)
    BY <1>1 DEF StopAndUnmap, Closed, Sched
  <1>2. CASE ~Running(j)
    BY <1>2, NoneAssumption DEF StopAndUnmap, Running
  <1> QED BY <1>1, <1>2

LEMMA StopSerial ==
    ASSUME OneAtATime, SerialIndInv, NEW t \in Threads, NEW j \in Jobs, StopAndUnmap(j),
           NEW r, Begin(t, r), r.pc \in {"stopStatus", "deleteRow"}, r.job = j,
           req[t].pc = "idle", UNCHANGED row
    PROVE  SerialParts'
  <1> USE DEF SerialIndInv
  <1>1. req'[t] = r /\ \A u \in Threads : u = t
    BY Alone
  <1>2. \A u \in Threads : Phase(u)'
    BY <1>1, StopFacts DEF Phase, Running
  <1>3. RunningIsMapped'
    <2> SUFFICES ASSUME NEW s \in Scheds, sched'[s].open PROVE jobs'[sched'[s].job] = s
      BY DEF RunningIsMapped
    <2>1. sched[s].open /\ s # jobs[j] /\ sched'[s].job = sched[s].job
      BY StopFacts
    <2>2. jobs[sched[s].job] = s
      BY <1>1, <2>1 DEF RunningIsMapped
    <2>3. sched[s].job \in Jobs
      BY <2>1 DEF IndInv, TypeOK, Assigned, Sched
    <2> QED BY <2>1, <2>2, <2>3, StopFacts
  <1>4. \A k \in Jobs : Running(k)' =>
          /\ Running(k) /\ jobs'[k] = jobs[k]
          /\ sched'[jobs[k]].cfg = sched[jobs[k]].cfg
    BY StopFacts DEF Running, IndInv, TypeOK
  <1>5. RunsItsConfig' /\ NoGhost' /\ CfgSaved'
    BY <1>4 DEF RunsItsConfig, NoGhost, CfgSaved, Exists
  <1> QED BY <1>2, <1>3, <1>5 DEF SerialParts

\* What New does, with the scheduler it takes named.
LEMMA NewFacts ==
    ASSUME IndInv, NEW t \in Threads, New(t)
    PROVE  \E s \in Scheds :
             /\ sched[s].job = None
             /\ \A k \in Jobs : jobs[k] # s
             /\ \A z \in Scheds : sched'[z] = IF z = s THEN Built(req[t].job, req[t].snap.cfg)
                                                       ELSE sched[z]
             /\ req[t].pc = "new" /\ req[t].job \in Jobs
             /\ req'[t].pc = "put" /\ req'[t].sched = s /\ req'[t].job = req[t].job
             /\ UNCHANGED <<row, jobs>>
  <1>1. PICK s \in Unused :
          /\ sched' = [sched EXCEPT ![s] = Built(req[t].job, req[t].snap.cfg)]
          /\ req' = [req EXCEPT ![t].pc = "put", ![t].sched = s, ![t].snap = NoRow]
    BY DEF New
  <1>2. s \in Scheds /\ sched[s].job = None /\ \A k \in Jobs : jobs[k] # s
    BY UnusedFresh DEF Unused
  <1>3. \A z \in Scheds : sched'[z] = IF z = s THEN Built(req[t].job, req[t].snap.cfg)
                                               ELSE sched[z]
    BY <1>1, <1>2 DEF IndInv, TypeOK
  <1>4. req'[t].pc = "put" /\ req'[t].sched = s /\ req'[t].job = req[t].job
    BY <1>1 DEF IndInv, TypeOK, Request
  <1>5. req[t].pc = "new" /\ req[t].job \in Jobs /\ UNCHANGED <<row, jobs>>
    BY DEF New, IndInv, Assigned
  <1> QED BY <1>2, <1>3, <1>4, <1>5

LEMMA NewSerial ==
    ASSUME OneAtATime, SerialIndInv, NEW t \in Threads, New(t)
    PROVE  SerialParts'
  <1> USE DEF SerialIndInv
  <1>1. PICK s \in Scheds :
          /\ sched[s].job = None
          /\ \A k \in Jobs : jobs[k] # s
          /\ \A z \in Scheds : sched'[z] = IF z = s THEN Built(req[t].job, req[t].snap.cfg)
                                                    ELSE sched[z]
          /\ req[t].pc = "new" /\ req[t].job \in Jobs
          /\ req'[t].pc = "put" /\ req'[t].sched = s /\ req'[t].job = req[t].job
          /\ UNCHANGED <<row, jobs>>
    BY NewFacts
  <1>2. \A u \in Threads : u = t
    BY DEF OneAtATime
  <1>3. /\ Exists(req[t].job) /\ ~Running(req[t].job)
        /\ req[t].snap.cfg = row[req[t].job].cfg
    BY <1>1 DEF Phase
  <1>4. \A u \in Threads : Phase(u)'
    BY <1>1, <1>2, <1>3 DEF Phase, Built, Exists, Running
  <1>5. RunningIsMapped'
    BY <1>1, <1>2 DEF RunningIsMapped
  <1>6. RunsItsConfig' /\ NoGhost' /\ CfgSaved'
    BY <1>1 DEF RunsItsConfig, NoGhost, CfgSaved, Running, Exists, IndInv, TypeOK
  <1> QED BY <1>4, <1>5, <1>6 DEF SerialParts

\* What Put does to the map: the job did not run, so no entry is overwritten.
LEMMA PutSerial ==
    ASSUME OneAtATime, SerialIndInv, NEW t \in Threads, Put(t)
    PROVE  SerialParts'
  <1> USE DEF SerialIndInv
  <1>1. /\ req[t].pc = "put" /\ req[t].job \in Jobs /\ req[t].sched \in Scheds
        /\ sched[req[t].sched].job = req[t].job
        /\ req[t].sched # None
    BY NoneAssumption DEF Put, IndInv, TypeOK, Assigned, PutReady
  <1>2. /\ \A k \in Jobs : jobs'[k] = IF k = req[t].job THEN req[t].sched ELSE jobs[k]
        /\ req'[t].pc = "status" /\ req'[t].job = req[t].job
        /\ UNCHANGED <<row, sched>>
    BY DEF Put, IndInv, TypeOK, Request
  <1>3. \A u \in Threads : u = t
    BY DEF OneAtATime
  <1>4. /\ Exists(req[t].job) /\ ~Running(req[t].job)
        /\ sched[req[t].sched].cfg = row[req[t].job].cfg
    BY <1>1 DEF Phase
  <1>5. \A u \in Threads : Phase(u)'
    BY <1>1, <1>2, <1>3 DEF Phase, Running
  <1>6. RunningIsMapped'
    <2> SUFFICES ASSUME NEW s \in Scheds, sched[s].open PROVE jobs'[sched[s].job] = s
      BY <1>2 DEF RunningIsMapped
    <2>1. CASE s = req[t].sched
      BY <1>1, <1>2, <2>1
    <2>2. CASE s # req[t].sched
      <3>1. jobs[sched[s].job] = s
        BY <1>3, <2>2 DEF RunningIsMapped
      <3>2. sched[s].job \in Jobs /\ sched[s].job # req[t].job
        BY <1>4, <3>1, NoneAssumption DEF IndInv, TypeOK, Assigned, Sched, Running
      <3> QED BY <1>2, <3>1, <3>2
    <2> QED BY <2>1, <2>2
  <1>7. RunsItsConfig' /\ NoGhost' /\ CfgSaved'
    BY <1>1, <1>2, <1>4 DEF RunsItsConfig, NoGhost, CfgSaved, Running, Exists
  <1> QED BY <1>5, <1>6, <1>7 DEF SerialParts

\* The SQL statements of a request: its job's row is the only one they touch.
LEMMA StatusWriteFacts ==
    ASSUME IndInv, NEW j \in Jobs, NEW st \in Statuses, Exec(StatusWritten(j, st))
    PROVE  StatusOnly
  BY DEF IndInv, TypeOK, Exec, StatusWritten, StatusOnly, Exists, Row, Statuses

LEMMA DeleteFacts ==
    ASSUME IndInv, NEW j \in Jobs, Exec(RowDeleted(j))
    PROVE  /\ \A k \in Jobs \ {j} : row'[k] = row[k]
           /\ row'[j].cfg = row[j].cfg
           /\ row' = row \/ ~Exists(j)'
  BY DEF IndInv, TypeOK, Exec, RowDeleted, Exists, Row, Statuses

LEMMA UpdateFacts ==
    ASSUME IndInv, NEW j \in Jobs, NEW snap \in Row, NEW c \in Cfgs,
           Exec(RowWritten(j, snap, c)), snap.status = row[j].status
    PROVE  /\ \A k \in Jobs \ {j} : row'[k] = row[k]
           /\ row'[j].status = row[j].status
           /\ row' = row \/ row'[j].cfg = c
  BY DEF IndInv, TypeOK, Exec, RowWritten, Row

\* CreateJob fills a row nobody has used.
LEMMA CreateFacts ==
    ASSUME IndInv, NEW j \in Jobs, NEW c \in Cfgs, CreateJob(j, c)
    PROVE  /\ boot = "up" /\ row[j].status = "absent"
           /\ \A k \in Jobs \ {j} : row'[k] = row[k]
           /\ row' = row \/ (row'[j].status = "pending" /\ row'[j].cfg = c)
           /\ UNCHANGED <<jobs, sched, req, boot, todo>>
  BY DEF IndInv, TypeOK, CreateJob, Exec, Row

\* A statement on the row of a job that does not run, by the last step of a
\* request.
LEMMA LastSerial ==
    ASSUME OneAtATime, SerialIndInv, NEW t \in Threads, NEW j \in Jobs,
           Return(t), UNCHANGED <<jobs, sched>>, req[t].pc # "put", ~Running(j),
           \A k \in Jobs \ {j} : row'[k] = row[k],
           Exists(j)' => row'[j].cfg \in Cfgs
    PROVE  SerialParts'
  <1> USE DEF SerialIndInv
  <1>1. req'[t] = NoRequest /\ \A u \in Threads : u = t
    BY Alone DEF Return, Begin
  <1>2. \A u \in Threads : Phase(u)'
    BY <1>1 DEF Phase, NoRequest
  <1>3. RunningIsMapped'
    BY <1>1 DEF RunningIsMapped
  <1>4. RunsItsConfig' /\ NoGhost' /\ CfgSaved'
    BY DEF RunsItsConfig, NoGhost, CfgSaved, Running, Exists
  <1> QED BY <1>2, <1>3, <1>4 DEF SerialParts

\* Requests in the middle of their work.
LEMMA ContinueSerial ==
    ASSUME OneAtATime, SerialIndInv, NEW t \in Threads, Continue(t)
    PROVE  SerialParts'
  <1> USE DEF SerialIndInv
  <1>0. /\ req[t] \in Request /\ req[t].pc # "idle" /\ req[t].job \in Jobs /\ Phase(t)
    BY DEF Continue, At, StartCheck, New, Put, SetActive, StopStatus, DeleteRow,
         RunRead, RunRelook, RunFire, RunPanic, UpdateCheck, UpdateWrite, Assigned, IndInv, TypeOK
  <1>1. ASSUME Return(t), UNCHANGED jobs, SameSchedulers, StatusOnly, req[t].pc # "put"
        PROVE  SerialParts'
    <2>1. Begin(t, NoRequest)
      BY <1>1 DEF Return, Begin
    <2>2. Phase(t)'
      BY <2>1, Alone DEF Phase, NoRequest
    <2> QED BY <1>1, <2>1, <2>2, MoveSerial
  <1>2. ASSUME NEW pc \in Labels, Goto(t, pc), UNCHANGED jobs, SameSchedulers, StatusOnly,
               req[t].pc # "put"
        PROVE  \E r \in Request : /\ Begin(t, r) /\ r.pc = pc /\ r.job = req[t].job
                                  /\ r.snap = req[t].snap /\ r.cfg = req[t].cfg
                                  /\ req'[t] = r
    <2> DEFINE r == [req[t] EXCEPT !.pc = pc]
    <2>1. /\ r \in Request /\ r.pc = pc /\ r.job = req[t].job
          /\ r.snap = req[t].snap /\ r.cfg = req[t].cfg
      BY <1>0 DEF Request
    <2>2. Begin(t, r) /\ req'[t] = r
      BY <1>2 DEF Goto, Begin, IndInv, TypeOK
    <2> QED BY <2>1, <2>2
  <1>3. UNCHANGED sched => SameSchedulers
    BY DEF SameSchedulers
  <1>4. UNCHANGED row => StatusOnly
    BY DEF StatusOnly, Exists
  <1>5. CASE StartCheck(t)
    <2>1. CASE Running(req[t].job)
      BY <1>1, <1>3, <1>4, <1>5, <2>1 DEF StartCheck, At
    <2>2. CASE ~Running(req[t].job)
      <3>1. Goto(t, "new") /\ UNCHANGED <<row, jobs, sched>> /\ req[t].pc = "check"
        BY <1>5, <2>2 DEF StartCheck, At
      <3>2. PICK r \in Request : /\ Begin(t, r) /\ r.pc = "new" /\ r.job = req[t].job
                                 /\ r.snap = req[t].snap /\ r.cfg = req[t].cfg
                                 /\ req'[t] = r
        BY <1>2, <1>3, <1>4, <3>1 DEF Labels
      <3>3. Phase(t)'
        BY <1>0, <2>2, <3>1, <3>2 DEF Phase, Exists, Running
      <3> QED BY <1>3, <1>4, <3>1, <3>2, <3>3, MoveSerial
    <2> QED BY <2>1, <2>2
  <1>6. CASE New(t)
    BY <1>6, NewSerial
  <1>7. CASE Put(t)
    BY <1>7, PutSerial
  <1>8. CASE SetActive(t)
    <2>1. StatusOnly
      BY <1>0, <1>8, StatusWriteFacts DEF SetActive, Statuses
    <2>2. CASE req[t].op # "run"
      BY <1>1, <1>3, <1>8, <2>1, <2>2 DEF SetActive
    <2>3. CASE req[t].op = "run"
      <3>1. Goto(t, "relook") /\ UNCHANGED <<jobs, sched>> /\ req[t].pc = "status"
        BY <1>8, <2>3 DEF SetActive
      <3>2. PICK r \in Request : /\ Begin(t, r) /\ r.pc = "relook" /\ r.job = req[t].job
                                 /\ r.snap = req[t].snap /\ r.cfg = req[t].cfg
                                 /\ req'[t] = r
        BY <1>2, <1>3, <2>1, <3>1 DEF Labels
      <3>3. Phase(t)'
        BY <1>0, <3>1, <3>2 DEF Phase, Running
      <3> QED BY <1>3, <2>1, <3>1, <3>2, <3>3, MoveSerial
    <2> QED BY <2>2, <2>3
  <1>9. CASE StopStatus(t)
    <2>1. StatusOnly
      BY <1>0, <1>9, StatusWriteFacts DEF StopStatus, Statuses
    <2> QED BY <1>1, <1>3, <1>9, <2>1 DEF StopStatus
  <1>10. CASE DeleteRow(t)
    <2>1. PICK j \in Jobs : j = req[t].job
      BY <1>0
    <2>2. /\ \A k \in Jobs \ {j} : row'[k] = row[k]
          /\ row'[j].cfg = row[j].cfg
          /\ row' = row \/ ~Exists(j)'
      BY <1>10, <2>1, DeleteFacts DEF DeleteRow
    <2>3. Exists(j)' => row'[j].cfg \in Cfgs
      BY <2>2 DEF CfgSaved, Exists
    <2>4. ~Running(j) /\ req[t].pc = "deleteRow"
      BY <1>0, <1>10, <2>1 DEF DeleteRow, Phase
    <2>5. Return(t) /\ UNCHANGED <<jobs, sched>>
      BY <1>10 DEF DeleteRow
    <2> QED BY <2>2, <2>3, <2>4, <2>5, LastSerial
  <1>11. CASE RunRead(t)
    <2>1. CASE ~Exists(req[t].job)
      BY <1>1, <1>3, <1>4, <1>11, <2>1 DEF RunRead
    <2>2. CASE Exists(req[t].job)
      <3> DEFINE r == [req[t] EXCEPT !.pc = "new", !.snap = row[req[t].job]]
      <3>1. r.pc = "new" /\ r.job = req[t].job /\ r.snap = row[req[t].job]
        BY <1>0 DEF Request
      <3>2. Begin(t, r) /\ UNCHANGED <<row, jobs, sched>> /\ req[t].pc = "read"
        BY <1>11, <2>2 DEF RunRead, Begin, IndInv, TypeOK
      <3>3. req'[t] = r
        BY <3>2, Alone
      <3> HIDE DEF r
      <3>4. Phase(t)'
        BY <1>0, <2>2, <3>1, <3>2, <3>3 DEF Phase, Running, Exists
      <3> QED BY <1>3, <1>4, <3>2, <3>4, MoveSerial
    <2> QED BY <2>1, <2>2
  <1>12. CASE RunRelook(t)
    <2> DEFINE r == [req[t] EXCEPT !.pc = "fire", !.sched = jobs[req[t].job]]
    <2>1. r.pc = "fire" /\ r.job = req[t].job /\ r.sched = jobs[req[t].job]
      BY <1>0 DEF Request
    <2>2. Begin(t, r) /\ UNCHANGED <<row, jobs, sched>> /\ req[t].pc = "relook"
      BY <1>12 DEF RunRelook, Begin, IndInv, TypeOK
    <2>3. req'[t] = r
      BY <2>2, Alone
    <2> HIDE DEF r
    <2>4. Phase(t)'
      BY <1>0, <2>1, <2>2, <2>3 DEF Phase, Running
    <2> QED BY <1>3, <1>4, <2>2, <2>4, MoveSerial
  <1>13. CASE RunFire(t)
    <2>1. SameSchedulers
      BY <1>0, <1>13 DEF RunFire, SameSchedulers, IndInv, TypeOK, Sched, Request
    <2> QED BY <1>1, <1>4, <1>13, <2>1 DEF RunFire
  <1>14. CASE RunPanic(t)
    BY <1>1, <1>3, <1>4, <1>14 DEF RunPanic
  <1>15. CASE UpdateCheck(t)
    <2>1. CASE Running(req[t].job)
      BY <1>1, <1>3, <1>4, <1>15, <2>1 DEF UpdateCheck, At
    <2>2. CASE ~Running(req[t].job)
      <3>1. Goto(t, "updateWrite") /\ UNCHANGED <<row, jobs, sched>> /\ req[t].pc = "updateCheck"
        BY <1>15, <2>2 DEF UpdateCheck, At
      <3>2. PICK r \in Request : /\ Begin(t, r) /\ r.pc = "updateWrite" /\ r.job = req[t].job
                                 /\ r.snap = req[t].snap /\ r.cfg = req[t].cfg
                                 /\ req'[t] = r
        BY <1>2, <1>3, <1>4, <3>1 DEF Labels
      <3>3. Phase(t)'
        BY <1>0, <2>2, <3>1, <3>2 DEF Phase, Exists, Running
      <3> QED BY <1>3, <1>4, <3>1, <3>2, <3>3, MoveSerial
    <2> QED BY <2>1, <2>2
  <1>16. CASE UpdateWrite(t)
    <2>1. PICK j \in Jobs : j = req[t].job
      BY <1>0
    <2>2. /\ ~Running(j) /\ req[t].pc = "updateWrite"
          /\ req[t].snap.status = row[j].status
          /\ req[t].cfg \in Cfgs /\ req[t].snap \in Row
      BY <1>0, <1>16, <2>1 DEF UpdateWrite, Phase, Request
    <2>3. /\ \A k \in Jobs \ {j} : row'[k] = row[k]
          /\ row'[j].status = row[j].status
          /\ row' = row \/ row'[j].cfg = req[t].cfg
      BY <1>16, <2>1, <2>2, UpdateFacts DEF UpdateWrite
    <2>4. Exists(j)' => row'[j].cfg \in Cfgs
      BY <2>2, <2>3 DEF CfgSaved, Exists
    <2>5. Return(t) /\ UNCHANGED <<jobs, sched>>
      BY <1>16 DEF UpdateWrite
    <2> QED BY <2>2, <2>3, <2>4, <2>5, LastSerial
  <1> QED BY <1>5, <1>6, <1>7, <1>8, <1>9, <1>10, <1>11, <1>12, <1>13, <1>14, <1>15, <1>16
        DEF Continue

\* New requests.
LEMMA AcceptSerial ==
    ASSUME OneAtATime, SerialIndInv, NEW t \in Threads, NEW j \in Jobs, Accept(t, j)
    PROVE  SerialParts'
  <1> USE DEF SerialIndInv
  <1>0. req[t].pc = "idle"
    BY DEF Accept, StartRead, StopLock, DeleteLock, RunLook, UpdateRead, Idle
  <1>1. ASSUME NEW r, Begin(t, r), UNCHANGED <<row, jobs, sched>>, r.job = j,
               r.pc \in {"check", "updateCheck"} => Exists(j) /\ r.snap = row[j],
               r.pc = "read" => ~Running(j),
               r.pc = "fire" => r.sched # None,
               r.pc = "updateCheck" => r.cfg \in Cfgs,
               r.pc \in {"check", "read", "fire", "updateCheck"}
        PROVE  SerialParts'
    <2>1. SameSchedulers /\ StatusOnly
      BY <1>1 DEF SameSchedulers, StatusOnly, Exists
    <2>2. req'[t] = r
      BY <1>1, Alone
    <2>3. Phase(t)'
      BY <1>1, <2>2 DEF Phase, Exists, Running
    <2> QED BY <1>0, <1>1, <2>1, <2>3, MoveSerial
  <1>2. CASE StartRead(t, j)
    BY <1>1, <1>2 DEF StartRead, NoRequest
  <1>3. CASE StopLock(t, j)
    BY <1>0, <1>3, StopSerial DEF StopLock, NoRequest
  <1>4. CASE DeleteLock(t, j)
    BY <1>0, <1>4, StopSerial DEF DeleteLock, NoRequest
  <1>5. CASE RunLook(t, j)
    <2> DEFINE r == [NoRequest EXCEPT !.op = "run", !.job = j, !.sched = jobs[j],
                                      !.pc = IF Running(j) THEN "fire" ELSE "read"]
    <2>1. /\ r.job = j /\ r.sched = jobs[j]
          /\ r.pc = IF Running(j) THEN "fire" ELSE "read"
      BY DEF NoRequest
    <2>2. Begin(t, r) /\ UNCHANGED <<row, jobs, sched>>
      BY <1>5 DEF RunLook
    <2> HIDE DEF r
    <2> QED BY <1>1, <2>1, <2>2 DEF Running
  <1>6. ASSUME NEW c \in Cfgs, UpdateRead(t, j, c) PROVE SerialParts'
    BY <1>1, <1>6 DEF UpdateRead, NoRequest
  <1> QED BY <1>2, <1>3, <1>4, <1>5, <1>6 DEF Accept

\* The start of the process, job by job.
LEMMA RestoreSerial ==
    ASSUME SerialIndInv, NEW j \in Jobs, RestoreOne(j)
    PROVE  SerialParts'
  <1> USE DEF SerialIndInv
  <1>1. PICK s \in Scheds :
          /\ sched[s].job = None
          /\ \A k \in Jobs : jobs[k] # s
          /\ \A z \in Scheds : sched'[z] = IF z = s THEN Built(j, row[j].cfg) ELSE sched[z]
          /\ \A k \in Jobs : jobs'[k] = IF k = j THEN s ELSE jobs[k]
          /\ boot = "restoring" /\ j \in todo
          /\ todo' = todo \ {j}
          /\ UNCHANGED <<row, req, boot>>
    BY RestoreOneFacts
  <1>2. ~Running(j) /\ row[j].status = "active"
    BY <1>1 DEF Restoring
  <1>3. \A u \in Threads : req[u].pc = "idle" /\ Phase(u)'
    BY <1>1 DEF Restoring, Phase
  <1>4. RunningIsMapped'
    <2> SUFFICES ASSUME NEW z \in Scheds, sched'[z].open PROVE jobs'[sched'[z].job] = z
      BY DEF RunningIsMapped
    <2>1. CASE z = s
      BY <1>1, <2>1 DEF Built
    <2>2. CASE z # s
      <3>1. sched[z].open /\ sched'[z].job = sched[z].job
        BY <1>1, <2>2
      <3>2. jobs[sched[z].job] = z
        BY <1>3, <3>1 DEF RunningIsMapped
      <3>3. sched[z].job \in Jobs /\ sched[z].job # j
        BY <1>2, <3>1, <3>2, NoneAssumption DEF IndInv, TypeOK, Assigned, Sched, Running
      <3> QED BY <1>1, <3>1, <3>2, <3>3
    <2> QED BY <2>1, <2>2
  <1>5. \A k \in Jobs : Running(k)' =>
          (k = j /\ sched'[jobs'[k]].cfg = row[k].cfg) \/ (Running(k) /\ sched'[jobs'[k]] = sched[jobs[k]])
    BY <1>1 DEF Running, Built, IndInv, TypeOK
  <1>6. RunsItsConfig' /\ NoGhost' /\ CfgSaved'
    BY <1>1, <1>2, <1>5 DEF RunsItsConfig, NoGhost, CfgSaved, Exists, Statuses
  <1> QED BY <1>3, <1>4, <1>6 DEF SerialParts

LEMMA SerialStep == OneAtATime /\ SerialIndInv /\ [Next]_vars => SerialIndInv'
  <1> SUFFICES ASSUME OneAtATime, SerialIndInv, [Next]_vars PROVE SerialIndInv'
    OBVIOUS
  <1> IndInv' /\ Restoring'
    BY InvStep, RestoringStep DEF SerialIndInv
  <1> SUFFICES SerialParts'
    BY DEF SerialIndInv, SerialParts
  <1> USE DEF SerialIndInv
  <1>1. ASSUME UNCHANGED <<row, jobs, sched, req>> PROVE SerialParts'
    BY <1>1, QuietSerial DEF SameSchedulers
  <1>2. ASSUME NEW j \in Jobs, NEW c \in Cfgs, CreateJob(j, c) PROVE SerialParts'
    <2>1. /\ row[j].status = "absent"
          /\ \A k \in Jobs \ {j} : row'[k] = row[k]
          /\ row' = row \/ (row'[j].status = "pending" /\ row'[j].cfg = c)
          /\ UNCHANGED <<jobs, sched, req>>
      BY <1>2, CreateFacts
    <2>2. ~Exists(j) /\ ~Running(j)
      BY <2>1 DEF Exists, NoGhost, Statuses
    <2>3. ASSUME NEW t \in Threads PROVE Phase(t)'
      <3>1. Phase(t) /\ (req[t].pc # "idle" => req[t].job \in Jobs)
        BY DEF IndInv, Assigned
      <3>2. CASE req[t].job = j
        BY <2>1, <2>2, <3>1, <3>2 DEF Phase, Running
      <3>3. CASE req[t].job # j
        BY <2>1, <3>1, <3>3 DEF Phase, Running, Exists
      <3> QED BY <3>2, <3>3
    <2>4. RunningIsMapped'
      BY <2>1 DEF RunningIsMapped
    <2>5. RunsItsConfig' /\ NoGhost' /\ CfgSaved'
      BY <2>1, <2>2 DEF RunsItsConfig, NoGhost, CfgSaved, Running, Exists
    <2> QED BY <2>3, <2>4, <2>5 DEF SerialParts
  <1>3. ASSUME NEW t \in Threads, NEW j \in Jobs, Accept(t, j) PROVE SerialParts'
    BY <1>3, AcceptSerial
  <1>4. ASSUME NEW t \in Threads, Continue(t) PROVE SerialParts'
    BY <1>4, ContinueSerial
  <1>5. ASSUME NEW s \in Scheds, LoopWake(s) \/ LoopRunEnd(s) \/ LoopExit(s) \/ ManualRunEnd(s)
        PROVE  SerialParts'
    BY <1>5, LoopFacts, QuietSerial DEF SameSchedulers
  <1>6. CASE RestoreList \/ RestoreDone \/ UNCHANGED vars
    BY <1>1, <1>6 DEF RestoreList, RestoreDone, vars
  <1>7. ASSUME NEW j \in Jobs, RestoreOne(j) PROVE SerialParts'
    BY <1>7, RestoreSerial
  <1>8. CASE Crash
    <2>1. /\ \A j \in Jobs : jobs'[j] = None
          /\ \A s \in Scheds : ~sched'[s].open
          /\ \A t \in Threads : req'[t].pc = "idle"
          /\ UNCHANGED row
      BY <1>8 DEF Crash, Unbuilt, NoRequest
    <2> QED BY <2>1 DEF SerialParts, Phase, RunningIsMapped, RunsItsConfig, NoGhost, CfgSaved,
                        Running, Exists
  <1> QED BY <1>2, <1>3, <1>4, <1>5, <1>6, <1>7, <1>8 DEF Next

LEMMA SerialInit == Init => SerialIndInv
  <1> SUFFICES ASSUME Init PROVE SerialIndInv
    OBVIOUS
  <1>1. Restoring
    BY DEF Init, Restoring, Running, NoRequest
  <1>2. /\ \A t \in Threads : Phase(t)
        /\ RunningIsMapped
    BY DEF Init, Phase, NoRequest, RunningIsMapped, Unbuilt
  <1>3. RunsItsConfig /\ NoGhost /\ CfgSaved
    BY DEF Init, RunsItsConfig, NoGhost, CfgSaved, Running, Exists, NoRow, Statuses
  <1> QED BY <1>1, <1>2, <1>3, InitInv DEF SerialIndInv

LEMMA SerialInvariance == ASSUME OneAtATime PROVE Spec => []SerialIndInv
  BY SerialInit, SerialStep, PTL DEF Spec

\* An open scheduler is in the map or about to be put there, so a job has one at
\* most.
LEMMA OneOpen == OneAtATime /\ SerialIndInv => OneScheduler
  <1> SUFFICES ASSUME OneAtATime, SerialIndInv, NEW s1 \in Scheds, NEW s2 \in Scheds,
                      sched[s1].open, sched[s2].open, sched[s1].job = sched[s2].job
               PROVE  s1 = s2
    BY DEF OneScheduler
  <1>1. ASSUME NEW s \in Scheds, sched[s].open, NEW t \in Threads,
               req[t].pc = "put", req[t].sched = s
        PROVE  jobs[sched[s].job] = None
    BY <1>1, NoneAssumption DEF SerialIndInv, IndInv, Assigned, Phase, Running
  <1>2. CASE jobs[sched[s1].job] = s1
    BY <1>1, <1>2, NoneAssumption DEF SerialIndInv, RunningIsMapped
  <1>3. ASSUME NEW t \in Threads, req[t].pc = "put", req[t].sched = s1 PROVE s1 = s2
    <2>1. jobs[sched[s2].job] # s2
      BY <1>1, <1>3, NoneAssumption
    <2> QED BY <1>3, <2>1 DEF SerialIndInv, RunningIsMapped, OneAtATime
  <1> QED BY <1>2, <1>3 DEF SerialIndInv, RunningIsMapped

\* While statements succeed, a request leaves the rows of other jobs and their
\* entries alone, and leaves its own job with status and entry in agreement,
\* unless it has another step to take.
LEMMA ContinueAgree ==
    ASSUME OneAtATime, MaxFaults = 0, SerialIndInv, Agreement, boot = "up",
           NEW t \in Threads, Continue(t)
    PROVE  Agreement'
  <1> USE DEF SerialIndInv
  <1>0. PICK j \in Jobs : j = req[t].job
    BY DEF Continue, At, StartCheck, New, Put, SetActive, StopStatus, DeleteRow,
         RunRead, RunRelook, RunFire, RunPanic, UpdateCheck, UpdateWrite, Assigned, IndInv
  <1>1. \A u \in Threads : u = t
    BY DEF OneAtATime
  <1>2. Phase(t)
    OBVIOUS
  <1>3. \A k \in Jobs : k # j => (Running(k) <=> row[k].status = "active")
    BY <1>0, <1>1 DEF Agreement
  <1>4. req[t].pc \notin {"status", "stopStatus", "deleteRow"} =>
          (Running(j) <=> row[j].status = "active")
    BY <1>1 DEF Agreement
  <1>5. ASSUME NEW table, Exec(table) PROVE row' = table
    BY <1>5 DEF Exec, IndInv, TypeOK
  <1>6. ASSUME UNCHANGED jobs, \A k \in Jobs : row'[k].status = row[k].status,
               req[t].pc \notin {"status", "stopStatus", "deleteRow"}
        PROVE  Agreement'
    BY <1>3, <1>4, <1>6 DEF Agreement, Running
  <1>7. ASSUME UNCHANGED jobs, \A k \in Jobs \ {j} : row'[k] = row[k],
               Running(j) <=> row'[j].status = "active"
        PROVE  Agreement'
    BY <1>3, <1>7 DEF Agreement, Running
  <1>8. CASE StartCheck(t) \/ New(t) \/ RunRead(t) \/ RunRelook(t) \/ RunFire(t) \/ RunPanic(t)
               \/ UpdateCheck(t)
    BY <1>6, <1>8 DEF StartCheck, At, New, RunRead, RunRelook, RunFire, RunPanic, UpdateCheck
  <1>9. CASE Put(t)
    <2>1. /\ \A k \in Jobs \ {j} : jobs'[k] = jobs[k]
          /\ req'[t].pc = "status" /\ req'[t].job = j
          /\ UNCHANGED row
      BY <1>0, <1>9 DEF Put, IndInv, TypeOK, Request
    <2> QED BY <1>3, <2>1 DEF Agreement, Running
  <1>10. CASE SetActive(t)
    <2>1. row' = StatusWritten(j, "active") /\ UNCHANGED jobs /\ Running(j)
      BY <1>0, <1>2, <1>5, <1>10 DEF SetActive, Phase
    <2>2. row' = [row EXCEPT ![j].status = "active"]
      BY <2>1 DEF StatusWritten, NoGhost
    <2>3. /\ \A k \in Jobs \ {j} : row'[k] = row[k]
          /\ row'[j].status = "active"
      BY <2>2 DEF IndInv, TypeOK, Row
    <2> QED BY <1>7, <2>1, <2>3
  <1>11. CASE StopStatus(t)
    <2>1. row' = StatusWritten(j, "stopped") /\ UNCHANGED jobs /\ ~Running(j)
      BY <1>0, <1>2, <1>5, <1>11 DEF StopStatus, Phase
    <2>2. /\ \A k \in Jobs \ {j} : row'[k] = row[k]
          /\ row'[j].status # "active"
      BY <2>1 DEF StatusWritten, Exists, Statuses, IndInv, TypeOK, Row
    <2> QED BY <1>7, <2>1, <2>2
  <1>12. CASE DeleteRow(t)
    <2>1. row' = RowDeleted(j) /\ UNCHANGED jobs /\ ~Running(j)
      BY <1>0, <1>2, <1>5, <1>12 DEF DeleteRow, Phase
    <2>2. /\ \A k \in Jobs \ {j} : row'[k] = row[k]
          /\ row'[j].status # "active"
      BY <2>1 DEF RowDeleted, Exists, Statuses, IndInv, TypeOK, Row
    <2> QED BY <1>7, <2>1, <2>2
  <1>13. CASE UpdateWrite(t)
    <2>1. /\ req[t].snap \in Row /\ req[t].cfg \in Cfgs
          /\ req[t].snap.status = row[j].status
          /\ Exec(RowWritten(j, req[t].snap, req[t].cfg))
          /\ req[t].pc = "updateWrite" /\ UNCHANGED jobs
      BY <1>0, <1>2, <1>13 DEF UpdateWrite, Phase, IndInv, TypeOK, Request
    <2>2. /\ \A k \in Jobs \ {j} : row'[k] = row[k]
          /\ row'[j].status = row[j].status
      BY <2>1, UpdateFacts
    <2> QED BY <1>6, <2>1, <2>2
  <1> QED BY <1>8, <1>9, <1>10, <1>11, <1>12, <1>13 DEF Continue

LEMMA AgreementStep ==
    ASSUME OneAtATime, MaxFaults = 0
    PROVE  SerialIndInv /\ Agreement /\ [Next]_vars => Agreement'
  <1> SUFFICES ASSUME SerialIndInv, Agreement, [Next]_vars, boot' = "up" PROVE Agreement'
    BY DEF Agreement
  <1> USE DEF SerialIndInv
  <1>1. ASSUME NEW j \in Jobs, NEW c \in Cfgs, CreateJob(j, c) PROVE Agreement'
    <2>1. /\ boot = "up" /\ row[j].status = "absent"
          /\ \A k \in Jobs \ {j} : row'[k] = row[k]
          /\ row' = row \/ (row'[j].status = "pending" /\ row'[j].cfg = c)
          /\ UNCHANGED <<jobs, req>>
      BY <1>1, CreateFacts
    <2>2. ~Running(j)
      BY <2>1 DEF Exists, NoGhost, Statuses
    <2> QED BY <2>1, <2>2 DEF Agreement, Running
  <1>2. ASSUME NEW t \in Threads, NEW j \in Jobs, Accept(t, j) PROVE Agreement'
    <2>1. boot = "up" /\ req[t].pc = "idle" /\ UNCHANGED row
      BY <1>2 DEF Accept, StartRead, StopLock, DeleteLock, RunLook, UpdateRead, Idle
    <2>2. \A k \in Jobs : Running(k) <=> row[k].status = "active"
      BY <2>1 DEF Agreement, OneAtATime
    <2>3. CASE UNCHANGED jobs
      BY <2>1, <2>2, <2>3 DEF Agreement, Running
    <2>4. CASE StopLock(t, j) \/ DeleteLock(t, j)
      <3>1. StopAndUnmap(j) /\ req'[t].job = j /\ req'[t].pc \in {"stopStatus", "deleteRow"}
        <4>1. req \in [Threads -> Request]
          BY DEF IndInv, TypeOK
        <4>2. CASE StopLock(t, j)
          BY <4>1, <4>2 DEF StopLock, Begin, NoRequest
        <4>3. CASE DeleteLock(t, j)
          BY <4>1, <4>3 DEF DeleteLock, Begin, NoRequest
        <4> QED BY <2>4, <4>2, <4>3
      <3> QED BY <2>1, <2>2, <3>1, StopFacts DEF Agreement, Running
    <2> QED BY <1>2, <2>3, <2>4 DEF Accept, StartRead, RunLook, UpdateRead
  <1>3. ASSUME NEW t \in Threads, Continue(t) PROVE Agreement'
    BY <1>3, ContinueAgree, RequestFacts
  <1>4. ASSUME NEW s \in Scheds, LoopWake(s) \/ LoopRunEnd(s) \/ LoopExit(s) \/ ManualRunEnd(s)
        PROVE  Agreement'
    BY <1>4, LoopFacts DEF Agreement, Running
  <1>5. CASE RestoreDone
    BY <1>5 DEF RestoreDone, Restoring, Agreement, Running
  <1>6. CASE UNCHANGED vars
    BY <1>6 DEF vars, Agreement, Running
  <1>7. (\E j \in Jobs : RestoreOne(j)) \/ RestoreList \/ Crash => boot' # "up"
    BY DEF RestoreOne, RestoreList, Crash
  <1> QED BY <1>1, <1>2, <1>3, <1>4, <1>5, <1>6, <1>7 DEF Next

\* Served one request at a time, whatever the requests, crashes and failing
\* statements, no job is ever run by two schedulers.
THEOREM NeverTwoSchedulers == ASSUME OneAtATime PROVE Spec => []OneScheduler
  <1>1. SerialIndInv => OneScheduler
    BY OneOpen
  <1> QED BY <1>1, SerialInvariance, PTL

\* Served one request at a time, while no statement fails, the map, what runs
\* and the table belong together.
THEOREM SerialSafe == ASSUME OneAtATime, MaxFaults = 0 PROVE Spec => []SerialInv
  <1>1. Init => Agreement
    BY DEF Init, Agreement
  <1>2. SerialIndInv /\ Agreement => SerialInv
    BY DEF SerialIndInv, SerialInv, Agreement, StatusAgrees, EntryFound, Phase
  <1>3. SerialIndInv /\ Agreement /\ [Next]_vars => Agreement'
    BY AgreementStep
  <1> QED BY <1>1, <1>2, <1>3, SerialInvariance, PTL DEF Spec

\* The same with failing statements, but for the status column: a request whose
\* status write fails leaves it behind.
THEOREM SerialDespiteFaults ==
    ASSUME OneAtATime
    PROVE  Spec => [](RunningIsMapped /\ RunsItsConfig /\ NoGhost /\ EntryFound)
  <1>1. SerialIndInv => RunningIsMapped /\ RunsItsConfig /\ NoGhost /\ EntryFound
    BY DEF SerialIndInv, EntryFound, Phase
  <1> QED BY <1>1, SerialInvariance, PTL

-----------------------------------------------------------------------------
(* The service implements the lifecycle                                    *)

\* The part of the abstract state a concrete step leaves alone.
SameSaved(j) == SavedOf(j)' = SavedOf(j) /\ row'[j].cfg = row[j].cfg
SameLive(j) == LiveOf(j)' = LiveOf(j)

LEMMA LiveSame == ASSUME SameSchedulers, NEW j \in Jobs PROVE SameLive(j)
  <1>1. OpenOf(j)' = OpenOf(j)
    BY DEF OpenOf, SameSchedulers
  <1>2. CASE OpenOf(j) = {}
    BY <1>1, <1>2 DEF SameLive, LiveOf
  <1>3. CASE OpenOf(j) # {}
    <2> DEFINE s == CHOOSE z \in OpenOf(j) : TRUE
    <2>1. s \in Scheds
      BY <1>3 DEF OpenOf
    <2>2. LiveOf(j) = sched[s].cfg /\ LiveOf(j)' = sched'[s].cfg
      BY <1>1, <1>3 DEF LiveOf
    <2> HIDE DEF s
    <2> QED BY <2>1, <2>2 DEF SameLive, SameSchedulers
  <1> QED BY <1>2, <1>3

\* A job that is not in the map, and not about to be, runs nothing.
LEMMA NotLive ==
    ASSUME SerialIndInv, NEW j \in Jobs, ~Running(j),
           \A t \in Threads : req[t].pc # "put"
    PROVE  OpenOf(j) = {} /\ LiveOf(j) = None
  <1>1. OpenOf(j) = {}
    BY NoneAssumption DEF OpenOf, Running, SerialIndInv, RunningIsMapped
  <1> QED BY <1>1 DEF LiveOf

\* A job in the map runs with its saved configuration.
LEMMA MappedLive ==
    ASSUME OneAtATime, SerialIndInv, NEW j \in Jobs, Running(j)
    PROVE  LiveOf(j) = row[j].cfg /\ row[j].cfg \in Cfgs /\ Exists(j)
  <1>1. jobs[j] \in Scheds /\ jobs[j] \in OpenOf(j)
    BY DEF SerialIndInv, IndInv, TypeOK, MappedOpen, Running, OpenOf
  <1>2. \A s \in OpenOf(j) : s = jobs[j]
    BY <1>1, OneOpen DEF OneScheduler, OpenOf
  <1>3. (CHOOSE s \in OpenOf(j) : TRUE) = jobs[j]
    BY <1>1, <1>2
  <1>4. LiveOf(j) = sched[jobs[j]].cfg
    BY <1>1, <1>3 DEF LiveOf
  <1> QED BY <1>4 DEF SerialIndInv, NoGhost, RunsItsConfig, CfgSaved

\* A scheduler built for a job that has none gives it the configuration it was
\* built with, and changes no other job.
LEMMA BuiltLive ==
    ASSUME NEW s \in Scheds, NEW j \in Jobs, NEW c, sched[s].job = None, None \notin Jobs,
           \A z \in Scheds : sched'[z] = IF z = s THEN Built(j, c) ELSE sched[z],
           OpenOf(j) = {}
    PROVE  LiveOf(j)' = c /\ \A k \in Jobs \ {j} : SameLive(k)
  <1>1. OpenOf(j)' = {s}
    BY DEF OpenOf, Built
  <1>2. LiveOf(j)' = c
    BY <1>1 DEF LiveOf, Built
  <1>3. ASSUME NEW k \in Jobs \ {j} PROVE SameLive(k)
    <2>1. OpenOf(k)' = OpenOf(k) /\ \A z \in OpenOf(k) : z \in Scheds /\ sched'[z] = sched[z]
      BY DEF OpenOf, Built
    <2>2. CASE OpenOf(k) = {}
      BY <2>1, <2>2 DEF SameLive, LiveOf
    <2>3. CASE OpenOf(k) # {}
      <3> DEFINE y == CHOOSE z \in OpenOf(k) : TRUE
      <3>1. y \in OpenOf(k)
        BY <2>3
      <3>2. LiveOf(k) = sched[y].cfg /\ LiveOf(k)' = sched'[y].cfg
        BY <2>1, <2>3 DEF LiveOf
      <3> HIDE DEF y
      <3> QED BY <2>1, <3>1, <3>2 DEF SameLive
    <2> QED BY <2>2, <2>3
  <1> QED BY <1>2, <1>3

\* Stopping a job ends what it runs, and changes no other job.
LEMMA StoppedLive ==
    ASSUME SerialIndInv, NEW j \in Jobs, StopAndUnmap(j), \A t \in Threads : req[t].pc # "put"
    PROVE  LiveOf(j)' = None /\ \A k \in Jobs \ {j} : SameLive(k)
  <1> USE DEF SerialIndInv
  <1>1. OpenOf(j)' = {}
    <2> SUFFICES ASSUME NEW s \in Scheds, sched'[s].open, sched'[s].job = j PROVE FALSE
      BY DEF OpenOf
    <2>1. sched[s].open /\ s # jobs[j] /\ sched[s].job = j
      BY StopFacts
    <2> QED BY <2>1 DEF RunningIsMapped
  <1>2. LiveOf(j)' = None
    BY <1>1 DEF LiveOf
  <1>3. ASSUME NEW k \in Jobs \ {j} PROVE SameLive(k)
    <2>1. jobs[j] # None => sched[jobs[j]].job = j
      BY DEF IndInv, MappedOpen, Running
    <2>2. \A z \in Scheds : z # jobs[j] => sched'[z] = sched[z]
      BY StopFacts
    <2>3. \A z \in Scheds : sched'[z].job = sched[z].job
      BY StopFacts
    <2>4. \A z \in Scheds : z = jobs[j] => sched[z].job = j
      BY <2>1, NoneAssumption
    <2>5. \A z \in Scheds : sched[z].job = k => sched'[z] = sched[z]
      BY <2>2, <2>4
    <2>6. OpenOf(k)' = OpenOf(k) /\ \A z \in OpenOf(k) : sched'[z] = sched[z]
      BY <2>3, <2>5 DEF OpenOf
    <2>7. CASE OpenOf(k) = {}
      BY <2>6, <2>7 DEF SameLive, LiveOf
    <2>8. CASE OpenOf(k) # {}
      <3> DEFINE y == CHOOSE z \in OpenOf(k) : TRUE
      <3>1. y \in OpenOf(k)
        BY <2>8
      <3>2. LiveOf(k) = sched[y].cfg /\ LiveOf(k)' = sched'[y].cfg
        BY <2>6, <2>8 DEF LiveOf
      <3> HIDE DEF y
      <3> QED BY <2>6, <3>1, <3>2 DEF SameLive
    <2> QED BY <2>7, <2>8
  <1> QED BY <1>2, <1>3

\* The abstract steps, told by what they do to each job.
LEMMA AbstractStutter ==
    ASSUME \A j \in Jobs : SameSaved(j) /\ SameLive(j)
    PROVE  UNCHANGED Lifecycle!vars
  BY DEF Lifecycle!vars, SameSaved, SameLive

LEMMA AbstractStart ==
    ASSUME NEW j \in Jobs, \A k \in Jobs : SameSaved(k), \A k \in Jobs \ {j} : SameLive(k),
           Exists(j), LiveOf(j) = None, LiveOf(j)' = row[j].cfg
    PROVE  Lifecycle!Start(j)
  BY DEF Lifecycle!Start, SameSaved, SameLive, SavedOf

LEMMA AbstractStop ==
    ASSUME NEW j \in Jobs, \A k \in Jobs : SameSaved(k), \A k \in Jobs \ {j} : SameLive(k),
           LiveOf(j) # None, LiveOf(j)' = None
    PROVE  Lifecycle!Stop(j)
  <1>1. [k \in Jobs |-> LiveOf(k)]' = [[k \in Jobs |-> LiveOf(k)] EXCEPT ![j] = None]
    <2>1. \A k \in Jobs : LiveOf(k)' = IF k = j THEN None ELSE LiveOf(k)
      BY DEF SameLive
    <2> QED BY <2>1
  <1>2. UNCHANGED <<[k \in Jobs |-> SavedOf(k)], [k \in Jobs |-> row[k].cfg]>>
    BY DEF SameSaved
  <1>3. [k \in Jobs |-> LiveOf(k)][j] # None
    OBVIOUS
  <1> QED BY <1>1, <1>2, <1>3 DEF Lifecycle!Stop

LEMMA AbstractCreate ==
    ASSUME NEW j \in Jobs, NEW c \in Cfgs, \A k \in Jobs : SameLive(k),
           \A k \in Jobs \ {j} : SameSaved(k),
           row[j].status = "absent", row'[j].status = "pending", row'[j].cfg = c
    PROVE  Lifecycle!Create(j, c)
  BY DEF Lifecycle!Create, SameSaved, SameLive, SavedOf, Exists, Statuses

LEMMA AbstractEdit ==
    ASSUME NEW j \in Jobs, NEW c \in Cfgs, \A k \in Jobs : SameLive(k),
           \A k \in Jobs \ {j} : SameSaved(k),
           Exists(j), LiveOf(j) = None, row'[j].status = row[j].status, row'[j].cfg = c
    PROVE  Lifecycle!Edit(j, c)
  BY DEF Lifecycle!Edit, SameSaved, SameLive, SavedOf, Exists

LEMMA AbstractDelete ==
    ASSUME NEW j \in Jobs, \A k \in Jobs : SameLive(k),
           \A k \in Jobs \ {j} : SameSaved(k),
           Exists(j), LiveOf(j) = None, row'[j].status = "deleted", row'[j].cfg = row[j].cfg
    PROVE  Lifecycle!Delete(j)
  BY DEF Lifecycle!Delete, SameSaved, SameLive, SavedOf, Exists, Statuses

\* What the abstract specification allows in one step.
Abstract == Lifecycle!Next \/ UNCHANGED Lifecycle!vars

\* Requests in the middle of their work: New starts, UpdateWrite edits,
\* DeleteRow deletes, everything else changes nothing a user can see.
LEMMA ContinueRefines ==
    ASSUME OneAtATime, SerialIndInv, NEW t \in Threads, Continue(t)
    PROVE  Abstract
  <1> USE DEF SerialIndInv
  <1>0. PICK j \in Jobs : j = req[t].job
    BY DEF Continue, At, StartCheck, New, Put, SetActive, StopStatus, DeleteRow,
         RunRead, RunRelook, RunFire, RunPanic, UpdateCheck, UpdateWrite, Assigned, IndInv
  <1>1. Phase(t) /\ \A u \in Threads : u = t
    BY DEF OneAtATime
  <1>2. UNCHANGED sched => \A k \in Jobs : SameLive(k)
    BY LiveSame DEF SameSchedulers
  <1>3. ASSUME SameSchedulers, StatusOnly, \A k \in Jobs : row'[k].status = row[k].status \/ Exists(k)
        PROVE  Abstract
    <2>1. \A k \in Jobs : SameLive(k)
      BY <1>3, LiveSame
    <2>2. \A k \in Jobs : SameSaved(k)
      BY <1>3 DEF StatusOnly, SameSaved, SavedOf
    <2> QED BY <2>1, <2>2, AbstractStutter DEF Abstract
  <1>4. UNCHANGED sched => SameSchedulers
    BY DEF SameSchedulers
  <1>5. UNCHANGED row => StatusOnly /\ \A k \in Jobs : row'[k].status = row[k].status
    BY DEF StatusOnly, Exists
  <1>6. CASE StartCheck(t) \/ Put(t) \/ RunRead(t) \/ RunRelook(t) \/ RunPanic(t) \/ UpdateCheck(t)
    BY <1>3, <1>4, <1>5, <1>6 DEF StartCheck, Put, RunRead, RunRelook, RunPanic, UpdateCheck
  <1>7. CASE RunFire(t)
    <2>1. SameSchedulers
      BY <1>7 DEF RunFire, SameSchedulers, IndInv, TypeOK, Sched, Request
    <2> QED BY <1>3, <1>5, <1>7, <2>1 DEF RunFire
  <1>8. CASE New(t)
    <2>1. PICK s \in Scheds :
            /\ sched[s].job = None
            /\ \A k \in Jobs : jobs[k] # s
            /\ \A z \in Scheds : sched'[z] = IF z = s THEN Built(j, req[t].snap.cfg) ELSE sched[z]
            /\ req[t].pc = "new" /\ req[t].job \in Jobs
            /\ req'[t].pc = "put" /\ req'[t].sched = s /\ req'[t].job = req[t].job
            /\ UNCHANGED <<row, jobs>>
      BY <1>0, <1>8, NewFacts
    <2>2. /\ Exists(j) /\ ~Running(j) /\ req[t].snap.cfg = row[j].cfg
          /\ \A u \in Threads : req[u].pc # "put"
      BY <1>0, <1>1, <2>1 DEF Phase
    <2>3. OpenOf(j) = {} /\ LiveOf(j) = None
      BY <2>2, NotLive
    <2>4. LiveOf(j)' = row[j].cfg /\ \A k \in Jobs \ {j} : SameLive(k)
      BY <2>1, <2>2, <2>3, BuiltLive, NoneAssumption
    <2>5. \A k \in Jobs : SameSaved(k)
      BY <2>1 DEF SameSaved, SavedOf, Exists
    <2>6. Lifecycle!Start(j)
      BY <2>2, <2>3, <2>4, <2>5, AbstractStart
    <2> QED BY <2>6 DEF Abstract, Lifecycle!Next
  <1>9. ASSUME NEW st \in {"active", "stopped"}, Exec(StatusWritten(j, st)), UNCHANGED sched
        PROVE  Abstract
    <2>1. StatusOnly
      BY <1>9, StatusWriteFacts DEF Statuses
    <2>2. \A k \in Jobs : row'[k].status = row[k].status \/ Exists(k)
      BY <1>9 DEF Exec, StatusWritten, IndInv, TypeOK
    <2> QED BY <1>3, <1>4, <1>9, <2>1, <2>2
  <1>10. CASE SetActive(t) \/ StopStatus(t)
    BY <1>0, <1>9, <1>10 DEF SetActive, StopStatus
  <1>11. CASE DeleteRow(t)
    <2>1. Exec(RowDeleted(j)) /\ UNCHANGED sched /\ req[t].pc = "deleteRow"
      BY <1>0, <1>11 DEF DeleteRow
    <2>2. ~Running(j) /\ \A u \in Threads : req[u].pc # "put"
      BY <1>0, <1>1, <2>1 DEF Phase
    <2>3. CASE row' = row
      BY <1>3, <1>4, <1>5, <2>1, <2>3
    <2>4. CASE row' # row
      <3>1. row' = [row EXCEPT ![j].status = "deleted"] /\ Exists(j)
        BY <2>1, <2>4 DEF Exec, RowDeleted
      <3>2. /\ row'[j].status = "deleted" /\ row'[j].cfg = row[j].cfg
            /\ \A k \in Jobs \ {j} : row'[k] = row[k]
        BY <3>1 DEF IndInv, TypeOK, Row
      <3>3. \A k \in Jobs \ {j} : SameSaved(k)
        BY <3>2 DEF SameSaved, SavedOf, Exists
      <3>4. Lifecycle!Delete(j)
        BY <1>2, <2>1, <2>2, <3>1, <3>2, <3>3, NotLive, AbstractDelete
      <3> QED BY <3>4 DEF Abstract, Lifecycle!Next
    <2> QED BY <2>3, <2>4
  <1>12. CASE UpdateWrite(t)
    <2>1. /\ Exec(RowWritten(j, req[t].snap, req[t].cfg)) /\ UNCHANGED sched
          /\ req[t].pc = "updateWrite" /\ req[t].snap \in Row
      BY <1>0, <1>12 DEF UpdateWrite, IndInv, TypeOK, Request
    <2>2. /\ ~Running(j) /\ Exists(j) /\ \A u \in Threads : req[u].pc # "put"
          /\ req[t].cfg \in Cfgs /\ req[t].snap.status = row[j].status
      BY <1>0, <1>1, <2>1 DEF Phase
    <2>3. /\ \A k \in Jobs \ {j} : row'[k] = row[k]
          /\ row'[j].status = row[j].status
          /\ row' = row \/ row'[j].cfg = req[t].cfg
      BY <2>1, <2>2, UpdateFacts
    <2>4. CASE row' = row
      BY <1>3, <1>4, <1>5, <2>1, <2>4
    <2>5. CASE row' # row
      <3>1. \A k \in Jobs \ {j} : SameSaved(k)
        BY <2>3 DEF SameSaved, SavedOf, Exists
      <3>2. PICK c \in Cfgs : c = req[t].cfg
        BY <2>2
      <3>3. row'[j].cfg = c /\ LiveOf(j) = None
        BY <2>2, <2>3, <2>5, <3>2, NotLive
      <3>4. Lifecycle!Edit(j, c)
        BY <1>2, <2>1, <2>2, <2>3, <3>1, <3>3, AbstractEdit
      <3> QED BY <3>4 DEF Abstract, Lifecycle!Next
    <2> QED BY <2>4, <2>5
  <1> QED BY <1>6, <1>7, <1>8, <1>10, <1>11, <1>12 DEF Continue

\* New requests: StopJob and DeleteJob stop a running job at once.
LEMMA AcceptRefines ==
    ASSUME OneAtATime, SerialIndInv, NEW t \in Threads, NEW j \in Jobs, Accept(t, j)
    PROVE  Abstract
  <1> USE DEF SerialIndInv
  <1>1. req[t].pc = "idle" /\ UNCHANGED row
    BY DEF Accept, StartRead, StopLock, DeleteLock, RunLook, UpdateRead, Idle
  <1>2. \A u \in Threads : req[u].pc # "put"
    BY <1>1 DEF OneAtATime
  <1>3. \A k \in Jobs : SameSaved(k)
    BY <1>1 DEF SameSaved, SavedOf, Exists
  <1>4. CASE StartRead(t, j) \/ RunLook(t, j) \/ \E c \in Cfgs : UpdateRead(t, j, c)
    <2>1. \A k \in Jobs : SameLive(k)
      BY <1>4, LiveSame DEF SameSchedulers, StartRead, RunLook, UpdateRead
    <2> QED BY <1>3, <2>1, AbstractStutter DEF Abstract
  <1>5. CASE StopAndUnmap(j)
    <2>1. LiveOf(j)' = None /\ \A k \in Jobs \ {j} : SameLive(k)
      BY <1>2, <1>5, StoppedLive
    <2>2. CASE Running(j)
      <3>1. LiveOf(j) # None
        BY <2>2, MappedLive, NoneAssumption
      <3>2. Lifecycle!Stop(j)
        BY <1>3, <2>1, <3>1, AbstractStop
      <3> QED BY <3>2 DEF Abstract, Lifecycle!Next
    <2>3. CASE ~Running(j)
      <3>1. LiveOf(j) = None
        BY <1>2, <2>3, NotLive
      <3>2. \A k \in Jobs : SameLive(k)
        BY <2>1, <3>1 DEF SameLive
      <3> QED BY <1>3, <3>2, AbstractStutter DEF Abstract
    <2> QED BY <2>2, <2>3
  <1> QED BY <1>4, <1>5 DEF Accept, StopLock, DeleteLock

LEMMA StepRefines == OneAtATime /\ SerialIndInv /\ [Next]_vars => Abstract
  <1> SUFFICES ASSUME OneAtATime, SerialIndInv, [Next]_vars PROVE Abstract
    OBVIOUS
  <1> USE DEF SerialIndInv
  <1>1. ASSUME UNCHANGED <<row, sched>> PROVE Abstract
    <2>1. \A k \in Jobs : SameSaved(k) /\ SameLive(k)
      BY <1>1, LiveSame DEF SameSaved, SavedOf, Exists, SameSchedulers
    <2> QED BY <2>1, AbstractStutter DEF Abstract
  <1>2. ASSUME NEW j \in Jobs, NEW c \in Cfgs, CreateJob(j, c) PROVE Abstract
    <2>1. /\ row[j].status = "absent"
          /\ \A k \in Jobs \ {j} : row'[k] = row[k]
          /\ row' = row \/ (row'[j].status = "pending" /\ row'[j].cfg = c)
          /\ UNCHANGED sched
      BY <1>2, CreateFacts
    <2>2. CASE row' = row
      BY <1>1, <2>1, <2>2
    <2>3. CASE row' # row
      <3>1. \A k \in Jobs : SameLive(k)
        BY <2>1, LiveSame DEF SameSchedulers
      <3>2. \A k \in Jobs \ {j} : SameSaved(k)
        BY <2>1 DEF SameSaved, SavedOf, Exists
      <3>3. Lifecycle!Create(j, c)
        BY <2>1, <2>3, <3>1, <3>2, AbstractCreate
      <3> QED BY <3>3 DEF Abstract, Lifecycle!Next
    <2> QED BY <2>2, <2>3
  <1>3. ASSUME NEW t \in Threads, NEW j \in Jobs, Accept(t, j) PROVE Abstract
    BY <1>3, AcceptRefines
  <1>4. ASSUME NEW t \in Threads, Continue(t) PROVE Abstract
    BY <1>4, ContinueRefines
  <1>5. ASSUME NEW s \in Scheds, LoopWake(s) \/ LoopRunEnd(s) \/ LoopExit(s) \/ ManualRunEnd(s)
        PROVE  Abstract
    <2>1. SameSchedulers /\ \A j \in Jobs : SameSaved(j)
      BY <1>5, LoopFacts DEF SameSchedulers, SameSaved, SavedOf, Exists
    <2> QED BY <2>1, LiveSame, AbstractStutter DEF Abstract
  <1>6. CASE RestoreList \/ RestoreDone \/ UNCHANGED vars
    BY <1>1, <1>6 DEF RestoreList, RestoreDone, vars
  <1>7. ASSUME NEW j \in Jobs, RestoreOne(j) PROVE Abstract
    <2>1. PICK s \in Scheds :
            /\ sched[s].job = None
            /\ \A k \in Jobs : jobs[k] # s
            /\ \A z \in Scheds : sched'[z] = IF z = s THEN Built(j, row[j].cfg) ELSE sched[z]
            /\ \A k \in Jobs : jobs'[k] = IF k = j THEN s ELSE jobs[k]
            /\ boot = "restoring" /\ j \in todo
            /\ todo' = todo \ {j}
            /\ UNCHANGED <<row, req, boot>>
      BY <1>7, RestoreOneFacts
    <2>2. /\ ~Running(j) /\ Exists(j)
          /\ \A t \in Threads : req[t].pc # "put"
      BY <2>1 DEF Restoring, Exists, Statuses
    <2>3. OpenOf(j) = {} /\ LiveOf(j) = None
      BY <2>2, NotLive
    <2>4. LiveOf(j)' = row[j].cfg /\ \A k \in Jobs \ {j} : SameLive(k)
      BY <2>1, <2>3, BuiltLive, NoneAssumption
    <2>5. \A k \in Jobs : SameSaved(k)
      BY <2>1 DEF SameSaved, SavedOf, Exists
    <2>6. Lifecycle!Start(j)
      BY <2>2, <2>3, <2>4, <2>5, AbstractStart
    <2> QED BY <2>6 DEF Abstract, Lifecycle!Next
  <1>8. CASE Crash
    <2>1. UNCHANGED row /\ \A s \in Scheds : ~sched'[s].open
      BY <1>8 DEF Crash, Unbuilt
    <2>2. \A j \in Jobs : LiveOf(j)' = None
      BY <2>1 DEF LiveOf, OpenOf
    <2>3. \A j \in Jobs : SameSaved(j)
      BY <2>1 DEF SameSaved, SavedOf, Exists
    <2>4. Lifecycle!Crash
      BY <2>2, <2>3 DEF Lifecycle!Crash, SameSaved
    <2> QED BY <2>4 DEF Abstract, Lifecycle!Next
  <1> QED BY <1>2, <1>3, <1>4, <1>5, <1>6, <1>7, <1>8 DEF Next

\* A process that has done nothing yet has saved nothing and runs nothing.
LEMMA InitRefines == Init => Lifecycle!Init
  <1> SUFFICES ASSUME Init PROVE Lifecycle!Init
    OBVIOUS
  <1>1. \A j \in Jobs : SavedOf(j) = "absent" /\ row[j].cfg = None
    BY DEF Init, SavedOf, Exists, NoRow, Statuses
  <1>2. \A j \in Jobs : OpenOf(j) = {}
    BY DEF Init, OpenOf, Unbuilt
  <1>3. \A j \in Jobs : LiveOf(j) = None
    BY <1>2 DEF LiveOf
  <1> QED BY <1>1, <1>3 DEF Lifecycle!Init

\* Served one request at a time, whatever the requests, crashes and failing
\* statements, the service implements the abstract lifecycle.
THEOREM ServiceImplementsLifecycle == ASSUME OneAtATime PROVE Spec => ImplementsLifecycle
  <1>1. SerialIndInv /\ [Next]_vars => [Lifecycle!Next]_(Lifecycle!vars)
    BY StepRefines DEF Abstract
  <1> QED BY <1>1, InitRefines, SerialInvariance, PTL DEF Spec, ImplementsLifecycle, Lifecycle!Spec
=============================================================================
