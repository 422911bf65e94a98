------------------------------ MODULE JobService ------------------------------
(***************************************************************************)
(* The booking-job service (service/job_service.go) over the booking_jobs  *)
(* table (repository/postgres/job_postgres.go).                            *)
(*                                                                         *)
(* Every HTTP request is a goroutine that runs one service method.  A      *)
(* method interleaves SQL statements, each atomic, with sections under     *)
(* s.mu, each atomic; between two of them any other goroutine may run.     *)
(* Each such step is one action here.  A scheduler is the goroutine of     *)
(* Scheduler.loop plus the goroutines started by RunNow; what happens      *)
(* inside one run is the subject of other modules.  The table survives a   *)
(* crash of the process, everything else does not.                         *)
(***************************************************************************)
EXTENDS Naturals, FiniteSets

CONSTANTS
    Jobs,        \* job ids (uuids: one is never used twice)
    Threads,     \* request goroutines that may be in a service method at once
    Scheds,      \* *Scheduler values one process may build
    Cfgs,        \* job configurations: every column a form can edit
    None,        \* nil
    MaxRuns,     \* bound: a job starts no further run at this total_runs
    MaxManual,   \* bound: RunNow goroutines of one scheduler in flight
    MaxFaults,   \* bound: SQL writes that fail
    MaxCrashes   \* bound: crashes of the process

ASSUME NoneAssumption == /\ None \notin Jobs
                         /\ None \notin Scheds
                         /\ None \notin Cfgs
ASSUME BoundAssumption == /\ MaxRuns \in Nat
                          /\ MaxManual \in Nat
                          /\ MaxFaults \in Nat
                          /\ MaxCrashes \in Nat

VARIABLES
    row,      \* booking_jobs, by id
    jobs,     \* jobServiceImpl.jobs: job id -> scheduler, or None
    sched,    \* the schedulers of this process
    req,      \* the request each goroutine serves, with its local variables
    boot,     \* progress of the process start
    todo,     \* jobs RestoreActiveJobs has listed and not yet started
    faults,   \* SQL writes that have failed so far
    crashes   \* crashes so far

vars == <<row, jobs, sched, req, boot, todo, faults, crashes>>

-----------------------------------------------------------------------------
(* The state space *)

\* The statuses the code writes; "absent" and "deleted" stand for no row.
Statuses == {"pending", "active", "stopped"}

Row == [status : Statuses \cup {"absent", "deleted"},
        cfg    : Cfgs \cup {None},
        runs   : Nat]

NoRow == [status |-> "absent", cfg |-> None, runs |-> 0]

\* open: stopCh is not closed.  loop: where the loop goroutine is.
Sched == [job    : Jobs \cup {None},
          cfg    : Cfgs \cup {None},
          open   : BOOLEAN,
          loop   : {"none", "wait", "run", "done"},
          manual : Nat]

Unbuilt == [job |-> None, cfg |-> None, open |-> FALSE, loop |-> "none", manual |-> 0]

Labels == {"idle", "check", "new", "put", "status", "relook", "read", "fire",
           "stopStatus", "deleteRow", "updateCheck", "updateWrite"}

\* op: the method; snap: the row it read; cfg: the form's configuration;
\* sched: its *Scheduler variable.
Request == [pc    : Labels,
            op    : {"none", "start", "run", "stop", "delete", "update"},
            job   : Jobs \cup {None},
            snap  : Row,
            cfg   : Cfgs \cup {None},
            sched : Scheds \cup {None}]

NoRequest == [pc |-> "idle", op |-> "none", job |-> None, snap |-> NoRow,
              cfg |-> None, sched |-> None]

Init ==
    /\ row = [j \in Jobs |-> NoRow]
    /\ jobs = [j \in Jobs |-> None]
    /\ sched = [s \in Scheds |-> Unbuilt]
    /\ req = [t \in Threads |-> NoRequest]
    /\ boot = "down"
    /\ todo = {}
    /\ faults = 0
    /\ crashes = 0

-----------------------------------------------------------------------------
(* The table: each operator is the effect of one SQL statement on it *)

Exists(j) == row[j].status \in Statuses

\* Faulty: an upsert.
StatusWritten_Upsert(j, st) == [row EXCEPT ![j].status = st]

\* Faulty: writes the status the model package declares for a running job.
StatusWritten_Running(j, st) ==
    [row EXCEPT ![j].status = IF st = "active" THEN "running" ELSE st]

\* UPDATE ... SET status: an id without a row changes nothing and is no error.
StatusWritten(j, st) ==
    IF Exists(j) THEN [row EXCEPT ![j].status = st] ELSE row

\* Faulty: the statistics columns are written back too.
RowWritten_AllColumns(j, snap, c) ==
    IF Exists(j) THEN [row EXCEPT ![j] = [snap EXCEPT !.cfg = c]] ELSE row

\* UPDATE of the whole form, status included, the run statistics excepted.
RowWritten(j, snap, c) ==
    IF Exists(j)
    THEN [row EXCEPT ![j] = [status |-> snap.status, cfg |-> c, runs |-> row[j].runs]]
    ELSE row

\* UPDATE ... SET total_runs = total_runs + 1.
RunCounted(j) ==
    IF Exists(j) THEN [row EXCEPT ![j].runs = @ + 1] ELSE row

RowDeleted(j) ==
    IF Exists(j) THEN [row EXCEPT ![j].status = "deleted"] ELSE row

\* A statement either commits, or fails and leaves the table alone.
Exec(table) ==
    \/ /\ row' = table
       /\ UNCHANGED faults
    \/ /\ faults < MaxFaults
       /\ faults' = faults + 1
       /\ UNCHANGED row

-----------------------------------------------------------------------------
(* Goroutines and schedulers *)

Running(j) == jobs[j] # None

Idle(t) == boot = "up" /\ req[t].pc = "idle"

At(t, op, pc) == req[t].op = op /\ req[t].pc = pc

Goto(t, pc) == req' = [req EXCEPT ![t].pc = pc]

Return(t) == req' = [req EXCEPT ![t] = NoRequest]

Begin(t, r) == req' = [req EXCEPT ![t] = r]

Unused == {s \in Scheds : sched[s].job = None}

\* Bound: a start is accepted only when an unused scheduler is left for it.
CanStart == Cardinality(Unused) > Cardinality({t \in Threads : req[t].op \in {"start", "run"}})

\* scheduler.New and Start: the loop goroutine runs from here on.
Built(j, c) == [job |-> j, cfg |-> c, open |-> TRUE, loop |-> "wait", manual |-> 0]

\* Scheduler.Stop closes stopCh.
Closed(s) == [sched EXCEPT ![s].open = FALSE]

\* Faulty: removes the entry and leaves the scheduler running.
StopAndUnmap_NotStopped(j) ==
    /\ jobs' = [jobs EXCEPT ![j] = None]
    /\ UNCHANGED sched

\* Faulty: stops the scheduler and keeps its entry.
StopAndUnmap_Kept(j) ==
    /\ UNCHANGED jobs
    /\ sched' = IF Running(j) THEN Closed(jobs[j]) ELSE sched

\* Stop the job's scheduler, if it has one, and remove its entry: under s.mu.
StopAndUnmap(j) ==
    /\ jobs' = [jobs EXCEPT ![j] = None]
    /\ sched' = IF Running(j) THEN Closed(jobs[j]) ELSE sched

-----------------------------------------------------------------------------
(* CreateJob *)

CreateJob(j, c) ==
    /\ boot = "up"
    /\ row[j].status = "absent"
    /\ Exec([row EXCEPT ![j] = [status |-> "pending", cfg |-> c, runs |-> 0]])
    /\ UNCHANGED <<jobs, sched, req, boot, todo, crashes>>

-----------------------------------------------------------------------------
(* StartJob, and startJobInternal which RunJobNow shares *)

\* GetByID; an id without a row is answered with ErrNotFound.
StartRead(t, j) ==
    /\ Idle(t) /\ CanStart
    /\ Exists(j)
    /\ Begin(t, [NoRequest EXCEPT !.pc = "check", !.op = "start", !.job = j, !.snap = row[j]])
    /\ UNCHANGED <<row, jobs, sched, boot, todo, faults, crashes>>

\* The running check under the read lock, released before anything is started.
StartCheck(t) ==
    /\ At(t, "start", "check")
    /\ IF Running(req[t].job) THEN Return(t) ELSE Goto(t, "new")
    /\ UNCHANGED <<row, jobs, sched, boot, todo, faults, crashes>>

\* The scheduler is built from the row read before, and started.
New(t) ==
    /\ req[t].pc = "new"
    /\ \E s \in Unused :
         /\ sched' = [sched EXCEPT ![s] = Built(req[t].job, req[t].snap.cfg)]
         /\ req' = [req EXCEPT ![t].pc = "put", ![t].sched = s, ![t].snap = NoRow]
    /\ UNCHANGED <<row, jobs, boot, todo, faults, crashes>>

\* s.jobs[jobID] = entry under s.mu, whatever the map holds by now.
Put(t) ==
    /\ req[t].pc = "put"
    /\ jobs' = [jobs EXCEPT ![req[t].job] = req[t].sched]
    /\ req' = [req EXCEPT ![t].pc = "status", ![t].sched = None]
    /\ UNCHANGED <<row, sched, boot, todo, faults, crashes>>

\* Faulty: only StartJob records that the job is active.
SetActive_StartOnly(t) ==
    /\ req[t].pc = "status"
    /\ IF req[t].op = "run" THEN Goto(t, "relook") ELSE Return(t)
    /\ IF req[t].op = "run" THEN UNCHANGED <<row, faults>>
       ELSE Exec(StatusWritten(req[t].job, "active"))
    /\ UNCHANGED <<jobs, sched, boot, todo, crashes>>

\* UpdateStatus(active).  StartJob returns its error, RunJobNow ignores it;
\* neither undoes the start.
SetActive(t) ==
    /\ req[t].pc = "status"
    /\ Exec(StatusWritten(req[t].job, "active"))
    /\ IF req[t].op = "run" THEN Goto(t, "relook") ELSE Return(t)
    /\ UNCHANGED <<jobs, sched, boot, todo, crashes>>

-----------------------------------------------------------------------------
(* StopJob and DeleteJob *)

StopLock(t, j) ==
    /\ Idle(t)
    /\ StopAndUnmap(j)
    /\ Begin(t, [NoRequest EXCEPT !.pc = "stopStatus", !.op = "stop", !.job = j])
    /\ UNCHANGED <<row, boot, todo, faults, crashes>>

StopStatus(t) ==
    /\ req[t].pc = "stopStatus"
    /\ Exec(StatusWritten(req[t].job, "stopped"))
    /\ Return(t)
    /\ UNCHANGED <<jobs, sched, boot, todo, crashes>>

DeleteLock(t, j) ==
    /\ Idle(t)
    /\ StopAndUnmap(j)
    /\ Begin(t, [NoRequest EXCEPT !.pc = "deleteRow", !.op = "delete", !.job = j])
    /\ UNCHANGED <<row, boot, todo, faults, crashes>>

DeleteRow(t) ==
    /\ req[t].pc = "deleteRow"
    /\ Exec(RowDeleted(req[t].job))
    /\ Return(t)
    /\ UNCHANGED <<jobs, sched, boot, todo, crashes>>

-----------------------------------------------------------------------------
(* RunJobNow *)

\* Faulty: fires without starting the job first.
RunLook_NotStarted(t, j) ==
    /\ Idle(t) /\ CanStart
    /\ row[j].runs < MaxRuns
    /\ Begin(t, [NoRequest EXCEPT !.op = "run", !.job = j, !.sched = jobs[j], !.pc = "fire"])
    /\ UNCHANGED <<row, jobs, sched, boot, todo, faults, crashes>>

\* The lookup under the read lock.
RunLook(t, j) ==
    /\ Idle(t) /\ CanStart
    /\ row[j].runs < MaxRuns
    /\ Begin(t, [NoRequest EXCEPT !.op = "run", !.job = j, !.sched = jobs[j],
                                  !.pc = IF Running(j) THEN "fire" ELSE "read"])
    /\ UNCHANGED <<row, jobs, sched, boot, todo, faults, crashes>>

\* Faulty: ErrNotFound is ignored.
RunRead_NotFoundIgnored(t) ==
    /\ req[t].pc = "read"
    /\ req' = [req EXCEPT ![t].pc = "new", ![t].snap = row[req[t].job]]
    /\ UNCHANGED <<row, jobs, sched, boot, todo, faults, crashes>>

\* No entry: GetByID, then startJobInternal without a second look at the map.
RunRead(t) ==
    /\ req[t].pc = "read"
    /\ IF Exists(req[t].job)
       THEN req' = [req EXCEPT ![t].pc = "new", ![t].snap = row[req[t].job]]
       ELSE Return(t)
    /\ UNCHANGED <<row, jobs, sched, boot, todo, faults, crashes>>

\* entry = s.jobs[id] again, without the ok of the map lookup.
RunRelook(t) ==
    /\ req[t].pc = "relook"
    /\ req' = [req EXCEPT ![t].pc = "fire", ![t].sched = jobs[req[t].job]]
    /\ UNCHANGED <<row, jobs, sched, boot, todo, faults, crashes>>

\* entry.sched.RunNow() on whatever entry was found, stopped by now or not.
RunFire(t) ==
    /\ req[t].pc = "fire"
    /\ req[t].sched # None
    /\ sched[req[t].sched].manual < MaxManual
    /\ sched' = [sched EXCEPT ![req[t].sched].manual = @ + 1]
    /\ Return(t)
    /\ UNCHANGED <<row, jobs, boot, todo, faults, crashes>>

\* A nil entry panics; gin.Recovery ends the request.
RunPanic(t) ==
    /\ req[t].pc = "fire"
    /\ req[t].sched = None
    /\ Return(t)
    /\ UNCHANGED <<row, jobs, sched, boot, todo, faults, crashes>>

-----------------------------------------------------------------------------
(* UpdateJob *)

UpdateRead(t, j, c) ==
    /\ Idle(t)
    /\ Exists(j)
    /\ Begin(t, [NoRequest EXCEPT !.pc = "updateCheck", !.op = "update", !.job = j,
                                  !.snap = row[j], !.cfg = c])
    /\ UNCHANGED <<row, jobs, sched, boot, todo, faults, crashes>>

\* Faulty: no running check.
UpdateCheck_Unchecked(t) ==
    /\ At(t, "update", "updateCheck")
    /\ Goto(t, "updateWrite")
    /\ UNCHANGED <<row, jobs, sched, boot, todo, faults, crashes>>

UpdateCheck(t) ==
    /\ At(t, "update", "updateCheck")
    /\ IF Running(req[t].job) THEN Return(t) ELSE Goto(t, "updateWrite")
    /\ UNCHANGED <<row, jobs, sched, boot, todo, faults, crashes>>

\* The whole row as read before, the status too, with the form's values in it.
UpdateWrite(t) ==
    /\ req[t].pc = "updateWrite"
    /\ Exec(RowWritten(req[t].job, req[t].snap, req[t].cfg))
    /\ Return(t)
    /\ UNCHANGED <<jobs, sched, boot, todo, crashes>>

-----------------------------------------------------------------------------
(* The scheduler goroutines, and jobRunner.Run at the end of each run *)

\* The interval is over.  The select may also take this case when stopCh is
\* closed and both are ready.
LoopWake(s) ==
    /\ sched[s].loop = "wait"
    /\ row[sched[s].job].runs < MaxRuns
    /\ sched' = [sched EXCEPT ![s].loop = "run"]
    /\ UNCHANGED <<row, jobs, req, boot, todo, faults, crashes>>

\* The run is over: IncrementRunStats, its error ignored, then the next select.
LoopRunEnd(s) ==
    /\ sched[s].loop = "run"
    /\ Exec(RunCounted(sched[s].job))
    /\ sched' = [sched EXCEPT ![s].loop = "wait"]
    /\ UNCHANGED <<jobs, req, boot, todo, crashes>>

\* Faulty: the select has no stopCh case.
LoopExit_NoCase(s) == FALSE /\ sched[s].open /\ UNCHANGED vars

LoopExit(s) ==
    /\ sched[s].loop = "wait"
    /\ ~sched[s].open
    /\ sched' = [sched EXCEPT ![s].loop = "done"]
    /\ UNCHANGED <<row, jobs, req, boot, todo, faults, crashes>>

ManualRunEnd(s) ==
    /\ sched[s].manual > 0
    /\ Exec(RunCounted(sched[s].job))
    /\ sched' = [sched EXCEPT ![s].manual = @ - 1]
    /\ UNCHANGED <<jobs, req, boot, todo, crashes>>

-----------------------------------------------------------------------------
(* The process: start, RestoreActiveJobs, crash.  Requests are served once  *)
(* RestoreActiveJobs has returned.                                          *)

\* Faulty: lists the pending jobs.
RestoreList_Pending ==
    /\ boot = "down"
    /\ boot' = "restoring"
    /\ todo' = {j \in Jobs : row[j].status = "pending"}
    /\ UNCHANGED <<row, jobs, sched, req, faults, crashes>>

\* ListByStatus(active).
RestoreList ==
    /\ boot = "down"
    /\ boot' = "restoring"
    /\ todo' = {j \in Jobs : row[j].status = "active"}
    /\ UNCHANGED <<row, jobs, sched, req, faults, crashes>>

\* startJobInternal of one listed job; nobody looks between its two steps.
RestoreOne(j) ==
    /\ boot = "restoring"
    /\ j \in todo
    /\ todo' = todo \ {j}
    /\ \E s \in Unused :
         /\ sched' = [sched EXCEPT ![s] = Built(j, row[j].cfg)]
         /\ jobs' = [jobs EXCEPT ![j] = s]
    /\ UNCHANGED <<row, req, boot, faults, crashes>>

RestoreDone ==
    /\ boot = "restoring"
    /\ todo = {}
    /\ boot' = "up"
    /\ UNCHANGED <<row, jobs, sched, req, todo, faults, crashes>>

\* The process dies between any two steps and is started again.
Crash ==
    /\ crashes < MaxCrashes
    /\ crashes' = crashes + 1
    /\ jobs' = [j \in Jobs |-> None]
    /\ sched' = [s \in Scheds |-> Unbuilt]
    /\ req' = [t \in Threads |-> NoRequest]
    /\ boot' = "down"
    /\ todo' = {}
    /\ UNCHANGED <<row, faults>>

-----------------------------------------------------------------------------

\* The remaining steps of a request once it has been accepted.
Continue(t) ==
    \/ StartCheck(t) \/ New(t) \/ Put(t) \/ SetActive(t)
    \/ StopStatus(t) \/ DeleteRow(t)
    \/ RunRead(t) \/ RunRelook(t) \/ RunFire(t) \/ RunPanic(t)
    \/ UpdateCheck(t) \/ UpdateWrite(t)

Accept(t, j) ==
    \/ StartRead(t, j) \/ StopLock(t, j) \/ DeleteLock(t, j) \/ RunLook(t, j)
    \/ \E c \in Cfgs : UpdateRead(t, j, c)

Next ==
    \/ \E j \in Jobs, c \in Cfgs : CreateJob(j, c)
    \/ \E t \in Threads, j \in Jobs : Accept(t, j)
    \/ \E t \in Threads : Continue(t)
    \/ \E s \in Scheds : LoopWake(s) \/ LoopRunEnd(s) \/ LoopExit(s) \/ ManualRunEnd(s)
    \/ RestoreList \/ (\E j \in Jobs : RestoreOne(j)) \/ RestoreDone
    \/ Crash

Spec == Init /\ [][Next]_vars

\* Goroutines that can run do run; a run ends (its context has a deadline);
\* a select whose stopCh stays closed takes that case some time.  Requests,
\* timers and crashes owe nothing.
Fairness ==
    /\ \A t \in Threads : WF_vars(Continue(t))
    /\ \A s \in Scheds : /\ WF_vars(LoopRunEnd(s))
                         /\ WF_vars(ManualRunEnd(s))
                         /\ SF_vars(LoopExit(s))
    /\ WF_vars(RestoreList \/ (\E j \in Jobs : RestoreOne(j)) \/ RestoreDone)

FairSpec == Spec /\ Fairness

-----------------------------------------------------------------------------
(* Properties of every execution *)

TypeOK ==
    /\ row \in [Jobs -> Row]
    /\ jobs \in [Jobs -> Scheds \cup {None}]
    /\ sched \in [Scheds -> Sched]
    /\ req \in [Threads -> Request]
    /\ boot \in {"down", "restoring", "up"}
    /\ todo \in SUBSET Jobs
    /\ faults \in Nat
    /\ crashes \in Nat

\* An entry of the job map is a scheduler built for that job whose stopCh is
\* still open and whose loop lives, whatever requests overlap.  Stop is only
\* called on an entry, so stopCh is never closed twice (that would panic) and
\* an entry never reports a scheduler that is already stopped.
MappedOpen ==
    \A j \in Jobs : Running(j) =>
        /\ sched[jobs[j]].job = j
        /\ sched[jobs[j]].open
        /\ sched[jobs[j]].loop \in {"wait", "run"}

\* No late status write, update or run of a request that overlapped DeleteJob
\* brings a deleted row back.
DeletedStaysDeleted ==
    [][\A j \in Jobs : row[j].status = "deleted" => row'[j].status = "deleted"]_vars

\* UpdateJob writes back a row it read earlier, but never winds back the run
\* statistics that runs recorded in between.
StatsKept ==
    [][\A j \in Jobs : Exists(j) => row'[j].runs >= row[j].runs]_vars

\* After RestoreActiveJobs every job whose row is active has a live scheduler
\* again, built from the row's configuration.
RestoreComplete ==
    [][boot = "restoring" /\ boot' = "up" =>
         \A j \in Jobs : row[j].status = "active" =>
             Running(j) /\ sched[jobs[j]].cfg = row[j].cfg]_vars

-----------------------------------------------------------------------------
(* Properties that need requests to be served one at a time *)

\* jobs maps each job id to its running scheduler (the comment on the map): a
\* scheduler whose loop runs on is in the map, or about to be put there.
RunningIsMapped ==
    \A s \in Scheds : sched[s].open =>
        \/ jobs[sched[s].job] = s
        \/ \E t \in Threads : req[t].pc = "put" /\ req[t].sched = s

\* A job that already runs is not started a second time (the error text of
\* StartJob): no two open schedulers run the same job.
OneScheduler ==
    \A s1, s2 \in Scheds :
        sched[s1].open /\ sched[s2].open /\ sched[s1].job = sched[s2].job => s1 = s2

\* What runs is what the table says: the configuration of a job's scheduler
\* is the one in its row.
RunsItsConfig ==
    \A j \in Jobs : Running(j) /\ Exists(j) => sched[jobs[j]].cfg = row[j].cfg

\* A deleted job has no scheduler.
NoGhost == \A j \in Jobs : Running(j) => Exists(j)

\* Between requests the status column and the job map agree: after a crash
\* exactly the jobs that were running are started again.
StatusAgrees ==
    boot = "up" /\ (\A t \in Threads : req[t].pc = "idle") =>
        \A j \in Jobs : Running(j) <=> row[j].status = "active"

\* RunJobNow never dereferences the nil entry of a job that is not in the map.
EntryFound == \A t \in Threads : req[t].pc = "fire" => req[t].sched # None

\* The map, what runs and the table belong together at every step of a request.
SerialInv == RunningIsMapped /\ RunsItsConfig /\ NoGhost /\ StatusAgrees /\ EntryFound

\* A job that is left stopped comes to rest: from some time on nothing of it
\* runs any more.
StoppedGoesQuiet ==
    \A j \in Jobs :
        <>[](~Running(j)) =>
            <>[](\A s \in Scheds : sched[s].job = j =>
                    sched[s].loop = "done" /\ sched[s].manual = 0)

-----------------------------------------------------------------------------
(* The abstract lifecycle *)

\* The open scheduler of a job, while there is one.
OpenOf(j) == {s \in Scheds : sched[s].open /\ sched[s].job = j}

\* The three columns of the lifecycle, read off the table and the schedulers.
SavedOf(j) == IF Exists(j) THEN "present" ELSE row[j].status

LiveOf(j) ==
    IF OpenOf(j) = {} THEN None ELSE sched[CHOOSE s \in OpenOf(j) : TRUE].cfg

Lifecycle == INSTANCE JobLifecycle WITH
    saved <- [j \in Jobs |-> SavedOf(j)],
    conf  <- [j \in Jobs |-> row[j].cfg],
    live  <- [j \in Jobs |-> LiveOf(j)]

\* Served one request at a time, the service implements the lifecycle: it runs
\* what is saved, and never edits or deletes a running job.
ImplementsLifecycle == Lifecycle!Spec
=============================================================================
