------------------------------ MODULE Scheduler ------------------------------
(***************************************************************************)
(* One Scheduler (internal/scheduler/scheduler.go): the loop goroutine,    *)
(* the goroutines RunNow starts, and the request that calls Stop.          *)
(*                                                                         *)
(* Time passes in Advance only, and only when no goroutine has a step to   *)
(* take: computing is instantaneous against seconds.  A run takes any time *)
(* up to RunMax, the deadline tick puts on its context.                    *)
(***************************************************************************)
EXTENDS BurstWindow

CONSTANTS
    RunMax,      \* the timeout of tick's context
    Horizon,     \* bound: the last instant
    MaxManual    \* bound: RunNow goroutines at once

ASSUME RunAssumption == RunMax \in Nat /\ Horizon \in Nat /\ MaxManual \in Nat

VARIABLES
    now,
    pc,        \* the loop: "choose", "select", "run", "done"
    wake,      \* when the time.After of the select fires
    deadline,  \* when the run in progress is cut off
    stop,      \* Stop: "no", "closed" (stopCh closed), "yes" (returned)
    mode,      \* status.Mode
    manual,    \* RunNow runs in progress
    ended,     \* history: when the loop's last run ended, Never before
    hit,       \* history: slots whose window saw the loop start a run
    opened,    \* history: slots the loop started a run for at or after opening
    late       \* history: runs the loop started after stopCh was closed, counted up to 2

vars == <<cfg, now, pc, wake, deadline, stop, mode, manual, ended, hit, opened, late>>

Init ==
    /\ cfg \in {ApplyDefaults(asked) : asked \in Settings}
    /\ now = 0
    /\ pc = "choose"
    /\ wake = 0 /\ deadline = 0
    /\ stop = "no"
    /\ mode = "idle"
    /\ manual = 0 /\ ended = Never
    /\ hit = {} /\ opened = {} /\ late = 0

-----------------------------------------------------------------------------
(* loop *)

\* The top of the loop: interval and mode, then the status under the mutex,
\* then the timer of the select.
LoopChoose ==
    /\ pc = "choose"
    /\ pc' = "select"
    /\ mode' = SelectInterval(now).mode
    /\ wake' = now + SelectInterval(now).interval
    /\ UNCHANGED <<now, deadline, stop, manual, ended, hit, opened, late>>

\* case <-s.stopCh
LoopStop ==
    /\ pc = "select"
    /\ stop # "no"
    /\ pc' = "done"
    /\ UNCHANGED <<now, wake, deadline, stop, mode, manual, ended, hit, opened, late>>

\* case <-time.After(interval), which calls tick.  With stopCh closed as well
\* the select takes either case.
LoopTick ==
    /\ pc = "select"
    /\ now >= wake
    /\ pc' = "run"
    /\ deadline' = now + RunMax
    /\ hit' = hit \cup {x \in Slots : now > OpensAt(x) - cfg.before /\ now < OpensAt(x) + cfg.after}
    /\ opened' = opened \cup {x \in Slots : now >= OpensAt(x)}
    /\ late' = IF stop = "no" THEN late ELSE IF late = 0 THEN 1 ELSE 2
    /\ UNCHANGED <<now, wake, stop, mode, manual, ended>>

\* Faulty: a run that ends at its deadline, with an error, ends the loop.
LoopRunEnd_Fatal ==
    /\ pc = "run"
    /\ pc' = IF now = deadline THEN "done" ELSE "choose"
    /\ ended' = now
    /\ UNCHANGED <<now, wake, deadline, stop, mode, manual, hit, opened, late>>

\* tick returns: found, not found or an error, the loop goes on.
LoopRunEnd ==
    /\ pc = "run"
    /\ pc' = "choose"
    /\ ended' = now
    /\ UNCHANGED <<now, wake, deadline, stop, mode, manual, hit, opened, late>>

-----------------------------------------------------------------------------
(* Stop and RunNow, called by requests *)

\* close(stopCh); the service sees to it that Stop is called once.
StopClose ==
    /\ stop = "no"
    /\ stop' = "closed"
    /\ UNCHANGED <<now, pc, wake, deadline, mode, manual, ended, hit, opened, late>>

\* The status under the mutex; the loop may write its mode after this.
StopStatus ==
    /\ stop = "closed"
    /\ stop' = "yes"
    /\ mode' = "idle"
    /\ UNCHANGED <<now, pc, wake, deadline, manual, ended, hit, opened, late>>

\* go s.tick(now): in a goroutine of its own, even after Stop.
RunNow ==
    /\ manual < MaxManual
    /\ manual' = manual + 1
    /\ UNCHANGED <<now, pc, wake, deadline, stop, mode, ended, hit, opened, late>>

RunNowEnd ==
    /\ manual > 0
    /\ manual' = manual - 1
    /\ UNCHANGED <<now, pc, wake, deadline, stop, mode, ended, hit, opened, late>>

-----------------------------------------------------------------------------

\* The loop sleeps in its select, runs or has ended, and Stop is not halfway.
Resting ==
    /\ pc = "select" => now < wake /\ stop = "no"
    /\ pc = "run" => now < deadline
    /\ pc # "choose"
    /\ stop # "closed"

Advance ==
    /\ now < Horizon
    /\ Resting
    /\ now' = now + 1
    /\ UNCHANGED <<pc, wake, deadline, stop, mode, manual, ended, hit, opened, late>>

Next ==
    /\ \/ LoopChoose \/ LoopStop \/ LoopTick \/ LoopRunEnd
       \/ StopClose \/ StopStatus \/ RunNow \/ RunNowEnd
       \/ Advance
    /\ UNCHANGED cfg

Spec == Init /\ [][Next]_vars

-----------------------------------------------------------------------------

TypeOK ==
    /\ now \in 0..Horizon
    /\ pc \in {"choose", "select", "run", "done"}
    /\ wake \in Int /\ deadline \in Nat
    /\ ended \in 0..Horizon \cup {Never}
    /\ cfg \in [Fields -> Int]
    /\ stop \in {"no", "closed", "yes"}
    /\ mode \in {"idle", "normal", "burst"}
    /\ manual \in 0..MaxManual
    /\ hit \subseteq Slots /\ opened \subseteq Slots
    /\ late \in 0..2

\* The windows a scheduler that starts at 0 sees from their beginning.
Whole == {x \in Slots : OpensAt(x) - cfg.before >= 0}

\* How long time.After(interval) sleeps.
Pause(interval) == IF interval < 0 THEN 0 ELSE interval

\* A scheduler that is not stopped starts a run inside every burst window,
\* although it only looks at the clock between a sleep and a run: as long as
\* neither one poll interval nor one run and a burst interval fill a window.
WindowHit ==
    /\ Pause(cfg.poll) < cfg.before + cfg.after
    /\ RunMax + Pause(cfg.burst) < cfg.before + cfg.after
    =>
        \A x \in Whole : stop = "no" /\ now >= OpensAt(x) + cfg.after => x \in hit

\* A sleep and a run that begin before the window are over at the opening when
\* they fit in the lead time; then a run starts within one run and one burst
\* interval of the opening.
OpeningPolled ==
    Pause(cfg.poll) + RunMax <= cfg.before /\ RunMax + Pause(cfg.burst) < cfg.after =>
        \A x \in Whole :
            stop = "no" /\ now > OpensAt(x) + RunMax + Pause(cfg.burst) => x \in opened

\* What GetStatus announces is exact: outside a burst window the next one begins
\* at NextBurst, the instant after it lies inside, unless windows are that short, and
\* there is no later window when there is none to announce.  The very instant a window
\* begins is neither inside it nor before it, since both comparisons are strict.
CountdownExact ==
    ~InBurstWindow(now) /\ (\A x \in Slots : OpensAt(x) - cfg.before # now) =>
        /\ \A n \in now..Horizon : InBurstWindow(n) => NextBurst(now) # Never /\ n > NextBurst(now)
        /\ NextBurst(now) # Never =>
            /\ NextBurst(now) > now
            /\ cfg.before + cfg.after > 1 => InBurstWindow(NextBurst(now) + 1)

\* Stop may lose the race against a timer that fires at the same instant, but
\* only once: the loop starts one run at most after stopCh is closed.  With an
\* interval that is not positive the timer is ready whenever the loop looks.
OneLateRun == cfg.poll > 0 /\ cfg.burst > 0 => late <= 1

\* The loop pauses between two runs, whichever fields a request without negative
\* numbers leaves out: a zero never makes it spin.
Paced ==
    /\ pc = "run" /\ ended # Never
    /\ cfg \in {ApplyDefaults(asked) : asked \in {a \in Settings : \A f \in Fields : a[f] >= 0}}
    => deadline - RunMax > ended

\* The types, the announced burst, the end of the loop and its pace.
SchedulerInv == TypeOK /\ CountdownExact /\ OneLateRun /\ Paced
=============================================================================
