--------------------------- MODULE PollingProofs ---------------------------
(* Theorems about the two loops of the server that poll: Scheduler, for any  *)
(* settings, dates and times and any length of a run; and TelegramSetup, for *)
(* any number of waits that share a bot, the dialog, and any limit of        *)
(* getUpdates.                                                               *)
EXTENDS Scheduler, TelegramSetup, FiniteSetTheorems, WellFoundedInduction, TLAPS

-----------------------------------------------------------------------------
(* Least numbers: what a CHOOSE of the smallest or largest element rests on *)

\* Natural numbers, by the well-foundedness of their order.
LEMMA LeastNatural ==
    ASSUME NEW S, S \subseteq Nat, S # {}
    PROVE  \E m \in S : \A n \in S : m <= n
  <1> DEFINE R == OpToRel(<, Nat)
  <1>1. IsWellFoundedOn(R, Nat)
    BY NatLessThanWellFounded
  <1>2. ASSUME NEW x \in Nat, NEW y \in Nat, <<x, y>> \notin R
        PROVE  y <= x
    <2>1. \A p \in Nat \X Nat : p[1] < p[2] => p \in R
      BY Zenon DEF OpToRel
    <2>2. <<x, y>> \in Nat \X Nat /\ <<x, y>>[1] = x /\ <<x, y>>[2] = y
      OBVIOUS
    <2> HIDE DEF R
    <2> QED BY <1>2, <2>1, <2>2
  <1> HIDE DEF R
  <1>3. PICK x \in S : \A y \in S : ~ (<<y, x>> \in R)
    BY <1>1, WFMin, Zenon
  <1> QED BY <1>2, <1>3

\* Integers above a bound, by their distance from it.
LEMMA LeastInteger ==
    ASSUME NEW S, S \subseteq Int, S # {}, NEW b \in Int, \A x \in S : b <= x
    PROVE  \E m \in S : \A n \in S : m <= n
  <1> DEFINE D == {x - b : x \in S}
  <1>1. D \subseteq Nat /\ D # {}
    <2>1. \A x \in S : x - b \in Nat
      OBVIOUS
    <2> QED BY <2>1, Zenon
  <1>2. PICK d \in D : \A e \in D : d <= e
    <2> HIDE DEF D
    <2> QED BY <1>1, LeastNatural
  <1>3. PICK m \in S : d = m - b
    OBVIOUS
  <1>4. \A n \in S : n - b \in D
    OBVIOUS
  <1>5. ASSUME NEW n \in S PROVE m <= n
    <2> HIDE DEF D
    <2>1. m - b <= n - b
      BY <1>2, <1>3, <1>4
    <2> QED BY <2>1
  <1> QED BY <1>5

\* Integers below a bound, by their distance from it.
LEMMA GreatestInteger ==
    ASSUME NEW S, S \subseteq Int, S # {}, NEW b \in Int, \A x \in S : x <= b
    PROVE  \E m \in S : \A n \in S : m >= n
  <1> DEFINE D == {b - x : x \in S}
  <1>1. D \subseteq Nat /\ D # {}
    <2>1. \A x \in S : b - x \in Nat
      OBVIOUS
    <2> QED BY <2>1, Zenon
  <1>2. PICK d \in D : \A e \in D : d <= e
    <2> HIDE DEF D
    <2> QED BY <1>1, LeastNatural
  <1>3. PICK m \in S : d = b - m
    OBVIOUS
  <1>4. \A n \in S : b - n \in D
    OBVIOUS
  <1>5. ASSUME NEW n \in S PROVE m >= n
    <2> HIDE DEF D
    <2>1. b - m <= b - n
      BY <1>2, <1>3, <1>4
    <2> QED BY <2>1
  <1> QED BY <1>5

-----------------------------------------------------------------------------
(* The inductive invariant of the scheduler *)

Positive == cfg.poll > 0 /\ cfg.burst > 0

\* Where the loop is, when it has not been stopped; and what it has of the past.
LoopLives ==
    /\ stop = "no" => pc # "done" /\ late = 0
    /\ pc = "run" => now <= deadline
    /\ ended # Never => ended <= now

\* After a late run the loop sleeps, and time stands still until it has ended.
LateOnce == Positive => late <= 1 /\ (pc = "select" /\ late = 1 => now < wake)

\* A sleep that follows a run ends after it, and the next run begins with its end.
PauseKept ==
    Positive /\ ended # Never =>
        /\ pc = "select" => wake > ended
        /\ pc = "run" => deadline - RunMax > ended

SleepsFit ==
    /\ Pause(cfg.poll) < cfg.before + cfg.after
    /\ RunMax + Pause(cfg.burst) < cfg.before + cfg.after

\* As long as no run began inside a window, the loop has a run behind it that began
\* before the window at the latest, or a sleep before it that ends inside.
WindowAhead ==
    SleepsFit => \A x \in Whole : stop = "no" /\ x \notin hit =>
        /\ pc = "choose" => now <= OpensAt(x) - cfg.before + RunMax
        /\ pc = "select" => now < OpensAt(x) + cfg.after /\ wake < OpensAt(x) + cfg.after
        /\ pc = "run" => deadline <= OpensAt(x) - cfg.before + RunMax

LeadFits ==
    /\ Pause(cfg.poll) + RunMax <= cfg.before
    /\ RunMax + Pause(cfg.burst) < cfg.after

\* The same for the opening itself.
OpeningAhead ==
    LeadFits => \A x \in Whole : stop = "no" /\ x \notin opened =>
        /\ pc = "choose" => now <= OpensAt(x) + RunMax
        /\ pc = "select" => /\ now <= OpensAt(x) + RunMax + Pause(cfg.burst)
                            /\ wake <= OpensAt(x) + RunMax + Pause(cfg.burst)
        /\ pc = "run" => deadline <= OpensAt(x) + RunMax

IndInv == TypeOK /\ LoopLives /\ LateOnce /\ PauseKept /\ WindowAhead /\ OpeningAhead

-----------------------------------------------------------------------------
(* Clock arithmetic *)

LEMMA SlotsAreInstants == Slots \subseteq Int
  BY DayAssumption DEF Slots

LEMMA DefaultsAreIntegers ==
    ASSUME NEW asked \in Settings
    PROVE  /\ ApplyDefaults(asked) \in [Fields -> Int]
           /\ (\A f \in Fields : asked[f] >= 0) => \A f \in Fields : ApplyDefaults(asked)[f] > 0
  BY SettingsAssumption DEF ApplyDefaults

\* The interval is one of the two that are set, and the burst one inside a window.
LEMMA IntervalChosen ==
    ASSUME cfg \in [Fields -> Int], NEW n \in Int
    PROVE  /\ SelectInterval(n).interval \in Int
           /\ SelectInterval(n).mode \in {"normal", "burst"}
           /\ \/ SelectInterval(n).interval = cfg.burst
              \/ SelectInterval(n).interval = cfg.poll /\ ~InBurstWindow(n)
  BY DEF SelectInterval, Fields

\* Inside the window of a slot that is configured the loop polls fast.
LEMMA InsideIsBurst ==
    ASSUME cfg \in [Fields -> Int], NEW n \in Int, NEW x \in Slots,
           n > OpensAt(x) - cfg.before, n < OpensAt(x) + cfg.after
    PROVE  InBurstWindow(n)
  BY SlotsAreInstants DEF InBurstWindow, BuildTargets, OpensAt, Fields

LEMMA PauseIsLength ==
    ASSUME NEW i \in Int
    PROVE  Pause(i) \in Nat /\ i <= Pause(i)
  BY DEF Pause

-----------------------------------------------------------------------------
(* Type correctness *)

LEMMA InitTypes == ASSUME Init PROVE TypeOK
  <1>1. cfg \in [Fields -> Int]
    BY DefaultsAreIntegers DEF Init
  <1> QED BY <1>1, RunAssumption DEF Init, TypeOK

LEMMA TypeStep == ASSUME TypeOK, [Next]_vars PROVE TypeOK'
  <1> USE DEF TypeOK
  <1>1. CASE LoopChoose /\ UNCHANGED cfg
    <2>1. SelectInterval(now).interval \in Int /\ SelectInterval(now).mode \in {"normal", "burst"}
      BY IntervalChosen, RunAssumption
    <2>2. now + SelectInterval(now).interval \in Int
      BY <2>1, RunAssumption
    <2>3. wake' \in Int /\ mode' \in {"idle", "normal", "burst"}
      BY <1>1, <2>1, <2>2, Zenon DEF LoopChoose
    <2> QED BY <1>1, <2>3 DEF LoopChoose, Slots
  <1>2. CASE LoopStop /\ UNCHANGED cfg
    BY <1>2 DEF LoopStop, Slots
  <1>3. CASE LoopTick /\ UNCHANGED cfg
    <2>1. deadline' \in Nat /\ late' \in 0..2
      BY <1>3, RunAssumption DEF LoopTick
    <2>2. hit' \subseteq Slots' /\ opened' \subseteq Slots'
      <3>1. Slots' = Slots
        BY DEF Slots
      <3> QED BY <1>3, <3>1, Zenon DEF LoopTick
    <2>3. UNCHANGED <<now, wake, stop, mode, manual, ended, cfg>> /\ pc' = "run"
      BY <1>3 DEF LoopTick
    <2> QED BY <2>1, <2>2, <2>3
  <1>4. CASE LoopRunEnd /\ UNCHANGED cfg
    BY <1>4 DEF LoopRunEnd, Slots
  <1>5. CASE StopClose /\ UNCHANGED cfg
    BY <1>5 DEF StopClose, Slots
  <1>6. CASE StopStatus /\ UNCHANGED cfg
    BY <1>6 DEF StopStatus, Slots
  <1>7. CASE RunNow /\ UNCHANGED cfg
    BY <1>7, RunAssumption DEF RunNow, Slots
  <1>8. CASE RunNowEnd /\ UNCHANGED cfg
    BY <1>8, RunAssumption DEF RunNowEnd, Slots
  <1>9. CASE Advance /\ UNCHANGED cfg
    BY <1>9, RunAssumption DEF Advance, Slots
  <1>10. CASE UNCHANGED vars
    BY <1>10 DEF vars, Slots
  <1> QED BY <1>1, <1>2, <1>3, <1>4, <1>5, <1>6, <1>7, <1>8, <1>9, <1>10 DEF Next

\* The variables keep their types, whatever the settings are.
THEOREM TypeCorrect == Spec => []TypeOK
  <1>1. Init => TypeOK
    BY InitTypes
  <1>2. TypeOK /\ [Next]_vars => TypeOK'
    BY TypeStep
  <1> QED BY <1>1, <1>2, PTL DEF Spec

-----------------------------------------------------------------------------
(* The loop after a stop, and its pace *)

LEMMA LivesStep == ASSUME TypeOK, LoopLives, [Next]_vars PROVE LoopLives'
  <1> USE DayAssumption, RunAssumption DEF TypeOK, LoopLives
  <1>1. CASE LoopChoose \/ LoopStop \/ LoopRunEnd
    BY <1>1 DEF LoopChoose, LoopStop, LoopRunEnd
  <1>2. CASE LoopTick
    BY <1>2 DEF LoopTick
  <1>3. CASE StopClose \/ StopStatus \/ RunNow \/ RunNowEnd
    BY <1>3 DEF StopClose, StopStatus, RunNow, RunNowEnd
  <1>4. CASE Advance
    BY <1>4 DEF Advance, Resting
  <1>5. CASE UNCHANGED vars
    BY <1>5 DEF vars
  <1> QED BY <1>1, <1>2, <1>3, <1>4, <1>5 DEF Next

LEMMA SettingsStay == ASSUME [Next]_vars PROVE cfg' = cfg
  BY DEF Next, vars

LEMMA LateStep == ASSUME TypeOK, LoopLives, LateOnce, [Next]_vars PROVE LateOnce'
  <1> USE RunAssumption DEF LateOnce, Positive
  <1>0. cfg' = cfg
    BY SettingsStay
  <1>1. CASE LoopChoose
    <2>1. SelectInterval(now).interval \in {cfg.burst, cfg.poll} /\ now \in Int
      BY IntervalChosen DEF TypeOK
    <2>2. cfg.burst \in Int /\ cfg.poll \in Int
      BY DEF TypeOK, Fields
    <2> QED BY <1>0, <1>1, <2>1, <2>2 DEF LoopChoose
  <1>2. CASE LoopTick
    BY <1>0, <1>2 DEF LoopTick, TypeOK, LoopLives
  <1>3. CASE LoopStop \/ LoopRunEnd \/ StopClose \/ StopStatus \/ RunNow \/ RunNowEnd
    BY <1>0, <1>3 DEF LoopStop, LoopRunEnd, StopClose, StopStatus, RunNow, RunNowEnd, LoopLives
  <1>4. CASE Advance
    BY <1>0, <1>4 DEF Advance, Resting, LoopLives
  <1>5. CASE UNCHANGED vars
    BY <1>5 DEF vars
  <1> QED BY <1>1, <1>2, <1>3, <1>4, <1>5 DEF Next

LEMMA PauseStep == ASSUME TypeOK, LoopLives, PauseKept, [Next]_vars PROVE PauseKept'
  <1> USE DayAssumption, RunAssumption DEF PauseKept, Positive
  <1>0. cfg' = cfg
    BY SettingsStay
  <1>1. CASE LoopChoose
    <2>1. SelectInterval(now).interval \in {cfg.burst, cfg.poll} /\ now \in Int
      BY IntervalChosen DEF TypeOK
    <2>2. cfg.burst \in Int /\ cfg.poll \in Int
      BY DEF TypeOK, Fields
    <2>3. ended # Never => ended \in Int /\ ended <= now
      BY DEF TypeOK, LoopLives
    <2> QED BY <1>0, <1>1, <2>1, <2>2, <2>3 DEF LoopChoose
  <1>2. CASE LoopTick
    BY <1>0, <1>2 DEF LoopTick, TypeOK
  <1>3. CASE LoopRunEnd \/ LoopStop
    BY <1>0, <1>3 DEF LoopStop, LoopRunEnd
  <1>4. CASE StopClose \/ StopStatus \/ RunNow \/ RunNowEnd \/ Advance
    BY <1>0, <1>4 DEF StopClose, StopStatus, RunNow, RunNowEnd, Advance
  <1>5. CASE UNCHANGED vars
    BY <1>5 DEF vars
  <1> QED BY <1>1, <1>2, <1>3, <1>4, <1>5 DEF Next

-----------------------------------------------------------------------------
(* The windows *)

LEMMA WindowsStay ==
    ASSUME cfg' = cfg
    PROVE  /\ Slots' = Slots /\ Whole' = Whole
           /\ \A x \in Slots : OpensAt(x)' = OpensAt(x)
           /\ SleepsFit' = SleepsFit /\ LeadFits' = LeadFits
  BY DEF Slots, Whole, OpensAt, SleepsFit, LeadFits, Pause

\* The instants of a window, and that it is open when the windows are longer than
\* a sleep.
LEMMA WindowTypes ==
    ASSUME TypeOK, NEW x \in Whole
    PROVE  /\ x \in Slots /\ OpensAt(x) \in Int /\ OpensAt(x) - cfg.before >= 0
           /\ \A f \in Fields : cfg[f] \in Int
           /\ Pause(cfg.poll) \in Nat /\ cfg.poll <= Pause(cfg.poll)
           /\ Pause(cfg.burst) \in Nat /\ cfg.burst <= Pause(cfg.burst)
  BY SlotsAreInstants, PauseIsLength DEF TypeOK, Whole, OpensAt, Fields

LEMMA WindowStep == ASSUME TypeOK, LoopLives, WindowAhead, [Next]_vars PROVE WindowAhead'
  <1>0. cfg' = cfg
    BY SettingsStay
  <1> SUFFICES ASSUME SleepsFit, NEW x \in Whole, stop' = "no", x \notin hit'
               PROVE  /\ pc' = "choose" => now' <= OpensAt(x) - cfg.before + RunMax
                      /\ pc' = "select" => /\ now' < OpensAt(x) + cfg.after
                                           /\ wake' < OpensAt(x) + cfg.after
                      /\ pc' = "run" => deadline' <= OpensAt(x) - cfg.before + RunMax
    BY <1>0, WindowsStay DEF WindowAhead, Whole
  <1> DEFINE open == OpensAt(x) - cfg.before
             close == OpensAt(x) + cfg.after
  <1>t. /\ x \in Slots /\ open \in Int /\ close \in Int
        /\ cfg.before \in Int /\ cfg.after \in Int /\ cfg.poll \in Int /\ cfg.burst \in Int
        /\ OpensAt(x) \in Int
    BY WindowTypes DEF Fields
  <1>p. /\ close - open = cfg.before + cfg.after
        /\ open + Pause(cfg.poll) < close /\ open + RunMax + Pause(cfg.burst) < close
        /\ Pause(cfg.poll) \in Nat /\ cfg.poll <= Pause(cfg.poll)
        /\ Pause(cfg.burst) \in Nat /\ cfg.burst <= Pause(cfg.burst)
    BY <1>t, WindowTypes, RunAssumption DEF SleepsFit
  <1>i. stop = "no" /\ x \notin hit =>
            /\ pc = "choose" => now <= open + RunMax
            /\ pc = "select" => now < close /\ wake < close
            /\ pc = "run" => deadline <= open + RunMax
    BY DEF WindowAhead
  <1>n. now \in Nat /\ wake \in Int /\ deadline \in Nat /\ RunMax \in Nat
    BY RunAssumption DEF TypeOK
  <1>o. ASSUME now > open, now < close PROVE InBurstWindow(now)
    BY <1>o, <1>n, <1>t, InsideIsBurst DEF TypeOK
  <1> HIDE DEF open, close
  <1> SUFFICES /\ pc' = "choose" => now' <= open + RunMax
               /\ pc' = "select" => now' < close /\ wake' < close
               /\ pc' = "run" => deadline' <= open + RunMax
    BY DEF open, close
  <1>1. CASE LoopChoose
    <2>1. now <= open + RunMax /\ now < close
      BY <1>1, <1>i, <1>n, <1>p, <1>t DEF LoopChoose
    <2>2. now + SelectInterval(now).interval < close
      <3>1. CASE SelectInterval(now).interval = cfg.burst
        BY <2>1, <3>1, <1>n, <1>p, <1>t
      <3>2. CASE SelectInterval(now).interval = cfg.poll /\ ~InBurstWindow(now)
        <4>1. now <= open
          BY <2>1, <3>2, <1>o, <1>n, <1>t
        <4> QED BY <3>2, <4>1, <1>n, <1>p, <1>t
      <3> QED BY <3>1, <3>2, <1>n, IntervalChosen DEF TypeOK
    <2> QED BY <1>1, <2>1, <2>2 DEF LoopChoose
  <1>2. CASE LoopTick
    <2>1. stop = "no" /\ x \notin hit /\ pc = "select" /\ now < close
      BY <1>2, <1>i DEF LoopTick
    <2>2. ~ (now > open /\ now < close)
      BY <1>2, <1>t DEF LoopTick, open, close
    <2>3. deadline' <= open + RunMax
      BY <1>2, <2>1, <2>2, <1>n, <1>t DEF LoopTick
    <2> QED BY <1>2, <2>3 DEF LoopTick
  <1>3. CASE LoopRunEnd
    <2>1. now <= deadline
      BY <1>3 DEF LoopLives, LoopRunEnd
    <2> QED BY <1>3, <2>1, <1>i, <1>n, <1>t DEF LoopRunEnd
  <1>4. CASE StopClose \/ StopStatus
    BY <1>4 DEF StopClose, StopStatus
  <1>5. CASE LoopStop \/ RunNow \/ RunNowEnd \/ UNCHANGED vars
    BY <1>5, <1>i DEF LoopStop, RunNow, RunNowEnd, vars
  <1>6. CASE Advance
    BY <1>6, <1>i, <1>n, <1>t DEF Advance, Resting
  <1> QED BY <1>1, <1>2, <1>3, <1>4, <1>5, <1>6 DEF Next

LEMMA OpeningStep == ASSUME TypeOK, LoopLives, OpeningAhead, [Next]_vars PROVE OpeningAhead'
  <1>0. cfg' = cfg
    BY SettingsStay
  <1> SUFFICES ASSUME LeadFits, NEW x \in Whole, stop' = "no", x \notin opened'
               PROVE  /\ pc' = "choose" => now' <= OpensAt(x) + RunMax
                      /\ pc' = "select" => /\ now' <= OpensAt(x) + RunMax + Pause(cfg.burst)
                                           /\ wake' <= OpensAt(x) + RunMax + Pause(cfg.burst)
                      /\ pc' = "run" => deadline' <= OpensAt(x) + RunMax
    BY <1>0, WindowsStay DEF OpeningAhead, Whole, Pause
  <1> DEFINE at == OpensAt(x)
             B == Pause(cfg.burst)
  <1>t. /\ x \in Slots /\ at \in Int /\ B \in Nat /\ cfg.burst <= B
        /\ cfg.before \in Int /\ cfg.after \in Int /\ cfg.poll \in Int /\ cfg.burst \in Int
        /\ Pause(cfg.poll) \in Nat /\ cfg.poll <= Pause(cfg.poll)
    BY WindowTypes DEF Fields
  <1>p. Pause(cfg.poll) + RunMax <= cfg.before /\ RunMax + B < cfg.after
    BY DEF LeadFits
  <1>i. stop = "no" /\ x \notin opened =>
            /\ pc = "choose" => now <= at + RunMax
            /\ pc = "select" => now <= at + RunMax + B /\ wake <= at + RunMax + B
            /\ pc = "run" => deadline <= at + RunMax
    BY DEF OpeningAhead
  <1>n. now \in Nat /\ wake \in Int /\ deadline \in Nat /\ RunMax \in Nat
    BY RunAssumption DEF TypeOK
  <1>o. ASSUME now > at - cfg.before, now < at + cfg.after PROVE InBurstWindow(now)
    BY <1>o, <1>n, <1>t, InsideIsBurst DEF TypeOK
  <1> HIDE DEF at, B
  <1> SUFFICES /\ pc' = "choose" => now' <= at + RunMax
               /\ pc' = "select" => now' <= at + RunMax + B /\ wake' <= at + RunMax + B
               /\ pc' = "run" => deadline' <= at + RunMax
    BY DEF at, B
  <1>1. CASE LoopChoose
    <2>1. now <= at + RunMax
      BY <1>1, <1>i DEF LoopChoose
    <2>2. now + SelectInterval(now).interval <= at + RunMax + B
      <3>1. CASE SelectInterval(now).interval = cfg.burst
        BY <2>1, <3>1, <1>n, <1>t
      <3>2. CASE SelectInterval(now).interval = cfg.poll /\ ~InBurstWindow(now)
        <4>1. now <= at - cfg.before
          BY <2>1, <3>2, <1>o, <1>n, <1>p, <1>t
        <4> QED BY <3>2, <4>1, <1>n, <1>p, <1>t
      <3> QED BY <3>1, <3>2, <1>n, IntervalChosen DEF TypeOK
    <2> QED BY <1>1, <2>1, <2>2, <1>n, <1>t DEF LoopChoose
  <1>2. CASE LoopTick
    <2>1. now < at
      BY <1>2, <1>n, <1>t DEF LoopTick, at
    <2>2. deadline' <= at + RunMax
      BY <1>2, <2>1, <1>n, <1>t DEF LoopTick
    <2> QED BY <1>2, <2>2 DEF LoopTick
  <1>3. CASE LoopRunEnd
    <2>1. now <= deadline
      BY <1>3 DEF LoopLives, LoopRunEnd
    <2> QED BY <1>3, <2>1, <1>i, <1>n, <1>t DEF LoopRunEnd
  <1>4. CASE StopClose \/ StopStatus
    BY <1>4 DEF StopClose, StopStatus
  <1>5. CASE LoopStop \/ RunNow \/ RunNowEnd \/ UNCHANGED vars
    BY <1>5, <1>i DEF LoopStop, RunNow, RunNowEnd, vars
  <1>6. CASE Advance
    BY <1>6, <1>i, <1>n, <1>t DEF Advance, Resting
  <1> QED BY <1>1, <1>2, <1>3, <1>4, <1>5, <1>6 DEF Next

-----------------------------------------------------------------------------
(* The invariant *)

LEMMA InitInv == ASSUME Init PROVE IndInv
  <1>1. TypeOK
    BY InitTypes
  <1>2. LoopLives /\ LateOnce /\ PauseKept
    BY DEF Init, LoopLives, LateOnce, PauseKept
  <1>3. WindowAhead
    <2> SUFFICES ASSUME NEW x \in Whole PROVE now <= OpensAt(x) - cfg.before + RunMax
      BY DEF WindowAhead, Init
    <2> QED BY <1>1, WindowTypes, RunAssumption DEF Init, Fields
  <1>4. OpeningAhead
    <2> SUFFICES ASSUME LeadFits, NEW x \in Whole PROVE now <= OpensAt(x) + RunMax
      BY DEF OpeningAhead, Init
    <2> QED BY <1>1, WindowTypes, RunAssumption DEF Init, Fields, LeadFits
  <1> QED BY <1>1, <1>2, <1>3, <1>4 DEF IndInv

LEMMA InvStep == ASSUME IndInv, [Next]_vars PROVE IndInv'
  BY TypeStep, LivesStep, LateStep, PauseStep, WindowStep, OpeningStep DEF IndInv

LEMMA AlwaysInd == Spec => []IndInv
  <1>1. Init => IndInv
    BY InitInv
  <1>2. IndInv /\ [Next]_vars => IndInv'
    BY InvStep
  <1> QED BY <1>1, <1>2, PTL DEF Spec

-----------------------------------------------------------------------------
(* What the invariant says *)

\* As long as the scheduler is not stopped, a run begins inside every window that it
\* sees from its beginning, when the intervals and the longest run fit in a window.
THEOREM NoWindowMissed == Spec => []WindowHit
  <1>1. IndInv => WindowHit
    <2> SUFFICES ASSUME IndInv, SleepsFit, NEW x \in Whole, stop = "no",
                        now >= OpensAt(x) + cfg.after, x \notin hit
                 PROVE  FALSE
      BY DEF WindowHit, SleepsFit
    <2>1. /\ OpensAt(x) \in Int /\ now \in Nat /\ deadline \in Nat /\ RunMax \in Nat
          /\ cfg.before \in Int /\ cfg.after \in Int /\ Pause(cfg.burst) \in Nat
      BY WindowTypes, RunAssumption DEF IndInv, TypeOK, Fields
    <2>2. RunMax < cfg.before + cfg.after
      BY <2>1 DEF SleepsFit
    <2>3. pc # "select"
      BY <2>1 DEF IndInv, WindowAhead
    <2>4. pc # "choose"
      BY <2>1, <2>2 DEF IndInv, WindowAhead
    <2>5. pc # "run"
      BY <2>1, <2>2 DEF IndInv, WindowAhead, LoopLives
    <2> QED BY <2>3, <2>4, <2>5 DEF IndInv, TypeOK, LoopLives
  <1> QED BY <1>1, AlwaysInd, PTL

\* A run begins within one run and one burst interval of every opening, when a sleep
\* and a run fit in the lead time.
THEOREM EveryOpeningPolled == Spec => []OpeningPolled
  <1>1. IndInv => OpeningPolled
    <2> SUFFICES ASSUME IndInv, LeadFits, NEW x \in Whole, stop = "no",
                        now > OpensAt(x) + RunMax + Pause(cfg.burst), x \notin opened
                 PROVE  FALSE
      BY DEF OpeningPolled, LeadFits
    <2>1. /\ OpensAt(x) \in Int /\ now \in Nat /\ deadline \in Nat /\ RunMax \in Nat
          /\ Pause(cfg.burst) \in Nat
      BY WindowTypes, RunAssumption DEF IndInv, TypeOK
    <2>2. pc # "select"
      BY <2>1 DEF IndInv, OpeningAhead
    <2>3. pc # "choose"
      BY <2>1 DEF IndInv, OpeningAhead
    <2>4. pc # "run"
      BY <2>1 DEF IndInv, OpeningAhead, LoopLives
    <2> QED BY <2>2, <2>3, <2>4 DEF IndInv, TypeOK, LoopLives
  <1> QED BY <1>1, AlwaysInd, PTL

\* nextBurst finds the earliest of the windows to come.
LEMMA NextBurstIsNext ==
    ASSUME cfg \in [Fields -> Int], NEW n \in Int, Upcoming(n) # {}
    PROVE  /\ NextBurst(n) \in Upcoming(n)
           /\ \A c \in Upcoming(n) : NextBurst(n) <= c
  <1>1. Upcoming(n) \subseteq Int /\ \A b \in Upcoming(n) : n <= b
    BY DEF Upcoming
  <1>2. \E b \in Upcoming(n) : \A c \in Upcoming(n) : b <= c
    BY <1>1, LeastInteger
  <1> QED BY <1>2, Zenon DEF NextBurst

LEMMA CountdownIsExact == ASSUME IndInv PROVE CountdownExact
  <1> SUFFICES ASSUME ~InBurstWindow(now), \A x \in Slots : OpensAt(x) - cfg.before # now
               PROVE  /\ \A n \in now..Horizon : InBurstWindow(n) =>
                            NextBurst(now) # Never /\ n > NextBurst(now)
                      /\ NextBurst(now) # Never =>
                            /\ NextBurst(now) > now
                            /\ cfg.before + cfg.after > 1 => InBurstWindow(NextBurst(now) + 1)
    BY DEF CountdownExact
  <1>t. /\ cfg \in [Fields -> Int] /\ now \in Int /\ Horizon \in Int
        /\ cfg.before \in Int /\ cfg.after \in Int
        /\ \A x \in Slots : x \in Int /\ OpensAt(x) \in Int
    BY RunAssumption, SlotsAreInstants DEF IndInv, TypeOK, OpensAt, Fields
  <1>1. ASSUME NEW n \in now..Horizon, InBurstWindow(n)
        PROVE  NextBurst(now) # Never /\ n > NextBurst(now)
    <2>1. PICK x \in BuildTargets(n) : n > OpensAt(x) - cfg.before /\ n < OpensAt(x) + cfg.after
      BY <1>1 DEF InBurstWindow
    <2>2. x \in Slots /\ x \in BuildTargets(now)
      BY <2>1, <1>t DEF BuildTargets
    <2>3. OpensAt(x) - cfg.before > now
      <3>1. ~(now > OpensAt(x) - cfg.before /\ now < OpensAt(x) + cfg.after)
        BY <2>2 DEF InBurstWindow
      <3>2. OpensAt(x) - cfg.before # now
        BY <2>2
      <3>3. now <= n /\ n \in Int /\ OpensAt(x) \in Int
        BY <2>2, <1>t
      <3> QED BY <2>1, <3>1, <3>2, <3>3, <1>t
    <2>4. OpensAt(x) - cfg.before \in Upcoming(now)
      BY <2>2, <2>3, <1>t DEF Upcoming
    <2>5. NextBurst(now) \in Int /\ NextBurst(now) <= OpensAt(x) - cfg.before
      BY <2>4, <1>t, NextBurstIsNext DEF Upcoming
    <2> QED BY <2>1, <2>2, <2>5, <1>t, DayAssumption
  <1>2. ASSUME NextBurst(now) # Never
        PROVE  /\ NextBurst(now) > now
               /\ cfg.before + cfg.after > 1 => InBurstWindow(NextBurst(now) + 1)
    <2>1. Upcoming(now) # {}
      BY <1>2 DEF NextBurst
    <2>2. PICK x \in BuildTargets(now) : NextBurst(now) = OpensAt(x) - cfg.before
      BY <2>1, <1>t, NextBurstIsNext DEF Upcoming
    <2>3. NextBurst(now) > now
      BY <2>1, <1>t, NextBurstIsNext DEF Upcoming
    <2>4. x \in Slots
      BY DEF BuildTargets
    <2>5. cfg.before + cfg.after > 1 =>
            /\ NextBurst(now) + 1 > OpensAt(x) - cfg.before
            /\ NextBurst(now) + 1 < OpensAt(x) + cfg.after
      BY <2>2, <2>4, <1>t
    <2>6. NextBurst(now) + 1 \in Int
      BY <2>2, <2>4, <1>t
    <2> QED BY <2>3, <2>4, <2>5, <2>6, <1>t, InsideIsBurst
  <1> QED BY <1>1, <1>2

\* A request without negative numbers sets positive intervals.
LEMMA AskedIsPositive ==
    ASSUME NEW asked \in Settings, \A f \in Fields : asked[f] >= 0, cfg = ApplyDefaults(asked)
    PROVE  Positive
  BY DefaultsAreIntegers DEF Positive, Fields

\* The announced burst is exact, at most one run begins after a stop, and a request
\* without negative numbers never makes the loop spin.
THEOREM SchedulerCorrect == Spec => []SchedulerInv
  <1>1. IndInv => SchedulerInv
    <2> SUFFICES ASSUME IndInv PROVE SchedulerInv
      OBVIOUS
    <2>1. TypeOK
      BY DEF IndInv
    <2>2. CountdownExact
      BY CountdownIsExact
    <2>3. OneLateRun
      BY DEF IndInv, LateOnce, Positive, OneLateRun
    <2>4. Paced
      BY AskedIsPositive DEF IndInv, PauseKept, Paced
    <2> QED BY <2>1, <2>2, <2>3, <2>4 DEF SchedulerInv
  <1> QED BY <1>1, AlwaysInd, PTL

-----------------------------------------------------------------------------
(* The inductive invariant of the waits *)

Active(w) == stage[w] \in {"send", "poll"}

\* Nobody is ahead of the updates there are.
Bounded ==
    /\ confirmed <= Len(updates)
    /\ \A w \in Waits :
        /\ offset[w] <= Len(updates) + 1 /\ begun[w].last <= Len(updates) /\ reply[w] <= Len(updates)
        /\ stage[w] # "done" => reply[w] = 0

InTurn == alone => \A v, w \in Waits : Active(v) /\ Active(w) => v = w

\* The update is still to be returned by a poll of the wait.
Due(w, u) == u >= offset[w] /\ u > confirmed

\* What another wait may take away.
Takes(v, w, u) == ~alone /\ (chat[v] # chat[w] \/ u <= begun[v].last)

\* NothingPassedOver, from the moment the offset is known.
AllDue ==
    \A w \in Waits : Active(w) =>
        \A u \in Ours(w, Since(w)) : Due(w, u) \/ \E v \in Waits \ {w} : Takes(v, w, u)

\* A backlog that can be skipped is behind the offset, or was confirmed.
OldBehind ==
    \A w \in Waits : Active(w) /\ begun[w].skips =>
        \A u \in Ours(w, 1..begun[w].last) : ~Due(w, u)

WaitInv == WaitTypeOK /\ Bounded /\ InTurn /\ AllDue /\ OldBehind /\ OldSkipped /\ FirstReply

-----------------------------------------------------------------------------
(* getUpdates *)

LEMMA BatchFacts ==
    ASSUME WaitTypeOK, Bounded, NEW off \in 0..(Len(updates) + 1)
    PROVE  /\ Len(updates) \in Nat
           /\ Confirms(off) \in confirmed..Len(updates) /\ Confirms(off) >= off - 1
           /\ Confirms(off) = confirmed \/ Confirms(off) = off - 1
           /\ BatchEnd(off) \in Confirms(off)..Len(updates)
           /\ BatchEnd(off) = Confirms(off) + Limit \/ BatchEnd(off) = Len(updates)
  <1> Len(updates) \in Nat
    BY DEF WaitTypeOK
  <1> QED BY LimitAssumption DEF WaitTypeOK, Bounded, Confirms, BatchEnd, Larger, Smaller

\* What pollUpdates stops at is the first text of our chat in the batch.
LEMMA TextIsFirst ==
    ASSUME NEW w \in Waits, NEW a \in Int, NEW b \in Int, Ours(w, a..b) # {}
    PROVE  /\ TextOf(w, a..b) \in Ours(w, a..b)
           /\ \A v \in Ours(w, a..b) : TextOf(w, a..b) <= v
  <1> DEFINE S == Ours(w, a..b)
  <1>1. S \subseteq Int /\ S # {} /\ \A x \in S : a <= x
    BY DEF Ours
  <1>2. \E m \in S : \A n \in S : m <= n
    <2> HIDE DEF S
    <2> QED BY <1>1, LeastInteger
  <1> QED BY <1>2 DEF TextOf

\* The offset moves past the batch, or past the text in it that is ours.
LEMMA OffsetFacts ==
    ASSUME WaitTypeOK, Bounded, NEW w \in Waits, NEW off \in 0..(Len(updates) + 1)
    PROVE  /\ NextOffset(w, off) \in 0..(Len(updates) + 1)
           /\ \A u \in Ours(w, (Confirms(off) + 1)..Len(updates)) :
                Ours(w, Batch(off)) = {} => u >= NextOffset(w, off)
           /\ Ours(w, Batch(off)) # {} =>
                /\ TextOf(w, Batch(off)) \in Ours(w, Batch(off))
                /\ NextOffset(w, off) = TextOf(w, Batch(off)) + 1
                /\ \A u \in Ours(w, (Confirms(off) + 1)..Len(updates)) : TextOf(w, Batch(off)) <= u
  <1>1. /\ Len(updates) \in Nat
        /\ Confirms(off) \in Nat /\ BatchEnd(off) \in Nat
        /\ Confirms(off) >= off - 1 /\ BatchEnd(off) <= Len(updates)
    BY BatchFacts DEF WaitTypeOK
  <1>2. CASE Ours(w, Batch(off)) # {}
    <2>1. /\ TextOf(w, Batch(off)) \in Ours(w, Batch(off))
          /\ \A v \in Ours(w, Batch(off)) : TextOf(w, Batch(off)) <= v
      BY <1>1, <1>2, TextIsFirst DEF Batch
    <2>2. TextOf(w, Batch(off)) \in (Confirms(off) + 1)..BatchEnd(off)
      BY <2>1 DEF Ours, Batch
    <2>3. ASSUME NEW u \in Ours(w, (Confirms(off) + 1)..Len(updates))
          PROVE  TextOf(w, Batch(off)) <= u
      <3>1. u <= BatchEnd(off) => u \in Ours(w, Batch(off))
        BY <1>1 DEF Ours, Batch
      <3>2. u \in Int
        BY <1>1 DEF Ours
      <3> QED BY <1>1, <2>1, <2>2, <3>1, <3>2
    <2> QED BY <1>1, <1>2, <2>1, <2>2, <2>3 DEF NextOffset
  <1>3. CASE Ours(w, Batch(off)) = {}
    <2>1. NextOffset(w, off) = IF Batch(off) = {} THEN off ELSE BatchEnd(off) + 1
      BY <1>3 DEF NextOffset
    <2>2. ASSUME NEW u \in Ours(w, (Confirms(off) + 1)..Len(updates))
          PROVE  u >= NextOffset(w, off)
      <3>1. u \notin Batch(off)
        BY <1>3 DEF Ours
      <3>2. u \in (Confirms(off) + 1)..Len(updates)
        BY DEF Ours
      <3> QED BY <1>1, <2>1, <3>1, <3>2 DEF Batch
    <2> QED BY <1>1, <1>3, <2>1, <2>2
  <1> QED BY <1>2, <1>3

\* A set of at most one element.
LEMMA AtMostOne ==
    ASSUME NEW S, IsFiniteSet(S), Cardinality(S) <= 1, NEW x \in S, NEW y \in S
    PROVE  x = y
  <1> SUFFICES ASSUME x # y PROVE FALSE
    OBVIOUS
  <1>1. IsFiniteSet({x}) /\ Cardinality({x}) = 1
    BY FS_Singleton
  <1>2. Cardinality({x} \cup {y}) = 2
    BY <1>1, FS_AddElement
  <1>3. {x} \cup {y} \in SUBSET S
    OBVIOUS
  <1>4. Cardinality({x} \cup {y}) <= Cardinality(S)
    BY <1>3, FS_Subset
  <1>5. Cardinality(S) \in Nat
    BY FS_CardinalityType
  <1> QED BY <1>2, <1>4, <1>5

-----------------------------------------------------------------------------
(* The steps of the waits *)

\* What each step does to the wait it is about; the others stay.
LEMMA BeginFacts ==
    ASSUME WaitTypeOK, Bounded, InTurn, NEW w \in Waits, GetCurrentOffset(w)
    PROVE  /\ UNCHANGED <<updates, confirmed, chat, alone, reply>>
           /\ stage[w] = "away" /\ stage' = [stage EXCEPT ![w] = "send"]
           /\ offset'[w] \in 0..(Len(updates) + 1)
           /\ begun'[w] \in [last : {Len(updates)}, skips : BOOLEAN]
           /\ begun'[w].skips => begun'[w] = Mark(w, FALSE) /\ offset'[w] = NextOffset(w, 0)
           /\ offset' = [offset EXCEPT ![w] = offset'[w]]
           /\ begun' = [begun EXCEPT ![w] = begun'[w]]
  <1>1. Len(updates) \in Nat
    BY DEF WaitTypeOK
  <1>2. PICK failed \in BOOLEAN :
            /\ offset' = [offset EXCEPT ![w] = IF failed THEN 0 ELSE NextOffset(w, 0)]
            /\ begun' = [begun EXCEPT ![w] = Mark(w, failed)]
    BY DEF GetCurrentOffset
  <1>3. NextOffset(w, 0) \in 0..(Len(updates) + 1)
    BY <1>1, OffsetFacts
  <1>4. Mark(w, failed) \in [last : {Len(updates)}, skips : BOOLEAN] /\ (Mark(w, failed).skips => ~failed)
    BY DEF Mark
  <1>5. offset'[w] = (IF failed THEN 0 ELSE NextOffset(w, 0)) /\ begun'[w] = Mark(w, failed)
    BY <1>2 DEF WaitTypeOK
  <1>6. offset' = [offset EXCEPT ![w] = offset'[w]] /\ begun' = [begun EXCEPT ![w] = begun'[w]]
    BY <1>2, <1>5
  <1>7. offset'[w] \in 0..(Len(updates) + 1)
    BY <1>1, <1>3, <1>5
  <1>8. begun'[w].skips => begun'[w] = Mark(w, FALSE) /\ offset'[w] = NextOffset(w, 0)
    BY <1>4, <1>5
  <1>9. begun'[w] \in [last : {Len(updates)}, skips : BOOLEAN]
    BY <1>4, <1>5
  <1> QED BY <1>6, <1>7, <1>8, <1>9 DEF GetCurrentOffset, MayBegin

LEMMA PollFacts ==
    ASSUME WaitTypeOK, Bounded, NEW w \in Waits, Poll(w)
    PROVE  /\ UNCHANGED <<updates, chat, alone, begun>>
           /\ stage[w] = "poll" /\ stage' = [stage EXCEPT ![w] = stage'[w]]
           /\ confirmed' \in confirmed..Len(updates) /\ confirmed' >= offset[w] - 1
           /\ confirmed' = confirmed \/ confirmed' = offset[w] - 1
           /\ offset' = [offset EXCEPT ![w] = offset'[w]] /\ reply' = [reply EXCEPT ![w] = reply'[w]]
           /\ \/ /\ stage'[w] = "done" /\ offset'[w] = 0
                 /\ reply'[w] \in Ours(w, (confirmed' + 1)..Len(updates))
                 /\ \A u \in Ours(w, (confirmed' + 1)..Len(updates)) : reply'[w] <= u
              \/ /\ stage'[w] = "poll" /\ reply'[w] = 0
                 /\ offset'[w] \in offset[w]..(Len(updates) + 1)
                 /\ \A u \in Ours(w, (confirmed' + 1)..Len(updates)) : u >= offset[w] => u >= offset'[w]
  <1> DEFINE B == Batch(offset[w])
  <1>1. Len(updates) \in Nat /\ offset[w] \in 0..(Len(updates) + 1)
    BY DEF WaitTypeOK, Bounded
  <1>2. /\ confirmed' = Confirms(offset[w])
        /\ reply' = [reply EXCEPT ![w] = TextOf(w, B)]
        /\ stage[w] = "poll"
        /\ UNCHANGED <<updates, chat, alone, begun>>
    BY DEF Poll
  <1>3. /\ confirmed' \in confirmed..Len(updates) /\ confirmed' >= offset[w] - 1
        /\ confirmed' = confirmed \/ confirmed' = offset[w] - 1
    BY <1>1, <1>2, BatchFacts
  <1>4. reply'[w] = TextOf(w, B) /\ reply' = [reply EXCEPT ![w] = reply'[w]]
    BY <1>2 DEF WaitTypeOK
  <1>5. CASE Ours(w, B) # {}
    <2>1. /\ stage' = [stage EXCEPT ![w] = "done"] /\ offset' = [offset EXCEPT ![w] = 0]
      BY <1>5 DEF Poll, Return
    <2>2. TextOf(w, B) \in Ours(w, (confirmed' + 1)..Len(updates))
      <3>1. TextOf(w, B) \in Ours(w, B)
        BY <1>1, <1>5, OffsetFacts
      <3>2. B \subseteq (confirmed' + 1)..Len(updates)
        <4>1. BatchEnd(offset[w]) \in Confirms(offset[w])..Len(updates) /\ confirmed' = Confirms(offset[w])
          BY <1>1, <1>2, BatchFacts
        <4>2. confirmed' \in Int
          BY <1>3 DEF WaitTypeOK
        <4> QED BY <1>1, <4>1, <4>2 DEF Batch
      <3> QED BY <3>1, <3>2 DEF Ours
    <2>3. \A u \in Ours(w, (confirmed' + 1)..Len(updates)) : TextOf(w, B) <= u
      BY <1>1, <1>2, <1>5, OffsetFacts
    <2> QED BY <1>2, <1>3, <1>4, <2>1, <2>2, <2>3 DEF WaitTypeOK
  <1>6. CASE Ours(w, B) = {}
    <2>1. UNCHANGED stage /\ offset' = [offset EXCEPT ![w] = Larger(offset[w], NextOffset(w, offset[w]))]
      BY <1>6 DEF Poll
    <2>2. TextOf(w, B) = 0
      BY <1>6 DEF TextOf
    <2>3. NextOffset(w, offset[w]) \in 0..(Len(updates) + 1)
      BY <1>1, OffsetFacts
    <2>4. \A u \in Ours(w, (confirmed' + 1)..Len(updates)) : u >= NextOffset(w, offset[w])
      BY <1>1, <1>2, <1>6, OffsetFacts
    <2>5. offset'[w] = Larger(offset[w], NextOffset(w, offset[w]))
      BY <2>1 DEF WaitTypeOK
    <2>6. offset'[w] \in offset[w]..(Len(updates) + 1) /\ (offset'[w] = offset[w] \/ offset'[w] = NextOffset(w, offset[w]))
      BY <1>1, <2>3, <2>5 DEF Larger
    <2> QED BY <1>2, <1>3, <1>4, <2>1, <2>2, <2>4, <2>5, <2>6 DEF WaitTypeOK
  <1> QED BY <1>5, <1>6

LEMMA ArriveFacts ==
    ASSUME WaitTypeOK, Arrive
    PROVE  /\ UNCHANGED <<confirmed, chat, alone, waitVars>>
           /\ updates' \in Seq(Update) /\ Len(updates) \in Nat
           /\ Len(updates') = Len(updates) + 1 /\ Len(updates') <= MaxUpdates
           /\ \A u \in 1..Len(updates) : updates'[u] = updates[u]
  <1>1. PICK x \in Update : updates' = Append(updates, x)
    BY DEF Arrive
  <1> QED BY <1>1, LimitAssumption DEF Arrive, WaitTypeOK

LEMMA TypesStep ==
    ASSUME WaitTypeOK, Bounded, InTurn, [WaitNext]_tgVars
    PROVE  WaitTypeOK' /\ Bounded' /\ InTurn'
  <1>1. ASSUME NEW w \in Waits, GetCurrentOffset(w) PROVE WaitTypeOK' /\ Bounded' /\ InTurn'
    <2>0. Len(updates) \in Nat /\ Len(updates) <= MaxUpdates
      BY DEF WaitTypeOK
    <2>1. /\ offset'[w] \in 0..(MaxUpdates + 1) /\ begun'[w] \in [last : 0..MaxUpdates, skips : BOOLEAN]
          /\ offset'[w] <= Len(updates) + 1 /\ begun'[w].last <= Len(updates)
      <3>1. offset'[w] \in 0..(Len(updates) + 1) /\ begun'[w] \in [last : {Len(updates)}, skips : BOOLEAN]
        BY <1>1, BeginFacts
      <3>2. Len(updates) \in 0..MaxUpdates
        BY <2>0, LimitAssumption
      <3>3. offset'[w] \in 0..(MaxUpdates + 1) /\ offset'[w] <= Len(updates) + 1
        BY <2>0, <3>1, LimitAssumption
      <3>4. begun'[w] \in [last : 0..MaxUpdates, skips : BOOLEAN] /\ begun'[w].last <= Len(updates)
        BY <2>0, <3>1, <3>2
      <3> QED BY <3>3, <3>4
    <2>3. /\ stage' = [stage EXCEPT ![w] = "send"] /\ UNCHANGED <<updates, confirmed, chat, alone, reply>>
          /\ offset' = [offset EXCEPT ![w] = offset'[w]] /\ begun' = [begun EXCEPT ![w] = begun'[w]]
          /\ stage[w] = "away"
      BY <1>1, BeginFacts
    <2>4. /\ offset' \in [Waits -> 0..(MaxUpdates + 1)]
          /\ begun' \in [Waits -> [last : 0..MaxUpdates, skips : BOOLEAN]]
      BY <2>1, <2>3 DEF WaitTypeOK
    <2>5. WaitTypeOK'
      BY <2>3, <2>4 DEF WaitTypeOK
    <2>6. Bounded'
      BY <2>1, <2>3 DEF WaitTypeOK, Bounded
    <2>2. InTurn'
      BY <1>1, BeginFacts DEF WaitTypeOK, InTurn, Active, GetCurrentOffset, MayBegin
    <2> QED BY <2>2, <2>5, <2>6
  <1>2. ASSUME NEW w \in Waits, SendPrompt(w) \/ GiveUp(w) PROVE WaitTypeOK' /\ Bounded' /\ InTurn'
    <2>1. /\ UNCHANGED <<updates, confirmed, chat, alone, reply, begun>> /\ Active(w)
          /\ \/ stage' = [stage EXCEPT ![w] = "poll"] /\ UNCHANGED offset
             \/ stage' = [stage EXCEPT ![w] = "done"] /\ offset' = [offset EXCEPT ![w] = 0]
      BY <1>2 DEF SendPrompt, GiveUp, Return, Active
    <2>2. Len(updates) \in Nat /\ 0 \in 0..(MaxUpdates + 1)
      BY LimitAssumption DEF WaitTypeOK
    <2>3. /\ stage' \in [Waits -> {"away", "send", "poll", "done"}]
          /\ offset' \in [Waits -> 0..(MaxUpdates + 1)]
      BY <2>1, <2>2 DEF WaitTypeOK
    <2>4. WaitTypeOK'
      BY <2>1, <2>3 DEF WaitTypeOK
    <2>5. \A x \in Waits : /\ stage'[x] # "done" => stage[x] # "done"
                           /\ offset'[x] = offset[x] \/ offset'[x] = 0
                           /\ Active(x)' => Active(x)
      BY <2>1 DEF WaitTypeOK, Active
    <2>6. Bounded'
      BY <2>1, <2>2, <2>5 DEF WaitTypeOK, Bounded
    <2>7. InTurn'
      BY <2>1, <2>5 DEF InTurn
    <2> QED BY <2>4, <2>6, <2>7
  <1>3. ASSUME NEW w \in Waits, Poll(w) PROVE WaitTypeOK' /\ Bounded' /\ InTurn'
    <2>1. Len(updates) \in Nat /\ Len(updates) <= MaxUpdates
      BY DEF WaitTypeOK
    <2>2. reply'[w] \in 0..Len(updates) /\ offset'[w] \in 0..(Len(updates) + 1) /\ stage'[w] \in {"poll", "done"}
      BY <1>3, <2>1, PollFacts DEF Ours, WaitTypeOK, Bounded
    <2>3. confirmed' \in 0..Len(updates)
      BY <1>3, <2>1, PollFacts DEF WaitTypeOK
    <2>4. stage'[w] # "done" => reply'[w] = 0
      BY <1>3, PollFacts
    <2>5. UNCHANGED <<updates, chat, alone, begun>>
      BY <1>3, PollFacts
    <2>6. /\ stage' = [stage EXCEPT ![w] = stage'[w]] /\ stage[w] = "poll"
          /\ offset' = [offset EXCEPT ![w] = offset'[w]] /\ reply' = [reply EXCEPT ![w] = reply'[w]]
      BY <1>3, PollFacts
    <2>7. /\ reply' \in [Waits -> 0..MaxUpdates] /\ offset' \in [Waits -> 0..(MaxUpdates + 1)]
          /\ stage' \in [Waits -> {"away", "send", "poll", "done"}] /\ confirmed' \in 0..MaxUpdates
      <3>1. /\ reply'[w] \in 0..MaxUpdates /\ offset'[w] \in 0..(MaxUpdates + 1)
            /\ confirmed' \in 0..MaxUpdates
        BY <2>1, <2>2, <2>3, LimitAssumption
      <3> QED BY <2>2, <2>6, <3>1 DEF WaitTypeOK
    <2>8. WaitTypeOK'
      BY <2>5, <2>7 DEF WaitTypeOK
    <2>9. Bounded'
      BY <2>1, <2>2, <2>3, <2>4, <2>5, <2>6 DEF WaitTypeOK, Bounded
    <2>10. InTurn'
      BY <2>2, <2>5, <2>6 DEF WaitTypeOK, InTurn, Active
    <2> QED BY <2>8, <2>9, <2>10
  <1>4. CASE Arrive
    BY <1>4, ArriveFacts, LimitAssumption DEF waitVars, WaitTypeOK, Bounded, InTurn, Active
  <1>5. CASE UNCHANGED tgVars
    BY <1>5 DEF tgVars, waitVars, WaitTypeOK, Bounded, InTurn, Active
  <1> QED BY <1>1, <1>2, <1>3, <1>4, <1>5 DEF WaitNext

\* A poll confirms messages of another wait only when that wait is about another
\* chat or when the poll's own wait began after them.
LEMMA DueStep ==
    ASSUME WaitTypeOK, Bounded, InTurn, AllDue, [WaitNext]_tgVars
    PROVE  AllDue'
  <1> SUFFICES ASSUME NEW x \in Waits, Active(x)', NEW u \in Ours(x, Since(x))'
               PROVE  Due(x, u)' \/ \E v \in Waits \ {x} : Takes(v, x, u)'
    BY DEF AllDue
  <1> USE DEF Active, Due, Takes, Since
  <1>0. Len(updates) \in Nat
    BY DEF WaitTypeOK
  <1>1. ASSUME NEW w \in Waits, GetCurrentOffset(w)
        PROVE  Due(x, u)' \/ \E v \in Waits \ {x} : Takes(v, x, u)'
    <2>0. /\ UNCHANGED <<updates, confirmed, chat, alone>> /\ begun'[w].last = Len(updates)
          /\ stage' = [stage EXCEPT ![w] = "send"]
          /\ offset' = [offset EXCEPT ![w] = offset'[w]] /\ begun' = [begun EXCEPT ![w] = begun'[w]]
      BY <1>1, BeginFacts
    <2>1. x # w
      BY <1>0, <2>0 DEF Ours
    <2>2. /\ begun'[x] = begun[x] /\ Active(x) /\ offset'[x] = offset[x]
          /\ \A v \in Waits : v # w => begun'[v] = begun[v]
      BY <2>0, <2>1 DEF WaitTypeOK
    <2>5. u \in Ours(x, Since(x)) /\ u <= Len(updates) /\ u \in Int
      BY <1>0, <2>0, <2>2 DEF Ours, WaitTypeOK
    <2>3. CASE Due(x, u)
      BY <2>0, <2>2, <2>3
    <2>4. ASSUME NEW v \in Waits \ {x}, Takes(v, x, u) PROVE Takes(v, x, u)'
      <3>1. CASE v = w
        BY <2>0, <2>4, <2>5, <3>1
      <3>2. CASE v # w
        BY <2>0, <2>2, <2>4, <3>2
      <3> QED BY <3>1, <3>2
    <2> QED BY <2>2, <2>3, <2>4, <2>5 DEF AllDue
  <1>2. ASSUME NEW w \in Waits, SendPrompt(w) \/ GiveUp(w)
        PROVE  Due(x, u)' \/ \E v \in Waits \ {x} : Takes(v, x, u)'
    <2>1. /\ UNCHANGED <<updates, confirmed, chat, alone, begun>>
          /\ Active(x) /\ offset'[x] = offset[x]
      BY <1>2 DEF SendPrompt, GiveUp, Return, WaitTypeOK
    <2>2. u \in Ours(x, Since(x))
      BY <2>1 DEF Ours
    <2> QED BY <2>1, <2>2 DEF AllDue
  <1>3. ASSUME NEW w \in Waits, Poll(w)
        PROVE  Due(x, u)' \/ \E v \in Waits \ {x} : Takes(v, x, u)'
    <2>1. UNCHANGED <<updates, chat, alone, begun>>
      BY <1>3, PollFacts
    <2>2. u \in Ours(x, Since(x))
      BY <2>1 DEF Ours
    <2>3. Active(x) /\ Active(w)
      BY <1>3, PollFacts DEF WaitTypeOK
    <2>4. CASE \E v \in Waits \ {x} : Takes(v, x, u)
      BY <2>1, <2>4
    <2>5. CASE Due(x, u) /\ u > confirmed' /\ x = w
      <3>1. u \in Ours(w, (confirmed' + 1)..Len(updates))
        BY <1>0, <1>3, <2>2, <2>5, PollFacts DEF Ours, WaitTypeOK, Bounded
      <3>2. stage'[w] = "poll"
        BY <1>3, <2>5, PollFacts
      <3> QED BY <1>3, <2>5, <3>1, <3>2, PollFacts
    <2>6. CASE Due(x, u) /\ u > confirmed' /\ x # w
      BY <1>3, <2>6, PollFacts DEF WaitTypeOK
    <2>7. CASE Due(x, u) /\ ~(u > confirmed')
      <3>0. u \in Int /\ confirmed \in Int /\ offset[w] \in Int
        BY <1>0, <2>2 DEF Ours, WaitTypeOK
      <3>5. confirmed' = offset[w] - 1
        BY <1>3, <2>7, PollFacts
      <3>1. u < offset[w] /\ x # w
        BY <2>7, <3>0, <3>5
      <3>2. ~alone
        BY <2>3, <3>1 DEF InTurn
      <3>3. CASE chat[w] # chat[x] \/ u <= begun[w].last
        BY <2>1, <3>1, <3>2, <3>3
      <3>4. CASE chat[w] = chat[x] /\ ~(u <= begun[w].last)
        <4>1. u \in Ours(w, Since(w))
          BY <1>0, <2>2, <3>4 DEF Ours, WaitTypeOK
        <4>2. PICK v \in Waits \ {w} : Takes(v, w, u)
          BY <2>3, <3>1, <4>1 DEF AllDue, WaitTypeOK, Ours
        <4>3. v # x
          BY <1>0, <2>2, <3>4, <4>2 DEF Ours, WaitTypeOK
        <4> QED BY <2>1, <3>4, <4>2, <4>3
      <3> QED BY <3>3, <3>4
    <2> QED BY <2>2, <2>3, <2>4, <2>5, <2>6, <2>7 DEF AllDue
  <1>4. CASE Arrive
    <2>1. UNCHANGED <<confirmed, chat, alone, waitVars>> /\ Len(updates') = Len(updates) + 1
      BY <1>4, ArriveFacts
    <2>2. CASE u \in 1..Len(updates)
      <3>1. u \in Ours(x, Since(x))
        BY <1>0, <1>4, <2>1, <2>2, ArriveFacts DEF Ours, waitVars
      <3> QED BY <2>1, <3>1 DEF AllDue, waitVars
    <2>3. CASE u \notin 1..Len(updates)
      <3>1. u = Len(updates) + 1
        BY <1>0, <2>1, <2>3 DEF Ours, waitVars, WaitTypeOK
      <3> QED BY <1>0, <2>1, <3>1 DEF Bounded, waitVars, WaitTypeOK
    <2> QED BY <2>2, <2>3
  <1>5. CASE UNCHANGED tgVars
    BY <1>5 DEF tgVars, waitVars, AllDue, Ours
  <1> QED BY <1>1, <1>2, <1>3, <1>4, <1>5 DEF WaitNext

\* getCurrentOffset moves past a backlog of one answer and at most one text of ours.
LEMMA BacklogSkipped ==
    ASSUME WaitTypeOK, Bounded, NEW w \in Waits, Mark(w, FALSE).skips,
           NEW u \in Ours(w, 1..Len(updates)), u > confirmed
    PROVE  u < NextOffset(w, 0)
  <1> DEFINE S == Ours(w, (confirmed + 1)..Len(updates))
  <1>1. Len(updates) \in Nat /\ confirmed \in Nat
    BY DEF WaitTypeOK
  <1>2. Cardinality(S) <= 1 /\ Len(updates) - confirmed <= Limit
    BY DEF Mark
  <1>3. u \in S
    BY <1>1 DEF Ours
  <1>4. Batch(0) = (confirmed + 1)..Len(updates)
    <2>1. Confirms(0) = confirmed
      BY <1>1 DEF Confirms, Larger
    <2>2. BatchEnd(0) = Len(updates)
      BY <1>1, <1>2, <2>1, LimitAssumption DEF BatchEnd, Smaller
    <2> QED BY <2>1, <2>2 DEF Batch
  <1>5. TextOf(w, Batch(0)) \in S /\ NextOffset(w, 0) = TextOf(w, Batch(0)) + 1
    BY <1>1, <1>3, <1>4, OffsetFacts
  <1>6. IsFiniteSet(S)
    <2>1. S \in SUBSET ((confirmed + 1)..Len(updates))
      BY DEF Ours
    <2>2. IsFiniteSet((confirmed + 1)..Len(updates))
      BY <1>1, FS_Interval
    <2> QED BY <2>1, <2>2, FS_Subset
  <1>7. TextOf(w, Batch(0)) = u
    <2> HIDE DEF S
    <2> QED BY <1>2, <1>3, <1>5, <1>6, AtMostOne
  <1>8. u \in Int
    BY <1>1 DEF Ours
  <1> QED BY <1>5, <1>7, <1>8

LEMMA OldStep ==
    ASSUME WaitTypeOK, Bounded, InTurn, OldBehind, [WaitNext]_tgVars
    PROVE  OldBehind'
  <1> SUFFICES ASSUME NEW x \in Waits, Active(x)', begun'[x].skips, NEW u \in Ours(x, 1..begun[x].last)'
               PROVE  ~Due(x, u)'
    BY DEF OldBehind
  <1> USE DEF Active, Due
  <1>0. Len(updates) \in Nat /\ begun[x].last \in Nat /\ begun[x].last <= Len(updates)
    BY DEF WaitTypeOK, Bounded
  <1>1. ASSUME NEW w \in Waits, GetCurrentOffset(w) PROVE ~Due(x, u)'
    <2>1. /\ UNCHANGED <<updates, confirmed, chat>> /\ begun'[w].last = Len(updates)
          /\ stage' = [stage EXCEPT ![w] = "send"]
          /\ offset' = [offset EXCEPT ![w] = offset'[w]] /\ begun' = [begun EXCEPT ![w] = begun'[w]]
          /\ begun'[w].skips => begun'[w] = Mark(w, FALSE) /\ offset'[w] = NextOffset(w, 0)
      BY <1>1, BeginFacts
    <2>2. CASE x = w
      <3>1. u \in Ours(w, 1..Len(updates)) /\ Mark(w, FALSE).skips /\ offset'[w] = NextOffset(w, 0)
        BY <2>1, <2>2 DEF Ours
      <3>2. u > confirmed => u < NextOffset(w, 0)
        BY <3>1, BacklogSkipped
      <3>3. NextOffset(w, 0) \in Int /\ u \in Int /\ confirmed \in Int
        BY <1>0, <3>1, OffsetFacts DEF Ours, WaitTypeOK
      <3> QED BY <2>1, <2>2, <3>1, <3>2, <3>3
    <2>3. CASE x # w
      <3>1. begun'[x] = begun[x] /\ Active(x) /\ offset'[x] = offset[x]
        BY <2>1, <2>3 DEF WaitTypeOK
      <3>2. u \in Ours(x, 1..begun[x].last)
        BY <2>1, <3>1 DEF Ours
      <3> QED BY <2>1, <3>1, <3>2 DEF OldBehind
    <2> QED BY <2>2, <2>3
  <1>2. ASSUME NEW w \in Waits, SendPrompt(w) \/ GiveUp(w) PROVE ~Due(x, u)'
    <2>1. /\ UNCHANGED <<updates, confirmed, chat, begun>>
          /\ Active(x) /\ offset'[x] = offset[x]
      BY <1>2 DEF SendPrompt, GiveUp, Return, WaitTypeOK
    <2>2. u \in Ours(x, 1..begun[x].last)
      BY <2>1 DEF Ours
    <2> QED BY <2>1, <2>2 DEF OldBehind
  <1>3. ASSUME NEW w \in Waits, Poll(w) PROVE ~Due(x, u)'
    <2>1. UNCHANGED <<updates, chat, begun>> /\ confirmed' >= confirmed /\ confirmed' \in Int
      BY <1>3, PollFacts DEF WaitTypeOK
    <2>2. Active(x) /\ offset'[x] >= offset[x] /\ offset'[x] \in Int
      BY <1>0, <1>3, PollFacts DEF WaitTypeOK
    <2>3. u \in Ours(x, 1..begun[x].last) /\ u \in Int
      BY <1>0, <2>1 DEF Ours
    <2>4. ~Due(x, u)
      BY <2>1, <2>2, <2>3 DEF OldBehind
    <2>5. confirmed \in Int /\ offset[x] \in Int
      BY DEF WaitTypeOK
    <2> QED BY <2>1, <2>2, <2>3, <2>4, <2>5
  <1>4. CASE Arrive
    <2>1. UNCHANGED <<confirmed, chat, waitVars>>
      BY <1>4, ArriveFacts
    <2>2. u \in Ours(x, 1..begun[x].last)
      BY <1>0, <1>4, <2>1, ArriveFacts DEF Ours, waitVars
    <2> QED BY <2>1, <2>2 DEF OldBehind, waitVars
  <1>5. CASE UNCHANGED tgVars
    BY <1>5 DEF tgVars, waitVars, OldBehind, Ours
  <1> QED BY <1>1, <1>2, <1>3, <1>4, <1>5 DEF WaitNext

\* A reply was due; what came before it in the wait would have been due as well.
LEMMA ReplyStep ==
    ASSUME WaitTypeOK, Bounded, InTurn, AllDue, OldBehind, OldSkipped, FirstReply, [WaitNext]_tgVars
    PROVE  OldSkipped' /\ FirstReply'
  <1> DEFINE Fits(x) ==
        /\ begun[x].skips => reply[x] > begun[x].last
        /\ updates[reply[x]].text /\ updates[reply[x]].chat = chat[x]
        /\ alone => Ours(x, (begun[x].last + 1)..(reply[x] - 1)) = {}
  <1> SUFFICES ASSUME NEW x \in Waits, reply'[x] # 0 PROVE Fits(x)'
    BY DEF OldSkipped, FirstReply
  <1> USE DEF Active, Due, Takes, Since
  <1>0. Len(updates) \in Nat /\ begun[x].last \in Nat /\ reply[x] \in 0..Len(updates)
    BY DEF WaitTypeOK, Bounded
  <1>1. reply[x] # 0 => Fits(x)
    BY DEF OldSkipped, FirstReply
  <1>2. ASSUME NEW w \in Waits, GetCurrentOffset(w) PROVE Fits(x)'
    <2>1. /\ UNCHANGED <<updates, confirmed, chat, alone, reply>> /\ stage[w] = "away"
          /\ begun' = [begun EXCEPT ![w] = begun'[w]]
      BY <1>2, BeginFacts
    <2>2. x # w
      BY <2>1 DEF Bounded
    <2>3. begun'[x] = begun[x]
      BY <2>1, <2>2 DEF WaitTypeOK
    <2> QED BY <1>1, <2>1, <2>3 DEF Ours
  <1>3. ASSUME NEW w \in Waits, SendPrompt(w) \/ GiveUp(w) PROVE Fits(x)'
    <2>1. UNCHANGED <<updates, chat, alone, reply, begun>>
      BY <1>3 DEF SendPrompt, GiveUp
    <2> QED BY <1>1, <2>1 DEF Ours
  <1>4. ASSUME NEW w \in Waits, Poll(w) PROVE Fits(x)'
    <2>1. UNCHANGED <<updates, chat, alone, begun>> /\ reply' = [reply EXCEPT ![w] = reply'[w]]
      BY <1>4, PollFacts
    <2>2. CASE x # w
      <3>1. reply'[x] = reply[x]
        BY <2>1, <2>2 DEF WaitTypeOK
      <3> QED BY <1>1, <2>1, <3>1 DEF Ours
    <2>3. CASE x = w
      <3>1. /\ reply'[x] \in Ours(x, (confirmed' + 1)..Len(updates))
            /\ \A u \in Ours(x, (confirmed' + 1)..Len(updates)) : reply'[x] <= u
            /\ stage[x] = "poll"
            /\ confirmed' \in confirmed..Len(updates) /\ confirmed' >= offset[x] - 1
            /\ confirmed' = confirmed \/ confirmed' = offset[x] - 1
        BY <1>4, <2>3, PollFacts
      <3>2. confirmed \in Nat /\ offset[x] \in Nat
        BY DEF WaitTypeOK
      <3>3. reply'[x] \in (confirmed' + 1)..Len(updates) /\ updates[reply'[x]].text /\ updates[reply'[x]].chat = chat[x]
        BY <3>1 DEF Ours
      <3>4. Due(x, reply'[x])
        BY <1>0, <3>1, <3>2, <3>3
      <3>5. begun[x].skips => reply'[x] > begun[x].last
        <4> SUFFICES ASSUME begun[x].skips, ~(reply'[x] > begun[x].last) PROVE FALSE
          OBVIOUS
        <4>1. reply'[x] \in Ours(x, 1..begun[x].last)
          BY <1>0, <3>1, <3>2, <3>3 DEF Ours
        <4> QED BY <3>1, <3>4, <4>1 DEF OldBehind
      <3>6. ASSUME alone, NEW u \in Ours(x, (begun[x].last + 1)..(reply'[x] - 1)) PROVE FALSE
        <4>1. u \in Ours(x, Since(x)) /\ u < reply'[x] /\ u \in Int
          BY <1>0, <3>1, <3>2, <3>3, <3>6 DEF Ours
        <4>2. Due(x, u)
          BY <3>1, <3>6, <4>1 DEF AllDue
        <4>3. u \in Ours(x, (confirmed' + 1)..Len(updates))
          BY <1>0, <3>1, <3>2, <4>1, <4>2 DEF Ours
        <4> QED BY <1>0, <3>1, <3>2, <3>3, <4>1, <4>3
      <3> QED BY <2>1, <3>3, <3>5, <3>6 DEF Ours
    <2> QED BY <2>2, <2>3
  <1>5. CASE Arrive
    <2>1. UNCHANGED <<chat, alone, reply, begun>> /\ (\A u \in 1..Len(updates) : updates'[u] = updates[u])
      BY <1>5, ArriveFacts DEF waitVars
    <2>2. reply[x] \in 1..Len(updates)
      BY <1>0, <2>1
    <2>3. Ours(x, (begun[x].last + 1)..(reply[x] - 1))' = Ours(x, (begun[x].last + 1)..(reply[x] - 1))
      BY <1>0, <2>1, <2>2 DEF Ours
    <2> QED BY <1>1, <2>1, <2>2, <2>3
  <1>6. CASE UNCHANGED tgVars
    BY <1>1, <1>6 DEF tgVars, waitVars, Ours
  <1> QED BY <1>2, <1>3, <1>4, <1>5, <1>6 DEF WaitNext

-----------------------------------------------------------------------------
(* The dialog *)

\* The interval and the requests are about the token in the form, unless the
\* history says otherwise; a chat that was detected is shown.
Asking ==
    /\ ~mixed => timer \in {None, token} /\ \A p \in polls : p.token = token
    /\ source # None => chatId # None

DialogInv == SetupTypeOK /\ IsFiniteSet(polls) /\ Asking /\ ChatOfToken /\ LeftIsQuiet

BotIndInv == WaitInv /\ DialogInv

LEMMA WaitStep == ASSUME WaitInv, [WaitNext]_tgVars PROVE WaitInv'
  BY TypesStep, DueStep, OldStep, ReplyStep DEF WaitInv

LEMMA WaitsOnly == ASSUME [BotNext]_botVars PROVE [WaitNext]_tgVars
  BY DEF BotNext, SetupNext, botVars, GoTo, EditToken, Verify, StartDetecting, StopPolling, SetChat, Reset, Leave,
     Verified, Tick, DetectChatID, DetectFails, Receive

\* What the handler answers is a chat of the bot, or nothing.
LEMMA DetectedIsChat ==
    ASSUME WaitTypeOK, Bounded
    PROVE  Detected \in Chats \cup {None}
  <1> DEFINE ms == Messages(Batch(0))
  <1>1. /\ Len(updates) \in Nat
        /\ Confirms(0) \in Nat /\ BatchEnd(0) \in Nat /\ BatchEnd(0) <= Len(updates)
    BY BatchFacts DEF WaitTypeOK
  <1>2. ms \subseteq Int /\ (\A u \in ms : u <= BatchEnd(0)) /\ ms \subseteq 1..Len(updates)
    BY <1>1 DEF Messages, Batch
  <1>3. CASE ms = {}
    BY <1>3 DEF Detected
  <1>4. CASE ms # {}
    <2>1. \E m \in ms : \A n \in ms : m >= n
      <3>1. PICK e \in Int : \A u \in ms : u <= e
        BY <1>1, <1>2
      <3> HIDE DEF ms
      <3> QED BY <1>2, <1>4, <3>1, GreatestInteger
    <2>2. PICK u \in ms : Detected = updates[u].chat
      BY <1>4, <2>1 DEF Detected
    <2>3. updates[u] \in Update
      BY <1>1, <1>2, <2>2 DEF WaitTypeOK
    <2>4. updates[u].chat \in Chats \cup {None}
      BY <2>3, UpdateAssumption
    <2> QED BY <2>2, <2>4
  <1> QED BY <1>3, <1>4

\* A request that is answered, taken away or made keeps their number within bounds.
LEMMA PollsBound ==
    ASSUME IsFiniteSet(polls), Cardinality(polls) <= MaxPolls, NEW p \in polls, NEW x
    PROVE  /\ IsFiniteSet(polls \ {p}) /\ Cardinality(polls \ {p}) <= MaxPolls
           /\ IsFiniteSet((polls \ {p}) \cup {x}) /\ Cardinality((polls \ {p}) \cup {x}) <= MaxPolls
  <1>1. Cardinality(polls) \in Nat
    BY FS_CardinalityType
  <1>2. IsFiniteSet(polls \ {p}) /\ Cardinality(polls \ {p}) = Cardinality(polls) - 1
    BY FS_RemoveElement
  <1>3. /\ IsFiniteSet((polls \ {p}) \cup {x})
        /\ Cardinality((polls \ {p}) \cup {x}) <= Cardinality(polls \ {p}) + 1
    BY <1>1, <1>2, FS_AddElement
  <1>4. Cardinality((polls \ {p}) \cup {x}) \in Nat
    BY <1>3, FS_CardinalityType
  <1> QED BY <1>1, <1>2, <1>3, <1>4, SetupAssumption

LEMMA PollMade ==
    ASSUME IsFiniteSet(polls), Cardinality(polls) < MaxPolls, NEW x
    PROVE  IsFiniteSet(polls \cup {x}) /\ Cardinality(polls \cup {x}) <= MaxPolls
  <1>1. Cardinality(polls) \in Nat
    BY FS_CardinalityType
  <1>2. /\ IsFiniteSet(polls \cup {x})
        /\ Cardinality(polls \cup {x}) = (IF x \in polls THEN Cardinality(polls) ELSE Cardinality(polls) + 1)
    BY FS_AddElement
  <1> QED BY <1>1, <1>2, SetupAssumption

LEMMA DialogStep ==
    ASSUME WaitInv, WaitInv', DialogInv, [BotNext]_botVars
    PROVE  DialogInv'
  <1> USE SetupAssumption DEF DialogInv, SetupTypeOK, Asking, ChatOfToken, LeftIsQuiet, Tokens
  <1>0. WaitTypeOK /\ WaitTypeOK' /\ Len(updates) \in Nat /\ Bounded
    BY DEF WaitInv, WaitTypeOK
  <1>a. Click => clicks' \in 0..MaxActs
    BY <1>0 DEF Click
  <1>1. ASSUME NEW s, GoTo(s) PROVE DialogInv'
    BY <1>0, <1>1, <1>a DEF GoTo
  <1>2. CASE EditToken
    BY <1>0, <1>2, <1>a DEF EditToken
  <1>3. CASE Verify
    <2>1. [token |-> input, auto |-> FALSE] \in [token : Tokens, auto : BOOLEAN]
      BY <1>3 DEF Verify
    <2>2. verifies' \subseteq [token : Tokens, auto : BOOLEAN]
      BY <1>3, <2>1 DEF Verify
    <2> QED BY <1>0, <1>3, <1>a, <2>2 DEF Verify
  <1>4. CASE StartDetecting
    BY <1>0, <1>4, <1>a DEF StartDetecting
  <1>5. CASE StopPolling
    BY <1>0, <1>5, <1>a DEF StopPolling
  <1>6. CASE SetChat
    BY <1>0, <1>6, <1>a DEF SetChat
  <1>7. CASE Reset
    BY <1>0, <1>7, <1>a DEF Reset
  <1>8. CASE Leave
    BY <1>0, <1>8, <1>a DEF Leave
  <1>9. ASSUME NEW r \in verifies, Verified(r) PROVE DialogInv'
    <2>1. r.token \in Tokens /\ verifies' \subseteq [token : Tokens, auto : BOOLEAN]
      BY <1>9 DEF Verified
    <2>2. UNCHANGED <<chatId, input, timer, polls, source, clicks>>
      BY <1>9 DEF Verified
    <2>3. CASE UNCHANGED <<token, step, bot, mixed>>
      BY <1>0, <2>1, <2>2, <2>3
    <2>4. CASE ~UNCHANGED <<token, step, bot, mixed>>
      <3>1. /\ step # "left" /\ bot' = r.token /\ step' = "chat"
            /\ token' = IF r.auto THEN token ELSE r.token
            /\ mixed' = (mixed \/ (token' # token /\ (timer # None \/ polls # {} \/ chatId # None)))
        BY <1>9, <2>4 DEF Verified
      <3>2. SetupTypeOK' /\ IsFiniteSet(polls)'
        BY <1>0, <2>1, <2>2, <3>1
      <3>3. ~mixed' => ~mixed /\ (token' = token \/ (timer = None /\ polls = {} /\ chatId = None))
        BY <3>1
      <3>4. Asking' /\ ChatOfToken' /\ LeftIsQuiet'
        BY <2>2, <3>1, <3>3
      <3> QED BY <3>2, <3>4
    <2> QED BY <2>3, <2>4
  <1>10. CASE Tick
    <2>1. [token |-> timer, answer |-> "sent"] \in PollRequest
      BY <1>10 DEF Tick, PollRequest
    <2>2. IsFiniteSet(polls') /\ Cardinality(polls') <= MaxPolls
      BY <1>10, PollMade DEF Tick
    <2>3. \A p \in polls' : p \in polls \/ p.token = timer
      BY <1>10 DEF Tick
    <2> QED BY <1>0, <1>10, <2>1, <2>2, <2>3 DEF Tick
  <1>11. ASSUME NEW p \in polls, DetectChatID(p) PROVE DialogInv'
    <2>1. PICK a \in Chats \cup {None} : Answered(p, a)
      BY <1>0, <1>11, DetectedIsChat DEF DetectChatID
    <2>2. [p EXCEPT !.answer = a] \in PollRequest /\ [p EXCEPT !.answer = a].token = p.token
      BY DEF PollRequest
    <2> QED BY <1>0, <1>11, <2>1, <2>2, PollsBound DEF DetectChatID, Answered
  <1>12. ASSUME NEW p \in polls, DetectFails(p) PROVE DialogInv'
    BY <1>0, <1>12, PollsBound DEF DetectFails
  <1>13. ASSUME NEW p \in polls, Receive(p) PROVE DialogInv'
    BY <1>0, <1>13, PollsBound DEF Receive, PollRequest
  <1>14. CASE UNCHANGED uiVars
    BY <1>0, <1>14 DEF uiVars
  <1> QED BY <1>1, <1>2, <1>3, <1>4, <1>5, <1>6, <1>7, <1>8, <1>9, <1>10, <1>11, <1>12, <1>13, <1>14
          DEF BotNext, SetupNext, botVars

-----------------------------------------------------------------------------

LEMMA BotInitInv == ASSUME BotInit PROVE BotIndInv
  <1>1. updates = << >> /\ Len(updates) = 0 /\ updates \in Seq(Update)
    BY DEF BotInit, TgInit
  <1>2. WaitTypeOK
    BY <1>1, LimitAssumption, UpdateAssumption DEF BotInit, TgInit, WaitTypeOK
  <1>3. Bounded /\ OldSkipped /\ FirstReply
    BY <1>1 DEF BotInit, TgInit, Bounded, OldSkipped, FirstReply
  <1>4. InTurn
    BY DEF BotInit, TgInit, InTurn, Active
  <1>5. AllDue /\ OldBehind
    BY <1>1 DEF BotInit, TgInit, AllDue, OldBehind, Ours, Since
  <1>6. IsFiniteSet(polls) /\ Cardinality(polls) = 0
    BY FS_EmptySet DEF BotInit
  <1>7. DialogInv
    <2>1. polls = {} /\ bot = None /\ timer = None /\ source = None /\ mixed = FALSE /\ clicks = 0 /\ input = token
      BY DEF BotInit
    <2>2. \/ step = "left" /\ token = None /\ chatId = None /\ verifies = {}
          \/ step = "create" /\ token = None /\ chatId \in Chats \cup {None} /\ verifies = {}
          \/ step = "chat" /\ token = Bot /\ chatId \in Chats \cup {None} /\ verifies = {[token |-> Bot, auto |-> TRUE]}
      BY DEF BotInit
    <2>3. {token, input, bot, timer, source} \subseteq Tokens \cup {None}
      BY <2>1, <2>2 DEF Tokens
    <2>4. chatId \in Chats \cup {None} /\ step \in {"create", "token", "chat", "left"}
      BY <2>2
    <2>5. verifies \subseteq [token : Tokens, auto : BOOLEAN]
      <3>1. [token |-> Bot, auto |-> TRUE] \in [token : Tokens, auto : BOOLEAN]
        BY DEF Tokens
      <3> QED BY <2>2, <3>1, Zenon
    <2>6. clicks \in 0..MaxActs /\ Cardinality(polls) <= MaxPolls
      BY <1>6, <2>1, SetupAssumption
    <2>7. polls \subseteq PollRequest /\ mixed \in BOOLEAN
      BY <2>1
    <2>8. SetupTypeOK
      BY <1>2, <2>3, <2>4, <2>6, <2>7, <2>5 DEF SetupTypeOK
    <2>9. Asking /\ ChatOfToken /\ LeftIsQuiet
      BY <2>1 DEF Asking, ChatOfToken, LeftIsQuiet
    <2> QED BY <1>6, <2>8, <2>9 DEF DialogInv
  <1> QED BY <1>2, <1>3, <1>4, <1>5, <1>7 DEF BotIndInv, WaitInv

LEMMA BotAlwaysInd == BotSpec => []BotIndInv
  <1>1. BotInit => BotIndInv
    BY BotInitInv
  <1>2. BotIndInv /\ [BotNext]_botVars => BotIndInv'
    BY WaitsOnly, WaitStep, DialogStep DEF BotIndInv
  <1> QED BY <1>1, <1>2, PTL DEF BotSpec

\* A message the user writes while a job waits is not lost: its own offset never
\* passes it, and it says when another wait on the same bot may take it away.
THEOREM NoReplyLost == BotSpec => []NothingPassedOver
  <1>1. BotIndInv => NothingPassedOver
    BY DEF BotIndInv, WaitInv, AllDue, Active, Due, Takes, NothingPassedOver
  <1> QED BY <1>1, BotAlwaysInd, PTL

\* The types; a reply is the first of its wait and no old message; a chat id that was
\* detected is one of the bot in the form; a form that was left asks for nothing.
THEOREM TelegramCorrect == BotSpec => []TelegramInv
  <1>1. BotIndInv => TelegramInv
    BY DEF BotIndInv, WaitInv, DialogInv, TelegramInv
  <1> QED BY <1>1, BotAlwaysInd, PTL
=============================================================================
