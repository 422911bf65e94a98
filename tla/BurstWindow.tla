----------------------------- MODULE BurstWindow -----------------------------
(***************************************************************************)
(* When a scheduler polls fast: the clock arithmetic of                    *)
(* internal/scheduler/scheduler.go.  A slot opens for booking a fixed      *)
(* offset before it starts; around each opening lies a burst window.       *)
(* Instants are integers of one unit.  A date is a day number, a time of   *)
(* day the units since midnight; Bad is one that does not parse.           *)
(***************************************************************************)
EXTENDS Integers

CONSTANTS
    Day,            \* units in a day
    Dates, Times,   \* cfg.TargetDates, cfg.DesiredTimes
    Bad,
    Settings,       \* the scheduler settings of requests, any integers
    Defaults,
    Never           \* the zero time.Time

\* OpeningOffsetHours, BurstBeforeSeconds, BurstAfterSeconds, BurstIntervalSeconds
\* and PollIntervalSeconds, in one unit.
Fields == {"offset", "before", "after", "burst", "poll"}

ASSUME DayAssumption == /\ Dates \ {Bad} \subseteq Int
                        /\ Times \ {Bad} \subseteq Int
                        /\ Day \in Nat /\ Never \notin Int
ASSUME SettingsAssumption == Settings \subseteq [Fields -> Int] /\ Defaults \in [Fields -> Nat \ {0}]

VARIABLE cfg   \* the settings New was given; never changes

\* Faulty: the default of the poll interval is forgotten.
ApplyDefaults_NoPoll(asked) ==
    [f \in Fields |-> IF asked[f] = 0 /\ f # "poll" THEN Defaults[f] ELSE asked[f]]

\* applyDefaults: zeros are replaced, negative numbers are not.
ApplyDefaults(asked) == [f \in Fields |-> IF asked[f] = 0 THEN Defaults[f] ELSE asked[f]]

\* parseOnDay, for every date and time that parses; time.Date carries a time
\* past midnight into the next day.
Slots == {d * Day + m : d \in Dates \ {Bad}, m \in Times \ {Bad}}

OpensAt(slot) == slot - cfg.offset

\* buildTargets: the slots whose window is not over yet.
BuildTargets(from) == {x \in Slots : ~(OpensAt(x) + cfg.after < from)}

\* Faulty: the window opens with the slot.
InBurstWindow_NoLead(now) ==
    \E x \in BuildTargets(now) : now > OpensAt(x) /\ now < OpensAt(x) + cfg.after

\* isInBurstWindow: After and Before are strict.
InBurstWindow(now) ==
    \E x \in BuildTargets(now) : now > OpensAt(x) - cfg.before /\ now < OpensAt(x) + cfg.after

SelectInterval(now) ==
    IF InBurstWindow(now)
    THEN [interval |-> cfg.burst, mode |-> "burst"]
    ELSE [interval |-> cfg.poll, mode |-> "normal"]

\* Faulty: a window that has begun counts as the next one.
Upcoming_Begun(now) == {OpensAt(x) - cfg.before : x \in BuildTargets(now)}

\* The windows still to begin.
Upcoming(now) == {OpensAt(x) - cfg.before : x \in BuildTargets(now)} \cap {b \in Int : b > now}

\* nextBurst: the earliest of them.
NextBurst(now) ==
    IF Upcoming(now) = {} THEN Never
    ELSE CHOOSE b \in Upcoming(now) : \A c \in Upcoming(now) : b <= c
=============================================================================
