------------------------------ MODULE CPULimiter ------------------------------
(***************************************************************************)
(* The limiter of the replay thread (gui/CPULimiter.cpp).  The thread asks *)
(* it before every capture (replay_action.hpp) whether it used more than   *)
(* its share of the system's time since the last sample, and is put to     *)
(* sleep for the difference.  Time is counted as Windows does, in units of *)
(* which a millisecond has many.                                           *)
(*                                                                         *)
(* The share is the number the user typed in the pane, 0 for what is no    *)
(* number.                                                                 *)
(***************************************************************************)
EXTENDS Integers

CONSTANTS
    Ratios,       \* the percentages the user may have typed
    Works,        \* what the thread may use between two calls
    Others,       \* what others may use, or leave idle, in the meantime
    Rates,        \* by how much the total advances while the thread sleeps a unit
    Uptime,       \* the system's total when the thread is made
    millisecond,  \* 10000 units
    Horizon       \* bound: no work starts when the total has grown by more

LimiterAssumption ==
    /\ Ratios \subseteq Int
    /\ Works \subseteq Nat
    /\ Others \subseteq Nat
    /\ Rates \subseteq Nat \ {0}
    /\ Uptime \in Nat
    /\ millisecond \in Nat \ {0}
    /\ Horizon \in Nat

VARIABLES
    m_ratio,
    m_lastTotalSystemTime,
    m_lastThreadUsageTime,
    system,  \* GetSystemTimes: idle, kernel and user time
    thread,  \* GetThreadTimes: kernel and user time of the thread
    stage,   \* "working", "calling", "crashed"
    begin    \* the two times of the first sample, zeroes before

vars == <<m_ratio, m_lastTotalSystemTime, m_lastThreadUsageTime,
          system, thread, stage, begin>>

Init ==
    /\ m_ratio \in Ratios
    /\ m_lastTotalSystemTime = 0
    /\ m_lastThreadUsageTime = 0
    /\ system = Uptime
    /\ thread = 0
    /\ stage = "working"
    /\ begin = [system |-> 0, thread |-> 0]

\* The thread replays a capture.
Work ==
    /\ stage = "working"
    /\ system <= Uptime + Horizon
    /\ \E own \in Works, other \in Others :
         /\ thread' = thread + own
         /\ system' = system + own + other
    /\ stage' = "calling"
    /\ UNCHANGED <<m_ratio, m_lastTotalSystemTime, m_lastThreadUsageTime, begin>>

\* What was used since the last sample, by the thread and by all.
Used == thread - m_lastThreadUsageTime
Passed == system - m_lastTotalSystemTime

Exceeds == thread # 0 /\ Used * 100 - Passed * m_ratio > 0

\* Division as in C++, of what is not negative.
Quotient(a, b) == IF b > 0 THEN a \div b ELSE -(a \div (-b))

TimeToSleep == Quotient(Used * 100, m_ratio) - Passed

\* The sample taken is the one from before the sleep.
Sample ==
    /\ m_lastTotalSystemTime' = system
    /\ m_lastThreadUsageTime' = thread
    /\ begin' = IF m_lastTotalSystemTime = 0
                  THEN [system |-> system, thread |-> thread] ELSE begin

Within ==
    /\ stage = "calling" /\ ~Exceeds
    /\ Sample
    /\ stage' = "working"
    /\ UNCHANGED <<m_ratio, system, thread>>

\* Less than a millisecond is kept for the next time: no sleep and no sample.
Keep ==
    /\ stage = "calling" /\ Exceeds
    /\ m_ratio # 0 /\ TimeToSleep < millisecond
    /\ stage' = "working"
    /\ UNCHANGED <<m_ratio, m_lastTotalSystemTime, m_lastThreadUsageTime,
                   system, thread, begin>>

Sleep ==
    /\ stage = "calling" /\ Exceeds
    /\ m_ratio # 0 /\ TimeToSleep >= millisecond
    /\ \E rate \in Rates :
         system' = system + rate * (millisecond * (TimeToSleep \div millisecond))
    /\ Sample
    /\ stage' = "working"
    /\ UNCHANGED <<m_ratio, thread>>

DivideByZero ==
    /\ stage = "calling" /\ Exceeds
    /\ m_ratio = 0
    /\ stage' = "crashed"
    /\ UNCHANGED <<m_ratio, m_lastTotalSystemTime, m_lastThreadUsageTime,
                   system, thread, begin>>

CalculateAndSleep == Within \/ Keep \/ Sleep \/ DivideByZero

Next == Work \/ CalculateAndSleep

Spec == Init /\ [][Next]_vars

-----------------------------------------------------------------------------
TypeOK ==
    /\ m_ratio \in Ratios
    /\ m_lastTotalSystemTime \in Nat
    /\ m_lastThreadUsageTime \in Nat
    /\ system \in Nat
    /\ thread \in Nat
    /\ stage \in {"working", "calling", "crashed"}
    /\ begin \in [system : Nat, thread : Nat]

\* What the thread used, and what passed, from the first sample to the last.
UsedSinceBegin == m_lastThreadUsageTime - begin.thread
PassedSinceBegin == system - begin.system

\* CPULimiter.h:40-41: the thread sleeps "for a calculated time period, to average
\* the total usage to the limit specified".  So at every return its share of
\* the time since the first sample is the limit, but for the work of one
\* capture.
UsageAveraged ==
    stage = "working" /\ begin.system # 0 /\ m_ratio > 0 =>
        \E capture \in Works :
            UsedSinceBegin * 100 <= PassedSinceBegin * m_ratio + capture * 100

\* The code counts a sleep twice: as the sleep that makes up for the work
\* before it, and as time that passed when the work after it is weighed.
\* What it does keep: the thread uses no more than three times its share,
\* twice for the sleep, and once more for the milliseconds it rounds down to.
ThriceAtMost ==
    stage = "working" /\ begin.system # 0 /\ m_ratio > 0 =>
        UsedSinceBegin * 100 <= 3 * PassedSinceBegin * m_ratio

=============================================================================
