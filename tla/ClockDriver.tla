----------------------------- MODULE ClockDriver -----------------------------
(***************************************************************************)
(* The thread of util/Timer.cpp: it sleeps a slice, looks at the system    *)
(* clock, and lets the wheel turn once for every slice that has gone by,   *)
(* under m_mutex.  Milliseconds are counted in 32 bits.                    *)
(***************************************************************************)
EXTENDS TimerWheel

CONSTANTS
  m_timeslice,
  MaxCatchUp, \* 8: a longer time is taken for a clock set forward
  MsWrap      \* 2^32

ASSUME ClockAssumption ==
  /\ m_timeslice \in Nat \ {0} /\ MaxCatchUp \in Nat \ {0}
  /\ MsWrap \in Nat /\ MsWrap > 2 * MaxCatchUp * m_timeslice

VARIABLES
  now,   \* what the thread read last
  prev,  \* the time up to which the wheel has turned
  cc     \* the ticks still to do; m_mutex is held until then

clock == <<now, prev, cc>>

\* A sum or difference of milliseconds in 32 bits.
Ms(x) == IF x < 0 THEN x + MsWrap ELSE IF x >= MsWrap THEN x - MsWrap ELSE x

\* The time the wheel is behind the clock.
Lag == Ms(now - prev)

\* Mutant: calcEscTime without either test.
Never(n) == FALSE

\* calcEscTime: whether the clock looks as if it had been set.
Backward(n) == n < prev
Forward(n)  == Ms(prev + MaxCatchUp * m_timeslice) < n

ClockInit == /\ WheelInit
             /\ now = 0 /\ prev = 0 /\ cc = 0

-----------------------------------------------------------------------------
\* Mutant: the remainder of the division is forgotten.
AdvanceWhole(n) == cc' = (n - prev) \div m_timeslice /\ prev' = n

Advance(n) == LET ticks == (n - prev) \div m_timeslice
              IN  cc' = ticks /\ prev' = prev + ticks * m_timeslice

\* Mutant: a clock that was set brings no tick.
SkipWaits(n) == cc' = 0 /\ prev' = n

\* prev is set a slice before now: one tick, and the wheel is level with the clock.
Skip(n) == cc' = 1 /\ prev' = n

\* The thread reads the clock. (prev += cc*m_timeslice comes after the ticks;
\* nothing else looks at it.)
Reads(n) == now' = n /\ IF Backward(n) \/ Forward(n) THEN Skip(n) ELSE Advance(n)

\* The clock may show anything: the sleep was short or long, or it was set.
Wake == /\ cc = 0
        /\ \E n \in 0 .. MsWrap - 1 : Reads(n)
        /\ UNCHANGED vars

Turn == /\ cc > 0 /\ cc' = cc - 1
        /\ tick
        /\ UNCHANGED <<now, prev>>

Set == /\ cc = 0 /\ \E d \in 0 .. MaxTicks : set(d)
       /\ UNCHANGED clock

Cancel == /\ cc = 0 /\ \E id \in Ids : cancel(id)
          /\ UNCHANGED clock

ClockNext == Wake \/ Turn \/ Set \/ Cancel

ClockSpec == ClockInit /\ [][ClockNext]_<<clock, vars>>

-----------------------------------------------------------------------------
ClockTypeOK ==
  /\ now \in 0 .. MsWrap - 1 /\ prev \in 0 .. MsWrap - 1
  /\ cc \in Nat

\* Whatever the clock shows, set or not and where it begins again at 0, the wheel
\* is then less than a slice behind it, and m_mutex is never held for more than
\* MaxCatchUp ticks.
InStep == Lag < m_timeslice /\ cc <= MaxCatchUp

\* The time between two readings, of a clock that was not set.
Slept   == Ms(now' - now)
Reading == cc = 0 /\ UNCHANGED vars

\* No timer is driven ahead of the clock: a sleep of at least a slice brings at
\* least one tick, and no more than the time that has passed, also where the
\* milliseconds wrap and after any sleep shorter than 49 days.
SleepTicks ==
  [][Reading /\ Slept >= m_timeslice /\ Lag + Slept < MsWrap =>
       cc' >= 1 /\ cc' * m_timeslice <= Lag + Slept]_<<clock, vars>>

\* No time is lost to rounding: what a reading does not turn into ticks is left
\* for the next one. Only a sleep of more than MaxCatchUp slices, or a wrap of the
\* milliseconds, makes timers late.
NoTimeLost ==
  [][Reading /\ Lag + Slept <= MaxCatchUp * m_timeslice
       /\ prev + MaxCatchUp * m_timeslice < MsWrap =>
       cc' * m_timeslice + Lag' = Lag + Slept]_<<clock, vars>>
=============================================================================
