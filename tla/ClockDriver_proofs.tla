------------------------- MODULE ClockDriver_proofs -------------------------
(***************************************************************************)
(* Theorems about ClockDriver, for every length of the slice, every limit  *)
(* of catching up and every wrap of the milliseconds.                      *)
(***************************************************************************)
EXTENDS ClockDriver, TimerWheel_proofs, TLAPS

ClockInv == ClockTypeOK /\ InStep

-----------------------------------------------------------------------------
LEMMA Constants ==
  /\ m_timeslice \in Nat /\ m_timeslice > 0
  /\ MaxCatchUp \in Nat /\ MaxCatchUp >= 1
  /\ MaxCatchUp * m_timeslice \in Nat
  /\ MsWrap \in Nat /\ MsWrap > 2 * (MaxCatchUp * m_timeslice)
<1>1. m_timeslice \in Nat /\ MaxCatchUp \in Nat
  BY ClockAssumption
<1>2. 2 * MaxCatchUp * m_timeslice = 2 * (MaxCatchUp * m_timeslice)
  BY <1>1
<1> QED
  BY <1>1, <1>2, ClockAssumption

\* The division by m_timeslice leaves less than a slice.
LEMMA Division ==
  ASSUME NEW e \in Nat
  PROVE  /\ e \div m_timeslice \in Nat
         /\ (e \div m_timeslice) * m_timeslice \in Nat
         /\ (e \div m_timeslice) * m_timeslice <= e
         /\ e - (e \div m_timeslice) * m_timeslice < m_timeslice
<1>1. m_timeslice \in Nat /\ m_timeslice > 0
  BY Constants
<1> QED
  BY <1>1

\* No more ticks than MaxCatchUp fit into the time that is caught up.
LEMMA Limit ==
  ASSUME NEW e \in Nat, e <= MaxCatchUp * m_timeslice
  PROVE  e \div m_timeslice <= MaxCatchUp
<1> DEFINE q == e \div m_timeslice
<1>1. m_timeslice \in Nat /\ m_timeslice > 0 /\ MaxCatchUp \in Nat /\ q \in Nat
  BY Constants, Division
<1>2. q * m_timeslice <= MaxCatchUp * m_timeslice
  BY <1>1, Division
<1> HIDE DEF q
<1>3. CASE q >= MaxCatchUp + 1
  <2>1. q * m_timeslice >= (MaxCatchUp + 1) * m_timeslice
    BY <1>1, <1>3
  <2>2. (MaxCatchUp + 1) * m_timeslice = MaxCatchUp * m_timeslice + m_timeslice
    BY <1>1
  <2>3. MaxCatchUp * m_timeslice \in Int /\ q * m_timeslice \in Int
    BY <1>1
  <2> QED
    BY <1>1, <1>2, <2>1, <2>2, <2>3
<1> QED
  BY <1>1, <1>3 DEF q

\* What a reading that is not taken for a jump of the clock does.
LEMMA Advances ==
  ASSUME ClockInv, NEW n \in 0 .. MsWrap - 1, ~Backward(n), ~Forward(n), Advance(n)
  PROVE  /\ n - prev \in Nat /\ n - prev <= MaxCatchUp * m_timeslice
         /\ prev + MaxCatchUp * m_timeslice < MsWrap => n <= prev + MaxCatchUp * m_timeslice
         /\ cc' = (n - prev) \div m_timeslice
         /\ prev' = prev + cc' * m_timeslice /\ cc' * m_timeslice \in Nat
         /\ prev' \in 0 .. MsWrap - 1 /\ prev' <= n /\ n - prev' < m_timeslice
         /\ cc' \in 0 .. MaxCatchUp
<1> DEFINE K == MaxCatchUp * m_timeslice
<1>1. /\ prev \in 0 .. MsWrap - 1 /\ MsWrap \in Nat
      /\ K \in Nat /\ MsWrap > 2 * K
  BY Constants DEF ClockInv, ClockTypeOK
<1>2. n >= prev /\ n \in Nat /\ prev \in Nat
  BY <1>1 DEF Backward
<1>3. n - prev \in Nat
  BY <1>2
<1>4. n - prev <= K /\ n <= prev + K
  <2> HIDE DEF K
  <2>1. ~(Ms(prev + K) < n)
    BY DEF Forward, K
  <2> QED
    BY <1>1, <1>2, <2>1 DEF Ms
<1>5. cc' = (n - prev) \div m_timeslice /\ prev' = prev + cc' * m_timeslice
  BY DEF Advance
<1>6. cc' \in 0 .. MaxCatchUp
  BY <1>3, <1>4, <1>5, Division, Limit, Constants
<1>7. /\ cc' * m_timeslice \in Nat /\ cc' * m_timeslice <= n - prev
      /\ (n - prev) - cc' * m_timeslice < m_timeslice
  BY <1>3, <1>5, Division
<1>8. prev' \in 0 .. MsWrap - 1 /\ prev' <= n /\ n - prev' < m_timeslice
  BY <1>1, <1>2, <1>5, <1>7, Constants
<1> QED
  BY <1>3, <1>4, <1>5, <1>6, <1>7, <1>8

LEMMA Difference ==
  ASSUME NEW W \in Nat, NEW m \in 0 .. W - 1, NEW n \in 0 .. W - 1, m <= n
  PROVE  n - m \in 0 .. W - 1
OBVIOUS

LEMMA WakeInv ==
  ASSUME ClockInv, Wake
  PROVE  ClockInv'
<1>1. PICK n \in 0 .. MsWrap - 1 : Reads(n)
  BY DEF Wake
<1>2. now' = n
  BY <1>1 DEF Reads
<1>3. CASE Backward(n) \/ Forward(n)
  <2>1. cc' = 1 /\ prev' = n
    BY <1>1, <1>3 DEF Reads, Skip
  <2>2. Lag' = 0
    BY <1>2, <2>1, Constants DEF Lag, Ms
  <2> QED
    BY <1>2, <2>1, <2>2, Constants DEF ClockInv, ClockTypeOK, InStep
<1>4. CASE ~Backward(n) /\ ~Forward(n)
  <2>1. Advance(n)
    BY <1>1, <1>4 DEF Reads
  <2>2. /\ prev' \in 0 .. MsWrap - 1 /\ prev' <= n /\ n - prev' < m_timeslice
        /\ cc' \in 0 .. MaxCatchUp
    BY <1>4, <2>1, Advances
  <2>3. Lag' = n - prev'
    <3>1. Lag' = Ms(n - prev')
      BY <1>2 DEF Lag, Ms
    <3>2. n - prev' \in 0 .. MsWrap - 1 /\ MsWrap \in Nat
      BY <2>2, Constants, Difference
    <3> QED
      BY <3>1, <3>2 DEF Ms
  <2>4. cc' \in Nat /\ cc' <= MaxCatchUp
    BY <2>2, Constants
  <2>5. now' \in 0 .. MsWrap - 1 /\ Lag' < m_timeslice
    BY <1>2, <2>2, <2>3
  <2> QED
    BY <2>2, <2>4, <2>5 DEF ClockInv, ClockTypeOK, InStep
<1> QED
  BY <1>3, <1>4

LEMMA ClockStep == ClockInv /\ [ClockNext]_<<clock, vars>> => ClockInv'
<1> SUFFICES ASSUME ClockInv, [ClockNext]_<<clock, vars>> PROVE ClockInv'
  OBVIOUS
<1>1. CASE Wake
  BY <1>1, WakeInv
<1>2. CASE Turn
  <2>1. now' = now /\ prev' = prev /\ cc' = cc - 1 /\ cc > 0
    BY <1>2 DEF Turn
  <2>2. Lag' = Lag
    BY <2>1 DEF Lag, Ms
  <2> QED
    BY <2>1, <2>2, Constants DEF ClockInv, ClockTypeOK, InStep
<1>3. CASE Set \/ Cancel \/ UNCHANGED <<clock, vars>>
  <2>1. now' = now /\ prev' = prev /\ cc' = cc
    BY <1>3 DEF Set, Cancel, clock
  <2>2. Lag' = Lag
    BY <2>1 DEF Lag, Ms
  <2> QED
    BY <2>1, <2>2 DEF ClockInv, ClockTypeOK, InStep
<1> QED
  BY <1>1, <1>2, <1>3 DEF ClockNext

\* The types of the clock, and how far the wheel can be behind it, whatever is
\* done to the system clock.
THEOREM ClockInvariance == ClockSpec => []ClockInv
<1>1. ClockInit => ClockInv
  BY Constants DEF ClockInit, ClockInv, ClockTypeOK, InStep, Lag, Ms
<1> QED
  BY <1>1, ClockStep, PTL DEF ClockSpec

THEOREM ClockTypeCorrect == ClockSpec => []ClockTypeOK
<1>1. ClockInv => ClockTypeOK
  BY DEF ClockInv
<1> QED
  BY <1>1, ClockInvariance, PTL

\* The wheel is never a slice behind the clock that was read last.
THEOREM WheelInStep == ClockSpec => []InStep
<1>1. ClockInv => InStep
  BY DEF ClockInv
<1> QED
  BY <1>1, ClockInvariance, PTL

-----------------------------------------------------------------------------
\* A reading of a clock by which Slept has passed: where now' lies.
LEMMA Elapsed ==
  ASSUME ClockInv, NEW n \in 0 .. MsWrap - 1, now' = n
  PROVE  /\ Lag \in 0 .. MsWrap - 1 /\ Slept \in 0 .. MsWrap - 1
         /\ \/ n - prev = Lag + Slept
            \/ n - prev = Lag + Slept - MsWrap
            \/ n - prev = Lag + Slept - 2 * MsWrap
<1>1. /\ now \in 0 .. MsWrap - 1 /\ prev \in 0 .. MsWrap - 1 /\ MsWrap \in Nat
  BY Constants DEF ClockInv, ClockTypeOK
<1>2. Lag = (IF now >= prev THEN now - prev ELSE now - prev + MsWrap)
  BY <1>1 DEF Lag, Ms
<1>3. Slept = (IF n >= now THEN n - now ELSE n - now + MsWrap)
  BY <1>1 DEF Slept, Ms
<1> QED
  BY <1>1, <1>2, <1>3

\* A reading with a sleep of a slice or more, and what it turns into ticks.
LEMMA SleepTicksStep ==
  ASSUME ClockInv, Wake, Slept >= m_timeslice, Lag + Slept < MsWrap
  PROVE  cc' >= 1 /\ cc' * m_timeslice <= Lag + Slept
<1>1. PICK n \in 0 .. MsWrap - 1 : Reads(n)
  BY DEF Wake
<1>2. now' = n
  BY <1>1 DEF Reads
<1>3. Lag \in Nat /\ Slept \in Nat /\ m_timeslice \in Nat
  BY <1>2, Elapsed, Constants
<1>4. CASE Backward(n) \/ Forward(n)
  <2>1. cc' = 1
    BY <1>1, <1>4 DEF Reads, Skip
  <2>2. cc' * m_timeslice = m_timeslice
    BY <1>3, <2>1
  <2>3. m_timeslice <= Lag + Slept
    BY <1>3
  <2> QED
    BY <2>1, <2>2, <2>3
<1>5. CASE ~Backward(n) /\ ~Forward(n)
  <2>1. Advance(n)
    BY <1>1, <1>5 DEF Reads
  <2>2. /\ n - prev \in Nat /\ cc' = (n - prev) \div m_timeslice
    BY <1>5, <2>1, Advances
  <2>3. n - prev = Lag + Slept
    BY <1>2, <1>3, <2>2, Elapsed, Constants
  <2>4. /\ cc' \in Nat /\ cc' * m_timeslice \in Nat
        /\ cc' * m_timeslice <= Lag + Slept
        /\ (Lag + Slept) - cc' * m_timeslice < m_timeslice
    BY <2>2, <2>3, Division
  <2>5. cc' # 0
    <3>1. SUFFICES ASSUME cc' = 0 PROVE FALSE
      OBVIOUS
    <3>2. cc' * m_timeslice = 0
      BY <1>3, <3>1
    <3>3. (Lag + Slept) - 0 < m_timeslice
      BY <2>4, <3>2
    <3> QED
      BY <1>3, <3>3
  <2> QED
    <3>1. cc' \in Nat
      BY <2>4
    <3>2. cc' >= 1
      BY <2>5, <3>1
    <3> QED
      BY <2>4, <3>2
<1> QED
  BY <1>4, <1>5

\* Any other step leaves the clock where it was.
LEMMA NoSleep ==
  ASSUME ClockInv, [ClockNext]_<<clock, vars>>, cc = 0, ~Wake
  PROVE  /\ now' = now /\ prev' = prev /\ cc' = cc
         /\ Slept = 0 /\ Lag' = Lag /\ Lag \in Nat
<1>1. now' = now /\ prev' = prev /\ cc' = cc
  BY DEF ClockNext, Turn, Set, Cancel, clock
<1>2. now \in 0 .. MsWrap - 1 /\ prev \in 0 .. MsWrap - 1 /\ MsWrap \in Nat
  BY Constants DEF ClockInv, ClockTypeOK
<1>3. now - now = 0
  BY <1>2
<1>4. Slept = 0
  BY <1>1, <1>2, <1>3, Constants DEF Slept, Ms
<1>5. Lag \in Nat /\ Lag' = Lag
  BY <1>1, <1>2 DEF Lag, Ms
<1> QED
  BY <1>1, <1>4, <1>5

\* A sleep of a slice or more brings a tick, and the wheel never gets ahead of the
\* time that has passed, whatever the clock shows.
THEOREM TicksInTime == ClockSpec => SleepTicks
<1> DEFINE Step == Reading /\ Slept >= m_timeslice /\ Lag + Slept < MsWrap =>
                     cc' >= 1 /\ cc' * m_timeslice <= Lag + Slept
<1>1. ClockInv /\ [ClockNext]_<<clock, vars>> => Step
  <2> SUFFICES ASSUME ClockInv, [ClockNext]_<<clock, vars>>,
                      Reading, Slept >= m_timeslice, Lag + Slept < MsWrap
               PROVE  cc' >= 1 /\ cc' * m_timeslice <= Lag + Slept
    OBVIOUS
  <2>1. CASE Wake
    BY <2>1, SleepTicksStep
  <2>2. CASE ~Wake
    <3>1. Slept = 0
      BY <2>2, NoSleep DEF Reading
    <3> QED
      BY <3>1, Constants
  <2> QED
    BY <2>1, <2>2
<1> QED
  BY <1>1, ClockInvariance, PTL DEF ClockSpec, SleepTicks

LEMMA NoTimeLostStep ==
  ASSUME ClockInv, Wake, Lag + Slept <= MaxCatchUp * m_timeslice,
         prev + MaxCatchUp * m_timeslice < MsWrap
  PROVE  cc' * m_timeslice + Lag' = Lag + Slept
<1> DEFINE K == MaxCatchUp * m_timeslice
<1>1. PICK n \in 0 .. MsWrap - 1 : Reads(n)
  BY DEF Wake
<1>2. now' = n /\ n \in Int
  BY <1>1 DEF Reads
<1>3. Lag \in Nat /\ Slept \in Nat /\ K \in Nat /\ prev \in Nat
  BY <1>2, Elapsed, Constants DEF ClockInv, ClockTypeOK
<1>4. n - prev = Lag + Slept /\ n >= prev /\ n <= prev + K
  <2> HIDE DEF K
  <2>1. Lag + Slept <= K /\ prev + K < MsWrap /\ MsWrap > 2 * K /\ MsWrap \in Nat
    BY Constants DEF K
  <2>2. \/ n - prev = Lag + Slept
        \/ n - prev = Lag + Slept - MsWrap
        \/ n - prev = Lag + Slept - 2 * MsWrap
    BY <1>2, Elapsed
  <2> QED
    BY <1>2, <1>3, <2>1, <2>2
<1>5. ~Backward(n) /\ ~Forward(n)
  <2> HIDE DEF K
  <2>1. prev + K < MsWrap /\ MsWrap \in Nat
    BY Constants DEF K
  <2>2. Ms(prev + K) = prev + K
    BY <1>3, <2>1 DEF Ms
  <2>3. ~(Ms(prev + K) < n)
    BY <1>2, <1>3, <1>4, <2>2
  <2> QED
    BY <1>2, <1>3, <1>4, <2>3 DEF Backward, Forward, K
<1>6. Advance(n)
  BY <1>1, <1>5 DEF Reads
<1>7. /\ prev' = prev + cc' * m_timeslice /\ prev' \in 0 .. MsWrap - 1 /\ prev' <= n
      /\ cc' \in Nat
      /\ cc' * m_timeslice \in Nat
  BY <1>5, <1>6, Advances
<1>8. Lag' = n - prev'
  BY <1>2, <1>7, Constants DEF Lag, Ms
<1>9. cc' * m_timeslice + (n - prev') = n - prev
  <2> DEFINE p == cc' * m_timeslice
  <2>1. p \in Nat /\ prev' = prev + p
    BY <1>7
  <2> HIDE DEF p
  <2>2. p + (n - prev') = n - prev
    BY <1>2, <1>3, <2>1
  <2> QED
    BY <2>2 DEF p
<1> QED
  BY <1>4, <1>8, <1>9

\* What one reading does not turn into ticks is left for the next.
THEOREM NothingRoundedAway == ClockSpec => NoTimeLost
<1> DEFINE Step == Reading /\ Lag + Slept <= MaxCatchUp * m_timeslice
                     /\ prev + MaxCatchUp * m_timeslice < MsWrap =>
                     cc' * m_timeslice + Lag' = Lag + Slept
<1>1. ClockInv /\ [ClockNext]_<<clock, vars>> => Step
  <2> SUFFICES ASSUME ClockInv, [ClockNext]_<<clock, vars>>, Reading,
                      Lag + Slept <= MaxCatchUp * m_timeslice,
                      prev + MaxCatchUp * m_timeslice < MsWrap
               PROVE  cc' * m_timeslice + Lag' = Lag + Slept
    OBVIOUS
  <2>1. CASE Wake
    BY <2>1, NoTimeLostStep
  <2>2. CASE ~Wake
    <3>1. cc' = 0 /\ Slept = 0 /\ Lag' = Lag /\ Lag \in Nat
      BY <2>2, NoSleep DEF Reading
    <3>2. cc' * m_timeslice = 0
      BY <3>1, Constants
    <3> QED
      BY <3>1, <3>2
  <2> QED
    BY <2>1, <2>2
<1> QED
  BY <1>1, ClockInvariance, PTL DEF ClockSpec, NoTimeLost

-----------------------------------------------------------------------------
\* Under the thread the wheel does nothing but tick, set and cancel.
THEOREM DriverDrivesWheel == ClockSpec => WheelSpec
<1>1. ClockInit => WheelInit
  BY DEF ClockInit
<1>2. [ClockNext]_<<clock, vars>> => [WheelNext]_vars
  BY DEF ClockNext, Wake, Turn, Set, Cancel, WheelNext
<1> QED
  BY <1>1, <1>2, PTL DEF ClockSpec, WheelSpec

\* So the theorems about the wheels hold of the wheels the thread drives.
THEOREM DrivenTimersFireExactly ==
  ASSUME CodeWheels
  PROVE  ClockSpec => []OnePlace /\ ExactFiring
  BY DriverDrivesWheel, OnePlaceHolds, WheelFiresExactly, PTL
=============================================================================
