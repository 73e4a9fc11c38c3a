\* Four wheels of two slots, 16 ticks; slices of 2 ms, a clock of 10 ms.
SPECIFICATION ClockSpec
CONSTANTS
  TVR_SIZE = 2
  TVN_SIZE = 2
  NOOF_TVECS = 4
  MAX_TIMER_COUNT = 1
  ENLARGE_SIZE = 1
  MaxTimers = 2
  MaxTicks = 7
  m_timeslice = 2
  MaxCatchUp = 2
  MsWrap = 10
INVARIANTS WheelTypeOK OnePlace ClockTypeOK InStep
PROPERTIES ExactFiring SleepTicks NoTimeLost
