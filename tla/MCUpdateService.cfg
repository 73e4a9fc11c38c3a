\* Two sessions, timers one more than sessions, and a queue that can be full.
SPECIFICATION ServiceSpec
CONSTANTS
  SIZE_PER_QUEUE = 2
  MaxTable = 2
  MAX_TIMER_COUNT = 3
  MaxCommands <- MCCommands
  Funcs <- MCFuncs
  Body <- MCBody
INVARIANTS ServiceTypeOK OneWakeUp
PROPERTIES ChainSpec WorkBegins SessionGoesOn StopEnds
\* The process ends.
CHECK_DEADLOCK FALSE
