\* The program is ended while a session is in the table.
SPECIFICATION ServiceSpec
CONSTANTS
  SIZE_PER_QUEUE = 2
  MaxTable = 2
  MAX_TIMER_COUNT = 3
  MaxCommands <- MCCommands
  Funcs <- MCFuncs
  Body <- MCSound
INVARIANT QuitsNormally
CHECK_DEADLOCK FALSE
