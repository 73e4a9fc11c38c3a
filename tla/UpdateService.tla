--------------------------- MODULE UpdateService ---------------------------
(***************************************************************************)
(* The service that runs the script: utmsender/utmsenderSrv*.cpp, the      *)
(* sessions (sessionobject, rule, sessionmanager) and what carries them,   *)
(* MTL's ServiceSkeleton, ServiceManager, MessageDispatcher, MessageTimer. *)
(*                                                                         *)
(* Three threads: the main thread starts the service, takes console        *)
(* commands and stops it; the pull thread takes messages from the queue    *)
(* and runs the script; the timer thread posts the message of a timer that *)
(* is due.  How long a timer runs is left open here: see TimerWheel.       *)
(*                                                                         *)
(* No peer can connect (MessageDispatcher::start has the listener and the  *)
(* connections commented out): every message comes from the process.       *)
(***************************************************************************)
EXTENDS Integers, Sequences, FiniteSets

CONSTANTS
  SIZE_PER_QUEUE,  \* 4096
  MaxTable,        \* 1024, the size of the session table
  MAX_TIMER_COUNT, \* 4096; enlarging is in TimerWheel
  MaxCommands,     \* bound: commands of each kind typed at the console
  Funcs,           \* the functions of the script, "BEGIN" among them
  Body             \* Body[f]: the ways in which a call of f can end

NoFunc == "none"

\* A function arms the timer and names the next function, arms it although
\* C_SetNextState refuses (evtmsg.h, which names the messages, was not loaded),
\* returns without, calls C_Exit, or fails with a Lua error.
Outcomes == [ends : {"armed", "unruled", "unarmed", "exit", "error"},
             next : Funcs \cup {NoFunc}]

\* One session at the start and one for each command: far from 0x0FFFFFFE, where
\* the ids begin again, and from the number of timers. m_timerID has no value
\* before the first timer: it is not read, as long as BEGIN does not call C_Exit.
Commands   == {"StartSession", "Recognize"}
MaxCreated == MaxCommands["StartSession"] + 1

ASSUME ServiceAssumption ==
  /\ SIZE_PER_QUEUE \in Nat \ {0} /\ MaxTable \in Nat \ {0}
  /\ MaxCommands \in [Commands -> Nat]
  /\ MAX_TIMER_COUNT \in Nat /\ MAX_TIMER_COUNT > MaxCreated
  /\ "BEGIN" \in Funcs /\ NoFunc \notin Funcs
  /\ Body \in [Funcs -> SUBSET Outcomes]
  /\ \A f \in Funcs : \A o \in Body[f] :
       /\ o.ends = "armed" => o.next \in Funcs
       /\ o.ends = "exit" => f # "BEGIN"

VARIABLES
  main,     \* where the main thread stands; "dead": the process is gone
  commands, \* console commands typed, of each kind
  hooked,   \* whether the service's port has a queue in m_services
  queue,    \* that queue, the next message first
  lost,     \* the sessions (0: none) of messages dropped at a full queue
  m_stopSignaled,
  pull,     \* where the pull thread stands
  utm,      \* the message it works on
  func,     \* the script function it is in
  task,     \* task[id]: the message timer id will post
  m_freeTimers,
  m_curSessionID,
  m_sessionTable, \* the ids in the table
  deleted,        \* sessions whose object is gone
  m_timerID, m_rules \* of each session

console  == <<main, commands>>
mtl      == <<hooked, queue, lost>>
thread   == <<pull, utm, func>>
timers   == <<task, m_freeTimers>>
sessions == <<m_curSessionID, m_sessionTable, deleted, m_timerID, m_rules>>
vars     == <<console, mtl, m_stopSignaled, thread, timers, sessions>>

Sids   == 1 .. MaxCreated
Timers == 0 .. MAX_TIMER_COUNT - 1

Message(kind, s) == [kind |-> kind, sid |-> s]
NoMessage == Message("none", 0)
Messages  == [kind : {"StartWork", "StartSession", "TimeOut", "KillSession", "Recognize", "StopPull"},
              sid : Sids \cup {0}]

ServiceInit ==
  /\ main = "hook" /\ commands = [c \in Commands |-> 0]
  /\ hooked = FALSE /\ queue = <<>> /\ lost = {}
  /\ m_stopSignaled = TRUE /\ pull = "off" /\ utm = NoMessage /\ func = NoFunc
  /\ task = [id \in Timers |-> NoMessage]
  /\ m_freeTimers = [i \in 1 .. MAX_TIMER_COUNT |-> i - 1]
  /\ m_curSessionID = 0 /\ m_sessionTable = {} /\ deleted = {}
  /\ m_timerID = [s \in Sids |-> 0] /\ m_rules = [s \in Sids |-> <<>>]

-----------------------------------------------------------------------------
\* Mutant: one message more than there is room for.
postMore(m, longer) ==
  LET full == Len(queue) > SIZE_PER_QUEUE
  IN  /\ queue' = IF hooked /\ ~full THEN longer ELSE queue
      /\ lost' = IF hooked /\ full THEN lost \cup {m.sid} ELSE lost
      /\ UNCHANGED hooked

\* tryPutPackage and tryPutPackageHead: the message is dropped if the port has
\* no queue or the queue is full. The callers look at no result.
post(m, longer) ==
  LET full == Len(queue) = SIZE_PER_QUEUE
  IN  /\ queue' = IF hooked /\ ~full THEN longer ELSE queue
      /\ lost' = IF hooked /\ full THEN lost \cup {m.sid} ELSE lost
      /\ UNCHANGED hooked

postSelfMessage(m) == post(m, <<m>> \o queue)

postMessage(m) == post(m, Append(queue, m))

\* MessageTimer::set; the id is the first of the free list.
setTimer(m) ==
  /\ task' = [task EXCEPT ![Head(m_freeTimers)] = m]
  /\ m_freeTimers' = Tail(m_freeTimers)

\* ActiveTimer::cancel: an id that is not in use is passed over.
cancel(id) ==
  IF task[id] = NoMessage THEN UNCHANGED timers
  ELSE /\ task' = [task EXCEPT ![id] = NoMessage]
       /\ m_freeTimers' = Append(m_freeTimers, id)

\* TLuaSession::StopTimer: id 0 counts as no timer.
StopTimer(s) ==
  /\ IF m_timerID[s] > 0 THEN cancel(m_timerID[s]) ELSE UNCHANGED timers
  /\ m_timerID' = [m_timerID EXCEPT ![s] = 0]

\* TLuaSession::StartTimer: the id of a timer that still runs is forgotten.
StartTimer(s) ==
  /\ setTimer(Message("TimeOut", s))
  /\ m_timerID' = [m_timerID EXCEPT ![s] = Head(m_freeTimers)]

\* C_SetNextState as the script calls it, always with "_EvtTimeOut" and status
\* -1: AddRule refuses a second rule, which would match whenever the first does.
SetNextState(s, f) == m_rules' = [m_rules EXCEPT ![s] = IF @ = <<>> THEN <<f>> ELSE @]

\* Mutant: the rule that was matched stays.
ClearRuleKeeps(s) == UNCHANGED m_rules

ClearRule(s) == m_rules' = [m_rules EXCEPT ![s] = <<>>]

\* DeleteSessionObject, and one turn of the loop of ClearAll.
Erase(s) ==
  /\ m_sessionTable' = m_sessionTable \ {s}
  /\ deleted' = deleted \cup ({s} \cap m_sessionTable)

-----------------------------------------------------------------------------
\* The main thread: USServer::start, the console, USServer::stop.

\* Mutant: addHook tests for the queue the wrong way round, as delHook does.
addHookInverted == main = "hook" /\ main' = "init" /\ hooked' = FALSE

addHook == main = "hook" /\ main' = "init" /\ hooked' = TRUE

Hook == addHook /\ UNCHANGED <<commands, queue, lost, m_stopSignaled, thread, timers, sessions>>

init == /\ main = "init" /\ main' = "start"
        /\ setTimer(Message("StartWork", 0))
        /\ UNCHANGED <<commands, mtl, m_stopSignaled, thread, sessions>>

StartPull == /\ main = "start" /\ main' = "running"
             /\ m_stopSignaled' = FALSE /\ pull' = "check"
             /\ UNCHANGED <<commands, mtl, utm, func, timers, sessions>>

\* "startsession" and "recognizeresult"; the others change nothing.
handleUICommand ==
  /\ main = "running"
  /\ \E c \in Commands : /\ commands[c] < MaxCommands[c]
                        /\ commands' = [commands EXCEPT ![c] = @ + 1]
                        /\ postSelfMessage(Message(c, 0))
  /\ UNCHANGED <<main, m_stopSignaled, thread, timers, sessions>>

Quit == /\ main = "running" /\ main' = "uninit"
        /\ UNCHANGED <<commands, mtl, m_stopSignaled, thread, timers, sessions>>

\* USService::uninit, called by stop and again by the destructor. After the first
\* erase the iterator is invalid: the loop goes on, ends, or the process dies.
AfterUninit == IF main = "uninit" THEN "stop" ELSE "dispatcher"
ClearAll ==
  /\ main \in {"uninit", "delete"}
  /\ \/ m_sessionTable = {} /\ main' = AfterUninit /\ UNCHANGED sessions
     \/ /\ \E s \in m_sessionTable : (\A t \in m_sessionTable : s <= t) /\ Erase(s)
        /\ main' \in {main, AfterUninit, "dead"}
        /\ UNCHANGED <<m_curSessionID, m_timerID, m_rules>>
  /\ UNCHANGED <<commands, mtl, m_stopSignaled, thread, timers>>

\* Mutant: nothing wakes the pull thread.
SignalStopSilently ==
  /\ main = "stop" /\ main' = "join" /\ m_stopSignaled' = TRUE
  /\ UNCHANGED mtl

\* The flag, then the message that lets the pull thread look at it.
SignalStop ==
  /\ main = "stop" /\ main' = "join" /\ m_stopSignaled' = TRUE
  /\ postSelfMessage(Message("StopPull", 0))

Stop == SignalStop /\ UNCHANGED <<commands, thread, timers, sessions>>

\* delHook erases only a port that it does not find: hooked stays as it is.
Join == /\ main = "join" /\ pull = "ended" /\ main' = "delete"
        /\ UNCHANGED <<commands, mtl, m_stopSignaled, thread, timers, sessions>>

\* MessageDispatcher::stop: its message has no queue to go to, and the timer
\* thread, the only one that is left, is joined.
StopDispatcher ==
  /\ main = "dispatcher" /\ main' = "done"
  /\ UNCHANGED <<commands, mtl, m_stopSignaled, thread, timers, sessions>>

\* The process runs, and with it the pull thread and the timer thread.
Alive == main \notin {"done", "dead"}

-----------------------------------------------------------------------------
\* The timer thread: MessageTimerTask::onTimer, then cancel, under m_mutex.

\* Mutant: the id that has become free is the next to be taken.
FireReuses(id) ==
  /\ task[id] # NoMessage
  /\ postMessage(task[id])
  /\ task' = [task EXCEPT ![id] = NoMessage]
  /\ m_freeTimers' = <<id>> \o m_freeTimers

Fire(id) ==
  /\ task[id] # NoMessage
  /\ postMessage(task[id])
  /\ task' = [task EXCEPT ![id] = NoMessage]
  /\ m_freeTimers' = Append(m_freeTimers, id)

Timer(id) == Alive /\ Fire(id) /\ UNCHANGED <<console, m_stopSignaled, thread, sessions>>

-----------------------------------------------------------------------------
\* The pull thread. It looks at the flag before it waits for a message, so a
\* message it has got is handled even if the service is stopped meanwhile.
Check ==
  /\ pull = "check" /\ pull' = IF m_stopSignaled THEN "ended" ELSE "get"
  /\ UNCHANGED <<main, mtl, utm, func, timers, sessions>>

getMessage ==
  /\ pull = "get" /\ queue # <<>>
  /\ utm' = Head(queue) /\ queue' = Tail(queue) /\ pull' = "handle"
  /\ UNCHANGED <<main, hooked, lost, func, timers, sessions>>

Handling(kind) == pull = "handle" /\ utm.kind = kind
Done == pull' = "check" /\ utm' = NoMessage /\ func' = NoFunc
Call(s, f) == pull' = "script" /\ utm' = [utm EXCEPT !.sid = s] /\ func' = f

onStartWork ==
  /\ Handling("StartWork") /\ Done
  /\ postSelfMessage(Message("StartSession", 0))
  /\ UNCHANGED <<main, timers, sessions>>

\* A full table refuses the session (which AddSessionObject reports and nobody
\* reads): its script runs all the same. LoadScript may fail.
onCreateSession ==
  LET s == m_curSessionID + 1
      added == IF Cardinality(m_sessionTable) < MaxTable THEN {s} ELSE {}
  IN  /\ Handling("StartSession") /\ m_curSessionID' = s
      /\ \/ m_sessionTable' = m_sessionTable \cup added /\ Call(s, "BEGIN") /\ UNCHANGED deleted
         \/ deleted' = deleted \cup added /\ Done /\ UNCHANGED m_sessionTable
      /\ UNCHANGED <<main, mtl, timers, m_timerID, m_rules>>

\* onTimeOut and CallLuaFunc. StopTimer is called twice: the timer that brought
\* the message has fired, and its id may be in use again. Without evtmsg.h the
\* message has no name, and there is no rule either.
onTimeOut ==
  LET s == utm.sid
  IN  /\ Handling("TimeOut")
      /\ IF s \in m_sessionTable /\ m_rules[s] # <<>>
         THEN Call(s, Head(m_rules[s])) /\ StopTimer(s) /\ ClearRule(s)
         ELSE Done /\ UNCHANGED <<timers, m_timerID, m_rules>>
      /\ UNCHANGED <<main, mtl, m_curSessionID, m_sessionTable, deleted>>

onKillSession ==
  /\ Handling("KillSession") /\ Done /\ Erase(utm.sid)
  /\ UNCHANGED <<main, mtl, timers, m_curSessionID, m_timerID, m_rules>>

\* onSystemMessage, and onDefaultMessage: no session has the id 0 of m_appref.
onOther ==
  /\ Handling("StopPull") \/ Handling("Recognize")
  /\ Done /\ UNCHANGED <<main, mtl, timers, sessions>>

\* The script function ends.
Armed(s, f) ==
  /\ StartTimer(s) /\ SetNextState(s, f)
  /\ UNCHANGED <<mtl, m_curSessionID, m_sessionTable, deleted>>
Unruled(s) ==
  /\ StartTimer(s)
  /\ UNCHANGED <<mtl, m_curSessionID, m_sessionTable, deleted, m_rules>>
Unarmed == UNCHANGED <<mtl, timers, sessions>>
Exit(s) ==
  /\ StopTimer(s) /\ postSelfMessage(Message("KillSession", s))
  /\ UNCHANGED <<m_curSessionID, m_sessionTable, deleted, m_rules>>
FailsInBegin(s) ==
  /\ Erase(s) /\ UNCHANGED <<mtl, timers, m_curSessionID, m_timerID, m_rules>>

Returns(o, s) ==
  /\ \/ o.ends = "armed"   /\ Armed(s, o.next)
     \/ o.ends = "unruled" /\ Unruled(s)
     \/ o.ends = "unarmed" /\ Unarmed
     \/ o.ends = "exit"    /\ Exit(s)
     \/ o.ends = "error"   /\ func = "BEGIN" /\ FailsInBegin(s)
  /\ Done /\ UNCHANGED main

\* exit(0) on a Lua error, or the use of a session that the main thread deleted.
Dies(o, s) ==
  /\ (o.ends = "error" /\ func # "BEGIN") \/ s \in deleted
  /\ main' = "dead" /\ UNCHANGED <<mtl, thread, timers, sessions>>

Script ==
  /\ pull = "script"
  /\ \E o \in Body[func] : Returns(o, utm.sid) \/ Dies(o, utm.sid)

Pull ==
  /\ Alive
  /\ \/ Check \/ getMessage \/ Script
     \/ onStartWork \/ onCreateSession \/ onTimeOut \/ onKillSession \/ onOther
  /\ UNCHANGED <<commands, m_stopSignaled>>

-----------------------------------------------------------------------------
ServiceNext ==
  \/ Hook \/ init \/ StartPull \/ handleUICommand
  \/ Quit \/ ClearAll \/ Stop \/ Join \/ StopDispatcher
  \/ Pull
  \/ \E id \in Timers : Timer(id)

\* The threads are scheduled, the script's functions return, timers fire. Nobody
\* has to type a command.
ServiceSpec ==
  /\ ServiceInit /\ [][ServiceNext]_vars
  /\ WF_vars(Hook) /\ WF_vars(init) /\ WF_vars(StartPull)
  /\ WF_vars(ClearAll) /\ WF_vars(Stop) /\ WF_vars(Join)
  /\ WF_vars(StopDispatcher)
  /\ WF_vars(Pull)
  /\ \A id \in Timers : WF_vars(Timer(id))

-----------------------------------------------------------------------------
ServiceTypeOK ==
  /\ main \in {"hook", "init", "start", "running", "uninit", "stop", "join", "delete",
               "dispatcher", "done", "dead"}
  /\ commands \in [Commands -> Nat] /\ hooked \in BOOLEAN /\ m_stopSignaled \in BOOLEAN
  /\ queue \in Seq(Messages) /\ Len(queue) <= SIZE_PER_QUEUE
  /\ lost \subseteq Sids \cup {0}
  /\ pull \in {"off", "check", "get", "handle", "script", "ended"}
  /\ utm \in Messages \cup {NoMessage} /\ func \in Funcs \cup {NoFunc}
  /\ task \in [Timers -> Messages \cup {NoMessage}]
  /\ m_freeTimers \in Seq(Timers) /\ Len(m_freeTimers) <= MAX_TIMER_COUNT
  /\ m_curSessionID \in 0 .. MaxCreated
  /\ m_sessionTable \subseteq Sids /\ deleted \subseteq Sids
  /\ m_timerID \in [Sids -> Timers] /\ m_rules \in [Sids -> Seq(Funcs)]

InScript(s) == pull = "script" /\ utm.sid = s
Waiting(s)  == s \in m_sessionTable /\ m_rules[s] # <<>>

\* What will bring session s back to its script: its running timers, its
\* messages in the queue, the one the pull thread has in hand.
WakeUps(s) ==
  LET m == Message("TimeOut", s)
  IN  Cardinality({id \in Timers : task[id] = m})
      + Cardinality({i \in DOMAIN queue : queue[i] = m})
      + IF pull = "handle" /\ utm = m THEN 1 ELSE 0

\* A session that waits for its next function has exactly one wake-up to come,
\* unless a full queue dropped it: no other session's StopTimer has taken its
\* timer away, although ids are handed out again while their old owner still
\* holds them, and no timer is left over to call a function too early.
OneWakeUp ==
  \A s \in m_sessionTable :
    /\ WakeUps(s) <= 1
    /\ Waiting(s) /\ s \notin lost => WakeUps(s) = 1

\* The session chain that UpdateSession takes for granted.
Chain == INSTANCE ScriptChain WITH
  Sessions <- Sids, First <- "BEGIN", None <- NoFunc,
  Follows <- [f \in Funcs |-> {o.next : o \in {b \in Body[f] : b.ends = "armed"}}],
  running <- [s \in Sids |-> IF InScript(s) THEN func ELSE NoFunc],
  waiting <- [s \in Sids |-> IF s \notin deleted /\ m_rules[s] # <<>>
                             THEN Head(m_rules[s]) ELSE NoFunc]
ChainSpec == Chain!Spec

\* The update begins: once the service is initialised a session is created,
\* unless the program is ended first or a full queue drops the message.
WorkBegins == main = "init" ~> (m_curSessionID > 0 \/ main = "uninit" \/ 0 \in lost)

\* A session that waits is called again, however many others there are, unless
\* a full queue dropped its message or the program is being ended.
SessionGoesOn ==
  \A s \in Sids :
    Waiting(s) ~> (InScript(s) \/ s \in lost \/ main # "running")

\* The program ends when it is told to: the pull thread, wherever it stands,
\* hears of it.
StopEnds == main = "uninit" ~> ~Alive

\* "Service quiting normally" (Main-postutm.cpp:520): the process does not die
\* of the memory that uninit freed.
QuitsNormally == main # "dead"
=============================================================================
