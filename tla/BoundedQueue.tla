---------------------------- MODULE BoundedQueue ----------------------------
(***************************************************************************)
(* util/BoundedQueue.h: the message queue of a service, a ring buffer with *)
(* a mutex and two events.  Whatever happens between lk.lock() and         *)
(* lk.unlock() is one step; a thread that finds the queue full (or empty)  *)
(* unlocks, waits for the event, and locks again to look again.            *)
(***************************************************************************)
EXTENDS Integers, Sequences, FiniteSets

CONSTANTS
  Putters, Getters, \* the threads that put and those that get
  Messages,
  Null,             \* T(), what pureGet leaves in a slot
  Capacity,         \* the size of the ring
  EventKind         \* "auto": Win32 event, "cond": POSIX condition

ASSUME QueueAssumption ==
  /\ Capacity \in Nat \ {0}
  /\ Null \notin Messages
  /\ Putters \cap Getters = {}
  /\ EventKind \in {"auto", "cond"}

VARIABLES
  m_begin, m_end, m_buffered, m_circularBuf,
  m_notFull, m_notEmpty, \* how many threads the event lets through
  pc,                    \* where each thread stands
  arg                    \* what a putter that waits is putting

ring   == <<m_begin, m_end, m_buffered, m_circularBuf>>
events == <<m_notFull, m_notEmpty>>
vars   == <<ring, events, pc, arg>>

Threads == Putters \cup Getters
Slots   == 0 .. Capacity - 1
Calls   == [msg : Messages, atHead : BOOLEAN]
NoCall  == [msg |-> Null, atHead |-> FALSE]

\* Between lk.unlock() and the wait; in it; after it; for the timed get too.
Waiting == {"unlocked", "asleep", "timed"}
Full    == m_buffered >= Capacity
Empty   == m_buffered <= 0

QueueInit ==
  /\ m_begin = 0 /\ m_end = 0 /\ m_buffered = 0
  /\ m_circularBuf = [i \in Slots |-> Null]
  /\ m_notFull = 0 /\ m_notEmpty = 0
  /\ pc = [t \in Threads |-> "idle"]
  /\ arg = [p \in Putters |-> NoCall]

-----------------------------------------------------------------------------
\* Mutant: the index wraps around one slot too late.
SuccLate(i) == IF i = Capacity THEN 0 ELSE i + 1

\* Index arithmetic modulo the size of the ring.
Succ(i) == IF i + 1 = Capacity THEN 0 ELSE i + 1
Pred(i) == IF i = 0 THEN Capacity - 1 ELSE i - 1

purePut(m) ==
  /\ m_circularBuf' = [m_circularBuf EXCEPT ![m_end] = m]
  /\ m_end' = Succ(m_end)
  /\ m_buffered' = m_buffered + 1
  /\ UNCHANGED m_begin

\* Mutant: the message is stored before the head moves.
purePutHeadLate(m) ==
  /\ m_begin' = Pred(m_begin)
  /\ m_circularBuf' = [m_circularBuf EXCEPT ![m_begin] = m]
  /\ m_buffered' = m_buffered + 1
  /\ UNCHANGED m_end

purePutHead(m) ==
  /\ m_begin' = Pred(m_begin)
  /\ m_circularBuf' = [m_circularBuf EXCEPT ![m_begin'] = m]
  /\ m_buffered' = m_buffered + 1
  /\ UNCHANGED m_end

pureGet ==
  /\ m_circularBuf' = [m_circularBuf EXCEPT ![m_begin] = Null]
  /\ m_begin' = Succ(m_begin)
  /\ m_buffered' = m_buffered - 1
  /\ UNCHANGED m_end

\* Event::signal. A Win32 event stays set until a wait resets it, once however
\* often it was set. A condition lets one of the threads asleep through, and is
\* forgotten when none is.
signalled(event, sleepers) ==
  IF EventKind = "auto" THEN 1
  ELSE IF event < Cardinality(sleepers) THEN event + 1 ELSE event

Asleep(group) == {t \in group : pc[t] \in {"asleep", "timed"}}

-----------------------------------------------------------------------------
\* put and putHead, and tryPut and tryPutHead, which return false where the
\* others wait. The first look at the queue and the look after a wait are the
\* same code.
Stored(p, call) ==
  /\ ~Full
  /\ IF call.atHead THEN purePutHead(call.msg) ELSE purePut(call.msg)
  /\ m_notEmpty' = signalled(m_notEmpty, Asleep(Getters))
  /\ pc' = [pc EXCEPT ![p] = "idle"] /\ arg' = [arg EXCEPT ![p] = NoCall]
  /\ UNCHANGED m_notFull

PutWaits(p, call) ==
  /\ Full
  /\ pc' = [pc EXCEPT ![p] = "unlocked"] /\ arg' = [arg EXCEPT ![p] = call]
  /\ UNCHANGED <<ring, events>>

put(p) ==
  \/ pc[p] = "idle" /\ \E call \in Calls : Stored(p, call) \/ PutWaits(p, call)
  \/ pc[p] = "retry" /\ (Stored(p, arg[p]) \/ PutWaits(p, arg[p]))

\* A full queue: tryPut returns false and nothing changes.
tryPut(p) == pc[p] = "idle" /\ \E call \in Calls : Stored(p, call)

\* Mutant: the putters are not told that there is room.
TakenSilently(g) ==
  /\ ~Empty
  /\ pureGet
  /\ pc' = [pc EXCEPT ![g] = "idle"]
  /\ UNCHANGED <<events, arg>>

\* get, the get with a timeout, and tryGet, which returns false instead.
Taken(g) ==
  /\ ~Empty
  /\ pureGet
  /\ m_notFull' = signalled(m_notFull, Asleep(Putters))
  /\ pc' = [pc EXCEPT ![g] = "idle"]
  /\ UNCHANGED <<m_notEmpty, arg>>

GetWaits(g) ==
  /\ Empty
  /\ pc' = [pc EXCEPT ![g] = "unlocked"]
  /\ UNCHANGED <<ring, events, arg>>

get(g) == pc[g] \in {"idle", "retry"} /\ (Taken(g) \/ GetWaits(g))

tryGet(g) == pc[g] = "idle" /\ Taken(g)

\* The timed wait gives up, and get returns false without another look.
TimedOut(g) ==
  /\ pc[g] = "timed"
  /\ pc' = [pc EXCEPT ![g] = "idle"]
  /\ UNCHANGED <<ring, events, arg>>

\* Mutant: the wait resets the event when it begins, not when it ends.
SleepResets(t) ==
  /\ pc[t] = "unlocked"
  /\ pc' = [pc EXCEPT ![t] = "asleep"]
  /\ m_notEmpty' = IF t \in Getters THEN 0 ELSE m_notEmpty
  /\ m_notFull' = IF t \in Putters THEN 0 ELSE m_notFull
  /\ UNCHANGED <<ring, arg>>

\* Event::wait: the thread falls asleep, and the event lets it through.
Sleep(t) ==
  /\ pc[t] = "unlocked"
  /\ \/ pc' = [pc EXCEPT ![t] = "asleep"]
     \/ t \in Getters /\ pc' = [pc EXCEPT ![t] = "timed"]
  /\ UNCHANGED <<ring, events, arg>>

WakePutter(p) ==
  /\ pc[p] = "asleep" /\ m_notFull > 0
  /\ m_notFull' = m_notFull - 1
  /\ pc' = [pc EXCEPT ![p] = "retry"]
  /\ UNCHANGED <<ring, m_notEmpty, arg>>

WakeGetter(g) ==
  /\ pc[g] \in {"asleep", "timed"} /\ m_notEmpty > 0
  /\ m_notEmpty' = m_notEmpty - 1
  /\ pc' = [pc EXCEPT ![g] = "retry"]
  /\ UNCHANGED <<ring, m_notFull, arg>>

QueueNext ==
  \/ \E p \in Putters : put(p) \/ tryPut(p) \/ WakePutter(p)
  \/ \E g \in Getters : get(g) \/ tryGet(g) \/ TimedOut(g) \/ WakeGetter(g)
  \/ \E t \in Threads : Sleep(t)

QueueSpec == QueueInit /\ [][QueueNext]_vars

\* The threads are scheduled, and a getter always comes back for more.
QueueFairness ==
  /\ \A p \in Putters : WF_vars(pc[p] = "retry" /\ put(p)) /\ WF_vars(WakePutter(p))
  /\ \A g \in Getters : WF_vars(get(g)) /\ WF_vars(WakeGetter(g))
  /\ \A t \in Threads : WF_vars(Sleep(t))

FairQueueSpec == QueueSpec /\ QueueFairness

-----------------------------------------------------------------------------
\* Every variable has its type; in particular the indices stay in the ring.
QueueTypeOK ==
  /\ m_begin \in Slots /\ m_end \in Slots
  /\ m_buffered \in 0 .. Capacity
  /\ m_circularBuf \in [Slots -> Messages \cup {Null}]
  /\ m_notFull \in Nat /\ m_notEmpty \in Nat
  /\ pc \in [Threads -> {"idle", "retry"} \cup Waiting]
  /\ arg \in [Putters -> Calls \cup {NoCall}]

\* The messages from head to tail.
Slot(i)  == IF m_begin + i < Capacity THEN m_begin + i ELSE m_begin + i - Capacity
contents == [i \in 1 .. m_buffered |-> m_circularBuf[Slot(i - 1)]]

\* However the two ends wrap around, and whichever thread comes first, the
\* ring holds the messages in the order of a deque.
D == INSTANCE Deque
DequeSpec == D!Spec

\* No event is missed: when all getters wait although there is a message, or
\* all putters although there is room, the event lets one of them through.
NoSleepThrough ==
  /\ Getters # {} /\ (\A g \in Getters : pc[g] \in Waiting) /\ ~Empty
       => m_notEmpty > 0
  /\ Putters # {} /\ (\A p \in Putters : pc[p] \in Waiting) /\ ~Full
       => m_notFull > 0

\* A message that waits is got by the pull thread, waiting or not.
HandedOver == \A g \in Getters : pc[g] \in Waiting /\ ~Empty ~> pc[g] \notin Waiting

\* Putters that found the queue full do not all wait for ever.
PuttersMove == (\A p \in Putters : pc[p] \in Waiting) ~>
               (\E p \in Putters : pc[p] \notin Waiting)
=============================================================================
