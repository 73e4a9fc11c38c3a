------------------------ MODULE UpdateService_proofs ------------------------
(***************************************************************************)
(* Theorems about UpdateService, for every script, every number of         *)
(* commands, every size of the queue and of the session table and every    *)
(* number of timers that exceeds the number of sessions.                   *)
(***************************************************************************)
EXTENDS UpdateService, ListLemmas

-----------------------------------------------------------------------------
(* The inductive invariant.                                                *)

Work       == Message("StartWork", 0)
TimeOut(s) == Message("TimeOut", s)

\* The messages that create a session, at once or by the next message.
Creating == {Work, Message("StartSession", 0)}

\* What is sent in the process: with a session's id only if that session exists.
Known  == 1 .. m_curSessionID
Formed == Creating \cup {Message("StopPull", 0), Message("Recognize", 0)}
            \cup {TimeOut(s) : s \in Known} \cup {Message("KillSession", s) : s \in Known}

Beginning == {"hook", "init", "start"}

StageInv ==
  /\ hooked <=> main # "hook"
  /\ pull = "off" <=> main \in Beginning
  /\ main \in {"hook", "init"} => queue = <<>> /\ \A id \in Timers : task[id] = NoMessage

MessageInv ==
  /\ \A i \in 1 .. Len(queue) : queue[i] \in Formed
  /\ \A id \in Timers : task[id] \in {NoMessage, Work} \cup {TimeOut(s) : s \in Known}
  /\ \A id, other \in Timers : task[id] = Work /\ task[other] = Work => id = other

PullInv ==
  /\ pull = "handle" => utm \in Formed
  /\ pull = "script" => /\ func \in Funcs /\ utm.sid \in Known
                        /\ m_rules[utm.sid] = <<>> /\ m_timerID[utm.sid] = 0
  /\ pull # "script" => func = NoFunc

\* Sessions to come are untouched, and no session is in the table and deleted.
TableInv ==
  /\ \A s \in Sids \ Known : m_rules[s] = <<>> /\ m_timerID[s] = 0
                             /\ s \notin m_sessionTable /\ s \notin deleted
  /\ m_sessionTable \cap deleted = {}

\* Every id is in use, or once in the free list.
FreeInv ==
  /\ Once(m_freeTimers)
  /\ \A id \in Timers : In(m_freeTimers, id) <=> task[id] = NoMessage

\* Where the wake-up of a session may be: at most one of these, and once.
Ticking(s) == \E id \in Timers : task[id] = TimeOut(s)
Queued(s) == In(queue, TimeOut(s))
InHand(s) == pull = "handle" /\ utm = TimeOut(s)

OwnerInv == \A s \in Sids : \A id \in Timers : task[id] = TimeOut(s) => m_timerID[s] = id

SingleInv ==
  \A s \in Sids :
    /\ Single(queue, TimeOut(s))
    /\ Ticking(s) => ~Queued(s) /\ ~InHand(s) /\ ~InScript(s)
    /\ Queued(s) => ~InHand(s) /\ ~InScript(s)

\* Sessions that exist or will.
InStore == IF pull = "handle" /\ utm \in Creating THEN 1 ELSE 0
SetUp   == IF main \in {"hook", "init"} \/ \E id \in Timers : task[id] = Work THEN 1 ELSE 0
BudgetInv ==
  /\ commands["StartSession"] <= MaxCommands["StartSession"]
  /\ m_curSessionID + Count(queue, Creating) + InStore + SetUp
       + (MaxCommands["StartSession"] - commands["StartSession"]) <= MaxCreated

\* The sessions that may set a timer before the wake-up of s is handled.
MayArm(s) == {t \in Sids \ {s} : \/ t \notin Known
                                 \/ InScript(t) \/ InHand(t)
                                 \/ Before(queue, TimeOut(t), TimeOut(s))}
Coming(s) == Queued(s) \/ InHand(s)

\* The id that s holds on to is free, and is not handed out before s is through
\* with it: no more sessions may take an id than there are in front of it.
StaleInv ==
  \A s \in Sids : Coming(s) =>
    \E p \in 1 .. Len(m_freeTimers) :
      m_freeTimers[p] = m_timerID[s] /\ Cardinality(MayArm(s)) < p

WaitInv == \A s \in Sids : Waiting(s) /\ s \notin lost => Ticking(s) \/ Coming(s)

ServiceInv ==
  /\ ServiceTypeOK
  /\ StageInv /\ MessageInv /\ PullInv /\ TableInv /\ BudgetInv
  /\ FreeInv /\ OwnerInv /\ SingleInv /\ StaleInv /\ WaitInv

-----------------------------------------------------------------------------
(* The constants, the messages, and how many timers are free.              *)

LEMMA Sizes ==
  /\ MaxCreated \in Nat \ {0} /\ 0 \in Timers
  /\ IsFiniteSet(Sids) /\ IsFiniteSet(Timers)
  /\ Cardinality(Timers) = MAX_TIMER_COUNT
  /\ MAX_TIMER_COUNT > MaxCreated
<1>1. MaxCommands["StartSession"] \in Nat
  BY ServiceAssumption DEF Commands
<1>2. MaxCreated \in Nat \ {0} /\ MAX_TIMER_COUNT \in Nat /\ MAX_TIMER_COUNT > MaxCreated
  BY <1>1, ServiceAssumption DEF MaxCreated
<1>3. IsFiniteSet(1 .. MaxCreated)
  BY <1>2, FS_Interval
<1>4. 0 \in Int /\ MAX_TIMER_COUNT - 1 \in Int /\ ~(0 > MAX_TIMER_COUNT - 1)
  BY <1>2
<1>5. IsFiniteSet(Timers) /\ Cardinality(Timers) = (MAX_TIMER_COUNT - 1) - 0 + 1
  BY <1>4, FS_Interval DEF Timers
<1> QED
  BY <1>2, <1>3, <1>4, <1>5 DEF Sids, Timers

LEMMA MessageTypes ==
  ASSUME ServiceTypeOK
  PROVE  /\ Known \subseteq Sids /\ Formed \subseteq Messages
         /\ \A s \in Sids : TimeOut(s) \in Messages /\ TimeOut(s) # NoMessage
                           /\ TimeOut(s) \notin Creating
         /\ \A s, t \in Sids : TimeOut(s) = TimeOut(t) => s = t
         /\ NoMessage \notin Messages
<1>1. Known \subseteq Sids
  BY Sizes DEF ServiceTypeOK, Known, Sids
<1> QED
  BY <1>1 DEF Formed, Messages, Message, TimeOut, Creating, Work, NoMessage

\* The sessions with a running timer, or 0 for the timer of init, are told apart
\* by it.
LEMMA Owners ==
  ASSUME ServiceTypeOK, MessageInv, OwnerInv
  PROVE  LET busy == {id \in Timers : task[id] # NoMessage}
             of   == [id \in busy |-> task[id].sid]
         IN  /\ of \in Injection(busy, 0 .. MaxCreated)
             /\ \A id \in busy : of[id] = 0 \/ (of[id] \in Sids /\ Ticking(of[id]))
<1> DEFINE busy == {id \in Timers : task[id] # NoMessage}
           of   == [id \in busy |-> task[id].sid]
<1>1. ASSUME NEW id \in busy
      PROVE  \/ task[id] = Work /\ task[id].sid = 0
             \/ task[id].sid \in Sids /\ task[id] = TimeOut(task[id].sid)
  <2>1. task[id] = Work \/ \E s \in Known : task[id] = TimeOut(s)
    BY DEF MessageInv
  <2>2. \A s \in Known : TimeOut(s).sid = s /\ s \in Sids
    BY MessageTypes DEF TimeOut, Message
  <2> QED
    BY <2>1, <2>2 DEF Work, Message
<1>2. \A id \in busy : task[id].sid \in 0 .. MaxCreated
  BY <1>1, Sizes DEF Sids
<1>3. ASSUME NEW id \in busy, NEW other \in busy, task[id].sid = task[other].sid
      PROVE  id = other
  <2>1. 0 \notin Sids
    BY Sizes DEF Sids
  <2>2. CASE task[id].sid = 0
    BY <1>1, <1>3, <2>1, <2>2 DEF MessageInv
  <2>3. CASE task[id].sid # 0
    BY <1>1, <1>3, <2>3 DEF OwnerInv
  <2> QED
    BY <2>2, <2>3
<1>4. \A id \in busy : of[id] = 0 \/ (of[id] \in Sids /\ Ticking(of[id]))
  <2> SUFFICES ASSUME NEW id \in busy
               PROVE  task[id].sid = 0 \/ (task[id].sid \in Sids /\ Ticking(task[id].sid))
    OBVIOUS
  <2>1. id \in Timers
    OBVIOUS
  <2>2. CASE task[id] = Work /\ task[id].sid = 0
    BY <2>2
  <2>3. CASE task[id].sid \in Sids /\ task[id] = TimeOut(task[id].sid)
    <3> DEFINE s == task[id].sid
    <3> HIDE DEF s
    <3>1. s \in Sids /\ task[id] = TimeOut(s)
      BY <2>3 DEF s
    <3>2. Ticking(s)
      BY <2>1, <3>1 DEF Ticking
    <3> QED
      BY <3>1, <3>2 DEF s
  <2> QED
    BY <1>1, <2>2, <2>3
<1>5. of \in [busy -> 0 .. MaxCreated]
  BY <1>2
<1>6. \A id, other \in busy : of[id] = of[other] => id = other
  BY <1>3
<1> HIDE DEF busy, of
<1>7. of \in Injection(busy, 0 .. MaxCreated)
  BY <1>5, <1>6 DEF Injection, IsInjective
<1> QED
  BY <1>4, <1>7 DEF busy, of

\* No timer of the sessions in T runs, and there are as many free ids as sessions
\* in T, at least.
LEMMA FreeIds ==
  ASSUME ServiceTypeOK, MessageInv, OwnerInv, FreeInv,
         NEW T \in SUBSET Sids, \A s \in T : ~Ticking(s)
  PROVE  /\ IsFiniteSet(T) /\ Cardinality(T) \in Nat
         /\ Cardinality(T) <= Len(m_freeTimers) /\ Len(m_freeTimers) \in Nat
<1> DEFINE busy == {id \in Timers : task[id] # NoMessage}
           free == {id \in Timers : In(m_freeTimers, id)}
           of   == [id \in busy |-> task[id].sid]
           All  == 0 .. MaxCreated
<1>1. IsFiniteSet(T) /\ Cardinality(T) \in Nat
  BY Sizes, FS_Subset, FS_CardinalityType
<1>2. Len(m_freeTimers) = Cardinality(free)
  BY Sizes, OnceLength DEF ServiceTypeOK, FreeInv
<1>3. busy \cup free = Timers /\ busy \cap free = {}
  BY DEF FreeInv
<1>4. /\ IsFiniteSet(busy) /\ IsFiniteSet(free)
      /\ Cardinality(busy) \in Nat /\ Cardinality(free) \in Nat
  BY Sizes, FS_Subset, FS_CardinalityType
<1>5. Cardinality(busy) + Cardinality(free) = MAX_TIMER_COUNT
  <2>1. Cardinality(busy \cup free) = Cardinality(busy) + Cardinality(free) - Cardinality(busy \cap free)
    BY <1>4, FS_Union
  <2>2. Cardinality(busy \cap free) = 0
    BY <1>3, FS_EmptySet
  <2>3. Cardinality(busy \cup free) = MAX_TIMER_COUNT
    BY <1>3, Sizes
  <2> HIDE DEF busy, free
  <2> QED
    BY <1>4, <2>1, <2>2, <2>3
<1>6. IsFiniteSet(All) /\ Cardinality(All) = MaxCreated + 1
  BY Sizes, FS_Interval
<1>7. Sids \subseteq All
  BY Sizes DEF Sids
<1>8. Cardinality(busy) <= Cardinality(All \ T)
  <2>1. of \in Injection(busy, All) /\ \A id \in busy : of[id] \notin T
    <3>1. 0 \notin Sids
      BY Sizes DEF Sids
    <3>2. /\ of \in Injection(busy, All)
          /\ \A id \in busy : of[id] = 0 \/ (of[id] \in Sids /\ Ticking(of[id]))
      BY Owners
    <3> HIDE DEF busy, of, All
    <3> QED
      BY <3>1, <3>2
  <2> HIDE DEF busy, of, All
  <2>2. of \in Injection(busy, All \ T)
    BY <2>1 DEF Injection, IsInjective
  <2>3. IsFiniteSet(All \ T)
    BY <1>6, FS_Subset
  <2> QED
    BY <2>2, <2>3, FS_Injection
<1>9. Cardinality(All \ T) + Cardinality(T) = MaxCreated + 1
  <2> DEFINE rest == All \ T
  <2>1. rest \cup T = All /\ rest \cap T = {}
    BY <1>7
  <2>2. IsFiniteSet(rest) /\ Cardinality(rest) \in Nat
    BY <1>6, FS_Subset, FS_CardinalityType
  <2>3. Cardinality(rest \cup T) = Cardinality(rest) + Cardinality(T) - Cardinality(rest \cap T)
    BY <1>1, <2>2, FS_Union
  <2> HIDE DEF rest, All
  <2>4. MaxCreated + 1 = Cardinality(rest) + Cardinality(T) - 0
    BY <1>6, <2>1, <2>3, FS_EmptySet
  <2>5. MaxCreated + 1 = Cardinality(rest) + Cardinality(T)
    BY <1>1, <2>2, <2>4
  <2> QED
    BY <2>5 DEF rest
<1>10. Cardinality(All \ T) \in Nat
  BY <1>6, FS_Subset, FS_CardinalityType
<1> HIDE DEF busy, free, All
<1> QED
  BY <1>1, <1>2, <1>4, <1>5, <1>8, <1>9, <1>10, Sizes

-----------------------------------------------------------------------------
(* What a message posted or taken does to the wake-ups in the queue.       *)

WakeUpsKept ==
  /\ \A s \in Sids : /\ In(queue', TimeOut(s)) <=> In(queue, TimeOut(s))
                     /\ Single(queue', TimeOut(s)) <=> Single(queue, TimeOut(s))
  /\ \A s, t \in Sids : Before(queue', TimeOut(t), TimeOut(s))
                          <=> Before(queue, TimeOut(t), TimeOut(s))

LEMMA FrontPosted ==
  ASSUME ServiceTypeOK, NEW m \in Messages, m.kind # "TimeOut", postSelfMessage(m)
  PROVE  /\ queue' \in Seq(Messages) /\ Len(queue') <= SIZE_PER_QUEUE
         /\ hooked' = hooked /\ lost \subseteq lost' /\ lost' \subseteq Sids \cup {0}
         /\ \A x : In(queue', x) => x = m \/ In(queue, x)
         /\ WakeUpsKept
         /\ Count(queue, Creating) \in Nat /\ Count(queue', Creating) \in Nat
         /\ Count(queue', Creating) <= Count(queue, Creating) + IF m \in Creating THEN 1 ELSE 0
<1>1. queue \in Seq(Messages) /\ Len(queue) <= SIZE_PER_QUEUE /\ Len(queue) \in Nat
      /\ SIZE_PER_QUEUE \in Nat
  BY ServiceAssumption, LenProperties DEF ServiceTypeOK
<1>2. m.sid \in Sids \cup {0}
  BY DEF Messages
<1>3. /\ hooked' = hooked /\ lost \subseteq lost' /\ lost' \subseteq Sids \cup {0}
  BY <1>2 DEF postSelfMessage, post, ServiceTypeOK
<1>4. Count(queue, Creating) \in Nat
  BY <1>1, CountType
<1>5. \A s \in Sids : TimeOut(s) # m
  BY DEF TimeOut, Message
<1>6. CASE queue' = queue
  BY <1>1, <1>3, <1>4, <1>6 DEF WakeUpsKept
<1>7. CASE queue' # queue
  <2> DEFINE g == <<m>> \o queue
  <2>1. queue' = g /\ Len(queue) # SIZE_PER_QUEUE
    BY <1>7 DEF postSelfMessage, post
  <2>2. ASSUME NEW x, NEW y
        PROVE  /\ g \in Seq(Messages) /\ Len(g) = Len(queue) + 1
               /\ In(g, x) <=> x = m \/ In(queue, x)
               /\ Single(g, x) <=> Single(queue, x) /\ ~(x = m /\ In(queue, x))
               /\ Before(g, x, y) <=> Before(queue, x, y) \/ (x = m /\ In(queue, y))
    BY <1>1, PutInFront
  <2>3. /\ Count(g, Creating) = IF m \in Creating THEN Count(queue, Creating) + 1
                                                  ELSE Count(queue, Creating)
        /\ Count(g, Creating) \in Nat
    BY <1>1, <2>2, CountInFront, CountType
  <2> HIDE DEF g
  <2>4. Len(queue') <= SIZE_PER_QUEUE /\ queue' \in Seq(Messages)
    BY <1>1, <2>1, <2>2
  <2>5. WakeUpsKept
    BY <1>5, <2>1, <2>2 DEF WakeUpsKept
  <2>6. \A x : In(queue', x) => x = m \/ In(queue, x)
    BY <2>1, <2>2
  <2> QED
    BY <1>3, <1>4, <2>1, <2>3, <2>4, <2>5, <2>6
<1> QED
  BY <1>6, <1>7

LEMMA StaleKept ==
  ASSUME ServiceTypeOK, StaleInv, NEW s \in Sids, Coming(s),
         NEW T \in SUBSET MayArm(s), m_timerID'[s] = m_timerID[s],
         \/ m_freeTimers' = m_freeTimers
         \/ \E id \in Timers : m_freeTimers' = Append(m_freeTimers, id)
  PROVE  \E p \in 1 .. Len(m_freeTimers') :
           m_freeTimers'[p] = m_timerID'[s] /\ Cardinality(T) < p
<1>1. PICK p \in 1 .. Len(m_freeTimers) :
        m_freeTimers[p] = m_timerID[s] /\ Cardinality(MayArm(s)) < p
  BY DEF StaleInv
<1>2. IsFiniteSet(MayArm(s))
  BY Sizes, FS_Subset DEF MayArm
<1>3. /\ Cardinality(T) <= Cardinality(MayArm(s))
      /\ Cardinality(T) \in Nat /\ Cardinality(MayArm(s)) \in Nat
  BY <1>2, FS_Subset, FS_CardinalityType
<1>4. m_freeTimers \in Seq(Timers) /\ Len(m_freeTimers) \in Nat
  BY LenProperties DEF ServiceTypeOK
<1>5. p \in 1 .. Len(m_freeTimers') /\ m_freeTimers'[p] = m_freeTimers[p]
  <2>1. CASE m_freeTimers' = m_freeTimers
    BY <2>1
  <2>2. ASSUME NEW id \in Timers, m_freeTimers' = Append(m_freeTimers, id)
        PROVE  p \in 1 .. Len(m_freeTimers') /\ m_freeTimers'[p] = m_freeTimers[p]
    BY <1>4, <2>2, AppendProperties
  <2> QED
    BY <2>1, <2>2
<1> QED
  BY <1>1, <1>3, <1>4, <1>5

-----------------------------------------------------------------------------
(* Steps that leave the timers and the sessions' functions alone, after    *)
(* which the pull thread is where it was, or has nothing in hand.          *)

Eases ==
  /\ UNCHANGED <<timers, m_curSessionID, m_timerID, m_rules>>
  /\ lost \subseteq lost' /\ m_sessionTable' \subseteq m_sessionTable
  /\ \/ UNCHANGED <<pull, utm, func>>
     \/ /\ pull' \notin {"handle", "script"} /\ func' = NoFunc
        /\ \A s \in Sids : InHand(s) => ~Waiting(s)

LEMMA Eased ==
  ASSUME ServiceInv, Eases, WakeUpsKept
  PROVE  PullInv' /\ FreeInv' /\ OwnerInv' /\ SingleInv' /\ StaleInv' /\ WaitInv'
<1>1. /\ PullInv /\ FreeInv /\ OwnerInv /\ SingleInv /\ StaleInv /\ WaitInv /\ ServiceTypeOK
      /\ UNCHANGED <<task, m_freeTimers, m_curSessionID, m_timerID, m_rules>>
  BY DEF ServiceInv, Eases, timers
<1>2. Known' = Known
  BY <1>1 DEF Known
<1>3. PullInv'
  BY <1>1, <1>2 DEF PullInv, Eases, Formed, Creating, Work
<1>4. FreeInv' /\ OwnerInv'
  BY <1>1 DEF FreeInv, OwnerInv
<1>5. \A s \in Sids : /\ Ticking(s)' <=> Ticking(s)
                      /\ InHand(s)' => InHand(s)
                      /\ InScript(s)' => InScript(s)
                      /\ Queued(s)' <=> Queued(s)
                      /\ Coming(s)' => Coming(s)
  BY <1>1 DEF Ticking, InHand, InScript, Queued, Coming, Eases, WakeUpsKept
<1>6. SingleInv'
  BY <1>1, <1>5 DEF SingleInv, WakeUpsKept
<1>7. \A s \in Sids : MayArm(s)' \subseteq MayArm(s)
  BY <1>2, <1>5 DEF MayArm, WakeUpsKept
<1>8. StaleInv'
  BY <1>1, <1>5, <1>7, StaleKept DEF StaleInv
<1>9. WaitInv'
  <2> SUFFICES ASSUME NEW s \in Sids, Waiting(s)', s \notin lost'
               PROVE  Ticking(s)' \/ Coming(s)'
    BY DEF WaitInv
  <2>1. Waiting(s) /\ s \notin lost
    BY <1>1 DEF Waiting, Eases
  <2>2. Ticking(s) \/ Queued(s) \/ InHand(s)
    BY <1>1, <2>1 DEF WaitInv, Coming
  <2>3. InHand(s) => InHand(s)'
    BY <2>1 DEF Eases, InHand
  <2> QED
    BY <1>5, <2>2, <2>3 DEF Coming
<1> QED
  BY <1>3, <1>4, <1>6, <1>8, <1>9

\* The parts of the invariant that Eased leaves to each step.
Rest == ServiceTypeOK /\ StageInv /\ MessageInv /\ TableInv /\ BudgetInv

LEMMA Together ==
  ASSUME ServiceInv, Eases, WakeUpsKept, Rest'
  PROVE  ServiceInv'
BY Eased DEF ServiceInv, Rest

LEMMA Unposted == queue' = queue => WakeUpsKept
BY DEF WakeUpsKept

LEMMA MessagesKept ==
  ASSUME MessageInv, UNCHANGED <<task, m_curSessionID>>,
         \A x : In(queue', x) => In(queue, x) \/ x \in Formed
  PROVE  MessageInv'
<1>1. Formed' = Formed /\ Known' = Known
  BY DEF Formed, Known, Creating, Work
<1>2. \A x : In(queue, x) => x \in Formed
  BY DEF MessageInv, In
<1>3. \A i \in 1 .. Len(queue') : In(queue', queue'[i])
  BY DEF In
<1> QED
  BY <1>1, <1>2, <1>3 DEF MessageInv, Work

LEMMA BudgetTypes ==
  ASSUME ServiceTypeOK
  PROVE  /\ m_curSessionID \in Nat /\ Count(queue, Creating) \in Nat
         /\ InStore \in {0, 1} /\ SetUp \in {0, 1}
         /\ commands["StartSession"] \in Nat /\ MaxCommands["StartSession"] \in Nat
         /\ MaxCreated \in Nat
<1>1. queue \in Seq(Messages)
  BY DEF ServiceTypeOK
<1> QED
  BY <1>1, CountType, Sizes, ServiceAssumption DEF ServiceTypeOK, InStore, SetUp, Commands

\* No session is created that was not counted.
LEMMA BudgetKept ==
  ASSUME ServiceTypeOK, BudgetInv, m_curSessionID' = m_curSessionID,
         commands'["StartSession"] = commands["StartSession"],
         Count(queue', Creating) \in Nat,
         Count(queue', Creating) + InStore' + SetUp' <= Count(queue, Creating) + InStore + SetUp
  PROVE  BudgetInv'
<1> DEFINE c == commands["StartSession"]
           left == MaxCommands["StartSession"] - c
           n == Count(queue, Creating) + InStore + SetUp
           k == Count(queue', Creating) + InStore' + SetUp'
<1>1. InStore' \in {0, 1} /\ SetUp' \in {0, 1}
  BY DEF InStore, SetUp
<1>2. n \in Nat /\ k \in Nat /\ k <= n /\ left \in Int /\ m_curSessionID \in Nat /\ MaxCreated \in Nat
  BY <1>1, BudgetTypes
<1>3. m_curSessionID + Count(queue, Creating) + InStore + SetUp + left = m_curSessionID + n + left
  BY <1>2, BudgetTypes
<1>4. m_curSessionID + Count(queue', Creating) + InStore' + SetUp' + left = m_curSessionID + k + left
  BY <1>1, <1>2
<1>5. m_curSessionID + n + left <= MaxCreated
  BY <1>3 DEF BudgetInv
<1> HIDE DEF n, k, left
<1>6. m_curSessionID + k + left <= MaxCreated
  BY <1>2, <1>5
<1> QED
  BY <1>4, <1>6 DEF BudgetInv, left

\* The main thread, as far as it posts nothing and sets no timer.
LEMMA MainSteps ==
  ASSUME ServiceInv, Hook \/ StartPull \/ Quit \/ ClearAll \/ Join \/ StopDispatcher
  PROVE  ServiceInv'
<1>1. /\ ServiceTypeOK /\ StageInv /\ MessageInv /\ TableInv /\ BudgetInv /\ PullInv
      /\ UNCHANGED <<queue, lost, commands, utm, func, task, m_freeTimers>>
      /\ UNCHANGED <<m_curSessionID, m_timerID, m_rules>>
  BY DEF ServiceInv, Hook, StartPull, Quit, ClearAll, Join, StopDispatcher, addHook, mtl, thread, timers, sessions,
     Erase
<1>2. /\ m_sessionTable' \subseteq m_sessionTable
      /\ deleted' \subseteq deleted \cup (m_sessionTable \ m_sessionTable')
  BY DEF Hook, StartPull, Quit, ClearAll, Join, StopDispatcher, Erase, sessions
<1>3. ServiceTypeOK'
  BY <1>1, <1>2 DEF ServiceTypeOK, Hook, StartPull, Quit, ClearAll, Join, StopDispatcher, AfterUninit, addHook,
     thread, mtl
<1>4. StageInv'
  BY <1>1 DEF StageInv, Beginning, Hook, StartPull, Quit, ClearAll, Join, StopDispatcher, AfterUninit, addHook,
     thread, mtl
<1>5. MessageInv'
  BY <1>1, MessagesKept
<1>6. TableInv'
  BY <1>1, <1>2 DEF TableInv, Known
<1>7. SetUp' = SetUp /\ InStore' = InStore
  BY <1>1 DEF SetUp, InStore, Hook, StartPull, Quit, ClearAll, Join, StopDispatcher, AfterUninit, addHook,
     thread, StageInv, Beginning
<1>8. BudgetInv'
  BY <1>1, <1>7 DEF BudgetInv
<1>9. Eases
  BY <1>1, <1>2 DEF Eases, Hook, StartPull, Quit, ClearAll, Join, StopDispatcher, timers, thread, StageInv,
     Beginning, PullInv, InHand
<1> QED
  BY <1>1, <1>3, <1>4, <1>5, <1>6, <1>8, <1>9, Unposted, Together DEF Rest

\* The pull thread, where it posts nothing, creates nothing and sets no timer.
PullRests(s, o) ==
  \/ Check \/ onOther \/ onKillSession
  \/ /\ pull = "script" /\ s = utm.sid /\ o \in Body[func]
     /\ Dies(o, s) \/ (Done /\ UNCHANGED main /\ (Unarmed \/ FailsInBegin(s)))

LEMMA RestSteps ==
  ASSUME ServiceInv, NEW s, NEW o, PullRests(s, o), UNCHANGED <<commands, m_stopSignaled>>
  PROVE  ServiceInv'
<1>1. /\ ServiceTypeOK /\ StageInv /\ MessageInv /\ TableInv /\ BudgetInv /\ PullInv
      /\ UNCHANGED <<queue, lost, hooked, task, m_freeTimers>>
      /\ UNCHANGED <<m_curSessionID, m_timerID, m_rules>>
  BY DEF ServiceInv, PullRests, Check, onOther, onKillSession, Dies, Unarmed, FailsInBegin,
     mtl, timers, sessions, Erase
<1>2. /\ m_sessionTable' \subseteq m_sessionTable
      /\ deleted' \subseteq deleted \cup (m_sessionTable \ m_sessionTable')
  BY DEF PullRests, Check, onOther, onKillSession, Dies, Unarmed, FailsInBegin, Erase, sessions
<1>3. \/ main' = main
      \/ main' = "dead" /\ UNCHANGED <<pull, utm, func>> /\ pull = "script"
  BY DEF PullRests, Check, onOther, onKillSession, Dies, Unarmed, FailsInBegin, thread
<1>4. \/ UNCHANGED <<pull, utm, func>>
      \/ /\ pull # "off" /\ pull' \in {"check", "get", "ended"} /\ func' = NoFunc
         /\ utm' \in {utm, NoMessage}
         /\ \A t \in Sids : ~InHand(t)
  BY <1>1 DEF PullRests, Check, onOther, onKillSession, Dies, Unarmed, FailsInBegin, thread,
     Done, Handling, InHand, TimeOut, Message, PullInv
<1>5. ServiceTypeOK'
  BY <1>1, <1>2, <1>3, <1>4 DEF ServiceTypeOK
<1>6. StageInv'
  BY <1>1, <1>3, <1>4 DEF StageInv, Beginning
<1>7. MessageInv'
  BY <1>1, MessagesKept
<1>8. TableInv'
  BY <1>1, <1>2 DEF TableInv, Known
<1>9. SetUp' = SetUp /\ (InStore' = InStore \/ InStore' = 0)
  BY <1>1, <1>3, <1>4 DEF SetUp, InStore, StageInv, Beginning
<1>10. BudgetInv'
  <2>1. InStore' + SetUp' <= InStore + SetUp
    BY <1>1, <1>9, BudgetTypes
  <2> QED
    BY <1>1, <1>9, <2>1, BudgetTypes, BudgetKept
<1>11. Eases
  BY <1>1, <1>2, <1>4 DEF Eases, timers
<1> QED
  BY <1>1, <1>5, <1>6, <1>7, <1>8, <1>10, <1>11, Unposted, Together DEF Rest

\* The steps that post a message in front of the queue.
LEMMA CommandStep ==
  ASSUME ServiceInv, handleUICommand
  PROVE  ServiceInv'
<1>1. PICK c \in Commands : /\ commands[c] < MaxCommands[c]
                            /\ commands' = [commands EXCEPT ![c] = @ + 1]
                            /\ postSelfMessage(Message(c, 0))
  BY DEF handleUICommand
<1> DEFINE m == Message(c, 0)
<1>2. /\ ServiceTypeOK /\ StageInv /\ MessageInv /\ TableInv /\ BudgetInv /\ main = "running"
      /\ UNCHANGED <<main, pull, utm, func, task, m_freeTimers>>
      /\ UNCHANGED <<m_stopSignaled, m_curSessionID, m_sessionTable, deleted, m_timerID, m_rules>>
  BY DEF ServiceInv, handleUICommand, thread, timers, sessions
<1>3. /\ m \in Formed /\ m \in Messages /\ m.kind # "TimeOut"
      /\ m \in Creating => c = "StartSession"
  BY DEF Commands, Formed, Creating, Messages, Message, Work
<1>4. /\ queue' \in Seq(Messages) /\ Len(queue') <= SIZE_PER_QUEUE
      /\ hooked' = hooked /\ lost \subseteq lost' /\ lost' \subseteq Sids \cup {0}
      /\ \A x : In(queue', x) => x = m \/ In(queue, x)
      /\ WakeUpsKept
      /\ Count(queue, Creating) \in Nat /\ Count(queue', Creating) \in Nat
      /\ Count(queue', Creating) <= Count(queue, Creating) + IF m \in Creating THEN 1 ELSE 0
  BY <1>1, <1>2, <1>3, FrontPosted
<1> HIDE DEF m
<1>5. commands' \in [Commands -> Nat] /\ commands \in [Commands -> Nat]
  <2>1. commands \in [Commands -> Nat] /\ commands[c] + 1 \in Nat
    BY <1>2 DEF ServiceTypeOK
  <2> QED
    BY <1>1, <2>1
<1>6. ServiceTypeOK'
  BY <1>2, <1>4, <1>5 DEF ServiceTypeOK
<1>7. StageInv'
  BY <1>2, <1>4 DEF StageInv, Beginning
<1>8. MessageInv'
  BY <1>2, <1>3, <1>4, MessagesKept
<1>9. TableInv'
  BY <1>2 DEF TableInv, Known
<1>10. BudgetInv'
  <2>1. InStore' = InStore /\ SetUp' = SetUp
    BY <1>2 DEF InStore, SetUp
  <2>2. commands'["StartSession"] = IF c = "StartSession" THEN commands["StartSession"] + 1
                                                         ELSE commands["StartSession"]
    BY <1>1, <1>5 DEF Commands
  <2>3. CASE c = "StartSession"
    <3>1. /\ commands["StartSession"] < MaxCommands["StartSession"]
          /\ commands'["StartSession"] = commands["StartSession"] + 1
      BY <1>1, <2>2, <2>3
    <3>2. Count(queue', Creating) <= Count(queue, Creating) + 1
      BY <1>4
    <3>3. m_curSessionID' = m_curSessionID
      BY <1>2
    <3>4. commands'["StartSession"] <= MaxCommands["StartSession"]
      BY <1>2, <3>1, BudgetTypes
    <3>5. Count(queue', Creating) + (MaxCommands["StartSession"] - commands'["StartSession"])
            <= Count(queue, Creating) + (MaxCommands["StartSession"] - commands["StartSession"])
      BY <1>2, <1>4, <3>1, <3>2, BudgetTypes
    <3>6. commands'["StartSession"] \in Nat
      BY <1>2, <3>1, BudgetTypes
    <3>7. BudgetInv /\ ServiceTypeOK /\ Count(queue', Creating) \in Nat
      BY <1>2, <1>4
    <3> QED
      BY <2>1, <3>3, <3>4, <3>5, <3>6, <3>7, BudgetTypes DEF BudgetInv
  <2>4. CASE c # "StartSession"
    <3>1. Count(queue', Creating) \in Nat /\ Count(queue', Creating) <= Count(queue, Creating)
      BY <1>3, <1>4, <2>4
    <3>2. Count(queue', Creating) + InStore' + SetUp' <= Count(queue, Creating) + InStore + SetUp
      BY <1>2, <2>1, <3>1, BudgetTypes
    <3>3. BudgetInv /\ ServiceTypeOK /\ m_curSessionID' = m_curSessionID
          /\ commands'["StartSession"] = commands["StartSession"]
      BY <1>2, <2>2, <2>4
    <3> QED
      BY <2>1, <3>1, <3>3, BudgetTypes, BudgetKept
  <2> QED
    BY <2>3, <2>4
<1>11. Eases
  BY <1>2, <1>4 DEF Eases, timers
<1> QED
  BY <1>4, <1>6, <1>7, <1>8, <1>9, <1>10, <1>11, Together DEF Rest

LEMMA StopStep ==
  ASSUME ServiceInv, Stop
  PROVE  ServiceInv'
<1> DEFINE m == Message("StopPull", 0)
<1>1. /\ ServiceTypeOK /\ StageInv /\ MessageInv /\ TableInv /\ BudgetInv
      /\ main = "stop" /\ main' = "join" /\ m_stopSignaled' = TRUE /\ postSelfMessage(m)
      /\ UNCHANGED <<commands, pull, utm, func, task, m_freeTimers>>
      /\ UNCHANGED <<m_curSessionID, m_sessionTable, deleted, m_timerID, m_rules>>
  BY DEF ServiceInv, Stop, SignalStop, thread, timers, sessions
<1>2. m \in Formed /\ m \in Messages /\ m.kind # "TimeOut" /\ m \notin Creating
  BY DEF Formed, Creating, Messages, Message, Work
<1>3. /\ queue' \in Seq(Messages) /\ Len(queue') <= SIZE_PER_QUEUE
      /\ hooked' = hooked /\ lost \subseteq lost' /\ lost' \subseteq Sids \cup {0}
      /\ \A x : In(queue', x) => x = m \/ In(queue, x)
      /\ WakeUpsKept
      /\ Count(queue, Creating) \in Nat /\ Count(queue', Creating) \in Nat
      /\ Count(queue', Creating) <= Count(queue, Creating)
  BY <1>1, <1>2, FrontPosted
<1> HIDE DEF m
<1>4. ServiceTypeOK'
  BY <1>1, <1>3 DEF ServiceTypeOK
<1>5. StageInv'
  BY <1>1, <1>3 DEF StageInv, Beginning
<1>6. MessageInv'
  BY <1>1, <1>2, <1>3, MessagesKept
<1>7. TableInv'
  BY <1>1 DEF TableInv, Known
<1>8. BudgetInv'
  <2>1. InStore' = InStore /\ SetUp' = SetUp
    BY <1>1 DEF InStore, SetUp
  <2>2. Count(queue', Creating) + InStore' + SetUp' <= Count(queue, Creating) + InStore + SetUp
    BY <1>1, <1>3, <2>1, BudgetTypes
  <2> QED
    BY <1>1, <1>3, <2>2, BudgetKept
<1>9. Eases
  BY <1>1, <1>3 DEF Eases, timers
<1> QED
  BY <1>3, <1>4, <1>5, <1>6, <1>7, <1>8, <1>9, Together DEF Rest

\* In the script a session has no timer to stop.
LEMMA NothingToStop ==
  ASSUME ServiceTypeOK, NEW s \in Sids, m_timerID[s] = 0, StopTimer(s)
  PROVE  UNCHANGED <<task, m_freeTimers, m_timerID>>
<1>1. m_timerID \in [Sids -> Timers]
  BY DEF ServiceTypeOK
<1> QED
  BY <1>1 DEF StopTimer, timers

LEMMA PullPosts ==
  ASSUME ServiceInv, UNCHANGED <<commands, m_stopSignaled>>,
         \/ onStartWork
         \/ pull = "script" /\ Exit(utm.sid) /\ Done /\ UNCHANGED main
  PROVE  ServiceInv'
<1> DEFINE m == IF pull = "script" THEN Message("KillSession", utm.sid)
                                   ELSE Message("StartSession", 0)
<1>1. /\ ServiceTypeOK /\ StageInv /\ MessageInv /\ TableInv /\ BudgetInv /\ PullInv
      /\ Done /\ postSelfMessage(m) /\ pull # "off"
      /\ UNCHANGED <<main, commands, m_stopSignaled, m_curSessionID, m_sessionTable, deleted, m_rules>>
  BY DEF ServiceInv, onStartWork, Exit, sessions, Handling
<1>2. UNCHANGED <<task, m_freeTimers, m_timerID>>
  <2>1. CASE onStartWork
    BY <2>1 DEF onStartWork, timers, sessions
  <2>2. CASE pull = "script" /\ Exit(utm.sid)
    BY <1>1, <2>2, NothingToStop, MessageTypes DEF PullInv, Exit
  <2> QED
    BY <2>1, <2>2
<1>3. /\ m \in Formed /\ m.kind # "TimeOut"
      /\ m \in Creating => InStore = 1
  <2>1. CASE onStartWork
    <3>1. pull = "handle" /\ utm.kind = "StartWork" /\ utm \in Formed
      BY <1>1, <2>1 DEF onStartWork, Handling, PullInv
    <3>2. utm \in Creating
      BY <3>1 DEF Formed, Creating, Work, Message, TimeOut
    <3> QED
      BY <3>1, <3>2 DEF InStore, Formed, Creating, Message
  <2>2. CASE pull = "script"
    BY <1>1, <2>2 DEF PullInv, Formed, Creating, Message, Work
  <2> QED
    BY <2>1, <2>2
<1>4. m \in Messages
  BY <1>1, <1>3, MessageTypes
<1>5. /\ queue' \in Seq(Messages) /\ Len(queue') <= SIZE_PER_QUEUE
      /\ hooked' = hooked /\ lost \subseteq lost' /\ lost' \subseteq Sids \cup {0}
      /\ \A x : In(queue', x) => x = m \/ In(queue, x)
      /\ WakeUpsKept
      /\ Count(queue, Creating) \in Nat /\ Count(queue', Creating) \in Nat
      /\ Count(queue', Creating) <= Count(queue, Creating) + IF m \in Creating THEN 1 ELSE 0
  BY <1>1, <1>3, <1>4, FrontPosted
<1>6. \A t \in Sids : ~InHand(t)
  BY DEF onStartWork, Handling, InHand, TimeOut, Message
<1> HIDE DEF m
<1>7. ServiceTypeOK'
  BY <1>1, <1>2, <1>5 DEF ServiceTypeOK, Done
<1>8. StageInv'
  BY <1>1, <1>2, <1>5 DEF StageInv, Beginning, Done
<1>9. MessageInv'
  BY <1>1, <1>2, <1>3, <1>5, MessagesKept
<1>10. TableInv'
  BY <1>1, <1>2 DEF TableInv, Known
<1>11. BudgetInv'
  <2>1. InStore' = 0 /\ SetUp' = SetUp
    BY <1>1, <1>2 DEF InStore, SetUp, Done
  <2>2. Count(queue', Creating) <= Count(queue, Creating) + InStore
    BY <1>3, <1>5, BudgetTypes, <1>1
  <2>3. Count(queue', Creating) + InStore' + SetUp' <= Count(queue, Creating) + InStore + SetUp
    BY <1>1, <1>5, <2>1, <2>2, BudgetTypes
  <2> QED
    BY <1>1, <1>5, <2>3, BudgetKept
<1>12. Eases
  BY <1>1, <1>2, <1>5, <1>6 DEF Eases, timers, Done
<1> QED
  BY <1>5, <1>7, <1>8, <1>9, <1>10, <1>11, <1>12, Together DEF Rest

-----------------------------------------------------------------------------
(* The pull thread takes a message.                                        *)

LEMMA GetStep ==
  ASSUME ServiceInv, getMessage, UNCHANGED <<commands, m_stopSignaled>>
  PROVE  ServiceInv'
<1> DEFINE h == Head(queue)
           t == Tail(queue)
<1>1. /\ ServiceTypeOK /\ StageInv /\ MessageInv /\ TableInv /\ BudgetInv /\ PullInv
      /\ FreeInv /\ OwnerInv /\ SingleInv /\ StaleInv /\ WaitInv
      /\ pull = "get" /\ queue # <<>> /\ utm' = h /\ queue' = t /\ pull' = "handle"
      /\ UNCHANGED <<main, hooked, lost, func, task, m_freeTimers>>
      /\ UNCHANGED <<m_curSessionID, m_sessionTable, deleted, m_timerID, m_rules>>
  BY DEF ServiceInv, getMessage, timers, sessions
<1>2. /\ queue \in Seq(Messages) /\ h \in Messages /\ t \in Seq(Messages)
      /\ queue = <<h>> \o t /\ Len(queue) = Len(t) + 1 /\ Len(t) \in Nat
  BY <1>1, FirstOut, LenProperties DEF ServiceTypeOK
<1> HIDE DEF h, t
<1>3. ASSUME NEW x, NEW y
      PROVE  /\ In(queue, x) <=> x = h \/ In(t, x)
             /\ Single(queue, x) <=> Single(t, x) /\ ~(x = h /\ In(t, x))
             /\ Before(queue, x, y) <=> Before(t, x, y) \/ (x = h /\ In(t, y))
  BY <1>2, PutInFront
<1>4. Count(queue, Creating) = IF h \in Creating THEN Count(t, Creating) + 1
                                                 ELSE Count(t, Creating)
  BY <1>2, CountInFront
<1>5. /\ Known' = Known /\ Formed' = Formed
      /\ \A s \in Sids : /\ Ticking(s)' <=> Ticking(s)
                         /\ InHand(s)' <=> h = TimeOut(s)
                         /\ ~InScript(s)' /\ ~InScript(s) /\ ~InHand(s)
                         /\ Queued(s)' <=> In(t, TimeOut(s))
                         /\ Queued(s) <=> h = TimeOut(s) \/ In(t, TimeOut(s))
  BY <1>1, <1>3 DEF Known, Formed, Creating, Work, Ticking, InHand, InScript, Queued
<1>6. ServiceTypeOK'
  BY <1>1, <1>2, ServiceAssumption DEF ServiceTypeOK
<1>7. StageInv'
  BY <1>1 DEF StageInv, Beginning
<1>8. MessageInv'
  BY <1>1, <1>3, MessagesKept
<1>9. PullInv'
  <2>1. \A x : In(queue, x) => x \in Formed
    BY <1>1 DEF MessageInv, In
  <2>2. h \in Formed
    BY <1>3, <2>1
  <2> QED
    BY <1>1, <1>5, <2>2 DEF PullInv
<1>10. TableInv' /\ FreeInv' /\ OwnerInv'
  BY <1>1, <1>5 DEF TableInv, FreeInv, OwnerInv
<1>11. SingleInv'
  BY <1>1, <1>3, <1>5 DEF SingleInv, Queued
<1>12. BudgetInv'
  <2>1. SetUp' = SetUp /\ InStore = 0 /\ InStore' = IF h \in Creating THEN 1 ELSE 0
    BY <1>1 DEF SetUp, InStore
  <2>2. Count(t, Creating) \in Nat
    BY <1>2, CountType
  <2>3. Count(queue', Creating) + InStore' + SetUp' <= Count(queue, Creating) + InStore + SetUp
    BY <1>1, <1>4, <2>1, <2>2, BudgetTypes
  <2> QED
    BY <1>1, <2>2, <2>3, BudgetKept
<1>13. \A s \in Sids : Coming(s)' => Coming(s)
  BY <1>5 DEF Coming
<1>14. ASSUME NEW s \in Sids, Coming(s)'
       PROVE  MayArm(s)' \subseteq MayArm(s)
  <2> SUFFICES ASSUME NEW r \in Sids \ {s}, r \in MayArm(s)'
               PROVE  r \in MayArm(s)
    BY DEF MayArm
  <2>1. CASE r \notin Known'
    BY <1>5, <2>1 DEF MayArm
  <2>2. CASE InHand(r)'
    <3>1. h = TimeOut(r) /\ TimeOut(r) # TimeOut(s)
      BY <1>1, <1>5, <2>2, MessageTypes
    <3>2. In(t, TimeOut(s))
      BY <1>5, <1>14, <3>1 DEF Coming
    <3> QED
      BY <1>3, <3>1, <3>2 DEF MayArm
  <2>3. CASE Before(t, TimeOut(r), TimeOut(s))
    BY <1>3, <2>3 DEF MayArm
  <2> QED
    BY <1>1, <1>5, <2>1, <2>2, <2>3 DEF MayArm
<1>15. StaleInv'
  BY <1>1, <1>13, <1>14, StaleKept DEF StaleInv
<1>16. WaitInv'
  BY <1>1, <1>5 DEF WaitInv, Waiting, Coming
<1> QED
  BY <1>6, <1>7, <1>8, <1>9, <1>10, <1>11, <1>12, <1>15, <1>16 DEF ServiceInv

-----------------------------------------------------------------------------
(* A timer fires.                                                          *)

\* The message of a timer, at the end of the queue or lost.
LEMMA BehindPosted ==
  ASSUME ServiceTypeOK, hooked, NEW m \in Messages, postMessage(m)
  PROVE  /\ queue' \in Seq(Messages) /\ Len(queue') <= SIZE_PER_QUEUE
         /\ hooked' = hooked /\ lost' \in {lost, lost \cup {m.sid}}
         /\ m.sid \in lost' \/ In(queue', m)
         /\ \A x : In(queue, x) => In(queue', x)
         /\ \A x : In(queue', x) => In(queue, x) \/ x = m
         /\ \A x : Single(queue, x) /\ ~(x = m /\ In(queue, m)) => Single(queue', x)
         /\ \A x, y : Before(queue', x, y) => Before(queue, x, y) \/ (y = m /\ In(queue, x))
         /\ Count(queue', Creating) \in Nat
         /\ Count(queue', Creating) <= Count(queue, Creating) + IF m \in Creating THEN 1 ELSE 0
<1>1. queue \in Seq(Messages) /\ Len(queue) <= SIZE_PER_QUEUE /\ Len(queue) \in Nat
      /\ SIZE_PER_QUEUE \in Nat /\ Count(queue, Creating) \in Nat
  BY ServiceAssumption, LenProperties, CountType DEF ServiceTypeOK
<1> DEFINE g == Append(queue, m)
<1>2. ASSUME NEW x, NEW y
      PROVE  /\ g \in Seq(Messages) /\ Len(g) = Len(queue) + 1
             /\ In(g, x) <=> x = m \/ In(queue, x)
             /\ Single(g, x) <=> Single(queue, x) /\ ~(x = m /\ In(queue, x))
             /\ Before(g, x, y) <=> Before(queue, x, y) \/ (y = m /\ In(queue, x))
  BY <1>1, PutBehind
<1>3. /\ Count(g, Creating) = IF m \in Creating THEN Count(queue, Creating) + 1
                                                ELSE Count(queue, Creating)
      /\ Count(g, Creating) \in Nat
  BY <1>1, <1>2, CountBehind, CountType
<1>4. \/ queue' = g /\ lost' = lost /\ Len(queue) # SIZE_PER_QUEUE
      \/ queue' = queue /\ lost' = lost \cup {m.sid}
  BY DEF postMessage, post
<1>5. hooked' = hooked
  BY DEF postMessage, post
<1> HIDE DEF g
<1>6. CASE queue' = g /\ lost' = lost /\ Len(queue) # SIZE_PER_QUEUE
  <2>1. queue' \in Seq(Messages) /\ Len(queue') <= SIZE_PER_QUEUE
    BY <1>1, <1>2, <1>6
  <2>2. /\ In(queue', m)
        /\ \A x : In(queue, x) => In(queue', x)
        /\ \A x : In(queue', x) => In(queue, x) \/ x = m
    BY <1>2, <1>6
  <2>3. \A x : Single(queue, x) /\ ~(x = m /\ In(queue, m)) => Single(queue', x)
    BY <1>2, <1>6
  <2>4. \A x, y : Before(queue', x, y) => Before(queue, x, y) \/ (y = m /\ In(queue, x))
    BY <1>2, <1>6
  <2>5. /\ Count(queue', Creating) \in Nat
        /\ Count(queue', Creating) <= Count(queue, Creating) + IF m \in Creating THEN 1 ELSE 0
    BY <1>1, <1>3, <1>6
  <2> QED
    BY <1>5, <1>6, <2>1, <2>2, <2>3, <2>4, <2>5
<1>7. CASE queue' = queue /\ lost' = lost \cup {m.sid}
  BY <1>1, <1>5, <1>7
<1> QED
  BY <1>4, <1>6, <1>7

LEMMA FireStep ==
  ASSUME ServiceInv, NEW id \in Timers, Timer(id)
  PROVE  ServiceInv'
<1> DEFINE m == task[id]
<1>1. /\ ServiceTypeOK /\ StageInv /\ MessageInv /\ TableInv /\ BudgetInv /\ PullInv
      /\ FreeInv /\ OwnerInv /\ SingleInv /\ StaleInv /\ WaitInv
      /\ m # NoMessage /\ postMessage(m)
      /\ task' = [task EXCEPT ![id] = NoMessage] /\ m_freeTimers' = Append(m_freeTimers, id)
      /\ UNCHANGED <<main, commands, m_stopSignaled, pull, utm, func>>
      /\ UNCHANGED <<m_curSessionID, m_sessionTable, deleted, m_timerID, m_rules>>
  BY DEF ServiceInv, Timer, Fire, console, thread, sessions
<1>2. hooked /\ main \notin {"hook", "init"}
  BY <1>1 DEF StageInv
<1>3. /\ m \in Messages /\ task \in [Timers -> Messages \cup {NoMessage}]
      /\ m_freeTimers \in Seq(Timers) /\ Len(m_freeTimers) \in Nat
  BY <1>1, LenProperties DEF ServiceTypeOK
<1>4. m = Work \/ \E s \in Known : m = TimeOut(s)
  BY <1>1 DEF MessageInv
<1> HIDE DEF m
<1>5. /\ queue' \in Seq(Messages) /\ Len(queue') <= SIZE_PER_QUEUE
      /\ hooked' = hooked /\ lost' \in {lost, lost \cup {m.sid}}
      /\ m.sid \in lost' \/ In(queue', m)
      /\ \A x : In(queue, x) => In(queue', x)
      /\ \A x : In(queue', x) => In(queue, x) \/ x = m
      /\ \A x : Single(queue, x) /\ ~(x = m /\ In(queue, m)) => Single(queue', x)
      /\ \A x, y : Before(queue', x, y) => Before(queue, x, y) \/ (y = m /\ In(queue, x))
      /\ Count(queue', Creating) \in Nat
      /\ Count(queue', Creating) <= Count(queue, Creating) + IF m \in Creating THEN 1 ELSE 0
  BY <1>1, <1>2, <1>3, BehindPosted
<1>6. /\ \A other \in Timers : task'[other] = IF other = id THEN NoMessage ELSE task[other]
      /\ task' \in [Timers -> Messages \cup {NoMessage}]
  BY <1>1, <1>3
<1>7. /\ m_freeTimers' \in Seq(Timers) /\ Len(m_freeTimers') = Len(m_freeTimers) + 1
      /\ m_freeTimers'[Len(m_freeTimers) + 1] = id
      /\ Once(m_freeTimers')
      /\ \A x : In(m_freeTimers', x) <=> x = id \/ In(m_freeTimers, x)
  <2>1. ~In(m_freeTimers, id)
    BY <1>1 DEF FreeInv, m
  <2>2. ASSUME NEW x
        PROVE  /\ m_freeTimers' \in Seq(Timers) /\ Len(m_freeTimers') = Len(m_freeTimers) + 1
               /\ In(m_freeTimers', x) <=> x = id \/ In(m_freeTimers, x)
               /\ Single(m_freeTimers', x) <=>
                    Single(m_freeTimers, x) /\ ~(x = id /\ In(m_freeTimers, x))
    BY <1>1, <1>3, PutBehind
  <2>3. m_freeTimers'[Len(m_freeTimers) + 1] = id
    BY <1>1, <1>3, AppendProperties
  <2>4. Once(m_freeTimers')
    BY <1>1, <2>1, <2>2, OnceSingle DEF FreeInv
  <2> QED
    BY <2>2, <2>3, <2>4
<1>8. FreeInv'
  BY <1>1, <1>6, <1>7, MessageTypes DEF FreeInv
<1>9. ServiceTypeOK'
  <2>1. Len(m_freeTimers') <= MAX_TIMER_COUNT
    <3>1. Len(m_freeTimers') = Cardinality({x \in Timers : In(m_freeTimers', x)})
      BY <1>7, Sizes, OnceLength
    <3>2. {x \in Timers : In(m_freeTimers', x)} \in SUBSET Timers
      OBVIOUS
    <3> QED
      BY <3>1, <3>2, Sizes, FS_Subset
  <2>2. m.sid \in Sids \cup {0}
    BY <1>3 DEF Messages
  <2> QED
    BY <1>1, <1>5, <1>6, <1>7, <2>1, <2>2 DEF ServiceTypeOK
<1>10. StageInv'
  BY <1>1, <1>2, <1>5 DEF StageInv, Beginning
<1>11. Known' = Known /\ Formed' = Formed /\ m \in Formed
  BY <1>1, <1>4 DEF Known, Formed, Creating, Work
<1>12. MessageInv'
  <2> \A x : In(queue, x) => x \in Formed
    BY <1>1 DEF MessageInv, In
  <2>1. \A x : In(queue', x) => x \in Formed
    BY <1>5, <1>11
  <2>2. \A i \in 1 .. Len(queue') : queue'[i] \in Formed
    BY <2>1 DEF In
  <2>3. Work # NoMessage
    BY DEF Work, NoMessage, Message
  <2> QED
    BY <1>1, <1>6, <1>11, <2>2, <2>3 DEF MessageInv
<1>13. PullInv' /\ TableInv'
  BY <1>1, <1>11 DEF PullInv, TableInv
<1>14. OwnerInv'
  BY <1>1, <1>6, MessageTypes DEF OwnerInv
<1>15. \A s \in Sids :
         /\ Ticking(s)' => Ticking(s) /\ m # TimeOut(s)
         /\ Ticking(s) => Ticking(s)' \/ m = TimeOut(s)
         /\ m = TimeOut(s) => Ticking(s) /\ m_timerID[s] = id /\ m.sid = s
         /\ InHand(s)' <=> InHand(s)
         /\ InScript(s)' <=> InScript(s)
         /\ Queued(s)' => Queued(s) \/ m = TimeOut(s)
         /\ Queued(s) => Queued(s)'
  <2> SUFFICES ASSUME NEW s \in Sids
               PROVE  /\ Ticking(s)' => Ticking(s) /\ m # TimeOut(s)
                      /\ Ticking(s) => Ticking(s)' \/ m = TimeOut(s)
                      /\ m = TimeOut(s) => Ticking(s) /\ m_timerID[s] = id /\ m.sid = s
                      /\ InHand(s)' <=> InHand(s)
                      /\ InScript(s)' <=> InScript(s)
                      /\ Queued(s)' => Queued(s) \/ m = TimeOut(s)
                      /\ Queued(s) => Queued(s)'
    OBVIOUS
  <2>1. TimeOut(s) # NoMessage /\ TimeOut(s).sid = s
    BY <1>1, MessageTypes DEF TimeOut, Message
  <2>2. m = TimeOut(s) => Ticking(s) /\ m_timerID[s] = id /\ m.sid = s
    BY <1>1, <2>1 DEF Ticking, OwnerInv, m
  <2>3. Ticking(s)' => Ticking(s) /\ m # TimeOut(s)
    <3>1. ASSUME NEW other \in Timers, task'[other] = TimeOut(s)
          PROVE  task[other] = TimeOut(s) /\ other # id
      BY <1>6, <2>1, <3>1
    <3>2. ASSUME Ticking(s)' PROVE Ticking(s) /\ m # TimeOut(s)
      <4>1. PICK other \in Timers : task'[other] = TimeOut(s)
        BY <3>2 DEF Ticking
      <4>2. task[other] = TimeOut(s) /\ other # id
        BY <3>1, <4>1
      <4> QED
        BY <1>1, <4>2 DEF Ticking, OwnerInv, m
    <3> QED
      BY <3>2
  <2>4. Ticking(s) => Ticking(s)' \/ m = TimeOut(s)
    BY <1>6 DEF Ticking, m
  <2> QED
    BY <1>1, <1>5, <2>2, <2>3, <2>4 DEF InHand, InScript, Queued
<1>16. SingleInv'
  <2> SUFFICES ASSUME NEW s \in Sids
               PROVE  /\ Single(queue', TimeOut(s))
                      /\ Ticking(s)' => ~Queued(s)' /\ ~InHand(s)' /\ ~InScript(s)'
                      /\ Queued(s)' => ~InHand(s)' /\ ~InScript(s)'
    BY DEF SingleInv
  <2>1. /\ Single(queue, TimeOut(s))
        /\ Ticking(s) => ~Queued(s) /\ ~InHand(s) /\ ~InScript(s)
        /\ Queued(s) => ~InHand(s) /\ ~InScript(s)
    BY <1>1 DEF SingleInv
  <2>2. Single(queue', TimeOut(s))
    BY <1>5, <1>15, <2>1 DEF Queued
  <2> QED
    BY <1>15, <2>1, <2>2
<1>17. BudgetInv'
  <2>1. InStore' = InStore
    BY <1>1 DEF InStore
  <2>2. CASE m = Work
    <3>1. SetUp = 1 /\ SetUp' = 0
      <4>1. Work # NoMessage
        BY DEF Work, NoMessage, Message
      <4>2. \A other \in Timers : task'[other] # Work
        BY <1>1, <1>6, <2>2, <4>1 DEF MessageInv, m
      <4> QED
        BY <1>1, <1>2, <2>2, <4>2 DEF SetUp, m
    <3>2. Count(queue', Creating) <= Count(queue, Creating) + 1
      BY <1>5, <2>2 DEF Creating
    <3>3. BudgetInv /\ ServiceTypeOK /\ Count(queue', Creating) \in Nat
          /\ UNCHANGED <<commands, m_curSessionID>>
      BY <1>1, <1>5
    <3>4. Count(queue', Creating) + InStore' + SetUp' <= Count(queue, Creating) + InStore + SetUp
      BY <2>1, <3>1, <3>2, <3>3, BudgetTypes
    <3> QED
      BY <3>3, <3>4, BudgetKept
  <2>3. CASE m # Work
    <3>1. m \notin Creating
      BY <1>1, <1>4, <2>3, MessageTypes
    <3>2. SetUp' = SetUp
      <4>1. \A other \in Timers : task'[other] = Work <=> task[other] = Work
        BY <1>6, <2>3 DEF Work, NoMessage, Message, m
      <4> QED
        BY <1>1, <4>1 DEF SetUp
    <3>3. Count(queue', Creating) <= Count(queue, Creating)
      BY <1>5, <3>1, <1>1, BudgetTypes
    <3>4. BudgetInv /\ ServiceTypeOK /\ Count(queue', Creating) \in Nat
          /\ UNCHANGED <<commands, m_curSessionID>>
      BY <1>1, <1>5
    <3>5. Count(queue', Creating) + InStore' + SetUp' <= Count(queue, Creating) + InStore + SetUp
      BY <2>1, <3>2, <3>3, <3>4, BudgetTypes
    <3> QED
      BY <3>4, <3>5, BudgetKept
  <2> QED
    BY <2>2, <2>3
<1>18. StaleInv'
  <2> SUFFICES ASSUME NEW s \in Sids, Coming(s)'
               PROVE  \E p \in 1 .. Len(m_freeTimers') :
                        m_freeTimers'[p] = m_timerID'[s] /\ Cardinality(MayArm(s)') < p
    BY DEF StaleInv
  <2>1. CASE m = TimeOut(s)
    <3>1. \A t \in MayArm(s)' : t \in Sids /\ ~Ticking(t)
      <4> SUFFICES ASSUME NEW t \in MayArm(s)' PROVE t \in Sids /\ ~Ticking(t)
        OBVIOUS
      <4>1. t \in Sids
        BY DEF MayArm
      <4>2. CASE t \notin Known
        BY <1>1, <4>1, <4>2, MessageTypes DEF Ticking, MessageInv, Work, TimeOut, Message, NoMessage
      <4>3. CASE InScript(t)' \/ InHand(t)'
        BY <1>1, <1>15, <4>1, <4>3 DEF SingleInv
      <4>4. CASE Before(queue', TimeOut(t), TimeOut(s))
        <5>1. Queued(t)
          BY <1>5, <4>4, BeforeIn DEF Queued
        <5> QED
          BY <1>1, <4>1, <5>1 DEF SingleInv
      <4> QED
        BY <1>11, <4>2, <4>3, <4>4 DEF MayArm
    <3>2. Cardinality(MayArm(s)') <= Len(m_freeTimers) /\ Cardinality(MayArm(s)') \in Nat
      BY <1>1, <3>1, FreeIds
    <3>3. m_timerID'[s] = id
      BY <1>1, <1>15, <2>1
    <3> QED
      BY <1>3, <1>7, <3>2, <3>3
  <2>2. CASE m # TimeOut(s)
    <3>1. Coming(s)
      BY <1>15, <2>2 DEF Coming
    <3>2. MayArm(s)' \subseteq MayArm(s)
      BY <1>5, <1>11, <1>15, <2>2 DEF MayArm
    <3> QED
      BY <1>1, <3>1, <3>2, StaleKept
  <2> QED
    BY <2>1, <2>2
<1>19. WaitInv'
  <2> SUFFICES ASSUME NEW s \in Sids, Waiting(s)', s \notin lost'
               PROVE  Ticking(s)' \/ Coming(s)'
    BY DEF WaitInv
  <2>1. Waiting(s) /\ s \notin lost
    BY <1>1, <1>5 DEF Waiting
  <2>2. Ticking(s) \/ Coming(s)
    BY <1>1, <2>1 DEF WaitInv
  <2>3. m = TimeOut(s) => Queued(s)'
    BY <1>5, <1>15 DEF Queued
  <2> QED
    BY <1>15, <2>2, <2>3 DEF Coming
<1> QED
  BY <1>8, <1>9, <1>10, <1>12, <1>13, <1>14, <1>16, <1>17, <1>18, <1>19 DEF ServiceInv

-----------------------------------------------------------------------------
(* A session is created.                                                   *)

LEMMA CreateStep ==
  ASSUME ServiceInv, onCreateSession, UNCHANGED <<commands, m_stopSignaled>>
  PROVE  ServiceInv'
<1> DEFINE s == m_curSessionID + 1
           added == IF Cardinality(m_sessionTable) < MaxTable THEN {s} ELSE {}
<1>1. /\ ServiceTypeOK /\ StageInv /\ MessageInv /\ TableInv /\ BudgetInv /\ PullInv
      /\ FreeInv /\ OwnerInv /\ SingleInv /\ StaleInv /\ WaitInv
      /\ pull = "handle" /\ utm.kind = "StartSession" /\ m_curSessionID' = s
      /\ \/ m_sessionTable' = m_sessionTable \cup added /\ Call(s, "BEGIN") /\ UNCHANGED deleted
         \/ deleted' = deleted \cup added /\ Done /\ UNCHANGED m_sessionTable
      /\ UNCHANGED <<main, hooked, queue, lost, task, m_freeTimers, m_timerID, m_rules>>
  BY DEF ServiceInv, onCreateSession, Handling, mtl, timers
<1>2. added \subseteq {s}
  OBVIOUS
<1>3. s \in Sids /\ s \notin Known /\ Known' = Known \cup {s} /\ m_curSessionID \in Nat
  <2>1. utm \in Creating
    BY <1>1 DEF PullInv, Formed, Creating, Work, Message, TimeOut
  <2>2. InStore = 1
    BY <1>1, <2>1 DEF InStore
  <2>3. m_curSessionID \in Nat /\ m_curSessionID + 1 <= MaxCreated
    BY <1>1, <2>2, BudgetTypes DEF BudgetInv
  <2>4. MaxCreated \in Nat
    BY Sizes
  <2> QED
    BY <1>1, <2>3, <2>4 DEF Sids, Known
<1> HIDE DEF s, added
<1>4. /\ utm \in Messages /\ [utm EXCEPT !.sid = s] \in Messages
      /\ [utm EXCEPT !.sid = s].sid = s /\ "BEGIN" \in Funcs
  <2>1. utm \in Messages \cup {NoMessage} /\ utm # NoMessage
    BY <1>1 DEF ServiceTypeOK, NoMessage, Message
  <2>2. utm \in Messages
    BY <2>1
  <2> QED
    BY <1>3, <2>2, ServiceAssumption DEF Messages
<1>5. \/ pull' = "script" /\ utm' \in Messages /\ utm'.sid = s /\ func' = "BEGIN"
      \/ pull' = "check" /\ utm' = NoMessage /\ func' = NoFunc
  BY <1>1, <1>4 DEF Call, Done
<1>6. ServiceTypeOK'
  <2>1. m_curSessionID' \in 0 .. MaxCreated
    BY <1>1, <1>3, Sizes DEF Sids
  <2> QED
    BY <1>1, <1>2, <1>3, <1>4, <1>5, <2>1 DEF ServiceTypeOK
<1>7. StageInv'
  BY <1>1, <1>5 DEF StageInv, Beginning
<1>8. Formed \subseteq Formed'
  BY <1>3 DEF Formed, Creating, Work
<1>9. MessageInv'
  BY <1>1, <1>3, <1>8 DEF MessageInv, Work
<1>10. PullInv'
  BY <1>1, <1>3, <1>4, <1>5 DEF PullInv, TableInv
<1>11. TableInv'
  BY <1>1, <1>2, <1>3 DEF TableInv
<1>12. FreeInv' /\ OwnerInv'
  BY <1>1 DEF FreeInv, OwnerInv
<1>13. \A t \in Sids :
         /\ Ticking(t)' <=> Ticking(t)
         /\ Queued(t)' <=> Queued(t)
         /\ ~InHand(t) /\ ~InHand(t)'
         /\ InScript(t)' => t = s
         /\ t \notin Known => ~Ticking(t) /\ ~Queued(t)
  <2> SUFFICES ASSUME NEW t \in Sids
               PROVE  /\ Ticking(t)' <=> Ticking(t)
                      /\ Queued(t)' <=> Queued(t)
                      /\ ~InHand(t) /\ ~InHand(t)'
                      /\ InScript(t)' => t = s
                      /\ t \notin Known => ~Ticking(t) /\ ~Queued(t)
    OBVIOUS
  <2>1. \A r \in Known : TimeOut(r) = TimeOut(t) => r = t
    BY <1>1, MessageTypes
  <2>2. t \notin Known => ~Ticking(t)
    BY <1>1, <2>1, MessageTypes DEF Ticking, MessageInv, Work, TimeOut, Message, NoMessage
  <2>3. t \notin Known => TimeOut(t) \notin Formed
    BY <2>1 DEF Formed, Creating, Work, TimeOut, Message
  <2>4. t \notin Known => ~Queued(t)
    BY <1>1, <2>3 DEF Queued, In, MessageInv
  <2>5. ~InHand(t) /\ ~InHand(t)' /\ (InScript(t)' => t = s)
    BY <1>1, <1>5 DEF InHand, InScript, TimeOut, Message
  <2> QED
    BY <1>1, <2>2, <2>4, <2>5 DEF Ticking, Queued
<1>14. SingleInv'
  BY <1>1, <1>3, <1>13 DEF SingleInv
<1>15. BudgetInv'
  <2>1. utm \in Creating
    BY <1>1 DEF PullInv, Formed, Creating, Work, Message, TimeOut
  <2>2. InStore = 1 /\ InStore' = 0 /\ SetUp' = SetUp
    BY <1>1, <1>5, <2>1 DEF InStore, SetUp
  <2>3. BudgetInv /\ ServiceTypeOK /\ UNCHANGED <<commands, queue>>
        /\ m_curSessionID' = m_curSessionID + 1
    BY <1>1 DEF s
  <2> QED
    BY <2>2, <2>3, BudgetTypes DEF BudgetInv
<1>16. ASSUME NEW t \in Sids, Coming(t)'
       PROVE  Coming(t) /\ MayArm(t)' \subseteq MayArm(t)
  BY <1>1, <1>3, <1>13, <1>16 DEF Coming, MayArm
<1>17. StaleInv'
  BY <1>1, <1>16, StaleKept DEF StaleInv
<1>18. WaitInv'
  <2> SUFFICES ASSUME NEW t \in Sids, Waiting(t)', t \notin lost'
               PROVE  Ticking(t)' \/ Coming(t)'
    BY DEF WaitInv
  <2>1. Waiting(t) /\ t \notin lost
    BY <1>1, <1>2, <1>3 DEF Waiting, TableInv
  <2> QED
    BY <1>1, <1>13, <2>1 DEF WaitInv, Coming
<1> QED
  BY <1>6, <1>7, <1>9, <1>10, <1>11, <1>12, <1>14, <1>15, <1>17, <1>18 DEF ServiceInv

-----------------------------------------------------------------------------
(* A timeout reaches its session.                                          *)

\* The id that the session holds on to is still free: nothing is cancelled.
LEMMA NothingCancelled ==
  ASSUME ServiceTypeOK, StaleInv, FreeInv, NEW s \in Sids, Coming(s), StopTimer(s)
  PROVE  UNCHANGED <<task, m_freeTimers>> /\ m_timerID' = [m_timerID EXCEPT ![s] = 0]
<1>1. m_timerID[s] \in Timers
  BY DEF ServiceTypeOK
<1>2. In(m_freeTimers, m_timerID[s])
  BY DEF StaleInv, In
<1>3. task[m_timerID[s]] = NoMessage
  BY <1>1, <1>2 DEF FreeInv
<1> QED
  BY <1>3 DEF StopTimer, cancel, timers

LEMMA TimeOutStep ==
  ASSUME ServiceInv, onTimeOut, UNCHANGED <<commands, m_stopSignaled>>
  PROVE  ServiceInv'
<1> DEFINE s == utm.sid
<1>1. /\ ServiceTypeOK /\ StageInv /\ MessageInv /\ TableInv /\ BudgetInv /\ PullInv
      /\ FreeInv /\ OwnerInv /\ SingleInv /\ StaleInv /\ WaitInv
      /\ pull = "handle" /\ utm.kind = "TimeOut"
      /\ UNCHANGED <<main, hooked, queue, lost, m_curSessionID, m_sessionTable, deleted>>
  BY DEF ServiceInv, onTimeOut, Handling, mtl
<1>2. s \in Known /\ s \in Sids /\ utm = TimeOut(s) /\ Known' = Known /\ Formed' = Formed
  BY <1>1, MessageTypes DEF PullInv, Formed, Creating, Work, Message, TimeOut, Known
<1>3. \A t \in Sids : InHand(t) => t = s
  BY <1>1, <1>2, MessageTypes DEF InHand
<1>4. Coming(s) /\ InHand(s) /\ ~Queued(s) /\ ~Ticking(s)
  BY <1>1, <1>2 DEF Coming, InHand, SingleInv
<1>5. CASE ~Waiting(s)
  <2>1. Done /\ UNCHANGED <<task, m_freeTimers, m_timerID, m_rules>>
    BY <1>5 DEF onTimeOut, Waiting, timers
  <2>2. Eases
    BY <1>1, <1>3, <1>5, <2>1 DEF Eases, Done, timers
  <2>3. ServiceTypeOK' /\ StageInv' /\ TableInv' /\ MessageInv'
    BY <1>1, <1>2, <2>1 DEF ServiceTypeOK, StageInv, TableInv, MessageInv, Beginning, Done, Work
  <2>4. BudgetInv'
    <3>1. InStore' = 0 /\ SetUp' = SetUp
      BY <1>1, <2>1 DEF InStore, SetUp, Done
    <3>2. BudgetInv /\ ServiceTypeOK /\ UNCHANGED <<commands, queue, m_curSessionID>>
      BY <1>1
    <3>3. /\ Count(queue', Creating) \in Nat
          /\ Count(queue', Creating) + InStore' + SetUp'
               <= Count(queue, Creating) + InStore + SetUp
      BY <3>1, <3>2, BudgetTypes
    <3> QED
      BY <3>2, <3>3, BudgetKept
  <2> QED
    BY <1>1, <2>2, <2>3, <2>4, Unposted, Together DEF Rest
<1>6. CASE Waiting(s)
  <2>1. Call(s, Head(m_rules[s])) /\ StopTimer(s) /\ ClearRule(s)
    BY <1>6 DEF onTimeOut, Waiting
  <2>2. UNCHANGED <<task, m_freeTimers>> /\ m_timerID' = [m_timerID EXCEPT ![s] = 0]
    BY <1>1, <1>2, <1>4, <2>1, NothingCancelled
  <2>3. Head(m_rules[s]) \in Funcs
    <3>1. m_rules[s] \in Seq(Funcs) /\ m_rules[s] # <<>>
      BY <1>1, <1>2, <1>6 DEF ServiceTypeOK, Waiting
    <3> QED
      BY <3>1, FirstOut
  <2>4. /\ utm' = utm /\ pull' = "script" /\ func' \in Funcs
        /\ m_rules' = [m_rules EXCEPT ![s] = <<>>]
    BY <1>2, <2>1, <2>3 DEF Call, ClearRule, TimeOut, Message
  <2>5. m_timerID' \in [Sids -> Timers] /\ m_rules' \in [Sids -> Seq(Funcs)]
    <3>1. m_timerID \in [Sids -> Timers] /\ m_rules \in [Sids -> Seq(Funcs)]
      BY <1>1 DEF ServiceTypeOK
    <3>2. <<>> \in Seq(Funcs) /\ 0 \in Timers
      BY Sizes, EmptySeq
    <3>3. m_timerID' \in [Sids -> Timers]
      BY <2>2, <3>1, <3>2
    <3>4. m_rules' \in [Sids -> Seq(Funcs)]
      BY <2>4, <3>1, <3>2
    <3> QED
      BY <3>3, <3>4
  <2>6. \A t \in Sids : /\ m_timerID'[t] = IF t = s THEN 0 ELSE m_timerID[t]
                        /\ m_rules'[t] = IF t = s THEN <<>> ELSE m_rules[t]
    BY <1>1, <2>2, <2>4 DEF ServiceTypeOK
  <2> HIDE DEF s
  <2>7. ServiceTypeOK'
    BY <1>1, <2>2, <2>4, <2>5 DEF ServiceTypeOK
  <2>8. StageInv' /\ MessageInv'
    BY <1>1, <1>2, <2>2, <2>4 DEF StageInv, Beginning, MessageInv, Work
  <2>9. PullInv'
    BY <1>1, <1>2, <2>4, <2>6 DEF PullInv, s
  <2>10. TableInv'
    BY <1>1, <1>2, <2>6 DEF TableInv
  <2>11. FreeInv' /\ OwnerInv'
    BY <1>1, <1>4, <2>2, <2>6 DEF FreeInv, OwnerInv, Ticking
  <2>12. \A t \in Sids : /\ Ticking(t)' <=> Ticking(t)
                         /\ Queued(t)' <=> Queued(t)
                         /\ ~InHand(t)'
                         /\ InScript(t)' <=> t = s
    BY <1>1, <2>2, <2>4 DEF Ticking, Queued, InHand, InScript, s
  <2>13. SingleInv'
    BY <1>1, <1>4, <2>12 DEF SingleInv
  <2>14. BudgetInv'
    <3>1. InStore' = 0 /\ SetUp' = SetUp
      BY <1>1, <2>2, <2>4 DEF InStore, SetUp
    <3>2. BudgetInv /\ ServiceTypeOK /\ UNCHANGED <<commands, queue, m_curSessionID>>
      BY <1>1
    <3>3. /\ Count(queue', Creating) \in Nat
          /\ Count(queue', Creating) + InStore' + SetUp'
               <= Count(queue, Creating) + InStore + SetUp
      BY <3>1, <3>2, BudgetTypes
    <3> QED
      BY <3>2, <3>3, BudgetKept
  <2>15. ASSUME NEW t \in Sids, Coming(t)'
         PROVE  Coming(t) /\ t # s /\ MayArm(t)' \subseteq MayArm(t)
    BY <1>1, <1>2, <1>4, <2>12, <2>15 DEF Coming, MayArm
  <2>16. StaleInv'
    BY <1>1, <2>2, <2>6, <2>15, StaleKept DEF StaleInv
  <2>17. WaitInv'
    <3> SUFFICES ASSUME NEW t \in Sids, Waiting(t)', t \notin lost'
                 PROVE  Ticking(t)' \/ Coming(t)'
      BY DEF WaitInv
    <3>1. Waiting(t) /\ t \notin lost /\ t # s
      BY <1>1, <2>6 DEF Waiting
    <3>2. Ticking(t) \/ Queued(t)
      BY <1>1, <1>3, <3>1 DEF WaitInv, Coming
    <3> QED
      BY <2>12, <3>2 DEF Coming
  <2> QED
    BY <2>7, <2>8, <2>9, <2>10, <2>11, <2>13, <2>14, <2>16, <2>17 DEF ServiceInv
<1> QED
  BY <1>5, <1>6

-----------------------------------------------------------------------------
(* A timer is set.                                                         *)

LEMMA TimerSet ==
  ASSUME ServiceTypeOK, FreeInv, m_freeTimers # <<>>, NEW m \in Messages, setTimer(m)
  PROVE  LET id == Head(m_freeTimers)
         IN  /\ id \in Timers /\ task[id] = NoMessage
             /\ task' \in [Timers -> Messages \cup {NoMessage}]
             /\ \A other \in Timers : task'[other] = IF other = id THEN m ELSE task[other]
             /\ m_freeTimers' \in Seq(Timers) /\ Len(m_freeTimers') = Len(m_freeTimers) - 1
             /\ Len(m_freeTimers) \in Nat /\ Len(m_freeTimers') \in Nat
             /\ \A p \in 2 .. Len(m_freeTimers) : m_freeTimers'[p - 1] = m_freeTimers[p]
             /\ FreeInv'
<1> DEFINE id == Head(m_freeTimers)
<1>1. /\ m_freeTimers \in Seq(Timers) /\ task \in [Timers -> Messages \cup {NoMessage}]
      /\ Once(m_freeTimers)
  BY DEF ServiceTypeOK, FreeInv
<1>2. /\ task' = [task EXCEPT ![id] = m] /\ m_freeTimers' = Tail(m_freeTimers)
  BY DEF setTimer
<1>3. /\ id \in Timers /\ In(m_freeTimers, id)
      /\ m_freeTimers' \in Seq(Timers) /\ Once(m_freeTimers')
      /\ \A x : In(m_freeTimers', x) <=> In(m_freeTimers, x) /\ x # id
  BY <1>1, <1>2, Taken
<1>4. /\ Len(m_freeTimers) \in Nat /\ Len(m_freeTimers) > 0
      /\ Len(m_freeTimers') = Len(m_freeTimers) - 1
      /\ \A i \in 1 .. Len(m_freeTimers') : m_freeTimers'[i] = m_freeTimers[i + 1]
  BY <1>1, <1>2, HeadTailProperties, LenProperties, EmptySeq
<1> HIDE DEF id
<1>5. /\ task' \in [Timers -> Messages \cup {NoMessage}]
      /\ \A other \in Timers : task'[other] = IF other = id THEN m ELSE task[other]
  BY <1>1, <1>2, <1>3
<1>6. task[id] = NoMessage
  BY <1>3 DEF FreeInv
<1>7. FreeInv'
  <2>1. m # NoMessage
    BY DEF Messages, NoMessage, Message
  <2> QED
    BY <1>3, <1>5, <2>1 DEF FreeInv
<1>8. \A p \in 2 .. Len(m_freeTimers) : m_freeTimers'[p - 1] = m_freeTimers[p]
  <2>1. ASSUME NEW p \in 2 .. Len(m_freeTimers)
        PROVE  m_freeTimers'[p - 1] = m_freeTimers[p]
    <3>1. p - 1 \in 1 .. Len(m_freeTimers') /\ (p - 1) + 1 = p
      BY <1>4
    <3>2. m_freeTimers'[p - 1] = m_freeTimers[(p - 1) + 1]
      BY <1>4, <3>1
    <3> QED
      BY <3>1, <3>2
  <2> QED
    BY <2>1
<1> QED
  BY <1>3, <1>4, <1>5, <1>6, <1>7, <1>8 DEF id

\* The first timer of all.
LEMMA InitStep ==
  ASSUME ServiceInv, init
  PROVE  ServiceInv'
<1> DEFINE id == Head(m_freeTimers)
<1>1. /\ ServiceTypeOK /\ StageInv /\ MessageInv /\ TableInv /\ BudgetInv /\ PullInv
      /\ FreeInv /\ OwnerInv /\ SingleInv /\ StaleInv /\ WaitInv
      /\ main = "init" /\ main' = "start" /\ setTimer(Work)
      /\ UNCHANGED <<commands, hooked, queue, lost, m_stopSignaled, pull, utm, func>>
      /\ UNCHANGED <<m_curSessionID, m_sessionTable, deleted, m_timerID, m_rules>>
  BY DEF ServiceInv, init, mtl, thread, sessions, Work
<1>2. /\ queue = <<>> /\ pull = "off"
      /\ \A other \in Timers : task[other] = NoMessage
  BY <1>1 DEF StageInv, Beginning
<1>3. m_freeTimers # <<>>
  <2>1. In(m_freeTimers, 0)
    BY <1>1, <1>2, Sizes DEF FreeInv
  <2>2. \A i \in 1 .. Len(<<>>) : FALSE
    OBVIOUS
  <2> QED
    BY <2>1, <2>2 DEF In
<1>4. Work \in Messages /\ Work # NoMessage /\ \A s : Work # TimeOut(s)
  BY DEF Work, Messages, Message, NoMessage, TimeOut
<1>5. /\ id \in Timers
      /\ task' \in [Timers -> Messages \cup {NoMessage}]
      /\ \A other \in Timers : task'[other] = IF other = id THEN Work ELSE task[other]
      /\ m_freeTimers' \in Seq(Timers) /\ Len(m_freeTimers') = Len(m_freeTimers) - 1
      /\ Len(m_freeTimers) \in Nat /\ Len(m_freeTimers') \in Nat
      /\ FreeInv'
  BY <1>1, <1>3, <1>4, TimerSet
<1> HIDE DEF id
<1>6. ServiceTypeOK'
  BY <1>1, <1>5, ServiceAssumption DEF ServiceTypeOK
<1>7. StageInv' /\ PullInv' /\ TableInv'
  BY <1>1 DEF StageInv, Beginning, PullInv, TableInv, Known, Formed, Creating, Work
<1>8. Known' = Known /\ Formed' = Formed
  BY <1>1 DEF Known, Formed, Creating, Work
<1>9. MessageInv'
  BY <1>1, <1>2, <1>4, <1>5, <1>8 DEF MessageInv, Work
<1>10. \A s \in Sids : /\ TimeOut(s) # NoMessage /\ ~Ticking(s) /\ ~Ticking(s)'
                       /\ ~Coming(s) /\ ~Coming(s)' /\ ~InScript(s)'
                       /\ ~InHand(s)' /\ ~Queued(s)' /\ Single(queue', TimeOut(s))
  BY <1>1, <1>2, <1>4, <1>5, MessageTypes
     DEF Ticking, Coming, Queued, InHand, InScript, In, Single
<1>11. OwnerInv' /\ SingleInv' /\ StaleInv'
  BY <1>10 DEF OwnerInv, SingleInv, StaleInv, Ticking
<1>12. WaitInv'
  BY <1>1, <1>10 DEF WaitInv, Waiting
<1>13. BudgetInv'
  <2>1. InStore' = InStore /\ SetUp = 1 /\ SetUp' = 1
    BY <1>1, <1>5 DEF InStore, SetUp
  <2> QED
    BY <1>1, <2>1 DEF BudgetInv
<1> QED
  BY <1>5, <1>6, <1>7, <1>9, <1>11, <1>12, <1>13 DEF ServiceInv

\* A function of the script sets its session's timer.
LEMMA ArmedStep ==
  ASSUME ServiceInv, NEW f \in Funcs, pull = "script",
         Armed(utm.sid, f) \/ Unruled(utm.sid), Done,
         UNCHANGED <<main, commands, m_stopSignaled>>
  PROVE  ServiceInv'
<1> DEFINE s  == utm.sid
           id == Head(m_freeTimers)
<1>1. /\ ServiceTypeOK /\ StageInv /\ MessageInv /\ TableInv /\ BudgetInv /\ PullInv
      /\ FreeInv /\ OwnerInv /\ SingleInv /\ StaleInv /\ WaitInv
      /\ setTimer(TimeOut(s)) /\ m_timerID' = [m_timerID EXCEPT ![s] = id]
      /\ SetNextState(s, f) \/ m_rules' = m_rules
      /\ pull' = "check" /\ utm' = NoMessage /\ func' = NoFunc
      /\ UNCHANGED <<hooked, queue, lost, m_curSessionID, m_sessionTable, deleted>>
  BY DEF ServiceInv, Armed, Unruled, StartTimer, TimeOut, mtl, Done
<1>2. s \in Known /\ s \in Sids /\ m_rules[s] = <<>> /\ Known' = Known /\ Formed' = Formed
  BY <1>1, MessageTypes DEF PullInv, Known, Formed, Creating, Work
<1>3. InScript(s) /\ ~Ticking(s) /\ ~Queued(s)
  BY <1>1, <1>2 DEF InScript, SingleInv
<1>4. /\ TimeOut(s) \in Messages /\ TimeOut(s) # Work
      /\ \A t \in Sids : TimeOut(t) # NoMessage /\ (TimeOut(s) = TimeOut(t) => s = t)
  BY <1>1, <1>2, MessageTypes DEF Creating
<1>5. m_freeTimers # <<>>
  <2>1. Cardinality({s}) <= Len(m_freeTimers)
    BY <1>1, <1>2, <1>3, FreeIds
  <2>2. Cardinality({s}) = 1
    BY FS_Singleton
  <2>3. Len(<<>>) = 0
    OBVIOUS
  <2> QED
    BY <2>1, <2>2, <2>3
<1>6. /\ id \in Timers /\ task[id] = NoMessage
      /\ task' \in [Timers -> Messages \cup {NoMessage}]
      /\ \A other \in Timers : task'[other] = IF other = id THEN TimeOut(s) ELSE task[other]
      /\ m_freeTimers' \in Seq(Timers) /\ Len(m_freeTimers') = Len(m_freeTimers) - 1
      /\ Len(m_freeTimers) \in Nat /\ Len(m_freeTimers') \in Nat
      /\ \A p \in 2 .. Len(m_freeTimers) : m_freeTimers'[p - 1] = m_freeTimers[p]
      /\ FreeInv'
  BY <1>1, <1>4, <1>5, TimerSet
<1> HIDE DEF s, id
<1>7. /\ m_timerID' \in [Sids -> Timers] /\ m_rules' \in [Sids -> Seq(Funcs)]
      /\ \A t \in Sids : /\ m_timerID'[t] = IF t = s THEN id ELSE m_timerID[t]
                         /\ t # s => m_rules'[t] = m_rules[t]
  <2>1. m_timerID \in [Sids -> Timers] /\ m_rules \in [Sids -> Seq(Funcs)]
    BY <1>1 DEF ServiceTypeOK
  <2>2. m_rules' = [m_rules EXCEPT ![s] = <<f>>] \/ m_rules' = m_rules
    BY <1>1, <1>2, <2>1 DEF SetNextState
  <2>3. <<f>> \in Seq(Funcs)
    OBVIOUS
  <2>4. m_rules' \in [Sids -> Seq(Funcs)] /\ \A t \in Sids : t # s => m_rules'[t] = m_rules[t]
    BY <2>1, <2>2, <2>3
  <2>5. /\ m_timerID' \in [Sids -> Timers]
        /\ \A t \in Sids : m_timerID'[t] = IF t = s THEN id ELSE m_timerID[t]
    BY <1>1, <1>6, <2>1
  <2> QED
    BY <2>4, <2>5
<1>8. ServiceTypeOK'
  <2>1. Len(m_freeTimers') <= MAX_TIMER_COUNT
    BY <1>1, <1>6, ServiceAssumption DEF ServiceTypeOK
  <2> QED
    BY <1>1, <1>6, <1>7, <2>1 DEF ServiceTypeOK
<1>9. StageInv'
  <2>1. main \notin Beginning
    BY <1>1 DEF StageInv
  <2> QED
    BY <1>1, <2>1 DEF StageInv, Beginning
<1>10. MessageInv'
  BY <1>1, <1>2, <1>4, <1>6 DEF MessageInv, Work
<1>11. PullInv'
  BY <1>1 DEF PullInv
<1>12. TableInv'
  BY <1>1, <1>2, <1>7 DEF TableInv
<1>13. \A t \in Sids : /\ Ticking(t)' <=> t = s \/ Ticking(t)
                       /\ Queued(t)' <=> Queued(t)
                       /\ ~InHand(t)' /\ ~InScript(t)' /\ ~InHand(t)
                       /\ Coming(t)' => Queued(t) /\ t # s
  <2> SUFFICES ASSUME NEW t \in Sids
               PROVE  /\ Ticking(t)' <=> t = s \/ Ticking(t)
                      /\ Queued(t)' <=> Queued(t)
                      /\ ~InHand(t)' /\ ~InScript(t)' /\ ~InHand(t)
                      /\ Coming(t)' => Queued(t) /\ t # s
    OBVIOUS
  <2>1. Ticking(t)' => t = s \/ Ticking(t)
    BY <1>4, <1>6 DEF Ticking
  <2>2. t = s => Ticking(t)'
    BY <1>6 DEF Ticking
  <2>3. Ticking(t) => Ticking(t)'
    BY <1>4, <1>6 DEF Ticking
  <2> QED
    BY <1>1, <1>3, <2>1, <2>2, <2>3 DEF Queued, InHand, InScript, Coming
<1>14. OwnerInv'
  <2> SUFFICES ASSUME NEW t \in Sids, NEW other \in Timers, task'[other] = TimeOut(t)
               PROVE  m_timerID'[t] = other
    BY DEF OwnerInv
  <2>1. CASE other = id
    BY <1>4, <1>6, <1>7, <2>1
  <2>2. CASE other # id
    <3>1. task[other] = TimeOut(t)
      BY <1>6, <2>2
    <3>2. t # s
      BY <1>3, <3>1 DEF Ticking
    <3> QED
      BY <1>1, <1>7, <3>1, <3>2 DEF OwnerInv
  <2> QED
    BY <2>1, <2>2
<1>15. SingleInv'
  BY <1>1, <1>3, <1>13 DEF SingleInv
<1>16. BudgetInv'
  <2>1. InStore' = InStore /\ InStore = 0
    BY <1>1 DEF InStore
  <2>2. SetUp' = SetUp
    <3>1. Work # NoMessage
      BY DEF Work, NoMessage, Message
    <3>2. \A other \in Timers : task'[other] = Work <=> task[other] = Work
      BY <1>4, <1>6, <3>1
    <3> QED
      BY <1>1, <3>2 DEF SetUp, Work
  <2> QED
    BY <1>1, <2>1, <2>2 DEF BudgetInv
<1>17. StaleInv'
  <2> SUFFICES ASSUME NEW t \in Sids, Coming(t)'
               PROVE  \E p \in 1 .. Len(m_freeTimers') :
                        m_freeTimers'[p] = m_timerID'[t] /\ Cardinality(MayArm(t)') < p
    BY DEF StaleInv
  <2>1. Coming(t) /\ t # s
    BY <1>13 DEF Coming
  <2>2. PICK p \in 1 .. Len(m_freeTimers) :
          m_freeTimers[p] = m_timerID[t] /\ Cardinality(MayArm(t)) < p
    BY <1>1, <2>1 DEF StaleInv
  <2>3. MayArm(t)' \subseteq MayArm(t) \ {s}
    <3>1. \A r \in MayArm(t)' : r \in MayArm(t)
      BY <1>1, <1>2, <1>13 DEF MayArm
    <3>2. s \notin MayArm(t)'
      <4>1. ~Before(queue', TimeOut(s), TimeOut(t))
        BY <1>1, <1>3, BeforeIn DEF Queued
      <4> QED
        BY <1>2, <1>13, <4>1 DEF MayArm
    <3> QED
      BY <3>1, <3>2
  <2>4. s \in MayArm(t)
    BY <1>2, <1>3, <2>1 DEF MayArm
  <2>5. IsFiniteSet(MayArm(t))
    BY Sizes, FS_Subset DEF MayArm
  <2>6. /\ Cardinality(MayArm(t) \ {s}) = Cardinality(MayArm(t)) - 1
        /\ IsFiniteSet(MayArm(t) \ {s})
    BY <2>4, <2>5, FS_RemoveElement
  <2>7. /\ Cardinality(MayArm(t)') <= Cardinality(MayArm(t)) - 1
        /\ Cardinality(MayArm(t)') \in Nat /\ Cardinality(MayArm(t)) \in Nat
    BY <2>3, <2>5, <2>6, FS_Subset, FS_CardinalityType
  <2>8. p \in 2 .. Len(m_freeTimers) /\ p - 1 \in 1 .. Len(m_freeTimers')
        /\ Cardinality(MayArm(t)') < p - 1
    BY <1>6, <2>2, <2>7
  <2>9. m_freeTimers'[p - 1] = m_timerID'[t]
    BY <1>6, <1>7, <2>1, <2>2, <2>8
  <2> QED
    BY <2>8, <2>9
<1>18. WaitInv'
  <2> SUFFICES ASSUME NEW t \in Sids, Waiting(t)', t \notin lost'
               PROVE  Ticking(t)' \/ Coming(t)'
    BY DEF WaitInv
  <2>1. CASE t = s
    BY <1>13, <2>1
  <2>2. CASE t # s
    <3>1. Waiting(t) /\ t \notin lost
      BY <1>1, <1>7, <2>2 DEF Waiting
    <3>2. Ticking(t) \/ Queued(t)
      BY <1>1, <1>13, <3>1 DEF WaitInv, Coming
    <3> QED
      BY <1>13, <3>2 DEF Coming
  <2> QED
    BY <2>1, <2>2
<1> QED
  BY <1>6, <1>8, <1>9, <1>10, <1>11, <1>12, <1>14, <1>15, <1>16, <1>17, <1>18 DEF ServiceInv

-----------------------------------------------------------------------------
(* The theorems.                                                           *)

LEMMA ServiceStarts == ServiceInit => ServiceInv
<1> SUFFICES ASSUME ServiceInit PROVE ServiceInv
  OBVIOUS
<1> USE DEF ServiceInit
<1>1. MAX_TIMER_COUNT \in Nat
  BY ServiceAssumption
<1>2. /\ m_freeTimers \in Seq(Timers) /\ Len(m_freeTimers) = MAX_TIMER_COUNT
      /\ \A i \in 1 .. MAX_TIMER_COUNT : m_freeTimers[i] = i - 1
  <2>1. \A i \in 1 .. MAX_TIMER_COUNT : i - 1 \in Timers
    BY <1>1 DEF Timers
  <2>2. m_freeTimers \in Seq(Timers) /\ Len(m_freeTimers) = MAX_TIMER_COUNT
    BY <1>1, <2>1, IsASeq
  <2> QED
    BY <2>2
<1>3. queue = <<>> /\ queue \in Seq(Messages) /\ Len(queue) = 0
  BY EmptySeq
<1>4. ServiceTypeOK
  <2>1. m_rules \in [Sids -> Seq(Funcs)] /\ m_timerID \in [Sids -> Timers]
    BY Sizes, EmptySeq
  <2>2. task \in [Timers -> Messages \cup {NoMessage}]
    OBVIOUS
  <2>3. commands \in [Commands -> Nat] /\ m_curSessionID \in 0 .. MaxCreated
    BY Sizes
  <2>4. /\ main = "hook" /\ hooked \in BOOLEAN /\ m_stopSignaled \in BOOLEAN /\ lost = {}
        /\ pull = "off" /\ utm = NoMessage /\ func = NoFunc
        /\ m_sessionTable = {} /\ deleted = {}
    OBVIOUS
  <2>5. 0 <= SIZE_PER_QUEUE /\ MAX_TIMER_COUNT <= MAX_TIMER_COUNT
    BY <1>1, ServiceAssumption
  <2> HIDE DEF ServiceInit
  <2> QED
    BY <1>2, <1>3, <2>1, <2>2, <2>3, <2>4, <2>5 DEF ServiceTypeOK
<1>5. StageInv /\ PullInv /\ TableInv
  BY DEF StageInv, Beginning, PullInv, TableInv
<1>6. MessageInv
  <2>1. Work # NoMessage
    BY DEF Work, NoMessage, Message
  <2> QED
    BY <1>3, <2>1 DEF MessageInv
<1>7. FreeInv
  <2>1. Once(m_freeTimers)
    BY <1>1, <1>2 DEF Once
  <2>2. ASSUME NEW id \in Timers PROVE In(m_freeTimers, id)
    <3>1. id + 1 \in 1 .. MAX_TIMER_COUNT /\ (id + 1) - 1 = id
      BY <1>1 DEF Timers
    <3> QED
      BY <1>2, <3>1 DEF In
  <2> QED
    BY <2>1, <2>2 DEF FreeInv
<1>8. \A s \in Sids : /\ ~Ticking(s) /\ ~Queued(s) /\ ~InHand(s) /\ ~InScript(s) /\ ~Coming(s)
                      /\ Single(queue, TimeOut(s))
  BY <1>3, <1>4, MessageTypes DEF Ticking, Queued, InHand, InScript, Coming, In, Single
<1>9. OwnerInv /\ SingleInv /\ StaleInv /\ WaitInv
  BY <1>8 DEF OwnerInv, SingleInv, StaleInv, WaitInv, Waiting, Ticking
<1>10. BudgetInv
  <2>1. Count(queue, Creating) = 0
    <3>1. Where(queue, Creating) = {}
      BY <1>3 DEF Where
    <3> QED
      BY <3>1, FS_EmptySet DEF Count
  <2>2. InStore = 0 /\ SetUp = 1 /\ m_curSessionID = 0 /\ commands["StartSession"] = 0
    BY DEF InStore, SetUp, Commands
  <2>3. MaxCommands["StartSession"] \in Nat
    BY <1>4, BudgetTypes
  <2> QED
    BY <2>1, <2>2, <2>3 DEF BudgetInv, MaxCreated
<1> QED
  BY <1>4, <1>5, <1>6, <1>7, <1>9, <1>10 DEF ServiceInv

LEMMA ServiceSteps ==
  ASSUME ServiceInv, [ServiceNext]_vars
  PROVE  ServiceInv'
<1>1. CASE UNCHANGED vars
  <2>1. Eases /\ WakeUpsKept
    BY <1>1, Unposted DEF vars, console, mtl, thread, timers, sessions, Eases
  <2>2. Rest'
    BY <1>1 DEF vars, console, mtl, thread, timers, sessions, ServiceInv, Rest, ServiceTypeOK,
       StageInv, MessageInv, TableInv, BudgetInv, Known, Formed, Creating, Work, InStore, SetUp
  <2> QED
    BY <2>1, <2>2, Together
<1>2. CASE Hook \/ StartPull \/ Quit \/ ClearAll \/ Join \/ StopDispatcher
  BY <1>2, MainSteps
<1>3. CASE init \/ handleUICommand \/ Stop
  BY <1>3, InitStep, CommandStep, StopStep
<1>4. ASSUME NEW id \in Timers, Timer(id)
      PROVE  ServiceInv'
  BY <1>4, FireStep
<1>5. CASE Pull
  <2>1. UNCHANGED <<commands, m_stopSignaled>>
    BY <1>5 DEF Pull
  <2>2. CASE Check \/ onKillSession \/ onOther
    BY <2>1, <2>2, RestSteps DEF PullRests
  <2>3. CASE getMessage \/ onCreateSession \/ onTimeOut \/ onStartWork
    BY <2>1, <2>3, GetStep, CreateStep, TimeOutStep, PullPosts
  <2>4. CASE Script
    <3>1. PICK o \in Body[func] : pull = "script" /\ (Returns(o, utm.sid) \/ Dies(o, utm.sid))
      BY <2>4 DEF Script
    <3>2. func \in Funcs
      BY <3>1 DEF ServiceInv, PullInv
    <3>3. CASE o.ends = "armed" /\ Armed(utm.sid, o.next) /\ Done /\ UNCHANGED main
      <4>1. o.next \in Funcs
        BY <3>2, <3>3, ServiceAssumption
      <4> QED
        BY <2>1, <3>1, <3>3, <4>1, ArmedStep
    <3>6. CASE Unruled(utm.sid) /\ Done /\ UNCHANGED main
      BY <2>1, <3>1, <3>2, <3>6, ArmedStep
    <3>4. CASE Exit(utm.sid) /\ Done /\ UNCHANGED main
      BY <2>1, <3>1, <3>4, PullPosts
    <3>5. CASE \/ Dies(o, utm.sid)
               \/ Done /\ UNCHANGED main /\ (Unarmed \/ FailsInBegin(utm.sid))
      <4>1. PullRests(utm.sid, o)
        BY <3>1, <3>5 DEF PullRests
      <4> QED
        BY <2>1, <4>1, RestSteps
    <3> QED
      BY <3>1, <3>3, <3>4, <3>5, <3>6 DEF Returns
  <2> QED
    BY <1>5, <2>2, <2>3, <2>4 DEF Pull
<1> QED
  BY <1>1, <1>2, <1>3, <1>4, <1>5 DEF ServiceNext

LEMMA Unfair == ServiceSpec => ServiceInit /\ [][ServiceNext]_vars
BY PTL DEF ServiceSpec

\* Where every message, timer and session stands, at each step of the three threads.
THEOREM ServiceInvariance == ServiceSpec => []ServiceInv
<1>1. ServiceInit => ServiceInv
  BY ServiceStarts
<1>2. ServiceInv /\ [ServiceNext]_vars => ServiceInv'
  BY ServiceSteps
<1> QED
  BY <1>1, <1>2, Unfair, PTL

\* No id is used that is not a timer's, no session is created that was not asked
\* for, and the queue is never longer than it may be.
THEOREM ServiceTypeCorrect == ServiceSpec => []ServiceTypeOK
<1>1. ServiceInv => ServiceTypeOK
  BY DEF ServiceInv
<1> QED
  BY <1>1, ServiceInvariance, PTL

LEMMA AtMostOne ==
  ASSUME NEW S, \A x, y \in S : x = y
  PROVE  Cardinality(S) = IF S = {} THEN 0 ELSE 1
<1>1. CASE S = {}
  BY <1>1, FS_EmptySet
<1>2. CASE S # {}
  <2>1. PICK x \in S : S = {x}
    BY <1>2
  <2> QED
    BY <2>1, FS_Singleton
<1> QED
  BY <1>1, <1>2

\* A session that waits has exactly one wake-up to come, unless a full queue has
\* dropped it: no session's StopTimer takes the timer of another.
THEOREM OneWakeUpHolds == ServiceSpec => []OneWakeUp
<1>1. ASSUME ServiceInv PROVE OneWakeUp
  <2>1. ServiceTypeOK /\ OwnerInv /\ SingleInv /\ WaitInv
    BY <1>1 DEF ServiceInv
  <2> SUFFICES ASSUME NEW s \in m_sessionTable
               PROVE  /\ WakeUps(s) <= 1
                      /\ Waiting(s) /\ s \notin lost => WakeUps(s) = 1
    BY DEF OneWakeUp
  <2>2. s \in Sids
    BY <2>1 DEF ServiceTypeOK
  <2> DEFINE m == TimeOut(s)
             A == {id \in Timers : task[id] = m}
             B == {i \in DOMAIN queue : queue[i] = m}
  <2>3. Cardinality(A) = IF Ticking(s) THEN 1 ELSE 0
    <3>1. \A x, y \in A : x = y
      BY <2>1, <2>2 DEF OwnerInv
    <3>2. A = {} <=> ~Ticking(s)
      BY DEF Ticking
    <3> HIDE DEF A
    <3> QED
      BY <3>1, <3>2, AtMostOne
  <2>4. Cardinality(B) = IF Queued(s) THEN 1 ELSE 0
    <3>1. DOMAIN queue = 1 .. Len(queue)
      BY <2>1, LenProperties DEF ServiceTypeOK
    <3>2. \A x, y \in B : x = y
      BY <2>1, <2>2, <3>1 DEF SingleInv, Single
    <3>3. B = {} <=> ~Queued(s)
      BY <3>1 DEF Queued, In
    <3> HIDE DEF B
    <3> QED
      BY <3>2, <3>3, AtMostOne
  <2>5. WakeUps(s) = Cardinality(A) + Cardinality(B) + IF InHand(s) THEN 1 ELSE 0
    BY DEF WakeUps, InHand, TimeOut
  <2> HIDE DEF A, B
  <2> QED
    BY <2>1, <2>2, <2>3, <2>4, <2>5 DEF SingleInv, WaitInv, Coming
<1> QED
  BY <1>1, ServiceInvariance, PTL

-----------------------------------------------------------------------------
(* The service implements the chain of functions (ScriptChain).            *)

RunningIn(s)  == IF InScript(s) THEN func ELSE NoFunc
WaitingFor(s) == IF s \notin deleted /\ m_rules[s] # <<>> THEN Head(m_rules[s]) ELSE NoFunc

\* The steps of the chain, session by session.
LEMMA ChainBegins ==
  ASSUME NEW s \in Sids, \A t \in Sids : RunningIn(t) = NoFunc,
         \A t \in Sids : RunningIn(t)' = IF t = s THEN "BEGIN" ELSE RunningIn(t),
         \A t \in Sids : WaitingFor(t)' = IF t = s THEN NoFunc ELSE WaitingFor(t)
  PROVE  Chain!Next
BY DEF Chain!Next, Chain!Begin, Chain!Idle, RunningIn, WaitingFor

LEMMA ChainRuns ==
  ASSUME NEW s \in Sids, \A t \in Sids : RunningIn(t) = NoFunc, WaitingFor(s) # NoFunc,
         \A t \in Sids : RunningIn(t)' = IF t = s THEN WaitingFor(s) ELSE RunningIn(t),
         \A t \in Sids : WaitingFor(t)' = IF t = s THEN NoFunc ELSE WaitingFor(t)
  PROVE  Chain!Next
BY DEF Chain!Next, Chain!Run, Chain!Idle, RunningIn, WaitingFor

LEMMA ChainReturns ==
  ASSUME NEW s \in Sids, RunningIn(s) # NoFunc, RunningIn(s) \in Funcs,
         NEW f,
         f = NoFunc \/ \E o \in Body[RunningIn(s)] : o.ends = "armed" /\ f = o.next,
         \A t \in Sids : RunningIn(t)' = IF t = s THEN NoFunc ELSE RunningIn(t),
         \A t \in Sids : WaitingFor(t)' = IF t = s THEN f ELSE WaitingFor(t)
  PROVE  Chain!Next
<1> DEFINE R == [t \in Sids |-> IF InScript(t) THEN func ELSE NoFunc]
           W == [t \in Sids |-> IF t \notin deleted /\ m_rules[t] # <<>>
                                THEN Head(m_rules[t]) ELSE NoFunc]
           F == [g \in Funcs |-> {o.next : o \in {b \in Body[g] : b.ends = "armed"}}]
<1>1. R[s] = RunningIn(s) /\ F[R[s]] = {o.next : o \in {b \in Body[RunningIn(s)] : b.ends = "armed"}}
  BY DEF RunningIn
<1>2. f \in F[R[s]] \cup {NoFunc}
  BY <1>1
<1>3. R' = [R EXCEPT ![s] = NoFunc]
  BY DEF RunningIn
<1>4. W' = [W EXCEPT ![s] = f]
  BY DEF WaitingFor
<1>5. Chain!Return(s) <=> /\ R[s] # NoFunc /\ R' = [R EXCEPT ![s] = NoFunc]
                          /\ \E g \in F[R[s]] \cup {NoFunc} : W' = [W EXCEPT ![s] = g]
  BY DEF Chain!Return
<1> HIDE DEF R, W, F
<1>6. Chain!Return(s)
  BY <1>1, <1>2, <1>3, <1>4, <1>5
<1> QED
  BY <1>6 DEF Chain!Next

LEMMA ChainDrops ==
  ASSUME NEW s \in Sids,
         \A t \in Sids : RunningIn(t)' = RunningIn(t),
         \A t \in Sids : WaitingFor(t)' = IF t = s THEN NoFunc ELSE WaitingFor(t)
  PROVE  Chain!Next
BY DEF Chain!Next, Chain!Drop, RunningIn, WaitingFor

ChainVars == <<[s \in Sids |-> IF InScript(s) THEN func ELSE NoFunc],
               [s \in Sids |-> IF s \notin deleted /\ m_rules[s] # <<>>
                               THEN Head(m_rules[s]) ELSE NoFunc]>>

LEMMA ChainRests ==
  ASSUME \A t \in Sids : RunningIn(t)' = RunningIn(t),
         \A t \in Sids : WaitingFor(t)' = WaitingFor(t)
  PROVE  ChainVars' = ChainVars
BY DEF ChainVars, RunningIn, WaitingFor

\* Steps that the script does not see.
LEMMA Unseen ==
  ASSUME UNCHANGED <<m_rules, deleted>>,
         UNCHANGED <<pull, utm, func>> \/ (pull # "script" /\ pull' # "script")
  PROVE  ChainVars' = ChainVars
BY ChainRests DEF RunningIn, WaitingFor, InScript

LEMMA ErasedDrops ==
  ASSUME ServiceTypeOK, NEW s \in Sids, Erase(s), UNCHANGED m_rules,
         UNCHANGED <<pull, utm, func>> \/ (pull # "script" /\ pull' # "script")
  PROVE  Chain!Next \/ ChainVars' = ChainVars
<1>1. \A t \in Sids : RunningIn(t)' = RunningIn(t)
  BY DEF RunningIn, InScript
<1>2. CASE s \in m_sessionTable
  <2>1. \A t \in Sids : WaitingFor(t)' = IF t = s THEN NoFunc ELSE WaitingFor(t)
    BY <1>2 DEF WaitingFor, Erase
  <2> QED
    BY <1>1, <2>1, ChainDrops
<1>3. CASE s \notin m_sessionTable
  <2>1. \A t \in Sids : WaitingFor(t)' = WaitingFor(t)
    BY <1>3 DEF WaitingFor, Erase
  <2> QED
    BY <1>1, <2>1, ChainRests
<1> QED
  BY <1>2, <1>3

LEMMA CreateBegins ==
  ASSUME ServiceInv, ServiceTypeOK', onCreateSession
  PROVE  Chain!Next \/ ChainVars' = ChainVars
<1> DEFINE s == m_curSessionID + 1
           added == IF Cardinality(m_sessionTable) < MaxTable THEN {s} ELSE {}
<1>1. /\ ServiceTypeOK /\ TableInv /\ pull = "handle" /\ m_curSessionID' = s
      /\ \/ Call(s, "BEGIN") /\ UNCHANGED deleted
         \/ deleted' = deleted \cup added /\ Done
      /\ UNCHANGED m_rules
  BY DEF ServiceInv, onCreateSession, Handling
<1>2. s \in Sids /\ s \notin Known
  <2>1. m_curSessionID \in Nat /\ s <= MaxCreated
    BY <1>1, Sizes DEF ServiceTypeOK
  <2> QED
    BY <2>1, Sizes DEF Sids, Known
<1>3. m_rules[s] = <<>> /\ added \subseteq {s}
  BY <1>1, <1>2 DEF TableInv
<1> HIDE DEF s, added
<1>4. CASE Call(s, "BEGIN") /\ UNCHANGED deleted
  <2>1. utm'.sid = s /\ pull' = "script" /\ func' = "BEGIN"
    <3>1. utm \in Messages \cup {NoMessage}
      BY <1>1 DEF ServiceTypeOK
    <3> QED
      BY <1>4, <3>1 DEF Call, Messages, NoMessage, Message
  <2>2. \A t \in Sids : RunningIn(t) = NoFunc
    BY <1>1 DEF RunningIn, InScript
  <2>3. \A t \in Sids : RunningIn(t)' = IF t = s THEN "BEGIN" ELSE RunningIn(t)
    BY <2>1, <2>2 DEF RunningIn, InScript
  <2>4. \A t \in Sids : WaitingFor(t)' = IF t = s THEN NoFunc ELSE WaitingFor(t)
    BY <1>1, <1>3, <1>4 DEF WaitingFor
  <2> QED
    BY <1>2, <2>2, <2>3, <2>4, ChainBegins
<1>5. CASE deleted' = deleted \cup added /\ Done
  <2>1. \A t \in Sids : RunningIn(t)' = RunningIn(t)
    BY <1>1, <1>5 DEF RunningIn, InScript, Done
  <2>2. \A t \in Sids : WaitingFor(t)' = WaitingFor(t)
    BY <1>1, <1>3, <1>5 DEF WaitingFor
  <2> QED
    BY <2>1, <2>2, ChainRests
<1> QED
  BY <1>1, <1>4, <1>5

LEMMA TimeOutRuns ==
  ASSUME ServiceInv, onTimeOut
  PROVE  Chain!Next \/ ChainVars' = ChainVars
<1> DEFINE s == utm.sid
<1>1. ServiceTypeOK /\ TableInv /\ PullInv /\ pull = "handle" /\ utm.kind = "TimeOut"
      /\ UNCHANGED deleted
  BY DEF ServiceInv, onTimeOut, Handling
<1>2. CASE Waiting(s)
  <2>1. Call(s, Head(m_rules[s])) /\ ClearRule(s)
    BY <1>2 DEF onTimeOut, Waiting
  <2>2. s \in Sids /\ s \in m_sessionTable /\ s \notin deleted /\ m_rules[s] # <<>>
    BY <1>1, <1>2 DEF Waiting, ServiceTypeOK, TableInv
  <2>3. Head(m_rules[s]) \in Funcs /\ NoFunc \notin Funcs
    <3>1. m_rules[s] \in Seq(Funcs)
      BY <1>1, <2>2 DEF ServiceTypeOK
    <3> QED
      BY <2>2, <3>1, FirstOut, ServiceAssumption
  <2>4. pull' = "script" /\ utm'.sid = s /\ func' = Head(m_rules[s])
    <3>1. utm \in Messages \cup {NoMessage}
      BY <1>1 DEF ServiceTypeOK
    <3> QED
      BY <2>1, <3>1 DEF Call, Messages, NoMessage, Message
  <2>5. \A t \in Sids : m_rules'[t] = IF t = s THEN <<>> ELSE m_rules[t]
    BY <1>1, <2>1 DEF ClearRule, ServiceTypeOK
  <2> HIDE DEF s
  <2>6. WaitingFor(s) = Head(m_rules[s])
    BY <2>2 DEF WaitingFor
  <2>7. \A t \in Sids : RunningIn(t) = NoFunc
    BY <1>1 DEF RunningIn, InScript
  <2>8. \A t \in Sids : RunningIn(t)' = IF t = s THEN WaitingFor(s) ELSE RunningIn(t)
    BY <2>4, <2>6, <2>7 DEF RunningIn, InScript
  <2>9. \A t \in Sids : WaitingFor(t)' = IF t = s THEN NoFunc ELSE WaitingFor(t)
    BY <1>1, <2>5 DEF WaitingFor
  <2> QED
    BY <2>2, <2>3, <2>6, <2>7, <2>8, <2>9, ChainRuns
<1>3. CASE ~Waiting(s)
  <2>1. Done /\ UNCHANGED m_rules
    BY <1>3 DEF onTimeOut, Waiting
  <2> QED
    BY <1>1, <2>1, Unseen DEF Done
<1> QED
  BY <1>2, <1>3

LEMMA ScriptReturns ==
  ASSUME ServiceInv, Script
  PROVE  Chain!Next \/ ChainVars' = ChainVars
<1>1. PICK o \in Body[func] : pull = "script" /\ (Returns(o, utm.sid) \/ Dies(o, utm.sid))
  BY DEF Script
<1> DEFINE s == utm.sid
<1>2. /\ ServiceTypeOK /\ func \in Funcs /\ func # NoFunc /\ s \in Sids /\ m_rules[s] = <<>>
  BY <1>1, MessageTypes, ServiceAssumption DEF ServiceInv, PullInv
<1>3. CASE Dies(o, s)
  BY <1>3, Unseen DEF Dies, thread, sessions
<1>4. CASE Returns(o, s)
  <2>1. pull' = "check" /\ \A t \in Sids : RunningIn(t) = IF t = s THEN func ELSE NoFunc
    BY <1>1, <1>4 DEF Returns, Done, RunningIn, InScript
  <2>2. \A t \in Sids : RunningIn(t)' = IF t = s THEN NoFunc ELSE RunningIn(t)
    BY <2>1 DEF RunningIn, InScript
  <2>3. WaitingFor(s) = NoFunc
    BY <1>2 DEF WaitingFor
  <2>4. CASE o.ends = "armed" /\ Armed(s, o.next)
    <3> DEFINE f == IF s \in deleted THEN NoFunc ELSE o.next
    <3>1. m_rules' = [m_rules EXCEPT ![s] = <<o.next>>] /\ UNCHANGED deleted
      BY <1>2, <2>4 DEF Armed, SetNextState, ServiceTypeOK
    <3>2. \A t \in Sids : m_rules'[t] = IF t = s THEN <<o.next>> ELSE m_rules[t]
      BY <1>2, <3>1 DEF ServiceTypeOK
    <3>3. <<o.next>> # <<>> /\ Head(<<o.next>>) = o.next
      OBVIOUS
    <3> HIDE DEF s
    <3>4. \A t \in Sids : WaitingFor(t)' = IF t = s THEN f ELSE WaitingFor(t)
      BY <3>1, <3>2, <3>3 DEF WaitingFor
    <3>5. f = NoFunc \/ \E b \in Body[RunningIn(s)] : b.ends = "armed" /\ f = b.next
      BY <1>1, <1>2, <2>1, <2>4
    <3> HIDE DEF f
    <3> QED
      BY <1>2, <2>1, <2>2, <3>4, <3>5, ChainReturns
  <2>5. CASE Unruled(s) \/ Unarmed \/ Exit(s) \/ FailsInBegin(s)
    <3>1. UNCHANGED m_rules /\ deleted' \subseteq deleted \cup {s}
          /\ deleted \subseteq deleted'
      BY <2>5 DEF Unruled, Unarmed, Exit, FailsInBegin, Erase, sessions
    <3> HIDE DEF s
    <3>2. \A t \in Sids : WaitingFor(t)' = IF t = s THEN NoFunc ELSE WaitingFor(t)
      BY <1>2, <3>1 DEF WaitingFor
    <3> QED
      BY <1>2, <2>1, <2>2, <3>2, ChainReturns
  <2> QED
    BY <1>4, <2>4, <2>5 DEF Returns
<1> QED
  BY <1>1, <1>3, <1>4

LEMMA ChainSteps ==
  ASSUME ServiceInv, ServiceInv', [ServiceNext]_vars
  PROVE  Chain!Next \/ ChainVars' = ChainVars
<1>1. ServiceTypeOK /\ ServiceTypeOK' /\ StageInv /\ PullInv
  BY DEF ServiceInv
<1>2. CASE \/ UNCHANGED vars \/ Hook \/ init \/ StartPull \/ handleUICommand \/ Quit \/ Stop
           \/ Join \/ StopDispatcher
  BY <1>1, <1>2, Unseen DEF vars, Hook, init, StartPull, handleUICommand, Quit, Stop, Join,
     StopDispatcher, thread,
     sessions, StageInv, Beginning
<1>3. CASE ClearAll
  <2>1. UNCHANGED m_rules /\ UNCHANGED <<pull, utm, func>>
    BY <1>3 DEF ClearAll, sessions, thread
  <2>2. UNCHANGED deleted \/ \E s \in m_sessionTable : Erase(s)
    BY <1>3 DEF ClearAll, sessions
  <2> QED
    BY <1>1, <2>1, <2>2, Unseen, ErasedDrops DEF ServiceTypeOK
<1>4. ASSUME NEW id \in Timers, Timer(id)
      PROVE  ChainVars' = ChainVars
  BY <1>4, Unseen DEF Timer, thread, sessions
<1>5. CASE Pull
  <2>1. CASE Check \/ getMessage \/ onStartWork \/ onOther
    BY <2>1, Unseen DEF Check, getMessage, onStartWork, onOther, Handling, Done, sessions
  <2>2. CASE onKillSession
    <3>1. utm.sid \in Sids
      BY <1>1, <2>2, MessageTypes DEF onKillSession, Handling, PullInv, Formed, Creating, Work,
         TimeOut, Message
    <3> QED
      BY <1>1, <2>2, <3>1, ErasedDrops DEF onKillSession, Handling, Done
  <2> QED
    BY <1>1, <1>5, <2>1, <2>2, CreateBegins, TimeOutRuns, ScriptReturns DEF Pull
<1> QED
  BY <1>2, <1>3, <1>4, <1>5 DEF ServiceNext

LEMMA ChainStarts == ServiceInit => Chain!Init
BY DEF ServiceInit, Chain!Init, InScript

\* The functions of each session run one at a time, the first is BEGIN, and every
\* other was named by the one before it and runs once: the service implements
\* ScriptChain, whatever the queue drops and whichever session is deleted.
THEOREM ServiceIsChain == ServiceSpec => ChainSpec
<1>1. ServiceInv /\ ServiceInv' /\ [ServiceNext]_vars => [Chain!Next]_ChainVars
  BY ChainSteps
<1> QED
  BY <1>1, ChainStarts, ServiceInvariance, Unfair, PTL DEF ChainSpec, Chain!Spec, ChainVars
=============================================================================
