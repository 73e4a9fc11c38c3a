------------------------ MODULE BoundedQueue_proofs ------------------------
(***************************************************************************)
(* Theorems about BoundedQueue, for every number of threads, every set of  *)
(* messages and every size of the ring.                                    *)
(***************************************************************************)
EXTENDS BoundedQueue, SequenceTheorems, TLAPS

\* The tail is m_buffered slots behind the head.
RingInv == m_end = Slot(m_buffered)

\* What a putter that waits is putting is a message.
ArgInv == \A p \in Putters : pc[p] # "idle" => arg[p] \in Calls

QueueInv == QueueTypeOK /\ RingInv /\ ArgInv

-----------------------------------------------------------------------------
\* A message put at the tail, or at the head.
LEMMA StoredInv ==
  ASSUME QueueInv, NEW p \in Putters, NEW call \in Calls, Stored(p, call)
  PROVE  QueueInv'
<1>1. call.msg \in Messages /\ p \in Threads
  BY DEF Calls, Threads
<1>2. m_buffered < Capacity /\ m_buffered \in Nat /\ Capacity \in Nat \ {0}
  BY QueueAssumption DEF Stored, Full, QueueInv, QueueTypeOK
<1>3. /\ m_begin' \in Slots /\ m_end' \in Slots
      /\ m_buffered' \in 0 .. Capacity
      /\ m_circularBuf' \in [Slots -> Messages \cup {Null}]
      /\ RingInv'
  <2>1. CASE call.atHead
    BY SMTT(60), <1>1, <1>2, <2>1 DEF Stored, purePutHead, Pred, QueueInv, QueueTypeOK, Slots,
         RingInv, Slot
  <2>2. CASE ~call.atHead
    <3>1. /\ m_begin' = m_begin /\ m_end' = Succ(m_end) /\ m_buffered' = m_buffered + 1
          /\ m_circularBuf' = [m_circularBuf EXCEPT ![m_end] = call.msg]
      BY <2>2 DEF Stored, purePut
    <3>2. m_begin' \in Slots /\ m_end' \in Slots /\ m_buffered' \in 0 .. Capacity
      BY <1>2, <3>1 DEF Succ, QueueInv, QueueTypeOK, Slots
    <3>3. m_circularBuf' \in [Slots -> Messages \cup {Null}]
      BY <1>1, <3>1 DEF QueueInv, QueueTypeOK
    <3>4. RingInv'
      BY <1>2, <3>1 DEF Succ, QueueInv, QueueTypeOK, Slots, RingInv, Slot
    <3> QED
      BY <3>2, <3>3, <3>4
  <2> QED
    BY <2>1, <2>2
<1>4. m_notEmpty' \in Nat
  BY DEF Stored, signalled, QueueInv, QueueTypeOK
<1>5. /\ pc' \in [Threads -> {"idle", "retry"} \cup Waiting]
      /\ arg' \in [Putters -> Calls \cup {NoCall}]
      /\ ArgInv'
  BY <1>1 DEF Stored, QueueInv, QueueTypeOK, ArgInv
<1> QED
  BY <1>3, <1>4, <1>5 DEF Stored, QueueInv, QueueTypeOK

\* A message taken.
LEMMA TakenInv ==
  ASSUME QueueInv, NEW g \in Getters, Taken(g)
  PROVE  QueueInv'
<1>1. g \in Threads /\ g \notin Putters
  BY QueueAssumption DEF Threads
<1>2. m_buffered > 0 /\ m_buffered \in Nat /\ Capacity \in Nat \ {0}
  BY QueueAssumption DEF Taken, Empty, QueueInv, QueueTypeOK
<1>3. /\ m_begin' \in Slots /\ m_end' \in Slots
      /\ m_buffered' \in 0 .. Capacity
      /\ m_circularBuf' \in [Slots -> Messages \cup {Null}]
      /\ RingInv'
  BY <1>2 DEF Taken, pureGet, Succ, QueueInv, QueueTypeOK, Slots, RingInv, Slot
<1>4. m_notFull' \in Nat
  BY DEF Taken, signalled, QueueInv, QueueTypeOK
<1>5. /\ pc' \in [Threads -> {"idle", "retry"} \cup Waiting]
      /\ ArgInv'
  BY <1>1 DEF Taken, QueueInv, QueueTypeOK, ArgInv, Threads
<1> QED
  BY <1>3, <1>4, <1>5 DEF Taken, QueueInv, QueueTypeOK

\* The steps that leave the ring alone: of each, only where its thread stands
\* and what it takes from its event matter.
LEMMA WaitInv ==
  ASSUME QueueInv, UNCHANGED ring,
         NEW t \in Threads, NEW at \in {"idle", "retry"} \cup Waiting,
         pc' = [pc EXCEPT ![t] = at],
         m_notFull' \in Nat, m_notEmpty' \in Nat,
         \/ UNCHANGED arg /\ (t \in Putters => at = "idle" \/ pc[t] # "idle")
         \/ \E call \in Calls : t \in Putters /\ arg' = [arg EXCEPT ![t] = call]
  PROVE  QueueInv'
<1>1. QueueTypeOK' /\ RingInv'
  BY DEF QueueInv, QueueTypeOK, RingInv, Slot, ring
<1>2. ArgInv'
  BY DEF QueueInv, QueueTypeOK, ArgInv, Threads
<1> QED
  BY <1>1, <1>2 DEF QueueInv

\* Every step.
LEMMA QueueNextInv == QueueInv /\ [QueueNext]_vars => QueueInv'
<1> SUFFICES ASSUME QueueInv, [QueueNext]_vars
             PROVE  QueueInv'
  OBVIOUS
<1> USE DEF Waiting
<1>0. m_notFull \in Nat /\ m_notEmpty \in Nat
  BY DEF QueueInv, QueueTypeOK
<1>1. ASSUME NEW p \in Putters, put(p) PROVE QueueInv'
  <2>1. PICK call \in Calls : Stored(p, call) \/ PutWaits(p, call)
    BY <1>1 DEF put, QueueInv, ArgInv
  <2>2. CASE PutWaits(p, call)
    BY <1>0, <2>2, WaitInv DEF PutWaits, events, Threads
  <2> QED
    BY <2>1, <2>2, StoredInv
<1>2. ASSUME NEW p \in Putters, tryPut(p) PROVE QueueInv'
  BY <1>2, StoredInv DEF tryPut
<1>3. ASSUME NEW p \in Putters, WakePutter(p) PROVE QueueInv'
  <2>1. m_notFull' \in Nat
    BY <1>0, <1>3 DEF WakePutter
  <2> QED
    BY <1>0, <1>3, <2>1, WaitInv DEF WakePutter, Threads
<1>4. ASSUME NEW g \in Getters, get(g) PROVE QueueInv'
  <2>1. CASE GetWaits(g)
    BY <1>0, <2>1, WaitInv, QueueAssumption DEF GetWaits, events, Threads
  <2> QED
    BY <1>4, <2>1, TakenInv DEF get
<1>5. ASSUME NEW g \in Getters, tryGet(g) PROVE QueueInv'
  BY <1>5, TakenInv DEF tryGet
<1>6. ASSUME NEW g \in Getters, TimedOut(g) PROVE QueueInv'
  BY <1>0, <1>6, WaitInv DEF TimedOut, events, Threads
<1>7. ASSUME NEW g \in Getters, WakeGetter(g) PROVE QueueInv'
  <2>1. m_notEmpty' \in Nat
    BY <1>0, <1>7 DEF WakeGetter
  <2> QED
    BY <1>0, <1>7, <2>1, WaitInv DEF WakeGetter, Threads
<1>8. ASSUME NEW t \in Threads, Sleep(t) PROVE QueueInv'
  BY <1>0, <1>8, WaitInv DEF Sleep, events, Threads
<1>9. CASE UNCHANGED vars
  BY <1>9 DEF vars, ring, events, QueueInv, QueueTypeOK, RingInv, Slot, ArgInv
<1> QED
  BY <1>1, <1>2, <1>3, <1>4, <1>5, <1>6, <1>7, <1>8, <1>9 DEF QueueNext

\* The first state.
LEMMA QueueInitInv == QueueInit => QueueInv
<1> SUFFICES ASSUME QueueInit PROVE QueueInv
  OBVIOUS
<1>1. 0 \in Slots /\ RingInv /\ m_buffered \in 0 .. Capacity
  BY QueueAssumption DEF QueueInit, RingInv, Slot, Slots
<1>2. QueueTypeOK
  BY <1>1 DEF QueueInit, QueueTypeOK
<1>3. ArgInv
  BY DEF QueueInit, ArgInv, Threads
<1> QED
  BY <1>1, <1>2, <1>3 DEF QueueInv

\* The ring never leaves its bounds and the tail always follows the head at the
\* distance of the messages in it.
THEOREM QueueInvariance == QueueSpec => []QueueInv
<1> QED
  BY QueueInitInv, QueueNextInv, PTL DEF QueueSpec

\* Every variable of the queue keeps its type, for every size of the ring.
THEOREM QueueTypeCorrect == QueueSpec => []QueueTypeOK
<1>1. QueueInv => QueueTypeOK
  BY DEF QueueInv
<1> QED
  BY <1>1, QueueInvariance, PTL

-----------------------------------------------------------------------------
\* The messages in the ring are a sequence.
ContentsShape ==
  /\ contents \in Seq(Messages \cup {Null})
  /\ Len(contents) = m_buffered
  /\ \A i \in 1 .. m_buffered : contents[i] = m_circularBuf[Slot(i - 1)]

LEMMA ContentsSeq == QueueInv => ContentsShape
<1> SUFFICES ASSUME QueueInv PROVE ContentsShape
  OBVIOUS
<1>1. m_buffered \in Nat /\ m_buffered <= Capacity /\ Capacity \in Nat \ {0}
      /\ m_begin \in Nat /\ m_begin < Capacity
  BY QueueAssumption DEF QueueInv, QueueTypeOK, Slots
<1>2. ASSUME NEW i \in 1 .. m_buffered
      PROVE  Slot(i - 1) \in Slots
  BY <1>1 DEF Slot, Slots
<1>3. contents \in [1 .. m_buffered -> Messages \cup {Null}]
  BY <1>2 DEF contents, QueueInv, QueueTypeOK
<1>4. contents \in Seq(Messages \cup {Null}) /\ Len(contents) = m_buffered
  BY <1>1, <1>3
<1> QED
  BY <1>4 DEF ContentsShape, contents

LEMMA ContentsSeqNext == QueueInv' => ContentsShape'
  BY ContentsSeq, PTL

\* A message put at the tail comes after all others.
LEMMA PutTailRefined ==
  ASSUME QueueInv, QueueInv', NEW m \in Messages, ~Full, purePut(m)
  PROVE  contents' = Append(contents, m)
<1> DEFINE Msg == Messages \cup {Null}
<1>1. /\ m_buffered \in Nat /\ m_buffered < Capacity /\ Capacity \in Nat \ {0}
      /\ m_begin \in Nat /\ m_begin < Capacity /\ m_end \in Slots
      /\ m_end = Slot(m_buffered)
  BY QueueAssumption DEF QueueInv, QueueTypeOK, RingInv, Slots, Full
<1>2. /\ m_begin' = m_begin /\ m_buffered' = m_buffered + 1
      /\ m_circularBuf' = [m_circularBuf EXCEPT ![m_end] = m]
      /\ m_circularBuf \in [Slots -> Msg]
  BY DEF purePut, QueueInv, QueueTypeOK
<1>3. /\ contents \in Seq(Msg) /\ Len(contents) = m_buffered
      /\ \A i \in 1 .. m_buffered : contents[i] = m_circularBuf[Slot(i - 1)]
  BY ContentsSeq DEF ContentsShape
<1>4. /\ contents' \in Seq(Msg) /\ Len(contents') = m_buffered + 1
      /\ \A i \in 1 .. m_buffered + 1 : contents'[i] = m_circularBuf'[Slot(i - 1)']
  BY <1>2, ContentsSeqNext DEF ContentsShape
<1>5. /\ Append(contents, m) \in Seq(Msg)
      /\ Len(Append(contents, m)) = m_buffered + 1
      /\ Append(contents, m)[m_buffered + 1] = m
      /\ \A i \in 1 .. m_buffered : Append(contents, m)[i] = contents[i]
  BY <1>1, <1>3, AppendProperties
<1>6. ASSUME NEW i \in 1 .. m_buffered + 1
      PROVE  contents'[i] = Append(contents, m)[i]
  <2>1. Slot(i - 1)' = Slot(i - 1) /\ Slot(i - 1) \in Slots
    BY <1>1, <1>2 DEF Slot, Slots
  <2>2. CASE i = m_buffered + 1
    BY <1>1, <1>2, <1>4, <1>5, <2>1, <2>2
  <2>3. CASE i # m_buffered + 1
    <3>1. i \in 1 .. m_buffered
      BY <1>1, <2>3
    <3>2. Slot(i - 1) # m_end
      BY <1>1, <3>1 DEF Slot
    <3> QED
      BY <1>2, <1>3, <1>4, <1>5, <2>1, <3>1, <3>2
  <2> QED
    BY <2>2, <2>3
<1> HIDE DEF Msg
<1> QED
  BY <1>1, <1>4, <1>5, <1>6, SeqEqual

\* A message put at the head comes before all others.
LEMMA PutHeadRefined ==
  ASSUME QueueInv, QueueInv', NEW m \in Messages, ~Full, purePutHead(m)
  PROVE  contents' = <<m>> \o contents
<1> DEFINE Msg == Messages \cup {Null}
<1>1. /\ m_buffered \in Nat /\ m_buffered < Capacity /\ Capacity \in Nat \ {0}
      /\ m_begin \in Nat /\ m_begin < Capacity
  BY QueueAssumption DEF QueueInv, QueueTypeOK, Slots, Full
<1>2. /\ m_begin' = Pred(m_begin) /\ m_buffered' = m_buffered + 1
      /\ m_circularBuf' = [m_circularBuf EXCEPT ![Pred(m_begin)] = m]
      /\ m_circularBuf \in [Slots -> Msg]
  BY DEF purePutHead, QueueInv, QueueTypeOK
<1>3. /\ contents \in Seq(Msg) /\ Len(contents) = m_buffered
      /\ \A i \in 1 .. m_buffered : contents[i] = m_circularBuf[Slot(i - 1)]
  BY ContentsSeq DEF ContentsShape
<1>4. /\ contents' \in Seq(Msg) /\ Len(contents') = m_buffered + 1
      /\ \A i \in 1 .. m_buffered + 1 : contents'[i] = m_circularBuf'[Slot(i - 1)']
  BY <1>2, ContentsSeqNext DEF ContentsShape
<1>5. /\ <<m>> \in Seq(Msg) /\ Len(<<m>>) = 1 /\ <<m>>[1] = m
  OBVIOUS
<1> HIDE DEF Msg
<1>6. /\ <<m>> \o contents \in Seq(Msg)
      /\ Len(<<m>> \o contents) = m_buffered + 1
      /\ \A i \in 1 .. m_buffered + 1 :
           (<<m>> \o contents)[i] = IF i <= 1 THEN m ELSE contents[i - 1]
  <2>1. /\ <<m>> \o contents \in Seq(Msg)
        /\ Len(<<m>> \o contents) = 1 + m_buffered
        /\ \A i \in 1 .. 1 + m_buffered :
             (<<m>> \o contents)[i] = IF i <= 1 THEN <<m>>[i] ELSE contents[i - 1]
    BY <1>3, <1>5, ConcatProperties
  <2> QED
    BY <1>1, <1>5, <2>1
<1>7. Pred(m_begin) \in Slots
  BY <1>1 DEF Pred, Slots
<1>8. ASSUME NEW i \in 1 .. m_buffered + 1
      PROVE  contents'[i] = (<<m>> \o contents)[i]
  <2>1. Slot(i - 1)' = IF Pred(m_begin) + (i - 1) < Capacity
                       THEN Pred(m_begin) + (i - 1)
                       ELSE Pred(m_begin) + (i - 1) - Capacity
    BY <1>2 DEF Slot
  <2>2. CASE i = 1
    <3>1. Slot(i - 1)' = Pred(m_begin)
      BY <1>1, <1>7, <2>1, <2>2 DEF Slots
    <3> QED
      BY <1>2, <1>4, <1>6, <1>7, <2>2, <3>1
  <2>3. CASE i # 1
    <3>1. i - 1 \in 1 .. m_buffered
      BY <1>1, <2>3
    <3>2. Slot(i - 1)' = Slot((i - 1) - 1) /\ Slot((i - 1) - 1) \in Slots
      BY <1>1, <2>1, <3>1 DEF Slot, Slots, Pred
    <3>3. Slot((i - 1) - 1) # Pred(m_begin)
      BY <1>1, <3>1 DEF Slot, Pred
    <3> QED
      BY <1>1, <1>2, <1>3, <1>4, <1>6, <2>3, <3>1, <3>2, <3>3
  <2> QED
    BY <2>2, <2>3
<1> QED
  BY <1>1, <1>4, <1>6, <1>8, SeqEqual

\* The message taken is the first one.
LEMMA TakeRefined ==
  ASSUME QueueInv, QueueInv', ~Empty, pureGet
  PROVE  contents # <<>> /\ contents' = Tail(contents)
<1> DEFINE Msg == Messages \cup {Null}
<1>1. /\ m_buffered \in Nat /\ 0 < m_buffered /\ m_buffered <= Capacity
      /\ Capacity \in Nat \ {0} /\ m_begin \in Nat /\ m_begin < Capacity
  BY QueueAssumption DEF QueueInv, QueueTypeOK, Slots, Empty
<1>2. /\ m_begin' = Succ(m_begin) /\ m_buffered' = m_buffered - 1
      /\ m_circularBuf' = [m_circularBuf EXCEPT ![m_begin] = Null]
      /\ m_circularBuf \in [Slots -> Msg]
  BY DEF pureGet, QueueInv, QueueTypeOK
<1>3. /\ contents \in Seq(Msg) /\ Len(contents) = m_buffered
      /\ \A i \in 1 .. m_buffered : contents[i] = m_circularBuf[Slot(i - 1)]
  BY ContentsSeq DEF ContentsShape
<1>4. /\ contents' \in Seq(Msg) /\ Len(contents') = m_buffered - 1
      /\ \A i \in 1 .. m_buffered - 1 : contents'[i] = m_circularBuf'[Slot(i - 1)']
  BY <1>2, ContentsSeqNext DEF ContentsShape
<1> HIDE DEF Msg
<1>5. contents # <<>>
  BY <1>1, <1>3
<1>6. /\ Tail(contents) \in Seq(Msg)
      /\ Len(Tail(contents)) = m_buffered - 1
      /\ \A i \in 1 .. m_buffered - 1 : Tail(contents)[i] = contents[i + 1]
  BY <1>3, <1>5, HeadTailProperties
<1>7. ASSUME NEW i \in 1 .. m_buffered - 1
      PROVE  contents'[i] = Tail(contents)[i]
  <2>1. Slot(i - 1)' = Slot((i + 1) - 1) /\ Slot((i + 1) - 1) \in Slots
    BY <1>1, <1>2 DEF Slot, Slots, Succ
  <2>2. Slot((i + 1) - 1) # m_begin
    BY <1>1 DEF Slot
  <2>3. i + 1 \in 1 .. m_buffered
    BY <1>1
  <2> QED
    BY <1>2, <1>3, <1>4, <1>6, <2>1, <2>2, <2>3
<1> QED
  BY <1>1, <1>4, <1>5, <1>6, <1>7, SeqEqual

\* Every step of the ring is a step of the deque, or does not touch it.
LEMMA StepRefined ==
  ASSUME QueueInv, QueueInv', [QueueNext]_vars
  PROVE  [D!Next]_contents
<1>1. ASSUME NEW p \in Putters, NEW call \in Calls, Stored(p, call)
      PROVE  D!Next
  <2>1. call.msg \in Messages /\ ~Full /\ Len(contents) < Capacity
    BY <1>1, ContentsSeq, QueueAssumption DEF ContentsShape, Calls, Stored, Full, QueueInv, QueueTypeOK
  <2>2. CASE call.atHead
    <3>1. contents' = <<call.msg>> \o contents
      BY <1>1, <2>1, <2>2, PutHeadRefined DEF Stored
    <3> QED
      BY <2>1, <3>1 DEF D!Next, D!PutHead
  <2>3. CASE ~call.atHead
    <3>1. contents' = Append(contents, call.msg)
      BY <1>1, <2>1, <2>3, PutTailRefined DEF Stored
    <3> QED
      BY <2>1, <3>1 DEF D!Next, D!PutTail
  <2> QED
    BY <2>2, <2>3
<1>2. ASSUME NEW g \in Getters, Taken(g)
      PROVE  D!Next
  BY <1>2, TakeRefined DEF Taken, D!Next, D!Take
<1>3. ASSUME UNCHANGED ring
      PROVE  UNCHANGED contents
  BY <1>3 DEF ring, contents, Slot
<1>4. CASE \E p \in Putters : put(p)
  <2>1. PICK p \in Putters, call \in Calls : Stored(p, call) \/ PutWaits(p, call)
    BY <1>4 DEF put, QueueInv, ArgInv
  <2> QED
    BY <1>1, <1>3, <2>1 DEF PutWaits
<1>5. CASE \E p \in Putters : tryPut(p)
  BY <1>1, <1>5 DEF tryPut
<1>6. CASE \E g \in Getters : get(g) \/ tryGet(g)
  BY <1>2, <1>3, <1>6 DEF get, tryGet, GetWaits
<1>7. CASE \/ \E p \in Putters : WakePutter(p)
           \/ \E g \in Getters : TimedOut(g) \/ WakeGetter(g)
           \/ \E t \in Threads : Sleep(t)
  BY <1>3, <1>7 DEF WakePutter, TimedOut, WakeGetter, Sleep
<1>8. CASE UNCHANGED vars
  BY <1>3, <1>8 DEF vars
<1> QED
  BY <1>4, <1>5, <1>6, <1>7, <1>8 DEF QueueNext

\* BoundedQueue.h implements a deque: whatever its size, and however many
\* threads put and get at both ends, messages leave in the order of the deque,
\* none twice, none lost.
THEOREM QueueIsDeque == QueueSpec => DequeSpec
<1>1. QueueInit => D!Init
  <2> SUFFICES ASSUME QueueInit PROVE contents = <<>>
    BY DEF D!Init
  <2>1. contents \in Seq(Messages \cup {Null}) /\ Len(contents) = 0
    BY QueueInitInv, ContentsSeq DEF ContentsShape, QueueInit
  <2> QED
    BY <2>1, EmptySeq
<1>2. QueueInv /\ QueueInv' /\ [QueueNext]_vars => [D!Next]_contents
  BY StepRefined
<1> QED
  BY <1>1, <1>2, QueueInvariance, PTL DEF QueueSpec, DequeSpec, D!Spec

-----------------------------------------------------------------------------
\* With the event of Windows, which keeps a signal until a wait resets it, no
\* getter sleeps through a message and no putter through a free slot: between
\* the unlock and the wait of the blocking calls nothing is missed.
THEOREM NothingMissed ==
  ASSUME EventKind = "auto"
  PROVE  QueueSpec => []NoSleepThrough
<1>1. QueueInit => NoSleepThrough
  BY DEF QueueInit, NoSleepThrough, Waiting, Threads
<1>2. ASSUME QueueInv, NoSleepThrough, [QueueNext]_vars
      PROVE  NoSleepThrough'
  <2> USE DEF Waiting
  <2>0. Putters \cap Getters = {} /\ pc \in [Threads -> {"idle", "retry"} \cup Waiting]
    BY <1>2, QueueAssumption DEF QueueInv, QueueTypeOK
  <2>1. ASSUME NEW p \in Putters, NEW call \in Calls, Stored(p, call)
        PROVE  NoSleepThrough'
    BY <2>0, <2>1 DEF Stored, signalled, NoSleepThrough, Threads
  <2>2. ASSUME NEW g \in Getters, Taken(g)
        PROVE  NoSleepThrough'
    BY <2>0, <2>2 DEF Taken, signalled, NoSleepThrough, Threads
  <2>3. ASSUME NEW p \in Putters, NEW call \in Calls, PutWaits(p, call)
        PROVE  NoSleepThrough'
    BY <1>2, <2>0, <2>3 DEF PutWaits, NoSleepThrough, Threads, ring, events, Full, Empty
  <2>4. ASSUME NEW g \in Getters, GetWaits(g)
        PROVE  NoSleepThrough'
    BY <1>2, <2>0, <2>4 DEF GetWaits, NoSleepThrough, Threads, ring, events, Full, Empty
  <2>5. ASSUME NEW p \in Putters, WakePutter(p)
        PROVE  NoSleepThrough'
    BY <1>2, <2>0, <2>5 DEF WakePutter, NoSleepThrough, Threads, ring, Full, Empty
  <2>6. ASSUME NEW g \in Getters, TimedOut(g) \/ WakeGetter(g)
        PROVE  NoSleepThrough'
    BY <1>2, <2>0, <2>6 DEF TimedOut, WakeGetter, NoSleepThrough, Threads, ring, events,
         Full, Empty
  <2>7. ASSUME NEW t \in Threads, Sleep(t)
        PROVE  NoSleepThrough'
    BY <1>2, <2>0, <2>7 DEF Sleep, NoSleepThrough, Threads, ring, events, Full, Empty
  <2>8. CASE UNCHANGED vars
    BY <1>2, <2>8 DEF vars, NoSleepThrough, ring, events, Full, Empty
  <2>9. CASE \E p \in Putters : put(p) \/ tryPut(p)
    BY <1>2, <2>1, <2>3, <2>9 DEF put, tryPut, QueueInv, ArgInv
  <2>10. CASE \E g \in Getters : get(g) \/ tryGet(g)
    BY <2>2, <2>4, <2>10 DEF get, tryGet
  <2> QED
    BY <1>2, <2>5, <2>6, <2>7, <2>8, <2>9, <2>10 DEF QueueNext
<1> QED
  BY <1>1, <1>2, QueueInvariance, PTL DEF QueueSpec
=============================================================================
