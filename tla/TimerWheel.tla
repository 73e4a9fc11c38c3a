----------------------------- MODULE TimerWheel -----------------------------
(***************************************************************************)
(* util/Timer.cpp: the hierarchical timing wheel under every setTimer of   *)
(* the services.  A root wheel of TVR_SIZE slots and four others of        *)
(* TVN_SIZE; a timer far away stands in a coarse wheel and is moved, when  *)
(* the finer ones have gone round, into a finer one.  set, cancel and each *)
(* tick run under m_mutex and are one step each.                           *)
(*                                                                         *)
(* The lists in the slots are modelled as sets: which of the timers of one *)
(* tick fires first is left open.                                          *)
(***************************************************************************)
EXTENDS Integers, Sequences, FiniteSets

CONSTANTS
  TVR_SIZE, TVN_SIZE, NOOF_TVECS, \* 256, 64 and 5 in the code
  MAX_TIMER_COUNT, \* timers allocated at the start, 4096
  ENLARGE_SIZE,    \* and each time there is none left, 1024
  MaxTimers,       \* bound: timers allocated in the end
  MaxTicks         \* bound: the longest expires/m_timeslice

Levels == 1 .. NOOF_TVECS
Ids    == 0 .. MaxTimers - 1

\* A slot of level n spans Span(n) ticks; the wheels together count in 32 bits.
Span(n) == <<1, TVR_SIZE, TVR_SIZE * TVN_SIZE, TVR_SIZE * TVN_SIZE * TVN_SIZE,
             TVR_SIZE * TVN_SIZE * TVN_SIZE * TVN_SIZE>>[n]
Size(n) == IF n = 1 THEN TVR_SIZE ELSE TVN_SIZE
Slots(n) == 0 .. Size(n) - 1
Wrap    == Span(NOOF_TVECS) * TVN_SIZE

\* 2^32 milliseconds are less than 2^31 slices of 50 ms or more: no timer is so
\* far away that its distance looks negative.
ASSUME WheelAssumption ==
  /\ TVR_SIZE \in Nat \ {0, 1} /\ TVN_SIZE \in Nat \ {0, 1} /\ NOOF_TVECS \in 2 .. 5
  /\ MAX_TIMER_COUNT \in Nat /\ ENLARGE_SIZE \in Nat \ {0}
  /\ MaxTimers \in Nat /\ MAX_TIMER_COUNT <= MaxTimers
  /\ MaxTicks \in Nat /\ 2 * MaxTicks < Wrap

VARIABLES
  m_tickCount,
  index,       \* index[n]: the current slot of level n
  vec,         \* vec[n][i]: the timers in slot i of level n
  expires,     \* expires[id], in ticks
  allocated,   \* the size of m_allocatedTimer
  active,      \* the timers whose timerid is not INVALID_ID
  m_freeTimers \* the ids set can take, the first one next

wheel == <<m_tickCount, index, vec>>
owned == <<allocated, active, m_freeTimers>>
vars  == <<wheel, expires, owned>>

WheelInit ==
  /\ m_tickCount = 0
  /\ index = [n \in Levels |-> 0]
  /\ vec = [n \in Levels |-> [i \in Slots(n) |-> {}]]
  /\ expires = [id \in Ids |-> 0]
  /\ allocated = MAX_TIMER_COUNT /\ active = {}
  /\ m_freeTimers = [i \in 1 .. MAX_TIMER_COUNT |-> i - 1]

-----------------------------------------------------------------------------
\* insert: the level by the distance, the slot by the bits of expires. A
\* distance that looks negative puts the timer into the current slot.
Place(at) ==
  LET idx == (at - m_tickCount) % Wrap
      n   == CHOOSE k \in Levels : /\ idx < Span(k) * Size(k)
                                   /\ \A j \in Levels : j < k => idx >= Span(j) * Size(j)
  IN  IF n = NOOF_TVECS /\ 2 * idx >= Wrap
      THEN <<1, index[1]>>
      ELSE <<n, (at \div Span(n)) % Size(n)>>

insert(v, id, at) ==
  [v EXCEPT ![Place(at)[1]][Place(at)[2]] = @ \cup {id}]

\* enlarge, when no id is free.
Grown == IF m_freeTimers = <<>> THEN allocated + ENLARGE_SIZE ELSE allocated
Free  == m_freeTimers \o [i \in 1 .. Grown - allocated |-> allocated + i - 1]

\* Mutant: the counter of ticks is wider than the wheels.
Wide(at) == at

\* Ticks are counted in 32 bits.
Ticks(at) == at % Wrap

set(d) ==
  LET id == Head(Free)
      at == Ticks(m_tickCount + d)
  IN  /\ Grown <= MaxTimers
      /\ allocated' = Grown
      /\ expires' = [expires EXCEPT ![id] = at]
      /\ vec' = insert(vec, id, at)
      /\ active' = active \cup {id}
      /\ m_freeTimers' = Tail(Free)
      /\ UNCHANGED <<m_tickCount, index>>

\* erase, by the links the timer itself holds.
Erased(v, ids) == [n \in Levels |-> [i \in DOMAIN v[n] |-> v[n][i] \ ids]]

\* Nothing reads the expires of a timer that is not set.
Forgotten(ids) == [id \in Ids |-> IF id \in ids THEN 0 ELSE expires[id]]

\* Mutant: the canceled timer is left in its list.
cancelLinked(id) ==
  /\ id \in active
  /\ active' = active \ {id}
  /\ m_freeTimers' = Append(m_freeTimers, id)
  /\ expires' = Forgotten({id})
  /\ UNCHANGED <<wheel, allocated>>

\* An id that has fired is passed over, as long as nobody else has it.
cancel(id) ==
  /\ id \in active
  /\ vec' = Erased(vec, {id})
  /\ active' = active \ {id}
  /\ expires' = Forgotten({id})
  /\ m_freeTimers' = Append(m_freeTimers, id)
  /\ UNCHANGED <<m_tickCount, index, allocated>>

-----------------------------------------------------------------------------
\* cascade of level n: every timer of the current slot is inserted again, then
\* the slot is emptied. What was put back into it would be lost.
cascade(v, n) ==
  LET moved == v[n][index[n]]
      to(l, i) == {id \in moved : Place(expires[id]) = <<l, i>>}
      placed   == [l \in Levels |-> [i \in DOMAIN v[l] |-> v[l][i] \cup to(l, i)]]
  IN  [placed EXCEPT ![n][index[n]] = {}]

\* Mutant: the levels cascade when the index has come back to 0.
TurningLate ==
  IF index[1] # 0 THEN {}
  ELSE {n \in Levels \ {1} : \A k \in 2 .. n - 1 : index[k] = TVN_SIZE - 1}

\* The levels that cascade: the root has gone round, then each next level as
\* long as the one before has begun a new turn (its index becomes 1).
Turning ==
  IF index[1] # 0 THEN {}
  ELSE {n \in Levels \ {1} : \A k \in 2 .. n - 1 : index[k] = 0}

\* The wheels when the levels up to n have been gone through.
down[n \in Levels] ==
  IF n = 1 THEN vec
  ELSE IF n \in Turning THEN cascade(down[n - 1], n) ELSE down[n - 1]

\* The sequences in which the timers of a set can fire.
Orders(S) ==
  {q \in [1 .. Cardinality(S) -> S] : /\ \A id \in S : \E i \in DOMAIN q : q[i] = id
                                     /\ \A i, j \in DOMAIN q : q[i] = q[j] => i = j}

\* One tick of clockDriver: cascade, fire what is in the current slot, go on.
tick ==
  LET fired == down[NOOF_TVECS][1][index[1]]
  IN  /\ vec' = Erased(down[NOOF_TVECS], fired)
      /\ active' = active \ fired
      /\ \E order \in Orders(fired) : m_freeTimers' = m_freeTimers \o order
      /\ index' = [n \in Levels |-> IF n = 1 \/ n \in Turning
                                    THEN (index[n] + 1) % Size(n) ELSE index[n]]
      /\ m_tickCount' = (m_tickCount + 1) % Wrap
      /\ expires' = Forgotten(fired)
      /\ UNCHANGED allocated

WheelNext ==
  \/ \E d \in 0 .. MaxTicks : set(d)
  \/ \E id \in Ids : cancel(id)
  \/ tick

WheelSpec == WheelInit /\ [][WheelNext]_vars

-----------------------------------------------------------------------------
WheelTypeOK ==
  /\ m_tickCount \in 0 .. Wrap - 1
  /\ index \in [Levels -> Nat] /\ \A n \in Levels : index[n] \in Slots(n)
  /\ \A n \in Levels : vec[n] \in [Slots(n) -> SUBSET Ids]
  /\ expires \in [Ids -> 0 .. Wrap - 1]
  /\ allocated \in Nat /\ allocated <= MaxTimers
  /\ active \subseteq Ids
  /\ m_freeTimers \in Seq(Ids)

\* A timer stands in exactly one slot from set to fire or cancel, and in none and
\* once in the free list otherwise: cascade loses none and leaves none behind,
\* erase takes it out of the right slot, an id is never handed out twice.
Stands(id, n, i) == n \in Levels /\ i \in Slots(n) /\ id \in vec[n][i]
OnePlace ==
  /\ \A id \in active : \E n \in Levels : \E i \in Slots(n) : Stands(id, n, i)
  /\ \A id \in Ids, m, n \in Levels : \A i \in Slots(m), j \in Slots(n) :
       Stands(id, m, i) /\ Stands(id, n, j) => m = n /\ i = j /\ id \in active
  /\ \A id \in Ids : id < allocated /\ id \notin active <=> id \in {m_freeTimers[i] : i \in DOMAIN m_freeTimers}
  /\ \A i, j \in DOMAIN m_freeTimers : m_freeTimers[i] = m_freeTimers[j] => i = j
  /\ \A id \in active : id < allocated

\* Through all the cascades each timer fires in exactly the tick it was set
\* for, none is lost and none comes early.
A == INSTANCE AlarmClock WITH
       now <- m_tickCount,
       due <- [id \in Ids |-> IF id \in active THEN expires[id] ELSE -1]
ExactFiring == A!Spec
=============================================================================
