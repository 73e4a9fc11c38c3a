------------------------- MODULE TimerWheel_proofs -------------------------
(***************************************************************************)
(* Theorems about TimerWheel with the wheels the code has, 256 slots and   *)
(* four times 64, for any number of timers and any distance.               *)
(***************************************************************************)
EXTENDS TimerWheel, ListLemmas

CodeWheels == TVR_SIZE = 256 /\ TVN_SIZE = 64 /\ NOOF_TVECS = 5

-----------------------------------------------------------------------------
LEMMA Spans ==
  ASSUME CodeWheels
  PROVE  /\ Levels = 1 .. 5 /\ Wrap = 4294967296
         /\ Span(1) = 1 /\ Span(2) = 256 /\ Span(3) = 16384
         /\ Span(4) = 1048576 /\ Span(5) = 67108864
         /\ Size(1) = 256 /\ Size(2) = 64 /\ Size(3) = 64 /\ Size(4) = 64 /\ Size(5) = 64
BY SMT DEF CodeWheels, Levels, Wrap, Span, Size

\* How far away the tick at is.
Distance(at, t) == (at - t) % Wrap

\* A timer for the tick at stands in slot i of level n as it should: it will be
\* looked at there no later than at, and not a turn of that wheel too early.
Rightly(at, t, n, i) ==
  /\ i = (at \div Span(n)) % Size(n)
  /\ Distance(at, t) < Span(n) * Size(n)
  /\ at % Span(n) <= Distance(at, t)


Tick == {t \in Nat : t < Wrap}

LEMMA Moves ==
  ASSUME CodeWheels, NEW at \in Tick, NEW t \in Tick, NEW n \in 2 .. 5,
         t % Span(n) = 0, Rightly(at, t, n, (t \div Span(n)) % Size(n))
  PROVE  Distance(at, t) = at % Span(n) /\ Distance(at, t) < Span(n)
<1>1. at \in Nat /\ at < 4294967296 /\ t \in Nat /\ t < 4294967296
  BY SMT, Spans DEF Tick
<1>2. CASE n = 2
  BY SMT, <1>1, <1>2, Spans DEF Rightly, Distance
<1>3. CASE n = 3
  BY SMT, <1>1, <1>3, Spans DEF Rightly, Distance
<1>4. CASE n = 4
  BY SMT, <1>1, <1>4, Spans DEF Rightly, Distance
<1>5. CASE n = 5
  BY SMT, <1>1, <1>5, Spans DEF Rightly, Distance
<1> QED
  BY <1>2, <1>3, <1>4, <1>5

\* A timer that is not in a slot about to cascade has time left at its level.
LEMMA Stays ==
  ASSUME CodeWheels, NEW at \in Tick, NEW t \in Tick, NEW n \in 2 .. 5, NEW i,
         Rightly(at, t, n, i),
         t % Span(n) # 0 \/ i # (t \div Span(n)) % Size(n)
  PROVE  at % Span(n) < Distance(at, t)
<1>1. at \in Nat /\ at < 4294967296 /\ t \in Nat /\ t < 4294967296
  BY SMT, Spans DEF Tick
<1>2. CASE n = 2
  BY SMT, <1>1, <1>2, Spans DEF Rightly, Distance
<1>3. CASE n = 3
  BY SMT, <1>1, <1>3, Spans DEF Rightly, Distance
<1>4. CASE n = 4
  BY SMT, <1>1, <1>4, Spans DEF Rightly, Distance
<1>5. CASE n = 5
  BY SMT, <1>1, <1>5, Spans DEF Rightly, Distance
<1> QED
  BY <1>2, <1>3, <1>4, <1>5

\* Time goes on by a tick.
LEMMA Later ==
  ASSUME CodeWheels, NEW at \in Tick, NEW t \in Tick, NEW n \in Levels, NEW i,
         Rightly(at, t, n, i), at % Span(n) < Distance(at, t)
  PROVE  /\ (t + 1) % Wrap \in Tick
         /\ Distance(at, (t + 1) % Wrap) = Distance(at, t) - 1
         /\ Rightly(at, (t + 1) % Wrap, n, i)
<1>1. at \in Nat /\ at < 4294967296 /\ t \in Nat /\ t < 4294967296
  BY SMT, Spans DEF Tick
<1>2. CASE n = 1
  BY SMT, <1>1, <1>2, Spans DEF Rightly, Distance, Tick
<1>3. CASE n = 2
  BY SMT, <1>1, <1>3, Spans DEF Rightly, Distance, Tick
<1>4. CASE n = 3
  BY SMT, <1>1, <1>4, Spans DEF Rightly, Distance, Tick
<1>5. CASE n = 4
  BY SMT, <1>1, <1>5, Spans DEF Rightly, Distance, Tick
<1>6. CASE n = 5
  BY SMT, <1>1, <1>6, Spans DEF Rightly, Distance, Tick
<1> QED
  BY <1>2, <1>3, <1>4, <1>5, <1>6, Spans

\* In the slot under the hand of the root wheel are the timers that are due.
LEMMA Root ==
  ASSUME CodeWheels, NEW at \in Tick, NEW t \in Tick, NEW i, Rightly(at, t, 1, i)
  PROVE  /\ i = t % TVR_SIZE <=> at = t
         /\ at # t <=> at % Span(1) < Distance(at, t)
BY SMT, Spans DEF Rightly, Distance, Tick, CodeWheels

-----------------------------------------------------------------------------
\* insert: a timer is put where it stands rightly, with time left at that level.
LEMMA Placed ==
  ASSUME CodeWheels, m_tickCount \in Tick, NEW at \in Tick,
         2 * Distance(at, m_tickCount) < Wrap
  PROVE  \E n \in Levels :
           /\ Place(at) = <<n, (at \div Span(n)) % Size(n)>>
           /\ Rightly(at, m_tickCount, n, (at \div Span(n)) % Size(n))
           /\ n # 1 => at % Span(n) < Distance(at, m_tickCount)
           /\ \A k \in 2 .. 5 : Distance(at, m_tickCount) < Span(k) => n < k
<1> DEFINE idx == Distance(at, m_tickCount)
           Fits(k) == /\ idx < Span(k) * Size(k)
                      /\ \A j \in Levels : j < k => idx >= Span(j) * Size(j)
           n == CHOOSE k \in Levels : Fits(k)
<1>1. idx \in Nat /\ 2 * idx < 4294967296 /\ at \in Nat
  BY SMT, Spans DEF Tick, Distance
<1>2. Place(at) = <<n, (at \div Span(n)) % Size(n)>>
  <2>1. ~(2 * idx >= Wrap)
    BY SMT, <1>1, Spans
  <2> QED
    BY Zenon, <2>1 DEF Place, Distance
<1>3. n \in Levels /\ Fits(n)
  <2>1. \E k \in Levels : Fits(k)
    <3>1. idx < 256 => Fits(1)
      BY SMT, Spans
    <3>2. idx >= 256 /\ idx < 16384 => Fits(2)
      BY SMT, Spans
    <3>3. idx >= 16384 /\ idx < 1048576 => Fits(3)
      BY SMT, <1>1, Spans
    <3>4. idx >= 1048576 /\ idx < 67108864 => Fits(4)
      BY SMT, <1>1, Spans
    <3>5. idx >= 67108864 => Fits(5)
      BY SMT, <1>1, Spans
    <3> QED
      BY SMT, <1>1, <3>1, <3>2, <3>3, <3>4, <3>5, Spans
  <2> QED
    BY Zenon, <2>1
<1> HIDE DEF n
<1>4. at % Span(n) \in Nat /\ at % Span(n) < Span(n)
  BY SMT, <1>1, <1>3, Spans
<1>5. at % Span(n) <= idx /\ (n # 1 => at % Span(n) < idx)
  <2> HIDE DEF idx
  <2>1. CASE n = 1
    BY SMT, <1>1, <2>1, Spans
  <2>2. CASE n = 2
    BY SMT, <1>1, <1>3, <1>4, <2>2, Spans
  <2>3. CASE n = 3
    BY SMT, <1>1, <1>3, <1>4, <2>3, Spans
  <2>4. CASE n = 4
    BY SMT, <1>1, <1>3, <1>4, <2>4, Spans
  <2>5. CASE n = 5
    BY SMT, <1>1, <1>3, <1>4, <2>5, Spans
  <2> QED
    BY <1>3, <2>1, <2>2, <2>3, <2>4, <2>5, Spans
<1>6. ASSUME NEW k \in 2 .. 5, idx < Span(k) PROVE n < k
  <2> HIDE DEF idx
  <2>2. CASE k = 2
    BY SMT, <1>1, <1>3, <1>6, <2>2, Spans
  <2>3. CASE k = 3
    BY SMT, <1>1, <1>3, <1>6, <2>3, Spans
  <2>4. CASE k = 4
    BY SMT, <1>1, <1>3, <1>6, <2>4, Spans
  <2>5. CASE k = 5
    BY SMT, <1>1, <1>3, <1>6, <2>5, Spans
  <2> QED
    BY <2>2, <2>3, <2>4, <2>5
<1>7. Rightly(at, m_tickCount, n, (at \div Span(n)) % Size(n))
  BY Zenon, <1>3, <1>5 DEF Rightly
<1> QED
  BY Zenon, <1>2, <1>3, <1>5, <1>6, <1>7

-----------------------------------------------------------------------------
\* The hands, from the ticks counted: level n goes on when a slot of it begins.
Hand(n, t) == ((t + Span(n) - 1) \div Span(n)) % Size(n)

LEMMA Aligned ==
  ASSUME CodeWheels, m_tickCount \in Tick, \A n \in Levels : index[n] = Hand(n, m_tickCount),
         NEW n \in 2 .. 5
  PROVE  /\ n \in Turning <=> m_tickCount % Span(n) = 0
         /\ n \in Turning => index[n] = (m_tickCount \div Span(n)) % Size(n)
<1> DEFINE t == m_tickCount
<1>1. t \in Nat /\ t < 4294967296
  BY SMTT(30), Spans DEF Tick
<1>2. Turning = IF index[1] # 0 THEN {}
                ELSE {m \in 2 .. 5 : \A k \in 2 .. m - 1 : index[k] = 0}
  BY SMTT(60), Spans DEF Turning
<1>3. index[1] = t % 256 /\ (t % 256 = 0 => index[2] = (t \div 256) % 64)
  <2>1. index[1] = Hand(1, t) /\ index[2] = Hand(2, t)
    BY Spans
  <2>2. Hand(1, t) = t % 256
    BY SMTT(30), <1>1, Spans DEF Hand
  <2>3. t % 256 = 0 => Hand(2, t) = (t \div 256) % 64
    BY SMTT(30), <1>1, Spans DEF Hand
  <2> QED
    BY <2>1, <2>2, <2>3
<1>4. t % 16384 = 0 => index[3] = (t \div 16384) % 64
  <2>1. index[3] = Hand(3, t)
    BY Spans
  <2> QED
    BY SMTT(30), <1>1, <2>1, Spans DEF Hand
<1>5. t % 1048576 = 0 => index[4] = (t \div 1048576) % 64
  <2>1. index[4] = Hand(4, t)
    BY Spans
  <2> QED
    BY SMTT(30), <1>1, <2>1, Spans DEF Hand
<1>6. t % 67108864 = 0 => index[5] = (t \div 67108864) % 64
  <2>1. index[5] = Hand(5, t)
    BY Spans
  <2> QED
    BY SMTT(30), <1>1, <2>1, Spans DEF Hand
<1>7. CASE n = 2
  <2>1. n \in Turning <=> index[1] = 0
    BY SMTT(30), <1>2, <1>7
  <2> QED
    BY SMTT(30), <1>1, <1>3, <1>4, <1>5, <1>6, <2>1, <1>7, Spans
<1>8. CASE n = 3
  <2>1. n \in Turning <=> index[1] = 0 /\ index[2] = 0
    BY SMTT(30), <1>2, <1>8
  <2> QED
    BY SMTT(30), <1>1, <1>3, <1>4, <1>5, <1>6, <2>1, <1>8, Spans
<1>9. CASE n = 4
  <2>1. n \in Turning <=> index[1] = 0 /\ index[2] = 0 /\ index[3] = 0
    BY SMTT(30), <1>2, <1>9
  <2> QED
    BY SMTT(30), <1>1, <1>3, <1>4, <1>5, <1>6, <2>1, <1>9, Spans
<1>10. CASE n = 5
  <2>1. n \in Turning <=> index[1] = 0 /\ index[2] = 0 /\ index[3] = 0 /\ index[4] = 0
    BY SMTT(30), <1>2, <1>10
  <2> QED
    BY SMTT(30), <1>1, <1>3, <1>4, <1>5, <1>6, <2>1, <1>10, Spans
<1> QED
  BY <1>7, <1>8, <1>9, <1>10

\* A tick moves the hands of the root and of the levels that cascade.
LEMMA HandsTurn ==
  ASSUME CodeWheels, NEW t \in Tick, NEW n \in Levels
  PROVE  /\ Hand(n, t) \in Nat /\ Hand(n, t) < Size(n)
         /\ Hand(n, (t + 1) % Wrap) = IF t % Span(n) = 0 THEN (Hand(n, t) + 1) % Size(n)
                                      ELSE Hand(n, t)
<1>1. t \in Nat /\ t < 4294967296
  BY SMTT(60), Spans DEF Tick
<1>2. CASE n = 1
  BY SMTT(60), <1>1, <1>2, Spans DEF Hand
<1>3. CASE n = 2
  BY SMTT(60), <1>1, <1>3, Spans DEF Hand
<1>4. CASE n = 3
  BY SMTT(60), <1>1, <1>4, Spans DEF Hand
<1>5. CASE n = 4
  BY SMTT(60), <1>1, <1>5, Spans DEF Hand
<1>6. CASE n = 5
  <2>1. Hand(5, t) = ((t + 67108863) \div 67108864) % 64
    BY SMTT(60), <1>1, Spans DEF Hand
  <2>2. CASE t = 4294967295
    BY SMTT(60), <2>1, <2>2, <1>6, Spans DEF Hand
  <2>3. CASE t < 4294967295
    <3>1. (t + 1) % Wrap = t + 1
      BY SMTT(60), <1>1, <2>3, Spans
    <3>2. Hand(5, t + 1) = ((t + 67108864) \div 67108864) % 64
      BY SMTT(60), <1>1, Spans DEF Hand
    <3> QED
      BY SMTT(60), <1>1, <2>1, <2>3, <3>1, <3>2, <1>6, Spans
  <2> QED
    BY SMTT(60), <1>1, <2>2, <2>3
<1> QED
  BY <1>2, <1>3, <1>4, <1>5, <1>6, Spans

-----------------------------------------------------------------------------
\* vec with every level and slot in place.
Wheels(v) == /\ v = [n \in Levels |-> v[n]]
             /\ \A n \in Levels : v[n] \in [Slots(n) -> SUBSET Ids]

\* Every timer that is set stands somewhere, rightly and once; up to the level
\* done with time left at its level.
WellPlaced(v, t, done) ==
  /\ \A id \in active : \E n \in Levels : \E i \in Slots(n) : id \in v[n][i]
  /\ \A id \in Ids, n \in Levels : \A i \in Slots(n) : id \in v[n][i] =>
       /\ id \in active /\ Rightly(expires[id], t, n, i)
       /\ n \in 2 .. done => expires[id] % Span(n) < Distance(expires[id], t)
  /\ \A id \in Ids, m, n \in Levels : \A i \in Slots(m), j \in Slots(n) :
       id \in v[m][i] /\ id \in v[n][j] => m = n /\ i = j

\* No timer is half a turn of all the wheels away.
Near == \A id \in active : 2 * Distance(expires[id], m_tickCount) < Wrap

HandsOK == /\ index \in [Levels -> Nat]
           /\ \A n \in Levels : index[n] \in Slots(n) /\ index[n] = Hand(n, m_tickCount)

TimersOK == /\ m_tickCount \in Tick /\ active \subseteq Ids
            /\ expires \in [Ids -> Tick]

LEMMA SlotOf ==
  ASSUME CodeWheels, NEW at \in Tick, NEW n \in Levels
  PROVE  (at \div Span(n)) % Size(n) \in Slots(n)
<1>1. at \in Nat
  BY DEF Tick
<1>2. Span(n) \in Nat /\ Span(n) > 0 /\ Size(n) \in Nat /\ Size(n) > 0
  BY SMT, Spans
<1>3. at \div Span(n) \in Nat
  BY SMT, <1>1, <1>2
<1>4. (at \div Span(n)) % Size(n) \in Nat /\ (at \div Span(n)) % Size(n) < Size(n)
  BY SMT, <1>2, <1>3
<1> QED
  BY SMT, <1>2, <1>4 DEF Slots

\* What cascade does to one slot.
LEMMA CascadeSlot ==
  ASSUME CodeWheels, NEW v, Wheels(v), NEW n \in Levels, index[n] \in Slots(n),
         NEW l \in Levels, NEW i \in Slots(l), NEW id
  PROVE  id \in cascade(v, n)[l][i] <=>
           /\ ~(l = n /\ i = index[n])
           /\ id \in v[l][i] \/ (id \in v[n][index[n]] /\ Place(expires[id]) = <<l, i>>)
<1>1. cascade(v, n)[l][i] =
           IF l = n /\ i = index[n] THEN {}
           ELSE v[l][i] \cup {x \in v[n][index[n]] : Place(expires[x]) = <<l, i>>}
  BY DEF cascade, Wheels
<1> QED
  BY <1>1

LEMMA CascadeWheels ==
  ASSUME CodeWheels, NEW v, Wheels(v), NEW n \in Levels, index[n] \in Slots(n)
  PROVE  Wheels(cascade(v, n))
BY DEF cascade, Wheels

LEMMA CascadeStep ==
  ASSUME CodeWheels, TimersOK, HandsOK, Near, NEW n \in 2 .. 5, n \in Turning,
         NEW v, Wheels(v), WellPlaced(v, m_tickCount, n - 1)
  PROVE  WellPlaced(cascade(v, n), m_tickCount, n)
<1> DEFINE t == m_tickCount
           w == cascade(v, n)
           moved == v[n][index[n]]
<1>1. n \in Levels /\ index[n] \in Slots(n) /\ t \in Tick
  BY Spans DEF HandsOK, TimersOK
<1>2. t % Span(n) = 0 /\ index[n] = (t \div Span(n)) % Size(n)
  BY Aligned DEF TimersOK, HandsOK
<1>3. ASSUME NEW l \in Levels, NEW i \in Slots(l), NEW id
      PROVE  id \in w[l][i] <=>
               /\ ~(l = n /\ i = index[n])
               /\ id \in v[l][i] \/ (id \in moved /\ Place(expires[id]) = <<l, i>>)
  BY <1>1, CascadeSlot
<1>4. ASSUME NEW id \in moved
      PROVE  /\ id \in active /\ id \in Ids /\ expires[id] \in Tick
             /\ \E l \in Levels :
                  /\ Place(expires[id]) = <<l, (expires[id] \div Span(l)) % Size(l)>>
                  /\ Rightly(expires[id], t, l, (expires[id] \div Span(l)) % Size(l))
                  /\ l # 1 => expires[id] % Span(l) < Distance(expires[id], t)
                  /\ l < n
                  /\ (expires[id] \div Span(l)) % Size(l) \in Slots(l)
  <2>1. id \in Ids
    BY <1>1 DEF Wheels
  <2>2. id \in active /\ Rightly(expires[id], t, n, index[n])
    BY <1>1, <2>1 DEF WellPlaced
  <2>3. expires[id] \in Tick /\ 2 * Distance(expires[id], t) < Wrap
    BY <2>1, <2>2 DEF TimersOK, Near
  <2>4. Distance(expires[id], t) < Span(n)
    BY <1>1, <1>2, <2>2, <2>3, Moves
  <2>5. PICK l \in Levels :
           /\ Place(expires[id]) = <<l, (expires[id] \div Span(l)) % Size(l)>>
           /\ Rightly(expires[id], t, l, (expires[id] \div Span(l)) % Size(l))
           /\ l # 1 => expires[id] % Span(l) < Distance(expires[id], t)
           /\ \A k \in 2 .. 5 : Distance(expires[id], t) < Span(k) => l < k
    BY <1>1, <2>3, Placed
  <2>6. l < n
    BY <2>4, <2>5
  <2> QED
    BY <2>1, <2>2, <2>3, <2>5, <2>6, SlotOf
<1> HIDE DEF t, w
<1>5. ASSUME NEW id \in active
      PROVE  \E l \in Levels : \E i \in Slots(l) : id \in w[l][i]
  <2>0. PICK m \in Levels : \E i \in Slots(m) : id \in v[m][i]
    BY DEF WellPlaced
  <2>1. PICK j \in Slots(m) : id \in v[m][j]
    BY <2>0
  <2>2. CASE m = n /\ j = index[n]
    <3>1. PICK l \in Levels :
            /\ Place(expires[id]) = <<l, (expires[id] \div Span(l)) % Size(l)>>
            /\ l < n /\ (expires[id] \div Span(l)) % Size(l) \in Slots(l)
      BY <1>4, <2>1, <2>2
    <3>2. l # n
      BY SMT, <3>1, Spans
    <3> QED
      BY <1>3, <2>1, <2>2, <3>1, <3>2
  <2>3. CASE ~(m = n /\ j = index[n])
    BY <1>3, <2>1, <2>3
  <2> QED
    BY <2>2, <2>3
<1>6. ASSUME NEW id \in Ids, NEW l \in Levels, NEW i \in Slots(l), id \in w[l][i]
      PROVE  /\ id \in active /\ Rightly(expires[id], t, l, i)
             /\ l \in 2 .. n => expires[id] % Span(l) < Distance(expires[id], t)
  <2>1. ~(l = n /\ i = index[n])
    BY <1>3, <1>6
  <2>2. CASE id \in moved /\ Place(expires[id]) = <<l, i>>
    BY <1>4, <2>2
  <2>3. CASE id \in v[l][i]
    <3>1. id \in active /\ Rightly(expires[id], t, l, i)
      BY <2>3 DEF WellPlaced, t
    <3>2. l \in 2 .. n - 1 => expires[id] % Span(l) < Distance(expires[id], t)
      BY <2>3 DEF WellPlaced, t
    <3>3. l = n => expires[id] % Span(l) < Distance(expires[id], t)
      BY <1>1, <1>2, <2>1, <3>1, Stays DEF TimersOK
    <3> QED
      BY <3>1, <3>2, <3>3
  <2> QED
    BY <1>3, <1>6, <2>1, <2>2, <2>3
<1>7. ASSUME NEW id \in Ids, NEW l \in Levels, NEW m \in Levels,
             NEW i \in Slots(l), NEW j \in Slots(m), id \in w[l][i], id \in w[m][j]
      PROVE  l = m /\ i = j
  <2>1. ~(l = n /\ i = index[n]) /\ ~(m = n /\ j = index[n])
    BY <1>3, <1>7
  <2>2. CASE id \in moved
    <3>1. id \notin v[l][i] /\ id \notin v[m][j]
      BY <1>1, <2>1, <2>2 DEF WellPlaced
    <3>2. Place(expires[id]) = <<l, i>> /\ Place(expires[id]) = <<m, j>>
      BY <1>3, <1>7, <3>1, <2>1
    <3> QED
      BY <3>2
  <2>3. CASE id \notin moved
    <3>1. id \in v[l][i] /\ id \in v[m][j]
      BY <1>3, <1>7, <2>1, <2>3
    <3> QED
      BY <3>1 DEF WellPlaced
  <2> QED
    BY <2>2, <2>3
<1> QED
  BY <1>5, <1>6, <1>7 DEF WellPlaced, w, t

\* A level that does not cascade has no timer that would have to move.
LEMMA NoCascadeStep ==
  ASSUME CodeWheels, TimersOK, HandsOK, NEW n \in 2 .. 5, n \notin Turning,
         NEW v, WellPlaced(v, m_tickCount, n - 1)
  PROVE  WellPlaced(v, m_tickCount, n)
<1>1. m_tickCount % Span(n) # 0
  BY Aligned DEF TimersOK, HandsOK
<1>2. ASSUME NEW id \in Ids, NEW l \in Levels, NEW i \in Slots(l), id \in v[l][i]
      PROVE  /\ id \in active /\ Rightly(expires[id], m_tickCount, l, i)
             /\ l \in 2 .. n => expires[id] % Span(l) < Distance(expires[id], m_tickCount)
  <2>1. id \in active /\ Rightly(expires[id], m_tickCount, l, i)
    BY <1>2 DEF WellPlaced
  <2>2. l \in 2 .. n - 1 => expires[id] % Span(l) < Distance(expires[id], m_tickCount)
    BY <1>2 DEF WellPlaced
  <2>3. l = n => expires[id] % Span(l) < Distance(expires[id], m_tickCount)
    BY <1>1, <2>1, Stays DEF TimersOK
  <2> QED
    BY <2>1, <2>2, <2>3
<1> QED
  BY <1>2 DEF WellPlaced

\* down, level by level.
LEMMA Downwards ==
  ASSUME CodeWheels
  PROVE  /\ down[1] = vec
         /\ \A n \in 2 .. 5 : down[n] = IF n \in Turning THEN cascade(down[n - 1], n)
                                        ELSE down[n - 1]
<1> DEFINE Go(v, n) == IF n \in Turning THEN cascade(v, n) ELSE v
           Body(f) == [n \in Levels |-> IF n = 1 THEN vec ELSE Go(f[n - 1], n)]
<1>1. down = CHOOSE f : f = Body(f)
  BY DEF down
<1>2. \E f : f = Body(f)
  <2> DEFINE v2 == Go(vec, 2)
             v3 == Go(v2, 3)
             v4 == Go(v3, 4)
             v5 == Go(v4, 5)
             g == <<vec, v2, v3, v4, v5>>
  <2> HIDE DEF Go
  <2>1. g = Body(g)
    <3> HIDE DEF v2, v3, v4, v5
    <3>1. /\ Body(g)[1] = vec /\ Body(g)[2] = Go(vec, 2) /\ Body(g)[3] = Go(v2, 3)
          /\ Body(g)[4] = Go(v3, 4) /\ Body(g)[5] = Go(v4, 5)
      BY SMT, Spans
    <3>2. Body(g) = <<Body(g)[1], Body(g)[2], Body(g)[3], Body(g)[4], Body(g)[5]>>
      <4>1. Body(g) = [n \in 1 .. 5 |-> Body(g)[n]]
        BY Spans
      <4> HIDE DEF Body
      <4> QED
        BY <4>1
    <3> QED
      BY <3>1, <3>2 DEF v2, v3, v4, v5
  <2> QED
    BY <2>1
<1>3. down = Body(down)
  <2> HIDE DEF Body
  <2> QED
    BY Zenon, <1>1, <1>2
<1>4. \A n \in 1 .. 5 : down[n] = IF n = 1 THEN vec ELSE Go(down[n - 1], n)
  <2> HIDE DEF Go
  <2>1. Levels = 1 .. 5
    BY Spans
  <2> QED
    BY Zenon, <1>3, <2>1
<1> QED
  BY <1>4

\* Before the hands are looked at, all that was set stands where it should; after
\* all cascades it does, with time left at its level.
LEMMA AllDown ==
  ASSUME CodeWheels, TimersOK, HandsOK, Near, Wheels(vec), WellPlaced(vec, m_tickCount, 1)
  PROVE  Wheels(down[5]) /\ WellPlaced(down[5], m_tickCount, 5)
<1> DEFINE Good(n) == Wheels(down[n]) /\ WellPlaced(down[n], m_tickCount, n)
<1>1. Good(1)
  BY Downwards
<1>2. ASSUME NEW n \in 2 .. 5, Good(n - 1) PROVE Good(n)
  <2>1. CASE n \in Turning
    <3>1. down[n] = cascade(down[n - 1], n)
      BY <2>1, Downwards
    <3>2. n \in Levels /\ index[n] \in Slots(n)
      BY Spans DEF HandsOK
    <3> QED
      BY <1>2, <2>1, <3>1, <3>2, CascadeStep, CascadeWheels
  <2>2. CASE n \notin Turning
    <3>1. down[n] = down[n - 1]
      BY <2>2, Downwards
    <3> QED
      BY <1>2, <2>2, <3>1, NoCascadeStep
  <2> QED
    BY <2>1, <2>2
<1> HIDE DEF Good
<1>3. Good(2)
  BY <1>1, <1>2
<1>4. Good(3)
  BY <1>2, <1>3
<1>5. Good(4)
  BY <1>2, <1>4
<1>6. Good(5)
  BY <1>2, <1>5
<1> QED
  BY <1>6 DEF Good

\* The timers in the slot under the hand are those that are due in this tick.
LEMMA Fires ==
  ASSUME CodeWheels, TimersOK, HandsOK, Near, Wheels(vec), WellPlaced(vec, m_tickCount, 1)
  PROVE  down[NOOF_TVECS][1][index[1]] = {id \in active : expires[id] = m_tickCount}
<1> DEFINE t == m_tickCount
           w == down[5]
<1>1. Wheels(w) /\ WellPlaced(w, t, 5) /\ NOOF_TVECS = 5
  BY AllDown DEF CodeWheels
<1>2. 1 \in Levels /\ index[1] \in Slots(1) /\ t \in Tick
  BY Spans DEF HandsOK, TimersOK
<1>3. index[1] = t % TVR_SIZE
  <2>1. index[1] = Hand(1, t) /\ t \in Nat
    BY <1>2 DEF HandsOK, Tick
  <2> QED
    BY SMT, <2>1, Spans DEF Hand, CodeWheels
<1> HIDE DEF w
<1>4. ASSUME NEW id \in w[1][index[1]]
      PROVE  id \in active /\ expires[id] = t
  <2>1. id \in Ids
    BY <1>1, <1>2 DEF Wheels
  <2>2. id \in active /\ Rightly(expires[id], t, 1, index[1])
    BY <1>1, <1>2, <2>1 DEF WellPlaced
  <2>3. expires[id] \in Tick
    BY <2>1 DEF TimersOK
  <2> QED
    BY <1>2, <1>3, <2>2, <2>3, Root
<1>5. ASSUME NEW id \in active, expires[id] = t
      PROVE  id \in w[1][index[1]]
  <2>1. id \in Ids /\ expires[id] \in Tick
    BY DEF TimersOK
  <2>2. PICK n \in Levels : \E i \in Slots(n) : id \in w[n][i]
    BY <1>1 DEF WellPlaced
  <2>3. PICK i \in Slots(n) : id \in w[n][i]
    BY <2>2
  <2>4. /\ Rightly(expires[id], t, n, i)
        /\ n \in 2 .. 5 => expires[id] % Span(n) < Distance(expires[id], t)
    BY <1>1, <2>1, <2>3 DEF WellPlaced
  <2>5. n = 1
    <3>1. Distance(t, t) = 0
      BY SMT, <1>2, Spans DEF Distance, Tick
    <3>2. ASSUME n \in 2 .. 5 PROVE FALSE
      <4>1. t % Span(n) \in Nat
        BY SMT, <1>2, <3>2, Spans DEF Tick
      <4> QED
        BY <1>5, <2>4, <3>1, <3>2, <4>1
    <3> QED
      BY <3>2, Spans
  <2>6. i = index[1]
    BY <1>2, <1>3, <1>5, <2>1, <2>4, <2>5, Root
  <2> QED
    BY <2>3, <2>5, <2>6
<1> QED
  BY <1>1, <1>4, <1>5 DEF w

-----------------------------------------------------------------------------
(* The ids that are not in use.                                           *)

FreeOK == /\ allocated \in Nat /\ allocated <= MaxTimers
          /\ m_freeTimers \in Seq(Ids) /\ Once(m_freeTimers)
          /\ \A id \in Ids : id < allocated /\ id \notin active <=> In(m_freeTimers, id)
          /\ \A id \in active : id < allocated

\* The order in which the timers of a tick fire.
LEMMA Ordered ==
  ASSUME NEW S \in SUBSET Ids, NEW q \in Orders(S)
  PROVE  q \in Seq(Ids) /\ Once(q) /\ \A id : In(q, id) <=> id \in S
<1>1. IsFiniteSet(S)
  <2>1. MaxTimers \in Nat
    BY WheelAssumption
  <2>2. IsFiniteSet(Ids)
    BY <2>1, FS_Interval DEF Ids
  <2> QED
    BY <2>2, FS_Subset
<1>2. Cardinality(S) \in Nat
  BY <1>1, FS_CardinalityType
<1>3. /\ q \in [1 .. Cardinality(S) -> S]
      /\ \A id \in S : \E i \in DOMAIN q : q[i] = id
      /\ \A i, j \in DOMAIN q : q[i] = q[j] => i = j
  BY DEF Orders
<1>4. q \in Seq(S) /\ Len(q) = Cardinality(S) /\ DOMAIN q = 1 .. Len(q)
  BY <1>2, <1>3, SMT
<1>5. q \in Seq(Ids)
  BY <1>3, <1>4, SMT
<1>6. ASSUME NEW id PROVE In(q, id) <=> id \in S
  BY <1>3, <1>4 DEF In
<1> QED
  BY <1>3, <1>4, <1>5, <1>6 DEF Once

\* What fires or is canceled goes to the end of the free list.
LEMMA Freed ==
  ASSUME FreeOK, active \subseteq Ids, NEW S \in SUBSET active,
         NEW q \in Seq(Ids), Once(q), \A id : In(q, id) <=> id \in S,
         allocated' = allocated, active' = active \ S, m_freeTimers' = m_freeTimers \o q
  PROVE  FreeOK'
<1>1. \A id \in Ids : ~(In(m_freeTimers, id) /\ In(q, id))
  BY DEF FreeOK
<1>2. /\ m_freeTimers \o q \in Seq(Ids) /\ Once(m_freeTimers \o q)
      /\ \A id : In(m_freeTimers \o q, id) <=> In(m_freeTimers, id) \/ In(q, id)
  BY <1>1, Joined DEF FreeOK
<1>3. \A id \in Ids : id < allocated' /\ id \notin active' <=> In(m_freeTimers', id)
  BY <1>2 DEF FreeOK
<1> QED
  BY <1>2, <1>3 DEF FreeOK

-----------------------------------------------------------------------------
\* The inductive invariant: where each timer stands follows from the ticks
\* counted and the tick it is set for.
WheelInv == /\ TimersOK /\ HandsOK /\ Near
            /\ Wheels(vec) /\ WellPlaced(vec, m_tickCount, 1)
            /\ FreeOK

LEMMA ErasedSlots ==
  ASSUME NEW v, Wheels(v), NEW S
  PROVE  /\ Wheels(Erased(v, S))
         /\ \A n \in Levels : \A i \in Slots(n) : Erased(v, S)[n][i] = v[n][i] \ S
BY DEF Wheels, Erased

LEMMA WrapNat == CodeWheels => Wrap \in Nat /\ Wrap > 0 /\ 0 \in Tick
BY SMT, Spans DEF Tick

LEMMA CancelStep ==
  ASSUME CodeWheels, WheelInv, NEW id \in Ids, cancel(id)
  PROVE  WheelInv'
<1>1. /\ id \in active /\ vec' = Erased(vec, {id}) /\ active' = active \ {id}
      /\ expires' = Forgotten({id}) /\ m_freeTimers' = m_freeTimers \o <<id>>
      /\ m_tickCount' = m_tickCount /\ index' = index /\ allocated' = allocated
  <2>1. m_freeTimers \in Seq(Ids) /\ m_freeTimers' = Append(m_freeTimers, id)
    BY DEF cancel, WheelInv, FreeOK
  <2>2. m_freeTimers' = m_freeTimers \o <<id>>
    BY <2>1
  <2> QED
    BY <2>2 DEF cancel
<1>2. \A x \in active' : expires'[x] = expires[x]
  BY <1>1 DEF Forgotten, WheelInv, TimersOK
<1>3. TimersOK' /\ HandsOK' /\ Near'
  BY <1>1, <1>2, WrapNat DEF WheelInv, TimersOK, HandsOK, Near, Forgotten, Hand, Distance
<1>4. /\ Wheels(vec)'
      /\ \A n \in Levels : \A i \in Slots(n) : vec'[n][i] = vec[n][i] \ {id}
  <2>1. /\ Wheels(Erased(vec, {id}))
        /\ \A n \in Levels : \A i \in Slots(n) : Erased(vec, {id})[n][i] = vec[n][i] \ {id}
    BY ErasedSlots DEF WheelInv
  <2>2. Wheels(vec') /\ \A n \in Levels : \A i \in Slots(n) : vec'[n][i] = vec[n][i] \ {id}
    BY <1>1, <2>1
  <2> QED
    BY <2>2 DEF Wheels
<1>5. WellPlaced(vec, m_tickCount, 1)'
  <2>1. ASSUME NEW x \in active'
        PROVE  \E n \in Levels : \E i \in Slots(n) : x \in vec'[n][i]
    <3>1. x \in active /\ x # id
      BY <1>1
    <3>2. PICK n \in Levels : \E i \in Slots(n) : x \in vec[n][i]
      BY <3>1 DEF WheelInv, WellPlaced
    <3> QED
      BY <1>4, <3>1, <3>2
  <2>2. ASSUME NEW x \in Ids, NEW n \in Levels, NEW i \in Slots(n), x \in vec'[n][i]
        PROVE  x \in active' /\ Rightly(expires'[x], m_tickCount', n, i)
    <3>1. x \in vec[n][i] /\ x # id
      BY <1>4, <2>2
    <3>2. x \in active /\ Rightly(expires[x], m_tickCount, n, i)
      BY <3>1 DEF WheelInv, WellPlaced
    <3>3. x \in active'
      BY <1>1, <3>1, <3>2
    <3> QED
      BY <1>1, <1>2, <3>2, <3>3
  <2>3. ASSUME NEW x \in Ids, NEW m \in Levels, NEW n \in Levels,
               NEW i \in Slots(m), NEW j \in Slots(n), x \in vec'[m][i], x \in vec'[n][j]
        PROVE  m = n /\ i = j
    BY <1>4, <2>3 DEF WheelInv, WellPlaced
  <2> QED
    BY <2>1, <2>2, <2>3 DEF WellPlaced
<1>6. FreeOK'
  <2>1. /\ <<id>> \in Seq(Ids) /\ Once(<<id>>)
        /\ \A x : In(<<id>>, x) <=> x \in {id}
    BY DEF Once, In
  <2> QED
    BY <1>1, <2>1, Freed DEF WheelInv, TimersOK
<1> QED
  BY <1>3, <1>4, <1>5, <1>6 DEF WheelInv

LEMMA TickStep ==
  ASSUME CodeWheels, WheelInv, tick
  PROVE  WheelInv'
<1> DEFINE w == down[5]
           fired == {id \in active : expires[id] = m_tickCount}
           t == m_tickCount
<1>1. Wheels(w) /\ WellPlaced(w, t, 5)
  BY AllDown DEF WheelInv
<1>2. /\ vec' = Erased(w, fired) /\ active' = active \ fired
      /\ expires' = Forgotten(fired) /\ allocated' = allocated
      /\ m_tickCount' = (t + 1) % Wrap
      /\ \E order \in Orders(fired) : m_freeTimers' = m_freeTimers \o order
      /\ index' = [n \in Levels |-> IF n = 1 \/ n \in Turning
                                    THEN (index[n] + 1) % Size(n) ELSE index[n]]
  <2>1. NOOF_TVECS = 5
    BY DEF CodeWheels
  <2>2. down[5][1][index[1]] = fired
    BY <2>1, Fires DEF WheelInv
  <2> QED
    BY <2>1, <2>2 DEF tick
<1>3. active \subseteq Ids /\ \A id \in Ids : expires[id] \in Tick
  BY DEF WheelInv, TimersOK
<1>4. t \in Tick /\ t \in Nat
  BY DEF WheelInv, TimersOK, Tick
<1> HIDE DEF w, fired
<1>5. \A x \in active' : expires'[x] = expires[x] /\ x \in active /\ expires[x] # t
  BY <1>2, <1>3 DEF Forgotten, fired
<1>6. /\ Wheels(vec)'
      /\ \A n \in Levels : \A i \in Slots(n) : vec'[n][i] = w[n][i] \ fired
  <2>1. /\ Wheels(Erased(w, fired))
        /\ \A n \in Levels : \A i \in Slots(n) : Erased(w, fired)[n][i] = w[n][i] \ fired
    BY <1>1, ErasedSlots
  <2>2. Wheels(vec') /\ \A n \in Levels : \A i \in Slots(n) : vec'[n][i] = w[n][i] \ fired
    BY <1>2, <2>1
  <2> QED
    BY <2>2 DEF Wheels
<1>7. ASSUME NEW x \in Ids, NEW n \in Levels, NEW i \in Slots(n), x \in vec'[n][i]
      PROVE  /\ x \in active' /\ Rightly(expires[x], m_tickCount', n, i)
             /\ Distance(expires[x], m_tickCount') = Distance(expires[x], t) - 1
  <2>1. x \in w[n][i] /\ x \notin fired
    BY <1>6, <1>7
  <2>2. /\ x \in active /\ Rightly(expires[x], t, n, i)
        /\ n \in 2 .. 5 => expires[x] % Span(n) < Distance(expires[x], t)
    BY <1>1, <2>1 DEF WellPlaced
  <2>3. expires[x] \in Tick /\ expires[x] # t
    BY <1>3, <2>1, <2>2 DEF fired
  <2>4. expires[x] % Span(n) < Distance(expires[x], t)
    <3>1. CASE n = 1
      <4>1. Rightly(expires[x], t, 1, i)
        BY <2>2, <3>1
      <4>2. expires[x] % Span(1) < Distance(expires[x], t)
        BY <1>4, <2>3, <4>1, Root
      <4> QED
        BY <3>1, <4>2
    <3> QED
      BY <2>2, <3>1, Spans
  <2>5. x \in active'
    BY <1>2, <2>1, <2>2
  <2> QED
    BY <1>2, <1>4, <2>2, <2>3, <2>4, <2>5, Later
<1>8. ASSUME NEW x \in active'
      PROVE  \E n \in Levels : \E i \in Slots(n) : x \in vec'[n][i]
  <2>1. x \in active /\ x \notin fired
    BY <1>2
  <2>2. PICK n \in Levels : \E i \in Slots(n) : x \in w[n][i]
    BY <1>1, <2>1 DEF WellPlaced
  <2> QED
    BY <1>6, <2>1, <2>2
<1>9. WellPlaced(vec, m_tickCount, 1)'
  <2>1. ASSUME NEW x \in Ids, NEW m \in Levels, NEW n \in Levels,
               NEW i \in Slots(m), NEW j \in Slots(n), x \in vec'[m][i], x \in vec'[n][j]
        PROVE  m = n /\ i = j
    BY <1>1, <1>6, <2>1 DEF WellPlaced
  <2>2. ASSUME NEW x \in Ids, NEW n \in Levels, NEW i \in Slots(n), x \in vec'[n][i]
        PROVE  x \in active' /\ Rightly(expires'[x], m_tickCount', n, i)
    BY <1>5, <1>7, <2>2
  <2> QED
    BY <1>8, <2>1, <2>2 DEF WellPlaced
<1>10. Near'
  <2>1. ASSUME NEW x \in active'
        PROVE  2 * Distance(expires'[x], m_tickCount') < Wrap
    <3>1. x \in Ids /\ expires'[x] = expires[x] /\ 2 * Distance(expires[x], t) < Wrap
      BY <1>3, <1>5 DEF WheelInv, Near
    <3>2. Distance(expires[x], m_tickCount') = Distance(expires[x], t) - 1
      BY <1>7, <1>8, <3>1
    <3>3. Distance(expires[x], t) \in Int /\ Wrap \in Int
      BY SMT, <1>3, <1>4, <3>1, Spans DEF Distance, Tick
    <3> QED
      BY <3>1, <3>2, <3>3
  <2> QED
    BY <2>1 DEF Near
<1>11. TimersOK'
  <2>1. m_tickCount' \in Tick
    BY SMT, <1>2, <1>4, Spans DEF Tick
  <2> QED
    BY <1>2, <1>3, <2>1, WrapNat DEF TimersOK, Forgotten, WheelInv
<1>12. HandsOK'
  <2>1. ASSUME NEW n \in Levels
        PROVE  /\ index'[n] = Hand(n, m_tickCount') /\ index'[n] \in Nat
               /\ index'[n] \in Slots(n)
    <3>1. index[n] = Hand(n, t)
      BY DEF WheelInv, HandsOK
    <3>2. n = 1 \/ n \in Turning <=> t % Span(n) = 0
      <4>1. n = 1 => t % Span(n) = 0
        BY SMT, <1>4, Spans
      <4>2. n \in 2 .. 5 => (n \in Turning <=> t % Span(n) = 0)
        BY Aligned DEF WheelInv, TimersOK, HandsOK
      <4> QED
        BY <4>1, <4>2, Spans
    <3>3. index'[n] = Hand(n, m_tickCount')
      BY <1>2, <1>4, <3>1, <3>2, HandsTurn
    <3>4. m_tickCount' \in Tick
      BY SMT, <1>2, <1>4, Spans DEF Tick
    <3>5. Hand(n, m_tickCount') \in Nat /\ Hand(n, m_tickCount') < Size(n)
      BY <3>4, HandsTurn
    <3>6. Size(n) \in Nat
      BY SMT, Spans
    <3> QED
      BY <3>3, <3>5, <3>6 DEF Slots
  <2> QED
    BY <1>2, <2>1 DEF HandsOK
<1>13. FreeOK'
  <2>1. PICK order \in Orders(fired) : m_freeTimers' = m_freeTimers \o order
    BY <1>2
  <2>2. fired \in SUBSET active /\ fired \in SUBSET Ids
    BY <1>3 DEF fired
  <2>3. order \in Seq(Ids) /\ Once(order) /\ \A id : In(order, id) <=> id \in fired
    BY <2>2, Ordered
  <2> QED
    BY <1>2, <1>3, <2>1, <2>2, <2>3, Freed DEF WheelInv
<1> QED
  BY <1>6, <1>9, <1>10, <1>11, <1>12, <1>13 DEF WheelInv

-----------------------------------------------------------------------------
\* The free ids once enlarge has seen to it that there is one.
LEMMA Available ==
  ASSUME FreeOK, active \subseteq Ids, Grown <= MaxTimers
  PROVE  /\ Free \in Seq(Ids) /\ Once(Free) /\ Free # <<>>
         /\ \A id \in Ids : id < Grown /\ id \notin active <=> In(Free, id)
         /\ Grown \in Nat /\ allocated <= Grown
<1> DEFINE k == Grown - allocated
           f == m_freeTimers
           g == [i \in 1 .. k |-> allocated + i - 1]
<1>1. /\ allocated \in Nat /\ MaxTimers \in Nat /\ ENLARGE_SIZE \in Nat /\ ENLARGE_SIZE > 0
      /\ f \in Seq(Ids) /\ Once(f)
  BY WheelAssumption DEF FreeOK
<1>2. /\ Grown \in Nat /\ allocated <= Grown /\ k \in Nat
      /\ f = <<>> => k > 0
  BY <1>1 DEF Grown
<1>3. g \in Seq(Ids) /\ Len(g) = k
  <2>1. \A i \in 1 .. k : allocated + i - 1 \in Ids
    BY <1>1, <1>2 DEF Ids
  <2> HIDE DEF k
  <2> QED
    BY <1>2, <2>1, SMT
<1> HIDE DEF k
<1>4. \A i \in 1 .. Len(g) : g[i] = allocated + i - 1
  BY <1>3
<1>5. Once(g)
  BY <1>1, <1>2, <1>3, <1>4 DEF Once
<1>6. ASSUME NEW id \in Ids PROVE In(g, id) <=> allocated <= id /\ id < Grown
  <2>1. id \in Nat /\ Grown = allocated + k
    BY <1>1, <1>2 DEF Ids, k
  <2>2. ASSUME In(g, id) PROVE allocated <= id /\ id < Grown
    BY <1>1, <1>2, <1>3, <1>4, <2>1, <2>2 DEF In
  <2>3. ASSUME allocated <= id, id < Grown PROVE In(g, id)
    <3>1. id - allocated + 1 \in 1 .. Len(g)
      BY <1>1, <1>2, <1>3, <2>1, <2>3
    <3>2. g[id - allocated + 1] = id
      <4>1. g[id - allocated + 1] = allocated + (id - allocated + 1) - 1
        BY <1>4, <3>1
      <4>2. allocated + (id - allocated + 1) - 1 = id
        BY <1>1, <2>1
      <4> QED
        BY <4>1, <4>2
    <3> QED
      BY <3>1, <3>2 DEF In
  <2> QED
    BY <2>2, <2>3
<1>7. ASSUME NEW id \in Ids PROVE ~(In(f, id) /\ In(g, id))
  <2>1. In(f, id) => id < allocated
    BY DEF FreeOK
  <2>2. id \in Nat
    BY <1>1 DEF Ids
  <2> QED
    BY <1>1, <1>6, <2>1, <2>2
<1> HIDE DEF g
<1>8. Free = f \o g
  BY DEF Free, g, k
<1>9. /\ Free \in Seq(Ids) /\ Once(Free)
      /\ \A id : In(Free, id) <=> In(f, id) \/ In(g, id)
  BY <1>1, <1>3, <1>5, <1>7, <1>8, Joined
<1>10. Free # <<>>
  <2>1. Len(Free) = Len(f) + Len(g) /\ Len(f) \in Nat
    BY <1>1, <1>3, <1>8, ConcatProperties, LenProperties
  <2>2. f # <<>> => Len(f) > 0
    BY <1>1, EmptySeq, LenProperties
  <2>3. Len(Free) > 0
    BY <1>2, <1>3, <2>1, <2>2
  <2> QED
    BY <2>3
<1>11. ASSUME NEW id \in Ids PROVE id < Grown /\ id \notin active <=> In(Free, id)
  <2>1. id < allocated /\ id \notin active <=> In(f, id)
    BY DEF FreeOK
  <2>2. id \in active => id < allocated
    BY DEF FreeOK
  <2>3. id \in Nat
    BY <1>1 DEF Ids
  <2> QED
    BY <1>1, <1>2, <1>6, <1>9, <2>1, <2>2, <2>3
<1> QED
  BY <1>2, <1>9, <1>10, <1>11

LEMMA SetStep ==
  ASSUME CodeWheels, WheelInv, NEW d \in 0 .. MaxTicks, set(d)
  PROVE  WheelInv' /\ Head(Free) \in Ids \ active
<1> DEFINE id == Head(Free)
           at == Ticks(m_tickCount + d)
           t  == m_tickCount
<1>1. /\ Grown <= MaxTimers /\ allocated' = Grown
      /\ expires' = [expires EXCEPT ![id] = at]
      /\ vec' = insert(vec, id, at) /\ active' = active \cup {id}
      /\ m_freeTimers' = Tail(Free) /\ t' = t /\ index' = index
  BY DEF set
<1>2. /\ Free \in Seq(Ids) /\ Once(Free) /\ Free # <<>>
      /\ \A x \in Ids : x < Grown /\ x \notin active <=> In(Free, x)
      /\ Grown \in Nat /\ allocated <= Grown
  BY <1>1, Available DEF WheelInv, TimersOK
<1>3. /\ id \in Ids /\ In(Free, id)
      /\ Tail(Free) \in Seq(Ids) /\ Once(Tail(Free))
      /\ \A x : In(Tail(Free), x) <=> In(Free, x) /\ x # id
  BY <1>2, Taken
<1> HIDE DEF id
<1>4. id < Grown /\ id \notin active
  BY <1>2, <1>3
<1>5. at \in Tick /\ Distance(at, t) = d /\ 2 * d < Wrap
  <2>1. t \in Nat /\ t < 4294967296 /\ d \in Nat /\ 2 * d < 4294967296
    <3>1. d \in Nat /\ MaxTicks \in Nat /\ d <= MaxTicks /\ 2 * MaxTicks < Wrap
      BY WheelAssumption
    <3> QED
      BY SMT, <3>1, Spans DEF WheelInv, TimersOK, Tick
  <2>2. at = (t + d) % 4294967296
    BY Spans DEF Ticks
  <2> HIDE DEF at
  <2> QED
    BY SMT, <2>1, <2>2, Spans DEF Tick, Distance
<1>6. PICK n \in Levels :
        /\ Place(at) = <<n, (at \div Span(n)) % Size(n)>>
        /\ Rightly(at, t, n, (at \div Span(n)) % Size(n))
  BY <1>5, Placed DEF WheelInv, TimersOK
<1> DEFINE i == (at \div Span(n)) % Size(n)
<1>7. i \in Slots(n)
  BY <1>5, SlotOf
<1> HIDE DEF at, i
<1>8. /\ Wheels(vec')
      /\ \A m \in Levels : \A j \in Slots(m) :
           vec'[m][j] = IF m = n /\ j = i THEN vec[m][j] \cup {id} ELSE vec[m][j]
  <2>1. vec' = [vec EXCEPT ![n][i] = vec[n][i] \cup {id}]
    BY <1>1, <1>6 DEF insert, i
  <2>2. Wheels(vec)
    BY DEF WheelInv
  <2> QED
    BY <1>3, <1>7, <2>1, <2>2 DEF Wheels
<1>9. /\ \A x \in active : expires'[x] = expires[x]
      /\ expires'[id] = at /\ expires' \in [Ids -> Tick]
  BY <1>1, <1>3, <1>4, <1>5 DEF WheelInv, TimersOK
<1>10. TimersOK' /\ HandsOK'
  BY <1>1, <1>3, <1>9 DEF WheelInv, TimersOK, HandsOK, Hand
<1>11. Near'
  BY <1>1, <1>5, <1>9 DEF WheelInv, Near, Distance
<1>12. ASSUME NEW m \in Levels, NEW j \in Slots(m) PROVE id \notin vec[m][j]
  BY <1>3, <1>4 DEF WheelInv, WellPlaced
<1>13. WellPlaced(vec, m_tickCount, 1)'
  <2>1. ASSUME NEW x \in active'
        PROVE  \E m \in Levels : \E j \in Slots(m) : x \in vec'[m][j]
    <3>1. CASE x = id
      BY <1>7, <1>8, <3>1
    <3>2. CASE x \in active
      <4>1. PICK m \in Levels : \E j \in Slots(m) : x \in vec[m][j]
        BY <3>2 DEF WheelInv, WellPlaced
      <4>2. PICK j \in Slots(m) : x \in vec[m][j]
        BY <4>1
      <4>3. x \in vec'[m][j]
        BY <1>8, <4>2
      <4> QED
        BY <4>3
    <3> QED
      BY <1>1, <3>1, <3>2
  <2>2. ASSUME NEW x \in Ids, NEW m \in Levels, NEW j \in Slots(m), x \in vec'[m][j]
        PROVE  x \in active' /\ Rightly(expires'[x], t', m, j)
    <3>1. CASE x = id
      <4>1. m = n /\ j = i
        BY <1>8, <1>12, <2>2, <3>1
      <4> QED
        BY <1>1, <1>6, <1>9, <3>1, <4>1 DEF i
    <3>2. CASE x # id
      <4>1. x \in vec[m][j]
        BY <1>8, <2>2, <3>2
      <4>2. x \in active /\ Rightly(expires[x], t, m, j)
        BY <4>1 DEF WheelInv, WellPlaced
      <4> QED
        BY <1>1, <1>9, <4>2
    <3> QED
      BY <3>1, <3>2
  <2>3. ASSUME NEW x \in Ids, NEW l \in Levels, NEW m \in Levels,
               NEW k \in Slots(l), NEW j \in Slots(m), x \in vec'[l][k], x \in vec'[m][j]
        PROVE  l = m /\ k = j
    <3>1. CASE x = id
      <4>1. ASSUME NEW q \in Levels, NEW r \in Slots(q), id \in vec'[q][r]
            PROVE  q = n /\ r = i
        BY <1>8, <1>12, <4>1
      <4>2. (l = n /\ k = i) /\ (m = n /\ j = i)
        BY <2>3, <3>1, <4>1
      <4> QED
        BY <4>2
    <3>2. CASE x # id
      <4>1. x \in vec[l][k] /\ x \in vec[m][j]
        BY <1>8, <2>3, <3>2
      <4> QED
        BY <4>1 DEF WheelInv, WellPlaced
    <3> QED
      BY <3>1, <3>2
  <2> QED
    BY <2>1, <2>2, <2>3 DEF WellPlaced
<1>14. FreeOK'
  <2>1. \A x \in active' : x < allocated'
    <3>1. ASSUME NEW x \in active PROVE x < Grown
      <4>1. x < allocated /\ x \in Nat /\ allocated \in Nat
        BY WheelAssumption DEF WheelInv, FreeOK, TimersOK, Ids
      <4> QED
        BY <1>2, <4>1
    <3> QED
      BY <1>1, <1>4, <3>1
  <2>2. \A x \in Ids : x < allocated' /\ x \notin active' <=> In(m_freeTimers', x)
    BY <1>1, <1>2, <1>3
  <2> QED
    BY <1>1, <1>2, <1>3, <2>1, <2>2 DEF FreeOK
<1> QED
  BY <1>3, <1>4, <1>8, <1>10, <1>11, <1>13, <1>14 DEF WheelInv, Wheels, id

LEMMA WheelStarts == CodeWheels /\ WheelInit => WheelInv
<1> SUFFICES ASSUME CodeWheels, WheelInit PROVE WheelInv
  OBVIOUS
<1>1. /\ m_tickCount = 0 /\ index = [n \in Levels |-> 0]
      /\ vec = [n \in Levels |-> [i \in Slots(n) |-> {}]]
      /\ expires = [id \in Ids |-> 0] /\ allocated = MAX_TIMER_COUNT /\ active = {}
      /\ m_freeTimers = [i \in 1 .. MAX_TIMER_COUNT |-> i - 1]
  BY DEF WheelInit
<1>2. TimersOK /\ Near
  BY <1>1, WrapNat DEF TimersOK, Near
<1>3. HandsOK
  <2>1. ASSUME NEW n \in Levels PROVE 0 \in Slots(n) /\ 0 = Hand(n, 0)
    <3>1. Size(n) \in Nat /\ Size(n) > 0
      BY SMT, Spans
    <3>2. Hand(n, 0) = 0
      BY SMT, Spans DEF Hand
    <3> QED
      BY <3>1, <3>2 DEF Slots
  <2> QED
    BY <1>1, <2>1 DEF HandsOK
<1>4. Wheels(vec) /\ WellPlaced(vec, m_tickCount, 1)
  BY <1>1 DEF Wheels, WellPlaced
<1>5. FreeOK
  <2>1. MAX_TIMER_COUNT \in Nat /\ MaxTimers \in Nat /\ MAX_TIMER_COUNT <= MaxTimers
    BY WheelAssumption
  <2>2. \A i \in 1 .. MAX_TIMER_COUNT : i - 1 \in Ids
    BY <2>1 DEF Ids
  <2>3. m_freeTimers \in Seq(Ids) /\ Len(m_freeTimers) = MAX_TIMER_COUNT
    BY <1>1, <2>1, <2>2, SMT
  <2>4. Once(m_freeTimers)
    BY <1>1, <2>1, <2>3 DEF Once
  <2>5. ASSUME NEW id \in Ids PROVE id < allocated <=> In(m_freeTimers, id)
    <3>1. id \in Nat
      BY <2>1 DEF Ids
    <3>2. ASSUME id < allocated PROVE In(m_freeTimers, id)
      <4>1. id + 1 \in 1 .. Len(m_freeTimers) /\ m_freeTimers[id + 1] = (id + 1) - 1
        BY <1>1, <2>1, <2>3, <3>1, <3>2
      <4> QED
        BY <3>1, <4>1 DEF In
    <3>3. ASSUME In(m_freeTimers, id) PROVE id < allocated
      BY <1>1, <2>1, <2>3, <3>1, <3>3 DEF In
    <3> QED
      BY <3>2, <3>3
  <2> QED
    BY <1>1, <2>1, <2>3, <2>4, <2>5 DEF FreeOK
<1> QED
  BY <1>2, <1>3, <1>4, <1>5 DEF WheelInv

LEMMA WheelStep == CodeWheels /\ WheelInv /\ [WheelNext]_vars => WheelInv'
<1> SUFFICES ASSUME CodeWheels, WheelInv, [WheelNext]_vars PROVE WheelInv'
  OBVIOUS
<1>1. ASSUME NEW d \in 0 .. MaxTicks, set(d) PROVE WheelInv'
  BY <1>1, SetStep
<1>2. ASSUME NEW id \in Ids, cancel(id) PROVE WheelInv'
  BY <1>2, CancelStep
<1>3. CASE tick
  BY <1>3, TickStep
<1>4. CASE UNCHANGED vars
  BY <1>4 DEF vars, wheel, owned, WheelInv, TimersOK, HandsOK, Near, Wheels, WellPlaced, FreeOK
<1> QED
  BY <1>1, <1>2, <1>3, <1>4 DEF WheelNext

\* Whatever is set and canceled, every timer stands where its distance says.
THEOREM WheelInvariance ==
  ASSUME CodeWheels
  PROVE  WheelSpec => []WheelInv
<1>1. WheelInit => WheelInv
  BY WheelStarts
<1>2. WheelInv /\ [WheelNext]_vars => WheelInv'
  BY WheelStep
<1> QED
  BY <1>1, <1>2, PTL DEF WheelSpec

\* The types of the wheels.
THEOREM WheelTypeCorrect ==
  ASSUME CodeWheels
  PROVE  WheelSpec => []WheelTypeOK
<1>1. WheelInv => WheelTypeOK
  <2> SUFFICES ASSUME WheelInv PROVE WheelTypeOK
    OBVIOUS
  <2>1. Tick = 0 .. Wrap - 1
    BY WrapNat DEF Tick
  <2> QED
    BY <2>1 DEF WheelInv, TimersOK, HandsOK, FreeOK, Wheels, WheelTypeOK
<1> QED
  BY <1>1, WheelInvariance, PTL

\* No cascade loses a timer or leaves one behind, no id is handed out twice.
THEOREM OnePlaceHolds ==
  ASSUME CodeWheels
  PROVE  WheelSpec => []OnePlace
<1>1. WheelInv => OnePlace
  <2> SUFFICES ASSUME WheelInv PROVE OnePlace
    OBVIOUS
  <2>1. ASSUME NEW id \in active
        PROVE  /\ \E n \in Levels : \E i \in Slots(n) : Stands(id, n, i)
               /\ id < allocated
    BY DEF WheelInv, WellPlaced, FreeOK, Stands
  <2>2. ASSUME NEW id \in Ids, NEW m \in Levels, NEW n \in Levels,
               NEW i \in Slots(m), NEW j \in Slots(n), Stands(id, m, i), Stands(id, n, j)
        PROVE  m = n /\ i = j /\ id \in active
    BY <2>2 DEF WheelInv, WellPlaced, Stands
  <2>3. DOMAIN m_freeTimers = 1 .. Len(m_freeTimers)
    BY LenProperties DEF WheelInv, FreeOK
  <2>4. \A id : id \in {m_freeTimers[i] : i \in DOMAIN m_freeTimers} <=> In(m_freeTimers, id)
    BY <2>3 DEF In
  <2>5. \A id \in Ids : id < allocated /\ id \notin active <=>
                          id \in {m_freeTimers[i] : i \in DOMAIN m_freeTimers}
    BY <2>4 DEF WheelInv, FreeOK
  <2>6. \A i, j \in DOMAIN m_freeTimers : m_freeTimers[i] = m_freeTimers[j] => i = j
    BY <2>3 DEF WheelInv, FreeOK, Once
  <2> QED
    BY <2>1, <2>2, <2>5, <2>6 DEF OnePlace
<1> QED
  BY <1>1, WheelInvariance, PTL

-----------------------------------------------------------------------------
due == [id \in Ids |-> IF id \in active THEN expires[id] ELSE -1]

\* Every step of the wheels is one of the alarm clock.
LEMMA AlarmStep ==
  ASSUME CodeWheels, WheelInv, [WheelNext]_vars
  PROVE  [A!Next]_<<m_tickCount, due>>
<1>1. active \subseteq Ids /\ \A id \in Ids : expires[id] \in Nat
  BY DEF WheelInv, TimersOK, Tick
<1>2. ASSUME NEW d \in 0 .. MaxTicks, set(d) PROVE A!Set(Head(Free), d)
  <2>1. Head(Free) \in Ids /\ Head(Free) \notin active
    BY <1>2, SetStep
  <2>2. /\ expires' = [expires EXCEPT ![Head(Free)] = (m_tickCount + d) % Wrap]
        /\ active' = active \cup {Head(Free)} /\ m_tickCount' = m_tickCount
    BY <1>2 DEF set, Ticks
  <2>3. due' = [due EXCEPT ![Head(Free)] = (m_tickCount + d) % Wrap]
    BY <2>1, <2>2 DEF due, WheelInv, TimersOK
  <2> QED
    BY <2>1, <2>2, <2>3 DEF due, A!Set, A!NotSet
<1>3. ASSUME NEW id \in Ids, cancel(id) PROVE A!Cancel(id)
  BY <1>3 DEF cancel, Forgotten, due, A!Cancel, A!NotSet, wheel
<1>4. ASSUME tick PROVE A!Tick
  <2> DEFINE fired == {id \in active : expires[id] = m_tickCount}
  <2>1. /\ active' = active \ fired /\ expires' = Forgotten(fired)
        /\ m_tickCount' = (m_tickCount + 1) % Wrap
    BY <1>4, Fires DEF tick, WheelInv
  <2>2. m_tickCount \in Nat
    BY DEF WheelInv, TimersOK, Tick
  <2>3. due' = [id \in Ids |-> IF due[id] = m_tickCount THEN -1 ELSE due[id]]
    BY <1>1, <2>1, <2>2 DEF due, Forgotten
  <2> QED
    BY <2>1, <2>3 DEF due, A!Tick, A!NotSet
<1>5. CASE UNCHANGED vars
  BY <1>5 DEF vars, wheel, owned, due
<1> QED
  BY <1>2, <1>3, <1>4, <1>5, SetStep DEF WheelNext, A!Next, due

\* A timer fires in the very tick it was set for, through all the cascades.
THEOREM WheelFiresExactly ==
  ASSUME CodeWheels
  PROVE  WheelSpec => ExactFiring
<1>1. WheelInit => A!Init
  BY DEF WheelInit, A!Init, A!NotSet
<1>2. WheelInv /\ [WheelNext]_vars => [A!Next]_<<m_tickCount, due>>
  BY AlarmStep
<1> QED
  BY <1>1, <1>2, WheelInvariance, PTL DEF WheelSpec, ExactFiring, A!Spec, due
=============================================================================
