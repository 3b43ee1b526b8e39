-------------------------- MODULE TaskQueueProofs --------------------------
(***************************************************************************)
(* Proofs about TaskQueue, for every number of threads, every capacity and *)
(* every width of the cursors.  The inductive invariant is IInv: the type  *)
(* invariant, mutual exclusion of the poppers, and what each pending call  *)
(* knows about the cursors from the accesses it has made so far.           *)
(***************************************************************************)
EXTENDS TaskQueue, SequenceTheorems, TLAPS

----------------------------------------------------------------------------
(* Cursor arithmetic. *)

\* The distance between two cursors, without the modulo.
LEMMA DistanceLinear ==
  ASSUME NEW f \in Cursors, NEW b \in Cursors
  PROVE  /\ Distance(f, b) = IF f <= b THEN b - f ELSE b - f + CursorLimit
         /\ Distance(f, b) \in Cursors
<1>1. CASE f <= b
  BY <1>1, SizeAssumption DEF Distance, Cursors
<1>2. CASE ~(f <= b)
  <2>1. \E r \in 1 .. CursorLimit : b - f = 0 - r
    BY <1>2, SizeAssumption DEF Cursors
  <2> QED BY <1>2, <2>1, SizeAssumption DEF Distance, Cursors
<1> QED BY <1>1, <1>2

\* The successor of a cursor, without the modulo.
LEMMA SuccLinear ==
  ASSUME NEW c \in Cursors
  PROVE  /\ Succ(c) = IF c = CursorLimit - 1 THEN 0 ELSE c + 1
         /\ Succ(c) \in Cursors
  BY SizeAssumption DEF Succ, Cursors

\* Two cursors less than Size apart use different slots, also when the wrap
\* of the cursors lies between them: Size divides CursorLimit.
LEMMA SlotsDiffer ==
  ASSUME NEW f \in Cursors, NEW b \in Cursors,
         Distance(f, b) > 0, Distance(f, b) < Size
  PROVE  Slot(f) # Slot(b)
<1> DEFINE d == Distance(f, b)
           qf == f \div Size
           qb == b \div Size
           qc == CursorLimit \div Size
<1>1. /\ f = Size * qf + (f % Size) /\ b = Size * qb + (b % Size)
      /\ CursorLimit = Size * qc
      /\ qf \in Int /\ qb \in Int /\ qc \in Int
  BY SizeAssumption DEF Cursors
<1>2. \E k \in Int : b - f = d + Size * k
  <2>1. CASE f <= b
    <3>1. b - f = d + Size * 0
      BY <2>1, DistanceLinear, SizeAssumption DEF Cursors
    <3> QED BY <3>1
  <2>2. CASE ~(f <= b)
    <3>1. b - f = d - CursorLimit
      BY <2>2, DistanceLinear, SizeAssumption DEF Cursors
    <3>2. d - Size * qc = d + Size * (0 - qc)
      BY <1>1, DistanceLinear, SizeAssumption DEF Cursors
    <3> HIDE DEF d, qc
    <3>3. 0 - qc \in Int
      BY <1>1
    <3> QED BY <1>1, <3>1, <3>2, <3>3
  <2> QED BY <2>1, <2>2
<1>3. SUFFICES ASSUME f % Size = b % Size PROVE FALSE
  BY DEF Slot
<1>4. PICK k \in Int : b - f = d + Size * k
  BY <1>2
<1>5. d = Size * (qb - qf - k)
  <2>1. /\ Size \in Int /\ d \in Int /\ f \in Int /\ b \in Int
        /\ Size * qb \in Int /\ Size * qf \in Int /\ Size * k \in Int
        /\ f % Size \in Int
    BY <1>1, <1>4, SizeAssumption, DistanceLinear DEF Cursors
  <2>2. f = Size * qf + (f % Size) /\ b = Size * qb + (f % Size)
    BY <1>1, <1>3
  <2> HIDE DEF d, qf, qb
  <2>3. d = Size * qb - Size * qf - Size * k
    BY ONLY <1>4, <2>1, <2>2
  <2>4. \A s, x, y, z \in Int : s * x - s * y - s * z = s * (x - y - z)
    OBVIOUS
  <2> QED
    BY ONLY <1>1, <1>4, <2>1, <2>3, <2>4
<1>6. PICK m \in Int : d = Size * m
  BY <1>1, <1>5
<1>7. d \in Int /\ d > 0 /\ d < Size
  BY DistanceLinear DEF Cursors
<1> QED BY <1>6, <1>7, SizeAssumption

\* How distances change when the back or the front moves by one.
LEMMA DistanceMoves ==
  ASSUME NEW f \in Cursors, NEW b \in Cursors
  PROVE  /\ Distance(f, b) \in Nat
         /\ Distance(f, f) = 0
         /\ Distance(f, b) = 0 <=> f = b
         /\ Distance(f, b) < Size => Distance(f, Succ(b)) = Distance(f, b) + 1
         /\ f # b => Distance(Succ(f), b) = Distance(f, b) - 1
<1> DEFINE L(x, y) == IF x <= y THEN y - x ELSE y - x + CursorLimit
<1>1. Succ(f) \in Cursors /\ Succ(b) \in Cursors
  BY SuccLinear
<1>2. /\ Distance(f, b) = L(f, b) /\ Distance(f, f) = L(f, f)
      /\ Distance(f, Succ(b)) = L(f, Succ(b)) /\ Distance(Succ(f), b) = L(Succ(f), b)
  BY <1>1, DistanceLinear
<1>3. /\ Succ(f) = IF f = CursorLimit - 1 THEN 0 ELSE f + 1
      /\ Succ(b) = IF b = CursorLimit - 1 THEN 0 ELSE b + 1
  BY SuccLinear
<1>4. f \in Int /\ b \in Int /\ 0 <= f /\ f < CursorLimit /\ 0 <= b /\ b < CursorLimit
  BY SizeAssumption DEF Cursors
<1> QED BY <1>2, <1>3, <1>4, SizeAssumption

----------------------------------------------------------------------------
(* The inductive invariant. *)

\* The accesses of a pop that run with the front lock held.
Critical == {"pop", "reload", "read", "advance", "unlock"}

\* The front lock is taken while a thread is in its critical section, and at
\* most one thread is.
MutualExclusion ==
  \A t \in Threads : pc[t] \in Critical =>
    /\ locked
    /\ \A u \in Threads : pc[u] \in Critical => t = u

\* What a thread inside queue_pop_front knows: its copy of front_cursor is
\* current, and once it is past the tests for emptiness an item is there.
PopKnows ==
  \A t \in Threads :
    /\ pc[t] \in {"reload", "read", "advance"} => cursor[t] = front_cursor
    /\ pc[t] \in {"read", "advance"} => front_cursor # cached_back_cursor

\* What the Owner knows inside queue_push_back and queue_is_full: past the
\* tests for fullness there is room, a front_cursor it has loaded is at most
\* stale in the safe direction, and room that was seen stays.
PushKnows ==
  /\ pc[Owner] \in {"write", "publish"}
       => Distance(cached_front_cursor, back_cursor) < Size
  /\ pc[Owner] = "is_full" =>
       /\ Distance(cursor[Owner], back_cursor) <= Size
       /\ Distance(front_cursor, back_cursor)
            <= Distance(cursor[Owner], back_cursor)
  /\ vacant /\ pc[Owner] # "pushed"
       => Distance(front_cursor, back_cursor) < Size

IInv ==
  /\ TypeOK
  /\ MutualExclusion
  /\ CursorOrder
  /\ PopKnows
  /\ PushKnows
  /\ PushAfterNotFull

----------------------------------------------------------------------------
\* The invariant holds initially: the queue is empty and nobody calls it.
LEMMA InitIInv == Init => IInv
<1> SUFFICES ASSUME Init PROVE IInv
  OBVIOUS
<1>1. 0 \in Cursors /\ Distance(0, 0) = 0
  BY SizeAssumption, DistanceMoves DEF Cursors
<1>2. TypeOK
  BY <1>1, OwnerAssumption DEF Init, TypeOK, Labels
<1>3. MutualExclusion /\ PopKnows /\ PushKnows /\ PushAfterNotFull
  BY <1>1, OwnerAssumption, SizeAssumption
  DEF Init, MutualExclusion, Critical, PopKnows, PushKnows, PushAfterNotFull
<1>4. CursorOrder
  BY <1>1, SizeAssumption DEF Init, CursorOrder
<1> QED BY <1>2, <1>3, <1>4 DEF IInv

\* What the steps below use of distances when no cursor moves.
LEMMA DistanceFacts ==
         /\ \A f, b \in Cursors : Distance(f, b) \in Nat
         /\ \A f, b \in Cursors : Distance(f, b) = 0 <=> f = b
         /\ \A f \in Cursors : Distance(f, f) = 0
  BY DistanceMoves

\* A step of queue_push_back preserves the invariant.
LEMMA PushStep ==
  ASSUME IInv, queue_push_back
  PROVE  IInv'
<1> USE OwnerAssumption, SizeAssumption
<1>0. TypeOK /\ pc \in [Threads -> Labels]
  BY DEF IInv, TypeOK
<1>1. ASSUME NEW v \in Items, PushBegin(v) PROVE IInv'
  <2>1. TypeOK'
    BY <1>0, <1>1 DEF TypeOK, PushBegin, Goto, cursors, Labels
  <2>2. MutualExclusion' /\ PopKnows'
    BY <1>0, <1>1 DEF IInv, MutualExclusion, PopKnows, Critical, PushBegin, Goto, cursors
  <2>3. CursorOrder' /\ PushAfterNotFull'
    BY <1>0, <1>1 DEF IInv, CursorOrder, PushAfterNotFull, PushBegin, Goto, cursors
  <2>4. PushKnows'
    BY <1>0, <1>1, DistanceFacts
    DEF IInv, TypeOK, CursorOrder, PushKnows, PushBegin, Goto, cursors, is_full
  <2> QED BY <2>1, <2>2, <2>3, <2>4 DEF IInv
<1>2. CASE PushRefresh
  <2>1. TypeOK'
    BY <1>0, <1>2 DEF TypeOK, PushRefresh, Goto, Labels
  <2>2. MutualExclusion' /\ PopKnows'
    BY <1>0, <1>2 DEF IInv, MutualExclusion, PopKnows, Critical, PushRefresh, Goto
  <2>3. CursorOrder'
    BY <1>0, <1>2, DistanceFacts DEF IInv, TypeOK, CursorOrder, PushRefresh
  <2>4. PushKnows' /\ PushAfterNotFull'
    BY <1>0, <1>2, DistanceFacts
    DEF IInv, TypeOK, CursorOrder, PushKnows, PushAfterNotFull, PushRefresh, Goto, is_full
  <2> QED BY <2>1, <2>2, <2>3, <2>4 DEF IInv
<1>3. CASE set_value
  <2>1. TypeOK'
    BY <1>0, <1>3 DEF TypeOK, set_value, Goto, cursors, Labels
  <2>2. MutualExclusion' /\ PopKnows'
    BY <1>0, <1>3 DEF IInv, MutualExclusion, PopKnows, Critical, set_value, Goto, cursors
  <2>3. CursorOrder' /\ PushKnows' /\ PushAfterNotFull'
    BY <1>0, <1>3
    DEF IInv, CursorOrder, PushKnows, PushAfterNotFull, set_value, Goto, cursors
  <2> QED BY <2>1, <2>2, <2>3 DEF IInv
<1>4. CASE PushPublish
  <2>1. TypeOK'
    BY <1>0, <1>4, SuccLinear DEF TypeOK, PushPublish, Goto, Labels
  <2>2. MutualExclusion' /\ PopKnows'
    BY <1>0, <1>4 DEF IInv, MutualExclusion, PopKnows, Critical, PushPublish, Goto
  <2>3. /\ Distance(cached_front_cursor, back_cursor) < Size
        /\ Distance(front_cursor, back_cursor) < Size
    BY <1>0, <1>4, DistanceFacts
    DEF IInv, TypeOK, CursorOrder, PushKnows, PushPublish
  <2>4. /\ Distance(cached_front_cursor, back_cursor')
             = Distance(cached_front_cursor, back_cursor) + 1
        /\ Distance(front_cursor, back_cursor')
             = Distance(front_cursor, back_cursor) + 1
    BY <1>0, <1>4, <2>3, DistanceMoves DEF TypeOK, PushPublish
  <2>5. CursorOrder'
    BY <1>0, <1>4, <2>3, <2>4, DistanceFacts DEF IInv, TypeOK, CursorOrder, PushPublish
  <2>6. PushKnows' /\ PushAfterNotFull'
    BY <1>0, <1>4 DEF PushKnows, PushAfterNotFull, PushPublish, Goto
  <2> QED BY <2>1, <2>2, <2>5, <2>6 DEF IInv
<1>5. CASE PushReturn
  <2>1. TypeOK'
    BY <1>0, <1>5 DEF TypeOK, PushReturn, Goto, cursors, Labels
  <2>2. MutualExclusion' /\ PopKnows'
    BY <1>0, <1>5 DEF IInv, MutualExclusion, PopKnows, Critical, PushReturn, Goto, cursors
  <2>3. CursorOrder' /\ PushKnows' /\ PushAfterNotFull'
    BY <1>0, <1>5
    DEF IInv, CursorOrder, PushKnows, PushAfterNotFull, PushReturn, Goto, cursors
  <2> QED BY <2>1, <2>2, <2>3 DEF IInv
<1> QED BY <1>1, <1>2, <1>3, <1>4, <1>5 DEF queue_push_back

\* A step of queue_is_full preserves the invariant.
LEMMA IsFullStep ==
  ASSUME IInv, queue_is_full
  PROVE  IInv'
<1> USE OwnerAssumption, SizeAssumption
<1>0. TypeOK /\ pc \in [Threads -> Labels] /\ cursor \in [Threads -> Cursors]
  BY DEF IInv, TypeOK
<1>1. CASE IsFullFront
  <2>1. TypeOK'
    BY <1>0, <1>1 DEF TypeOK, IsFullFront, Goto, cursors, Labels
  <2>2. MutualExclusion' /\ PopKnows'
    BY <1>0, <1>1 DEF IInv, MutualExclusion, PopKnows, Critical, IsFullFront, Goto, cursors
  <2>3. CursorOrder' /\ PushAfterNotFull'
    BY <1>0, <1>1 DEF IInv, CursorOrder, PushAfterNotFull, IsFullFront, Goto, cursors
  <2>4. PushKnows'
    BY <1>0, <1>1, DistanceFacts
    DEF IInv, TypeOK, CursorOrder, PushKnows, IsFullFront, Goto, cursors
  <2> QED BY <2>1, <2>2, <2>3, <2>4 DEF IInv
<1>2. CASE IsFullBack
  <2>1. TypeOK'
    BY <1>0, <1>2, SizeAssumption
    DEF TypeOK, IsFullBack, Goto, cursors, Labels, Cursors
  <2>2. MutualExclusion' /\ PopKnows'
    BY <1>0, <1>2 DEF IInv, MutualExclusion, PopKnows, Critical, IsFullBack, Goto, cursors
  <2>3. CursorOrder' /\ PushAfterNotFull'
    BY <1>0, <1>2 DEF IInv, CursorOrder, PushAfterNotFull, IsFullBack, Goto, cursors
  <2>4. PushKnows'
    BY <1>0, <1>2, DistanceFacts
    DEF IInv, TypeOK, CursorOrder, PushKnows, IsFullBack, Goto, cursors, is_full
  <2> QED BY <2>1, <2>2, <2>3, <2>4 DEF IInv
<1> QED BY <1>1, <1>2 DEF queue_is_full

\* A step of a pop, under the front lock or waiting for it, preserves the
\* invariant.
LEMMA PopStep ==
  ASSUME IInv, NEW t \in Threads, queue_pop_front(t)
  PROVE  IInv'
<1> USE OwnerAssumption, SizeAssumption
<1>0. TypeOK /\ pc \in [Threads -> Labels] /\ cursor \in [Threads -> Cursors]
  BY DEF IInv, TypeOK
<1>1. CASE PopBegin(t)
  <2>1. TypeOK'
    BY <1>0, <1>1 DEF TypeOK, PopBegin, Goto, cursors, Labels
  <2>2. MutualExclusion' /\ PopKnows'
    BY <1>0, <1>1 DEF IInv, MutualExclusion, PopKnows, Critical, PopBegin, Goto, cursors
  <2>3. CursorOrder' /\ PushKnows' /\ PushAfterNotFull'
    BY <1>0, <1>1
    DEF IInv, CursorOrder, PushKnows, PushAfterNotFull, PopBegin, Goto, cursors
  <2> QED BY <2>1, <2>2, <2>3 DEF IInv
<1>2. CASE LockLoad(t)
  <2>1. TypeOK'
    BY <1>0, <1>2 DEF TypeOK, LockLoad, Goto, cursors, Labels
  <2>2. MutualExclusion' /\ PopKnows'
    BY <1>0, <1>2 DEF IInv, MutualExclusion, PopKnows, Critical, LockLoad, Goto, cursors
  <2>3. CursorOrder' /\ PushKnows' /\ PushAfterNotFull'
    BY <1>0, <1>2
    DEF IInv, CursorOrder, PushKnows, PushAfterNotFull, LockLoad, Goto, cursors
  <2> QED BY <2>1, <2>2, <2>3 DEF IInv
<1>3. CASE LockExchange(t)
  <2>1. TypeOK'
    BY <1>0, <1>3 DEF TypeOK, LockExchange, Goto, cursors, Labels
  <2>2. MutualExclusion'
    BY <1>0, <1>3 DEF IInv, MutualExclusion, Critical, LockExchange, Goto
  <2>3. PopKnows'
    BY <1>0, <1>3 DEF IInv, PopKnows, LockExchange, Goto, cursors
  <2>4. CursorOrder' /\ PushKnows' /\ PushAfterNotFull'
    BY <1>0, <1>3
    DEF IInv, CursorOrder, PushKnows, PushAfterNotFull, LockExchange, Goto, cursors
  <2> QED BY <2>1, <2>2, <2>3, <2>4 DEF IInv
<1>4. CASE PopLoad(t)
  <2>1. TypeOK'
    BY <1>0, <1>4 DEF TypeOK, PopLoad, Goto, cursors, Labels
  <2>2. MutualExclusion'
    BY <1>0, <1>4 DEF IInv, MutualExclusion, Critical, PopLoad, Goto
  <2>3. PopKnows'
    BY <1>0, <1>4 DEF IInv, TypeOK, PopKnows, PopLoad, Goto, cursors, is_empty
  <2>4. CursorOrder' /\ PushKnows' /\ PushAfterNotFull'
    BY <1>0, <1>4
    DEF IInv, CursorOrder, PushKnows, PushAfterNotFull, PopLoad, Goto, cursors
  <2> QED BY <2>1, <2>2, <2>3, <2>4 DEF IInv
<1>5. CASE PopReload(t)
  <2>1. TypeOK'
    BY <1>0, <1>5 DEF TypeOK, PopReload, Goto, Labels
  <2>2. MutualExclusion'
    BY <1>0, <1>5 DEF IInv, MutualExclusion, Critical, PopReload, Goto
  <2>3. PopKnows'
    BY <1>0, <1>5
    DEF IInv, PopKnows, MutualExclusion, Critical, PopReload, Goto, is_empty
  <2>4. CursorOrder'
    BY <1>0, <1>5, DistanceFacts DEF IInv, TypeOK, CursorOrder, PopReload
  <2>5. PushKnows' /\ PushAfterNotFull'
    BY <1>0, <1>5 DEF IInv, PushKnows, PushAfterNotFull, PopReload, Goto
  <2> QED BY <2>1, <2>2, <2>3, <2>4, <2>5 DEF IInv
<1>6. CASE get_value(t)
  <2>0. values[Slot(cursor[t])] \in Items \union {Null}
    BY <1>0 DEF TypeOK, Slot, Slots, Cursors
  <2>1. TypeOK'
    BY <1>0, <1>6, <2>0 DEF TypeOK, get_value, Goto, cursors, Labels
  <2>2. MutualExclusion' /\ PopKnows'
    BY <1>0, <1>6 DEF IInv, MutualExclusion, PopKnows, Critical, get_value, Goto, cursors
  <2>3. CursorOrder' /\ PushKnows' /\ PushAfterNotFull'
    BY <1>0, <1>6
    DEF IInv, CursorOrder, PushKnows, PushAfterNotFull, get_value, Goto, cursors
  <2> QED BY <2>1, <2>2, <2>3 DEF IInv
<1>7. CASE PopAdvance(t)
  <2>1. TypeOK'
    BY <1>0, <1>7, SuccLinear DEF TypeOK, PopAdvance, Goto, Labels
  <2>2. MutualExclusion'
    BY <1>0, <1>7 DEF IInv, MutualExclusion, Critical, PopAdvance, Goto
  <2>3. PopKnows'
    BY <1>0, <1>7 DEF IInv, PopKnows, MutualExclusion, Critical, PopAdvance, Goto
  <2>4. front_cursor' = Succ(front_cursor) /\ front_cursor # cached_back_cursor
    BY <1>7 DEF IInv, PopKnows, PopAdvance
  <2>5. front_cursor # back_cursor
    BY <1>0, <2>4, DistanceFacts DEF IInv, TypeOK, CursorOrder
  <2>6. /\ Distance(front_cursor', cached_back_cursor)
             = Distance(front_cursor, cached_back_cursor) - 1
        /\ Distance(front_cursor', back_cursor)
             = Distance(front_cursor, back_cursor) - 1
    BY <1>0, <2>4, <2>5, DistanceMoves DEF TypeOK
  <2>7. CursorOrder'
    BY <1>0, <1>7, <2>6, DistanceFacts DEF IInv, TypeOK, CursorOrder, PopAdvance
  <2>8. PushKnows' /\ PushAfterNotFull'
    BY <1>0, <1>7, <2>6, DistanceFacts
    DEF IInv, TypeOK, PushKnows, PushAfterNotFull, PopAdvance, Goto
  <2> QED BY <2>1, <2>2, <2>3, <2>7, <2>8 DEF IInv
<1>8. CASE PopUnlock(t)
  <2>1. TypeOK'
    <3>1. 0 \in Cursors
      BY DEF Cursors
    <3> QED BY <1>0, <1>8, <3>1 DEF TypeOK, PopUnlock, Goto, cursors, Labels
  <2>2. MutualExclusion'
    BY <1>0, <1>8 DEF IInv, MutualExclusion, Critical, PopUnlock, Goto
  <2>3. PopKnows'
    BY <1>0, <1>8 DEF IInv, PopKnows, PopUnlock, Goto, cursors
  <2>4. CursorOrder' /\ PushKnows' /\ PushAfterNotFull'
    BY <1>0, <1>8
    DEF IInv, CursorOrder, PushKnows, PushAfterNotFull, PopUnlock, Goto, cursors
  <2> QED BY <2>1, <2>2, <2>3, <2>4 DEF IInv
<1> QED BY <1>1, <1>2, <1>3, <1>4, <1>5, <1>6, <1>7, <1>8 DEF queue_pop_front

\* The invariant is inductive.
LEMMA NextIInv == IInv /\ [Next]_vars => IInv'
<1> SUFFICES ASSUME IInv, [Next]_vars PROVE IInv'
  OBVIOUS
<1>1. CASE UNCHANGED vars
  BY <1>1 DEF IInv, TypeOK, MutualExclusion, CursorOrder, PopKnows, PushKnows,
              PushAfterNotFull, vars
<1> QED BY <1>1, PushStep, IsFullStep, PopStep DEF Next

\* In every reachable state the inductive invariant holds.
THEOREM Invariance == Spec => []IInv
  BY InitIInv, NextIInv, PTL DEF Spec

----------------------------------------------------------------------------
\* The queue's variables keep their types: no cursor leaves its width and
\* nothing but a task or NULL is ever stored or returned.
THEOREM TypeCorrect == Spec => []TypeOK
<1>1. IInv => TypeOK
  BY DEF IInv
<1> QED BY <1>1, Invariance, PTL

\* For every capacity and cursor width: the constraints of the circular
\* buffer of queue.c, also for the cached cursors and across the wrap.
THEOREM CursorsOrdered == Spec => []CursorOrder
<1>1. IInv => CursorOrder
  BY DEF IInv
<1> QED BY <1>1, Invariance, PTL

\* For every number of thieves: the Owner's set_value in queue_push_back and
\* a popper's get_value in queue_pop_front never touch the same slot.
THEOREM SlotRaceFree == Spec => []NoSlotRace
<1>1. IInv => NoSlotRace
  <2> SUFFICES ASSUME IInv, NEW t \in Threads,
                      pc[Owner] \in {"write", "publish"},
                      pc[t] \in {"read", "advance"}
               PROVE  Slot(back_cursor) # Slot(cursor[t])
    BY DEF NoSlotRace
  <2>1. /\ Distance(front_cursor, back_cursor) < Size
        /\ Distance(front_cursor, back_cursor) > 0
    <3>1. /\ Distance(front_cursor, back_cursor) \in Nat
          /\ Distance(front_cursor, cached_back_cursor) \in Nat
          /\ Distance(cached_front_cursor, back_cursor) \in Nat
          /\ Distance(front_cursor, cached_back_cursor) # 0
      BY DistanceFacts DEF IInv, TypeOK, PopKnows
    <3> QED BY <3>1, SizeAssumption DEF IInv, CursorOrder, PushKnows
  <2>2. cursor[t] = front_cursor
    BY DEF IInv, PopKnows
  <2> QED BY <2>1, <2>2, SlotsDiffer DEF IInv, TypeOK
<1> QED BY <1>1, Invariance, PTL

\* For every interleaving with the poppers: a push after queue_is_full
\* answered no is not rejected by queue_push_back.
THEOREM RoomStays == Spec => []PushAfterNotFull
<1>1. IInv => PushAfterNotFull
  BY DEF IInv
<1> QED BY <1>1, Invariance, PTL

----------------------------------------------------------------------------
(* The queue implements BoundedFifo. *)

\* The cursor of the i-th item behind front f.
Position(f, i) == (f + i - 1) % CursorLimit

\* Positions without the modulo, and how they move with the front.
LEMMA PositionLinear ==
  ASSUME NEW f \in Cursors, NEW i \in 1 .. CursorLimit
  PROVE  /\ Position(f, i) = IF f + i - 1 < CursorLimit THEN f + i - 1 ELSE f + i - 1 - CursorLimit
         /\ Position(f, i) \in Cursors
<1>1. f + i - 1 \in 0 .. 2 * CursorLimit - 1
  BY SizeAssumption DEF Cursors
<1>2. CASE f + i - 1 < CursorLimit
  BY <1>1, <1>2, SizeAssumption DEF Position, Cursors
<1>3. CASE ~(f + i - 1 < CursorLimit)
  <2>1. \E r \in 0 .. CursorLimit - 1 : f + i - 1 = r + CursorLimit
    BY <1>1, <1>3, SizeAssumption DEF Cursors
  <2> QED BY <1>3, <2>1, SizeAssumption DEF Position, Cursors
<1> QED BY <1>2, <1>3

\* The positions of the items, counted from the front cursor.
LEMMA PositionMoves ==
  ASSUME NEW f \in Cursors, NEW b \in Cursors, Distance(f, b) <= Size
  PROVE  /\ Position(f, 1) = f
         /\ Position(f, Distance(f, b) + 1) = b
         /\ \A i \in 1 .. Distance(f, b) :
              /\ Distance(Position(f, i), b) = Distance(f, b) - i + 1
              /\ Position(f, i) \in Cursors
              /\ i < Distance(f, b) => Position(Succ(f), i) = Position(f, i + 1)
<1> DEFINE d == Distance(f, b)
<1>1. /\ d = IF f <= b THEN b - f ELSE b - f + CursorLimit
      /\ d \in Int /\ 0 <= d /\ d < CursorLimit
  <2>1. /\ d = IF f <= b THEN b - f ELSE b - f + CursorLimit
        /\ d \in Cursors
    BY DistanceLinear
  <2> HIDE DEF d
  <2> QED BY <2>1, SizeAssumption DEF Cursors
<1>2. f \in Int /\ b \in Int /\ 0 <= f /\ f < CursorLimit /\ 0 <= b /\ b < CursorLimit
  BY SizeAssumption DEF Cursors
<1>3. Position(f, 1) = f
  <2>1. 1 \in 1 .. CursorLimit
    BY SizeAssumption
  <2> QED BY <1>2, <2>1, PositionLinear
<1> HIDE DEF d
<1>4. Position(f, d + 1) = b
  <2>1. d + 1 \in 1 .. CursorLimit
    BY <1>1, SizeAssumption
  <2> QED BY <1>1, <1>2, <2>1, PositionLinear, SizeAssumption
<1>5. ASSUME NEW i \in 1 .. d
      PROVE  /\ Distance(Position(f, i), b) = d - i + 1
             /\ Position(f, i) \in Cursors
             /\ i < d => Position(Succ(f), i) = Position(f, i + 1)
  <2>1. i \in 1 .. CursorLimit /\ i + 1 \in 1 .. CursorLimit
    BY <1>1, SizeAssumption
  <2>2. /\ Position(f, i) = IF f + i - 1 < CursorLimit THEN f + i - 1 ELSE f + i - 1 - CursorLimit
        /\ Position(f, i + 1) = IF f + i < CursorLimit THEN f + i ELSE f + i - CursorLimit
        /\ Position(f, i) \in Cursors
    BY <1>2, <2>1, PositionLinear, SizeAssumption
  <2>3. Distance(Position(f, i), b) = d - i + 1
    BY <1>1, <1>2, <2>1, <2>2, DistanceLinear, SizeAssumption
  <2>4. /\ Succ(f) = IF f = CursorLimit - 1 THEN 0 ELSE f + 1
        /\ Succ(f) \in Cursors
    BY SuccLinear
  <2>5. Position(Succ(f), i) = IF Succ(f) + i - 1 < CursorLimit THEN Succ(f) + i - 1
                               ELSE Succ(f) + i - 1 - CursorLimit
    BY <2>1, <2>4, PositionLinear
  <2>6. Position(Succ(f), i) = Position(f, i + 1)
    BY <1>2, <2>1, <2>2, <2>4, <2>5, SizeAssumption
  <2> QED BY <2>2, <2>3, <2>6
<1> QED BY <1>3, <1>4, <1>5 DEF d

\* What a popper has read is what its slot holds, what the Owner has written is
\* what it pushes, and no call holds a result before it has one.
ItemsKnown ==
  /\ \A t \in Threads :
       /\ pc[t] = "advance" => item[t] = values[Slot(cursor[t])]
       /\ pc[t] \in {"idle", "is_full", "lock", "exchange", "pop", "reload", "read"}
            => item[t] = Null
  /\ pc[Owner] = "publish" => values[Slot(back_cursor)] = item[Owner]

\* A push that has written its slot has not touched the items inside.
LEMMA WriteOutside ==
  ASSUME IInv, pc[Owner] = "write"
  PROVE  \A i \in 1 .. Distance(front_cursor, back_cursor) :
           Slot(Position(front_cursor, i)) # Slot(back_cursor)
<1>1. /\ Distance(front_cursor, back_cursor) \in Nat
      /\ Distance(cached_front_cursor, back_cursor) \in Nat
      /\ Distance(front_cursor, back_cursor) < Size
  BY DistanceFacts, SizeAssumption DEF IInv, TypeOK, CursorOrder, PushKnows
<1>2. front_cursor \in Cursors /\ back_cursor \in Cursors
  BY DEF IInv, TypeOK
<1> SUFFICES ASSUME NEW i \in 1 .. Distance(front_cursor, back_cursor)
             PROVE  Slot(Position(front_cursor, i)) # Slot(back_cursor)
  OBVIOUS
<1>3. /\ Distance(Position(front_cursor, i), back_cursor)
            = Distance(front_cursor, back_cursor) - i + 1
      /\ Position(front_cursor, i) \in Cursors
  BY <1>1, <1>2, PositionMoves, SizeAssumption
<1> QED BY <1>1, <1>2, <1>3, SlotsDiffer, SizeAssumption

\* The queue starts empty.
LEMMA ItemsInit == Init => ItemsKnown
  BY OwnerAssumption DEF Init, ItemsKnown

\* Every action keeps the items in the slots between the cursors.
LEMMA ItemsNext == IInv /\ IInv' /\ ItemsKnown /\ [Next]_vars => ItemsKnown'
<1> SUFFICES ASSUME IInv, IInv', ItemsKnown, [Next]_vars PROVE ItemsKnown'
  OBVIOUS
<1> USE OwnerAssumption DEF Labels
<1>1. ASSUME NEW v \in Items, PushBegin(v) PROVE ItemsKnown'
  BY <1>1 DEF ItemsKnown, IInv, TypeOK, PushBegin, Goto, cursors
<1>2. CASE PushRefresh
  BY <1>2 DEF ItemsKnown, IInv, TypeOK, PushRefresh, Goto
<1>3. CASE set_value
  <2>1. /\ pc' = [pc EXCEPT ![Owner] = "publish"] /\ pc[Owner] = "write"
        /\ values' = [values EXCEPT ![Slot(back_cursor)] = item[Owner]]
        /\ UNCHANGED <<back_cursor, cursor, item>>
    BY <1>3 DEF set_value, Goto, cursors
  <2>2. Slot(back_cursor) \in Slots
    BY SizeAssumption DEF IInv, TypeOK, Slot, Slots, Cursors
  <2>3. \A t \in Threads : pc[t] = "advance" => Slot(cursor[t]) # Slot(back_cursor)
    <3> SUFFICES ASSUME NEW t \in Threads, pc[t] = "advance"
                 PROVE  Slot(cursor[t]) # Slot(back_cursor)
      OBVIOUS
    <3>1. cursor[t] = front_cursor /\ front_cursor # cached_back_cursor
      BY DEF IInv, PopKnows
    <3>2. front_cursor # back_cursor
      BY <3>1, DistanceFacts DEF IInv, TypeOK, CursorOrder
    <3>3. Distance(front_cursor, back_cursor) \in 1 .. Size
      BY <3>2, DistanceFacts, SizeAssumption DEF IInv, TypeOK, CursorOrder
    <3>4. Position(front_cursor, 1) = front_cursor
      BY <3>3, PositionMoves, SizeAssumption DEF IInv, TypeOK
    <3>5. 1 \in 1 .. Distance(front_cursor, back_cursor)
      BY <3>3, SizeAssumption
    <3> QED BY <2>1, <3>1, <3>4, <3>5, WriteOutside
  <2> QED BY <2>1, <2>2, <2>3 DEF ItemsKnown, IInv, TypeOK
<1>4. CASE PushPublish
  BY <1>4 DEF ItemsKnown, IInv, TypeOK, PushPublish, Goto
<1>5. CASE PushReturn
  BY <1>5 DEF ItemsKnown, IInv, TypeOK, PushReturn, Goto, cursors
<1>6. CASE IsFullFront
  BY <1>6 DEF ItemsKnown, IInv, TypeOK, IsFullFront, Goto, cursors
<1>7. CASE IsFullBack
  BY <1>7 DEF ItemsKnown, IInv, TypeOK, IsFullBack, Goto, cursors
<1>8. ASSUME NEW t \in Threads, PopBegin(t) \/ LockLoad(t) \/ LockExchange(t)
      PROVE  ItemsKnown'
  BY <1>8 DEF ItemsKnown, IInv, TypeOK, PopBegin, LockLoad, LockExchange, Goto, cursors
<1>9. ASSUME NEW t \in Threads, PopLoad(t) \/ PopReload(t) PROVE ItemsKnown'
  BY <1>9 DEF ItemsKnown, IInv, TypeOK, PopLoad, PopReload, Goto, cursors
<1>10. ASSUME NEW t \in Threads, get_value(t) PROVE ItemsKnown'
  BY <1>10 DEF ItemsKnown, IInv, TypeOK, get_value, Goto, cursors
<1>11. ASSUME NEW t \in Threads, PopAdvance(t) PROVE ItemsKnown'
  BY <1>11 DEF ItemsKnown, IInv, TypeOK, PopAdvance, Goto
<1>12. ASSUME NEW t \in Threads, PopUnlock(t) PROVE ItemsKnown'
  BY <1>12 DEF ItemsKnown, IInv, TypeOK, PopUnlock, Goto, cursors
<1>13. CASE UNCHANGED vars
  BY <1>13 DEF ItemsKnown, vars
<1> QED BY <1>1, <1>2, <1>3, <1>4, <1>5, <1>6, <1>7, <1>8, <1>9, <1>10, <1>11, <1>12, <1>13
        DEF Next, queue_push_back, queue_is_full, queue_pop_front

\* The length of the queue, and its items by their positions.
LEMMA ContentsFacts ==
  ASSUME IInv
  PROVE  /\ Contents \in Seq(Items \union {Null})
         /\ Len(Contents) = Distance(front_cursor, back_cursor)
         /\ Distance(front_cursor, back_cursor) \in 0 .. Size
         /\ \A i \in 1 .. Distance(front_cursor, back_cursor) :
              Contents[i] = values[Slot(Position(front_cursor, i))]
<1>1. Distance(front_cursor, back_cursor) \in 0 .. Size
  BY DistanceFacts, SizeAssumption DEF IInv, TypeOK, CursorOrder
<1>2. ASSUME NEW i \in 1 .. Distance(front_cursor, back_cursor)
      PROVE  values[Slot(Position(front_cursor, i))] \in Items \union {Null}
  <2>1. Position(front_cursor, i) \in Cursors
    BY <1>1, PositionMoves, SizeAssumption DEF IInv, TypeOK
  <2>2. Slot(Position(front_cursor, i)) \in Slots
    BY <2>1, SizeAssumption DEF Slot, Slots, Cursors
  <2> QED BY <2>2 DEF IInv, TypeOK
<1>3. Contents = [i \in 1 .. Distance(front_cursor, back_cursor) |->
                    values[Slot(Position(front_cursor, i))]]
  BY DEF Contents, Position
<1> QED BY <1>1, <1>2, <1>3

\* Writing a free slot leaves the items as they are.
LEMMA ContentsWrite ==
  ASSUME IInv, IInv', set_value
  PROVE  Contents' = Contents
<1>1. /\ values' = [values EXCEPT ![Slot(back_cursor)] = item[Owner]]
      /\ UNCHANGED <<front_cursor, back_cursor>> /\ pc[Owner] = "write"
  BY DEF set_value, cursors
<1>2. \A i \in 1 .. Distance(front_cursor, back_cursor) :
        values'[Slot(Position(front_cursor, i))] = values[Slot(Position(front_cursor, i))]
  <2> SUFFICES ASSUME NEW i \in 1 .. Distance(front_cursor, back_cursor)
               PROVE  values'[Slot(Position(front_cursor, i))]
                        = values[Slot(Position(front_cursor, i))]
    OBVIOUS
  <2>1. Position(front_cursor, i) \in Cursors
    BY PositionMoves DEF IInv, TypeOK, CursorOrder
  <2>2. Slot(Position(front_cursor, i)) \in Slots
    BY <2>1, SizeAssumption DEF Slot, Slots, Cursors
  <2> QED BY <1>1, <2>2, WriteOutside DEF IInv, TypeOK
<1> QED BY <1>1, <1>2 DEF Contents, Position

\* Publishing appends the item of the push, which the Owner has written.
LEMMA ContentsPush ==
  ASSUME IInv, IInv', ItemsKnown, PushPublish
  PROVE  /\ Len(Contents) < Size
         /\ Contents' = Append(Contents, item[Owner])
<1> DEFINE d == Distance(front_cursor, back_cursor)
<1>1. /\ back_cursor' = Succ(back_cursor) /\ pc[Owner] = "publish"
      /\ UNCHANGED <<values, front_cursor>>
  BY DEF PushPublish
<1>2. d \in 0 .. Size /\ d < Size
  <2>1. d \in 0 .. Size
    BY ContentsFacts
  <2>2. /\ Distance(cached_front_cursor, back_cursor) \in Nat
        /\ Distance(cached_front_cursor, back_cursor) < Size
        /\ d <= Distance(cached_front_cursor, back_cursor)
    BY <1>1, DistanceFacts DEF IInv, TypeOK, CursorOrder, PushKnows
  <2> HIDE DEF d
  <2> QED BY <2>1, <2>2, SizeAssumption
<1>3. Distance(front_cursor, back_cursor)' = d + 1
  BY <1>1, <1>2, DistanceMoves DEF IInv, TypeOK
<1>4. Position(front_cursor, d + 1) = back_cursor
  BY <1>2, PositionMoves, SizeAssumption DEF IInv, TypeOK
<1>5. values[Slot(back_cursor)] = item[Owner]
  BY <1>1 DEF ItemsKnown
<1>6. /\ Contents \in Seq(Items \union {Null}) /\ Len(Contents) = d
      /\ \A i \in 1 .. d : Contents[i] = values[Slot(Position(front_cursor, i))]
  BY ContentsFacts
<1>7. Contents' = [i \in 1 .. d + 1 |-> values[Slot(Position(front_cursor, i))]]
  BY <1>1, <1>3 DEF Contents, Position
<1>8. item[Owner] \in Items \union {Null}
  BY OwnerAssumption DEF IInv, TypeOK
<1> HIDE DEF d
<1>9. Append(Contents, item[Owner]) = [i \in 1 .. d + 1 |-> IF i = d + 1 THEN item[Owner] ELSE Contents[i]]
  BY <1>2, <1>6, <1>8, SizeAssumption
<1> QED BY <1>2, <1>4, <1>5, <1>6, <1>7, <1>9, SizeAssumption

\* Advancing the front takes the oldest item away, which the popper has read.
LEMMA ContentsPop ==
  ASSUME IInv, IInv', ItemsKnown, NEW t \in Threads, PopAdvance(t)
  PROVE  /\ Contents # <<>>
         /\ Contents' = Tail(Contents)
         /\ item[t] = Head(Contents)
<1> DEFINE d == Distance(front_cursor, back_cursor)
<1>1. /\ front_cursor' = Succ(cursor[t]) /\ pc[t] = "advance"
      /\ UNCHANGED <<values, back_cursor>>
  BY DEF PopAdvance
<1>2. cursor[t] = front_cursor /\ front_cursor # cached_back_cursor
  BY <1>1 DEF IInv, PopKnows
<1>3. front_cursor # back_cursor
  BY <1>2, DistanceFacts DEF IInv, TypeOK, CursorOrder
<1>4. d \in 1 .. Size
  <2>1. d \in 0 .. Size
    BY ContentsFacts
  <2>2. d # 0
    BY <1>3, DistanceFacts DEF IInv, TypeOK
  <2> HIDE DEF d
  <2> QED BY <2>1, <2>2, SizeAssumption
<1>5. Distance(front_cursor, back_cursor)' = d - 1
  BY <1>1, <1>2, <1>3, DistanceMoves DEF IInv, TypeOK
<1>6. /\ Contents \in Seq(Items \union {Null}) /\ Len(Contents) = d
      /\ \A i \in 1 .. d : Contents[i] = values[Slot(Position(front_cursor, i))]
  BY ContentsFacts
<1>7. /\ Position(front_cursor, 1) = front_cursor
      /\ \A i \in 1 .. d - 1 : Position(Succ(front_cursor), i) = Position(front_cursor, i + 1)
  BY <1>4, PositionMoves, SizeAssumption DEF IInv, TypeOK
<1>8. Contents' = [i \in 1 .. d - 1 |-> values[Slot(Position(Succ(front_cursor), i))]]
  BY <1>1, <1>2, <1>5 DEF Contents, Position
<1>9. item[t] = values[Slot(front_cursor)]
  BY <1>1, <1>2 DEF ItemsKnown
<1> HIDE DEF d
<1>10. /\ Head(Contents) = Contents[1] /\ Contents # <<>>
       /\ Tail(Contents) = [i \in 1 .. d - 1 |-> Contents[i + 1]]
  <2>1. Contents # <<>>
    BY <1>4, <1>6, SizeAssumption
  <2>2. Head(Contents) = Contents[1]
    BY <1>6, <2>1
  <2>3. Tail(Contents) = [i \in 1 .. d - 1 |-> Contents[i + 1]]
    <3>1. /\ Tail(Contents) \in Seq(Items \union {Null}) /\ Len(Tail(Contents)) = d - 1
          /\ \A i \in 1 .. d - 1 : Tail(Contents)[i] = Contents[i + 1]
      BY <1>6, <2>1, HeadTailProperties
    <3>2. Tail(Contents) \in [1 .. d - 1 -> Items \union {Null}]
      BY <1>4, <3>1, LenProperties
    <3> QED BY <1>4, <3>1, <3>2
  <2> QED BY <2>1, <2>2, <2>3
<1> QED BY <1>4, <1>6, <1>7, <1>8, <1>9, <1>10, SizeAssumption

\* The state of BoundedFifo that a state of the queue stands for.
Phases == [t \in Threads |-> AbstractPhase(pc[t])]
Results == [t \in Threads |-> IF pc[t] = "advance" THEN Null ELSE item[t]]

\* The queue starts as the abstract queue does.
LEMMA FifoInit == Init => Fifo!Init
<1> SUFFICES ASSUME Init PROVE Fifo!Init
  OBVIOUS
<1>1. Distance(front_cursor, back_cursor) = 0
  BY DistanceMoves, SizeAssumption DEF Init, Cursors
<1>2. Contents = <<>>
  BY <1>1 DEF Contents
<1>3. Phases = [t \in Threads |-> "idle"]
  BY DEF Init, AbstractPhase, Phases
<1>4. Results = [t \in Threads |-> Null]
  BY DEF Init, Results
<1> QED BY <1>2, <1>3, <1>4 DEF Fifo!Init, Phases, Results

\* The items are the same when neither cursors nor slots change.
LEMMA ContentsStay ==
  ASSUME UNCHANGED <<values, front_cursor, back_cursor>>
  PROVE  Contents' = Contents
  BY DEF Contents

\* A step of one thread, in terms of phases and results.
LEMMA PhaseStep ==
  ASSUME TypeOK, NEW t \in Threads, NEW label, pc' = [pc EXCEPT ![t] = label],
         NEW v, item' = [item EXCEPT ![t] = v]
  PROVE  /\ Phases' = [Phases EXCEPT ![t] = AbstractPhase(label)]
         /\ Phases[t] = AbstractPhase(pc[t])
         /\ Results' = [Results EXCEPT ![t] = IF label = "advance" THEN Null ELSE v]
<1>1. pc' \in [Threads -> Labels \union {label}] /\ pc'[t] = label /\ item'[t] = v
  BY DEF TypeOK
<1>2. \A u \in Threads \ {t} : pc'[u] = pc[u] /\ item'[u] = item[u]
  BY DEF TypeOK
<1> QED BY <1>1, <1>2 DEF Phases, Results

\* A step of one thread that does not change its item.
LEMMA PhaseOnly ==
  ASSUME TypeOK, NEW t \in Threads, NEW label, pc' = [pc EXCEPT ![t] = label],
         item' = item, (pc[t] = "advance" \/ label = "advance") => item[t] = Null
  PROVE  /\ Phases' = [Phases EXCEPT ![t] = AbstractPhase(label)]
         /\ Phases[t] = AbstractPhase(pc[t])
         /\ Results' = Results
         /\ AbstractPhase(label) = AbstractPhase(pc[t]) => Phases' = Phases
<1>1. item' = [item EXCEPT ![t] = item[t]]
  BY DEF TypeOK
<1>2. /\ Phases' = [Phases EXCEPT ![t] = AbstractPhase(label)]
      /\ Phases[t] = AbstractPhase(pc[t])
      /\ Results' = [Results EXCEPT ![t] = IF label = "advance" THEN Null ELSE item[t]]
  BY <1>1, PhaseStep
<1>3. Results[t] = IF pc[t] = "advance" THEN Null ELSE item[t]
  BY DEF Results
<1>4. Results = [u \in Threads |-> Results[u]] /\ Phases = [u \in Threads |-> Phases[u]]
  BY DEF Results, Phases
<1> QED BY <1>2, <1>3, <1>4

\* A step that changes neither items nor phases nor results is a stutter.
LEMMA FifoStutter ==
  ASSUME Contents' = Contents, Phases' = Phases, Results' = Results
  PROVE  UNCHANGED Fifo!vars
  BY DEF Fifo!vars, Phases, Results

\* A thread whose call has taken effect returns.
LEMMA FifoReturn ==
  ASSUME TypeOK, NEW t \in Threads,
         pc' = [pc EXCEPT ![t] = "idle"], item' = [item EXCEPT ![t] = Null],
         AbstractPhase("idle") = "idle",
         AbstractPhase(pc[t]) \in {"pushed", "full", "popped"},
         UNCHANGED <<values, front_cursor, back_cursor>>
  PROVE  Fifo!Return(t)
<1>1. /\ Phases' = [Phases EXCEPT ![t] = AbstractPhase("idle")]
      /\ Phases[t] = AbstractPhase(pc[t])
      /\ Results' = [Results EXCEPT ![t] = IF "idle" = "advance" THEN Null ELSE Null]
  BY PhaseStep
<1>2. Contents' = Contents
  BY ContentsStay
<1>3. Phases' = [Phases EXCEPT ![t] = "idle"] /\ Results' = [Results EXCEPT ![t] = Null]
  BY <1>1
<1> QED BY <1>1, <1>2, <1>3 DEF Fifo!Return, Phases, Results

\* A step of a push is a step of the buffer: the store of back_cursor appends
\* the item, the second look at the front cursor finds the buffer full.
LEMMA FifoPush ==
  ASSUME IInv, IInv', ItemsKnown, queue_push_back
  PROVE  Fifo!Next \/ UNCHANGED Fifo!vars
<1> USE OwnerAssumption
<1>0. TypeOK
  BY DEF IInv
<1>1. ASSUME NEW v \in Items, PushBegin(v) PROVE Fifo!InvokePush(v)
  <2>1. PICK label : label = IF is_full(cached_front_cursor, back_cursor) THEN "refresh" ELSE "write"
    OBVIOUS
  <2>2. /\ pc[Owner] = "idle" /\ pc' = [pc EXCEPT ![Owner] = label]
        /\ item' = [item EXCEPT ![Owner] = v]
        /\ UNCHANGED <<values, front_cursor, back_cursor>>
    BY <1>1, <2>1 DEF PushBegin, Goto, cursors
  <2>3. AbstractPhase(label) = "push" /\ AbstractPhase(pc[Owner]) = "idle" /\ label # "advance"
    BY <2>1, <2>2 DEF AbstractPhase
  <2>4. /\ Phases' = [Phases EXCEPT ![Owner] = AbstractPhase(label)]
        /\ Phases[Owner] = AbstractPhase(pc[Owner])
        /\ Results' = [Results EXCEPT ![Owner] = IF label = "advance" THEN Null ELSE v]
    BY <1>0, <2>2, PhaseStep
  <2>5. /\ Phases' = [Phases EXCEPT ![Owner] = "push"] /\ Phases[Owner] = "idle"
        /\ Results' = [Results EXCEPT ![Owner] = v]
    BY <2>3, <2>4
  <2>6. Contents' = Contents
    BY <2>2, ContentsStay
  <2> QED BY <2>5, <2>6 DEF Fifo!InvokePush, Fifo!Goto, Phases, Results
<1>2. CASE PushRefresh
  <2>1. PICK label : label = IF is_full(front_cursor, back_cursor) THEN "full" ELSE "write"
    OBVIOUS
  <2>2. /\ pc[Owner] = "refresh" /\ pc' = [pc EXCEPT ![Owner] = label] /\ item' = item
        /\ UNCHANGED <<values, front_cursor, back_cursor>>
    BY <1>2, <2>1 DEF PushRefresh, Goto
  <2>3. /\ Phases' = [Phases EXCEPT ![Owner] = AbstractPhase(label)]
        /\ Phases[Owner] = AbstractPhase(pc[Owner])
        /\ Results' = Results
        /\ AbstractPhase(label) = AbstractPhase(pc[Owner]) => Phases' = Phases
    BY <1>0, <2>1, <2>2, PhaseOnly
  <2>4. Contents' = Contents
    BY <2>2, ContentsStay
  <2>5. CASE label = "write"
    BY <2>2, <2>3, <2>4, <2>5, FifoStutter DEF AbstractPhase
  <2>6. CASE label = "full"
    <3>1. Len(Contents) = Size
      BY <2>1, <2>6, ContentsFacts DEF is_full
    <3>2. Phases' = [Phases EXCEPT ![Owner] = "full"] /\ Phases[Owner] = "push"
      BY <2>2, <2>3, <2>6 DEF AbstractPhase
    <3>3. Fifo!Reject
      BY <2>3, <2>4, <3>1, <3>2 DEF Fifo!Reject, Fifo!Goto, Phases, Results
    <3> QED BY <3>3 DEF Fifo!Next
  <2> QED BY <2>1, <2>5, <2>6
<1>3. CASE set_value
  <2>1. pc[Owner] = "write" /\ pc' = [pc EXCEPT ![Owner] = "publish"] /\ item' = item
    BY <1>3 DEF set_value, Goto
  <2>2. Results' = Results /\ (AbstractPhase("publish") = AbstractPhase(pc[Owner]) => Phases' = Phases)
    BY <1>0, <2>1, PhaseOnly
  <2> QED BY <1>3, <2>1, <2>2, ContentsWrite, FifoStutter DEF AbstractPhase
<1>4. CASE PushPublish
  <2>1. pc[Owner] = "publish" /\ pc' = [pc EXCEPT ![Owner] = "pushed"] /\ item' = item
    BY <1>4 DEF PushPublish, Goto
  <2>2. /\ Results' = Results
        /\ Phases' = [Phases EXCEPT ![Owner] = AbstractPhase("pushed")]
        /\ Phases[Owner] = AbstractPhase(pc[Owner])
    BY <1>0, <2>1, PhaseOnly
  <2>3. Phases' = [Phases EXCEPT ![Owner] = "pushed"] /\ Phases[Owner] = "push"
    BY <2>1, <2>2 DEF AbstractPhase
  <2>4. Results[Owner] = item[Owner]
    BY <2>1 DEF Results
  <2>5. Len(Contents) < Size /\ Contents' = Append(Contents, Results[Owner])
    BY <1>4, <2>4, ContentsPush
  <2>6. Fifo!Push
    BY <2>2, <2>3, <2>5 DEF Fifo!Push, Fifo!Goto, Phases, Results
  <2> QED BY <2>6 DEF Fifo!Next
<1>5. CASE PushReturn
  <2>1. /\ pc[Owner] \in {"pushed", "full"} /\ pc' = [pc EXCEPT ![Owner] = "idle"]
        /\ item' = [item EXCEPT ![Owner] = Null]
        /\ UNCHANGED <<values, front_cursor, back_cursor>>
    BY <1>5 DEF PushReturn, Goto, cursors
  <2>2. AbstractPhase("idle") = "idle" /\ AbstractPhase(pc[Owner]) \in {"pushed", "full"}
    BY <2>1 DEF AbstractPhase
  <2>3. Fifo!Return(Owner)
    BY <1>0, <2>1, <2>2, FifoReturn
  <2> QED BY <2>3 DEF Fifo!Next
<1> QED BY <1>1, <1>2, <1>3, <1>4, <1>5 DEF queue_push_back, Fifo!Next

\* Asking whether the queue is full changes nothing that a user sees.
LEMMA FifoIsFull ==
  ASSUME IInv, IInv', ItemsKnown, queue_is_full
  PROVE  Fifo!Next \/ UNCHANGED Fifo!vars
<1> USE OwnerAssumption
<1>1. PICK label : label \in {"idle", "is_full"} /\ pc' = [pc EXCEPT ![Owner] = label]
  BY DEF queue_is_full, IsFullFront, IsFullBack, Goto
<1>2. /\ item' = item /\ pc[Owner] \in {"idle", "is_full"}
      /\ UNCHANGED <<values, front_cursor, back_cursor>>
  BY DEF queue_is_full, IsFullFront, IsFullBack, cursors
<1>3. AbstractPhase(label) = AbstractPhase(pc[Owner])
  BY <1>1, <1>2 DEF AbstractPhase
<1>4. TypeOK
  BY DEF IInv
<1>5. Results' = Results /\ (AbstractPhase(label) = AbstractPhase(pc[Owner]) => Phases' = Phases)
  BY <1>1, <1>2, <1>4, PhaseOnly
<1> QED BY <1>2, <1>3, <1>5, ContentsStay, FifoStutter

\* A step of a pop is a step of the buffer: the advance of the front takes the
\* item, the second look at the back cursor finds that there is none.
LEMMA FifoPop ==
  ASSUME IInv, IInv', ItemsKnown, NEW t \in Threads, queue_pop_front(t)
  PROVE  Fifo!Next \/ UNCHANGED Fifo!vars
<1>0. TypeOK
  BY DEF IInv
<1>1. CASE PopBegin(t)
  <2>1. /\ pc[t] = "idle" /\ pc' = [pc EXCEPT ![t] = "lock"] /\ item' = item
        /\ UNCHANGED <<values, front_cursor, back_cursor>>
    BY <1>1 DEF PopBegin, Goto, cursors
  <2>2. /\ Results' = Results /\ Phases' = [Phases EXCEPT ![t] = AbstractPhase("lock")]
        /\ Phases[t] = AbstractPhase(pc[t])
    BY <1>0, <2>1, PhaseOnly
  <2>3. Phases' = [Phases EXCEPT ![t] = "pop"] /\ Phases[t] = "idle"
    BY <2>1, <2>2 DEF AbstractPhase
  <2>4. Contents' = Contents
    BY <2>1, ContentsStay
  <2>5. Fifo!InvokePop(t)
    BY <2>2, <2>3, <2>4 DEF Fifo!InvokePop, Fifo!Goto, Phases, Results
  <2> QED BY <2>5 DEF Fifo!Next
<1>2. CASE LockLoad(t) \/ LockExchange(t) \/ PopLoad(t)
  <2>1. PICK label : /\ label \in {"lock", "exchange", "pop", "reload", "read"}
                     /\ pc' = [pc EXCEPT ![t] = label]
    BY <1>2 DEF LockLoad, LockExchange, PopLoad, Goto
  <2>2. /\ item' = item /\ pc[t] \in {"lock", "exchange", "pop"}
        /\ UNCHANGED <<values, front_cursor, back_cursor>>
    BY <1>2 DEF LockLoad, LockExchange, PopLoad, cursors
  <2>3. AbstractPhase(label) = AbstractPhase(pc[t])
    BY <2>1, <2>2 DEF AbstractPhase
  <2>4. Results' = Results /\ (AbstractPhase(label) = AbstractPhase(pc[t]) => Phases' = Phases)
    BY <1>0, <2>1, <2>2, PhaseOnly
  <2> QED BY <2>2, <2>3, <2>4, ContentsStay, FifoStutter
<1>3. CASE PopReload(t)
  <2>1. PICK label : label = IF is_empty(cursor[t], back_cursor) THEN "unlock" ELSE "read"
    OBVIOUS
  <2>2. /\ pc[t] = "reload" /\ pc' = [pc EXCEPT ![t] = label] /\ item' = item
        /\ UNCHANGED <<values, front_cursor, back_cursor>>
    BY <1>3, <2>1 DEF PopReload, Goto
  <2>3. /\ Phases' = [Phases EXCEPT ![t] = AbstractPhase(label)]
        /\ Phases[t] = AbstractPhase(pc[t])
        /\ Results' = Results
        /\ AbstractPhase(label) = AbstractPhase(pc[t]) => Phases' = Phases
    BY <1>0, <2>1, <2>2, PhaseOnly
  <2>4. Contents' = Contents
    BY <2>2, ContentsStay
  <2>5. CASE label = "read"
    BY <2>2, <2>3, <2>4, <2>5, FifoStutter DEF AbstractPhase
  <2>6. CASE label = "unlock"
    <3>1. front_cursor = back_cursor
      BY <2>1, <2>2, <2>6 DEF is_empty, IInv, PopKnows
    <3>2. Distance(front_cursor, back_cursor) = 0
      BY <3>1, DistanceFacts DEF IInv, TypeOK
    <3>3. Contents = <<>>
      BY <3>2 DEF Contents
    <3>4. Phases' = [Phases EXCEPT ![t] = "popped"] /\ Phases[t] = "pop"
      BY <2>2, <2>3, <2>6 DEF AbstractPhase
    <3>5. Fifo!PopNothing(t)
      BY <2>3, <2>4, <3>3, <3>4 DEF Fifo!PopNothing, Fifo!Goto, Phases, Results
    <3> QED BY <3>5 DEF Fifo!Next
  <2> QED BY <2>1, <2>5, <2>6
<1>4. CASE get_value(t)
  <2>1. PICK v : item' = [item EXCEPT ![t] = v]
    BY <1>4 DEF get_value
  <2>2. /\ pc[t] = "read" /\ pc' = [pc EXCEPT ![t] = "advance"]
        /\ UNCHANGED <<values, front_cursor, back_cursor>>
    BY <1>4 DEF get_value, Goto, cursors
  <2>3. /\ Phases' = [Phases EXCEPT ![t] = AbstractPhase("advance")]
        /\ Phases[t] = AbstractPhase(pc[t])
        /\ Results' = [Results EXCEPT ![t] = Null]
    BY <1>0, <2>1, <2>2, PhaseStep
  <2>4. Results[t] = Null /\ Phases[t] = AbstractPhase("advance")
    BY <2>2, <2>3 DEF Results, ItemsKnown, AbstractPhase
  <2>5. Results = [u \in Threads |-> Results[u]] /\ Phases = [u \in Threads |-> Phases[u]]
    BY DEF Results, Phases
  <2>6. Results' = Results /\ Phases' = Phases
    BY <2>3, <2>4, <2>5
  <2> QED BY <2>2, <2>6, ContentsStay, FifoStutter
<1>5. CASE PopAdvance(t)
  <2>1. pc[t] = "advance" /\ pc' = [pc EXCEPT ![t] = "unlock"] /\ item' = [item EXCEPT ![t] = item[t]]
    BY <1>0, <1>5 DEF PopAdvance, Goto, TypeOK
  <2>2. /\ Phases' = [Phases EXCEPT ![t] = AbstractPhase("unlock")]
        /\ Phases[t] = AbstractPhase(pc[t])
        /\ Results' = [Results EXCEPT ![t] = IF "unlock" = "advance" THEN Null ELSE item[t]]
    BY <1>0, <2>1, PhaseStep
  <2>3. /\ Phases' = [Phases EXCEPT ![t] = "popped"] /\ Phases[t] = "pop"
        /\ Results' = [Results EXCEPT ![t] = item[t]]
    BY <2>1, <2>2 DEF AbstractPhase
  <2>4. Contents # <<>> /\ Contents' = Tail(Contents) /\ item[t] = Head(Contents)
    BY <1>5, ContentsPop
  <2>5. Fifo!Pop(t)
    BY <2>2, <2>3, <2>4 DEF Fifo!Pop, Fifo!Goto, Phases, Results
  <2> QED BY <2>5 DEF Fifo!Next
<1>6. CASE PopUnlock(t)
  <2>1. /\ pc[t] = "unlock" /\ pc' = [pc EXCEPT ![t] = "idle"]
        /\ item' = [item EXCEPT ![t] = Null]
        /\ UNCHANGED <<values, front_cursor, back_cursor>>
    BY <1>6 DEF PopUnlock, Goto, cursors
  <2>2. AbstractPhase("idle") = "idle" /\ AbstractPhase(pc[t]) = "popped"
    BY <2>1 DEF AbstractPhase
  <2>3. Fifo!Return(t)
    BY <1>0, <2>1, <2>2, FifoReturn
  <2> QED BY <2>3 DEF Fifo!Next
<1> QED BY <1>1, <1>2, <1>3, <1>4, <1>5, <1>6 DEF queue_pop_front

\* Every step of the queue is a step of the buffer, or invisible to its users.
LEMMA FifoNext ==
  IInv /\ IInv' /\ ItemsKnown /\ [Next]_vars => [Fifo!Next]_(Fifo!vars)
<1> SUFFICES ASSUME IInv, IInv', ItemsKnown, [Next]_vars
             PROVE  Fifo!Next \/ UNCHANGED Fifo!vars
  OBVIOUS
<1>1. CASE UNCHANGED vars
  <2>1. UNCHANGED <<pc, item, values, front_cursor, back_cursor>>
    BY <1>1 DEF vars
  <2>2. Phases' = Phases /\ Results' = Results
    BY <2>1 DEF Phases, Results
  <2> QED BY <2>1, <2>2, ContentsStay, FifoStutter
<1> QED BY <1>1, FifoPush, FifoIsFull, FifoPop DEF Next

\* For every number of threads, every capacity and every width of the cursors
\* the circular buffer of queue.c under the front lock of the workers is a
\* bounded first-in first-out buffer: each push and each pop takes effect at one
\* instant between its call and its return, no item is lost, duplicated or
\* reordered, a pop finds nothing and a push fails only when the buffer is
\* empty or full at that instant.
THEOREM RefinesFifo == Spec => ImplementsFifo
<1>1. Spec => []ItemsKnown
  BY Invariance, ItemsInit, ItemsNext, PTL DEF Spec
<1> QED BY <1>1, Invariance, FifoInit, FifoNext, PTL DEF Spec, ImplementsFifo, Fifo!Spec
=============================================================================
