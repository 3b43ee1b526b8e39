----------------------------- MODULE TaskQueue -----------------------------
(***************************************************************************)
(* The task queue of one worker: the circular buffer of                    *)
(* packages/std/queue/queue.c, whose front is shared by every thread under *)
(* the worker's task_queue_front_lock (core/worker_next_task.c and         *)
(* core/worker_offer_task.c).  The Owner pushes at the back and never      *)
(* takes the lock for it; the Owner and the thieves pop at the front.      *)
(*                                                                         *)
(* A step is one access to shared memory: loading or storing a cursor,     *)
(* reading or writing a slot, and the load and the exchange of the         *)
(* test-and-test-and-set spinlock.  The acquire/release pairs of the code  *)
(* order the slot accesses, so interleaving the steps covers what the      *)
(* build can produce.  Cursors are size_t and wrap: they count modulo      *)
(* CursorLimit, which stands for 2^64.                                     *)
(***************************************************************************)
EXTENDS Integers, Sequences

CONSTANTS
  Threads,      \* the threads that pop
  Owner,        \* the worker that owns the queue and pushes
  Items,        \* tasks
  Null,         \* the NULL that a pop of an empty queue returns
  Size,         \* capacity, WORKER_TASK_QUEUE_SIZE in the program
  CursorLimit   \* the number of values of a size_t cursor

\* queue_new asserts size > 1 and that it is a power of two, so that it
\* divides the number of cursor values.
ASSUME OwnerAssumption == Owner \in Threads
ASSUME NullAssumption == Null \notin Items
ASSUME SizeAssumption ==
  /\ Size \in Nat /\ Size > 1
  /\ CursorLimit \in Nat /\ CursorLimit > Size
  /\ CursorLimit % Size = 0

VARIABLES
  values,               \* the slots
  front_cursor,         \* next slot to pop
  back_cursor,          \* next slot to push
  cached_front_cursor,  \* the Owner's last known front_cursor
  cached_back_cursor,   \* the poppers' last known back_cursor
  locked,               \* task_queue_front_lock
  pc,                   \* per thread: the next access of its pending call
  cursor,               \* per thread: the local copy of front_cursor
  item,                 \* per thread: the value pushed or popped
  vacant                \* history: queue_is_full returned false to the Owner,
                        \* who has not pushed since

vars == <<values, front_cursor, back_cursor, cached_front_cursor,
          cached_back_cursor, locked, pc, cursor, item, vacant>>

cursors == <<front_cursor, back_cursor, cached_front_cursor, cached_back_cursor>>

Cursors == 0 .. CursorLimit - 1
Slots == 0 .. Size - 1

Labels == {"idle", "refresh", "write", "publish", "pushed", "full",
           "lock", "exchange", "pop", "reload", "read", "advance", "unlock",
           "is_full"}

----------------------------------------------------------------------------
(* Cursor arithmetic of queue.c: unsigned, hence modulo CursorLimit.       *)

\* Mutant: the cursor never wraps.
SuccUnbounded(c) == c + 1

Succ(c) == (c + 1) % CursorLimit

Distance(front, back) == (back - front) % CursorLimit

\* cursor & mask, where mask is the power of two Size minus one.
Slot(c) == c % Size

\* Mutant: one item too many fits.
is_full_late(front, back) == Distance(front, back) = Size + 1

is_full(front, back) == Distance(front, back) = Size

is_empty(front, back) == back = front

Goto(t, label) == pc' = [pc EXCEPT ![t] = label]

----------------------------------------------------------------------------
Init ==
  /\ values = [s \in Slots |-> Null]
  /\ front_cursor = 0 /\ back_cursor = 0
  /\ cached_front_cursor = 0 /\ cached_back_cursor = 0
  /\ locked = FALSE
  /\ pc = [t \in Threads |-> "idle"]
  /\ cursor = [t \in Threads |-> 0]
  /\ item = [t \in Threads |-> Null]
  /\ vacant = FALSE

(* queue_push_back, called by the Owner. *)

PushBegin(v) ==
  /\ pc[Owner] = "idle"
  /\ item' = [item EXCEPT ![Owner] = v]
  /\ Goto(Owner, IF is_full(cached_front_cursor, back_cursor)
                 THEN "refresh" ELSE "write")
  /\ UNCHANGED <<values, cursors, locked, cursor, vacant>>

\* Mutant: the refreshed cursor is not tested again.
PushRefreshUntested ==
  /\ pc[Owner] = "refresh"
  /\ cached_front_cursor' = front_cursor
  /\ Goto(Owner, "write")
  /\ UNCHANGED <<values, front_cursor, back_cursor, cached_back_cursor,
                 locked, cursor, item, vacant>>

\* Mutant: the cached cursor is trusted.
PushRefreshStale ==
  /\ pc[Owner] = "refresh"
  /\ Goto(Owner, "full")
  /\ UNCHANGED <<values, cursors, locked, cursor, item, vacant>>

PushRefresh ==
  /\ pc[Owner] = "refresh"
  /\ cached_front_cursor' = front_cursor
  /\ Goto(Owner, IF is_full(front_cursor, back_cursor) THEN "full" ELSE "write")
  /\ UNCHANGED <<values, front_cursor, back_cursor, cached_back_cursor,
                 locked, cursor, item, vacant>>

set_value ==
  /\ pc[Owner] = "write"
  /\ values' = [values EXCEPT ![Slot(back_cursor)] = item[Owner]]
  /\ Goto(Owner, "publish")
  /\ UNCHANGED <<cursors, locked, cursor, item, vacant>>

PushPublish ==
  /\ pc[Owner] = "publish"
  /\ back_cursor' = Succ(back_cursor)
  /\ Goto(Owner, "pushed")
  /\ UNCHANGED <<values, front_cursor, cached_front_cursor, cached_back_cursor,
                 locked, cursor, item, vacant>>

PushReturn ==
  /\ pc[Owner] \in {"pushed", "full"}
  /\ Goto(Owner, "idle")
  /\ item' = [item EXCEPT ![Owner] = Null]
  /\ vacant' = FALSE
  /\ UNCHANGED <<values, cursors, locked, cursor>>

(* queue_is_full, called by the Owner before a push: loads front_cursor,   *)
(* then back_cursor, which only the Owner moves.                           *)

IsFullFront ==
  /\ pc[Owner] = "idle"
  /\ cursor' = [cursor EXCEPT ![Owner] = front_cursor]
  /\ Goto(Owner, "is_full")
  /\ UNCHANGED <<values, cursors, locked, item, vacant>>

IsFullBack ==
  /\ pc[Owner] = "is_full"
  /\ vacant' = ~is_full(cursor[Owner], back_cursor)
  /\ cursor' = [cursor EXCEPT ![Owner] = 0]
  /\ Goto(Owner, "idle")
  /\ UNCHANGED <<values, cursors, locked, item>>

(* worker_next_task and worker_offer_task: fast_spinlock_lock,             *)
(* queue_pop_front, fast_spinlock_unlock.                                  *)

PopBegin(t) ==
  /\ pc[t] = "idle"
  /\ Goto(t, "lock")
  /\ UNCHANGED <<values, cursors, locked, cursor, item, vacant>>

\* The relaxed load that guards the exchange; while the lock is taken the
\* thread sleeps and loads again.
LockLoad(t) ==
  /\ pc[t] = "lock"
  /\ ~locked
  /\ Goto(t, "exchange")
  /\ UNCHANGED <<values, cursors, locked, cursor, item, vacant>>

\* Mutant: the value the exchange returns is ignored.
LockExchangeBlind(t) ==
  /\ pc[t] = "exchange"
  /\ locked' = TRUE
  /\ Goto(t, "pop")
  /\ UNCHANGED <<values, cursors, cursor, item, vacant>>

LockExchange(t) ==
  /\ pc[t] = "exchange"
  /\ locked' = TRUE
  /\ Goto(t, IF locked THEN "lock" ELSE "pop")
  /\ UNCHANGED <<values, cursors, cursor, item, vacant>>

PopLoad(t) ==
  /\ pc[t] = "pop"
  /\ cursor' = [cursor EXCEPT ![t] = front_cursor]
  /\ Goto(t, IF is_empty(front_cursor, cached_back_cursor)
             THEN "reload" ELSE "read")
  /\ UNCHANGED <<values, cursors, locked, item, vacant>>

PopReload(t) ==
  /\ pc[t] = "reload"
  /\ cached_back_cursor' = back_cursor
  /\ Goto(t, IF is_empty(cursor[t], back_cursor) THEN "unlock" ELSE "read")
  /\ UNCHANGED <<values, front_cursor, back_cursor, cached_front_cursor,
                 locked, cursor, item, vacant>>

get_value(t) ==
  /\ pc[t] = "read"
  /\ item' = [item EXCEPT ![t] = values[Slot(cursor[t])]]
  /\ Goto(t, "advance")
  /\ UNCHANGED <<values, cursors, locked, cursor, vacant>>

PopAdvance(t) ==
  /\ pc[t] = "advance"
  /\ front_cursor' = Succ(cursor[t])
  /\ Goto(t, "unlock")
  /\ UNCHANGED <<values, back_cursor, cached_front_cursor, cached_back_cursor,
                 locked, cursor, item, vacant>>

\* The call returns item[t]; its locals are gone.
PopUnlock(t) ==
  /\ pc[t] = "unlock"
  /\ locked' = FALSE
  /\ cursor' = [cursor EXCEPT ![t] = 0]
  /\ item' = [item EXCEPT ![t] = Null]
  /\ Goto(t, "idle")
  /\ UNCHANGED <<values, cursors, vacant>>

queue_push_back ==
  \/ \E v \in Items : PushBegin(v)
  \/ PushRefresh \/ set_value \/ PushPublish \/ PushReturn

queue_is_full == IsFullFront \/ IsFullBack

queue_pop_front(t) ==
  \/ PopBegin(t) \/ LockLoad(t) \/ LockExchange(t)
  \/ PopLoad(t) \/ PopReload(t) \/ get_value(t) \/ PopAdvance(t) \/ PopUnlock(t)

Next ==
  \/ queue_push_back
  \/ queue_is_full
  \/ \E t \in Threads : queue_pop_front(t)

Spec == Init /\ [][Next]_vars

----------------------------------------------------------------------------
(* Properties. *)

\* Every variable keeps its type.
TypeOK ==
  /\ values \in [Slots -> Items \union {Null}]
  /\ front_cursor \in Cursors /\ back_cursor \in Cursors
  /\ cached_front_cursor \in Cursors /\ cached_back_cursor \in Cursors
  /\ locked \in BOOLEAN
  /\ pc \in [Threads -> Labels]
  /\ cursor \in [Threads -> Cursors]
  /\ item \in [Threads -> Items \union {Null}]
  /\ vacant \in BOOLEAN

\* The constraints drawn in the head comment of queue.c: front_cursor does
\* not go beyond back_cursor and back_cursor does not lap front_cursor, also
\* across the wrap of the cursors, and neither cached cursor claims items or
\* room that are not there.
CursorOrder ==
  /\ Distance(front_cursor, back_cursor) <= Size
  /\ Distance(front_cursor, cached_back_cursor)
       <= Distance(front_cursor, back_cursor)
  /\ Distance(cached_front_cursor, back_cursor) <= Size
  /\ Distance(front_cursor, back_cursor)
       <= Distance(cached_front_cursor, back_cursor)

\* The slot the Owner is about to overwrite, or has overwritten and not yet
\* published, is never the slot a popping thread is about to read: set_value
\* and get_value never race although no lock covers both.
NoSlotRace ==
  \A t \in Threads :
    pc[Owner] \in {"write", "publish"} /\ pc[t] \in {"read", "advance"}
      => Slot(back_cursor) # Slot(cursor[t])

\* A push that follows a queue_is_full that answered no always finds room,
\* whatever the poppers did in between: the assertion of the producers in
\* test_queue_multi_thread.c.
PushAfterNotFull == vacant => pc[Owner] # "full"

\* What is inside, oldest first: the slots from front to back.
Contents ==
  [i \in 1 .. Distance(front_cursor, back_cursor) |->
     values[Slot((front_cursor + i - 1) % CursorLimit)]]

AbstractPhase(label) ==
  CASE label \in {"refresh", "write", "publish"} -> "push"
    [] label \in {"lock", "exchange", "pop", "reload", "read", "advance"} -> "pop"
    [] label = "unlock" -> "popped"
    [] label = "is_full" -> "idle"
    [] OTHER -> label

Fifo == INSTANCE BoundedFifo WITH
  fifo  <- Contents,
  phase <- [t \in Threads |-> AbstractPhase(pc[t])],
  item  <- [t \in Threads |-> IF pc[t] = "advance" THEN Null ELSE item[t]]

\* The queue implements a bounded first-in first-out buffer: every push and
\* pop of every interleaving takes effect at one instant, nothing is lost,
\* duplicated or reordered, and a push fails only when Size items are inside.
ImplementsFifo == Fifo!Spec
=============================================================================
