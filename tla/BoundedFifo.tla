---------------------------- MODULE BoundedFifo ----------------------------
(***************************************************************************)
(* What a worker's task queue promises to its users: a first-in first-out  *)
(* buffer of at most Size items.  One thread, the Owner, pushes; every     *)
(* thread pops.  A call is invoked, takes effect in one atomic step        *)
(* between invocation and return, and returns what that step decided.      *)
(* TaskQueue implements this specification.                                *)
(***************************************************************************)
EXTENDS Naturals, Sequences

CONSTANTS
  Threads,  \* the threads that use the queue
  Owner,    \* the one thread that pushes
  Items,    \* what may be pushed
  Null,     \* what a pop of an empty queue returns
  Size      \* how many items fit

VARIABLES
  fifo,     \* the items inside, the oldest first
  phase,    \* per thread: what its pending call is doing
  item      \* per thread: the argument of a push, the result of a pop

vars == <<fifo, phase, item>>

Init ==
  /\ fifo = <<>>
  /\ phase = [t \in Threads |-> "idle"]
  /\ item = [t \in Threads |-> Null]

Goto(t, from, to) ==
  /\ phase[t] = from
  /\ phase' = [phase EXCEPT ![t] = to]

InvokePush(v) ==
  /\ Goto(Owner, "idle", "push")
  /\ item' = [item EXCEPT ![Owner] = v]
  /\ UNCHANGED fifo

Push ==
  /\ Goto(Owner, "push", "pushed")
  /\ Len(fifo) < Size
  /\ fifo' = Append(fifo, item[Owner])
  /\ UNCHANGED item

Reject ==
  /\ Goto(Owner, "push", "full")
  /\ Len(fifo) = Size
  /\ UNCHANGED <<fifo, item>>

InvokePop(t) ==
  /\ Goto(t, "idle", "pop")
  /\ UNCHANGED <<fifo, item>>

Pop(t) ==
  /\ Goto(t, "pop", "popped")
  /\ fifo # <<>>
  /\ item' = [item EXCEPT ![t] = Head(fifo)]
  /\ fifo' = Tail(fifo)

PopNothing(t) ==
  /\ Goto(t, "pop", "popped")
  /\ fifo = <<>>
  /\ UNCHANGED <<fifo, item>>

Return(t) ==
  /\ phase[t] \in {"pushed", "full", "popped"}
  /\ phase' = [phase EXCEPT ![t] = "idle"]
  /\ item' = [item EXCEPT ![t] = Null]
  /\ UNCHANGED fifo

Next ==
  \/ \E v \in Items : InvokePush(v)
  \/ Push
  \/ Reject
  \/ \E t \in Threads : InvokePop(t) \/ Pop(t) \/ PopNothing(t) \/ Return(t)

Spec == Init /\ [][Next]_vars
=============================================================================
