------------------------ MODULE NodeAllocatorProofs ------------------------
(***************************************************************************)
(* Proofs about NodeAllocator.  What a worker has found out under the      *)
(* mutex is tied to its program counter (Control); then every step moves   *)
(* one node from one owner to another, so that each node keeps exactly one *)
(* owner (Partition); the listing (Listing) and the bound on the memory    *)
(* (Memory) are arguments of their own over Control.                       *)
(***************************************************************************)
EXTENDS NodeAllocator, SequenceTheorems, FiniteSetTheorems, TLAPS

\* The labels of a worker that holds the mutex.
Held == {"refill_test", "refill_move", "batch", "flush", "list"}

MutexHeld == \A w \in Workers : pc[w] \in Held => mutex = w

\* The workers of a scheduler and the loader do not run at the same time.
OnlyRunning ==
  /\ phase = "load" => \A w \in Hands : pc[w] = "idle" /\ free_node_stack[w] = <<>>
  /\ phase = "work" => pc[Loader] = "idle"

HandUsed ==
  \A w \in Workers : hand[w] # Null <=> pc[w] \in {"mark", "flush_lock", "flush"}

\* What the loop variable of a worker counts, and how full its stack is.
Counted(w) ==
  /\ pc[w] \notin {"refill_test", "refill_move", "batch", "flush", "list", "listed"}
       => count[w] = 0
  /\ pc[w] \in {"refill_lock", "batch_lock", "batch"} => free_node_stack[w] = <<>>
  /\ pc[w] \in {"refill_test", "refill_move"} => Len(free_node_stack[w]) = count[w]
  /\ pc[w] = "refill_test" => count[w] <= cache_size
  /\ pc[w] = "refill_move" => count[w] < cache_size /\ stack # <<>>
  /\ pc[w] = "batch" => count[w] <= batch_size
  /\ pc[w] = "flush_lock" => Len(free_node_stack[w]) = 2 * cache_size
  /\ pc[w] = "flush" =>
       count[w] <= cache_size /\ Len(free_node_stack[w]) = 2 * cache_size - count[w]
  /\ Len(free_node_stack[w]) <= 2 * cache_size

Control ==
  /\ ~Aborted
  /\ OnlyRunning
  /\ MutexHeld
  /\ HandUsed
  /\ \A w \in Workers : Counted(w)

----------------------------------------------------------------------------
(* Sequences. *)

\* What array_pop leaves and returns.
LEMMA FrontFacts ==
  ASSUME NEW S, NEW s \in Seq(S), s # <<>>
  PROVE  /\ Len(s) \in Nat \ {0}
         /\ Last(s) \in S /\ Last(s) = s[Len(s)]
         /\ Front(s) \in Seq(S)
         /\ Len(Front(s)) = Len(s) - 1
         /\ \A i \in 1 .. Len(s) - 1 : Front(s)[i] = s[i]
<1>1. Len(s) \in Nat \ {0} /\ \A i \in 1 .. Len(s) : s[i] \in S
  OBVIOUS
<1>2. 1 \in Int /\ Len(s) - 1 \in Int /\ \A i \in 1 .. Len(s) - 1 : s[i] \in S
  BY <1>1
<1>3. /\ SubSeq(s, 1, Len(s) - 1) \in Seq(S)
      /\ Len(SubSeq(s, 1, Len(s) - 1)) =
           IF 1 <= Len(s) - 1 THEN Len(s) - 1 - 1 + 1 ELSE 0
      /\ \A i \in 1 .. Len(s) - 1 - 1 + 1 : SubSeq(s, 1, Len(s) - 1)[i] = s[1 + i - 1]
  BY ONLY <1>2, SubSeqProperties
<1>4. Len(SubSeq(s, 1, Len(s) - 1)) = Len(s) - 1
  <2>1. PICK k \in Nat : k = Len(s) - 1
    BY <1>1
  <2>2. (IF 1 <= k THEN k - 1 + 1 ELSE 0) = k
    OBVIOUS
  <2> QED
    BY <1>3, <2>1, <2>2
<1>5. \A i \in 1 .. Len(s) - 1 : SubSeq(s, 1, Len(s) - 1)[i] = s[i]
  <2>1. ASSUME NEW i \in 1 .. Len(s) - 1 PROVE SubSeq(s, 1, Len(s) - 1)[i] = s[i]
    <3>1. i \in 1 .. Len(s) - 1 - 1 + 1 /\ 1 + i - 1 = i
      BY <1>1
    <3> QED
      BY <1>3, <3>1
  <2> QED
    BY <2>1
<1> QED
  BY <1>1, <1>3, <1>4, <1>5 DEF Last, Front

\* What array_push makes.
LEMMA AppendFacts ==
  ASSUME NEW S, NEW s \in Seq(S), NEW x \in S
  PROVE  /\ Append(s, x) \in Seq(S)
         /\ Len(Append(s, x)) = Len(s) + 1
         /\ Append(s, x) # <<>>
         /\ \A i \in 1 .. Len(s) : Append(s, x)[i] = s[i]
         /\ Append(s, x)[Len(s) + 1] = x
OBVIOUS

\* A stack of nodes stays one when there are more nodes.
LEMMA SeqGrows ==
  ASSUME NEW S, NEW T, S \subseteq T, NEW s \in Seq(S)
  PROVE  s \in Seq(T)
OBVIOUS

\* Popping takes one node out of a stack that holds each node once.
LEMMA PopRange ==
  ASSUME NEW S, NEW s \in Seq(S), s # <<>>, IsInjective(s)
  PROVE  /\ IsInjective(Front(s))
         /\ Last(s) \in Range(s)
         /\ Range(Front(s)) = Range(s) \ {Last(s)}
<1>1. /\ Len(s) \in Nat \ {0} /\ Last(s) = s[Len(s)]
      /\ Front(s) \in Seq(S) /\ Len(Front(s)) = Len(s) - 1
      /\ \A i \in 1 .. Len(s) - 1 : Front(s)[i] = s[i]
  BY FrontFacts
<1>2. DOMAIN s = 1 .. Len(s) /\ DOMAIN Front(s) = 1 .. Len(s) - 1
  BY <1>1
<1>3. \A i, j \in 1 .. Len(s) : s[i] = s[j] => i = j
  BY <1>2 DEF IsInjective
<1>4. IsInjective(Front(s))
  BY <1>1, <1>2, <1>3 DEF IsInjective
<1>5. Last(s) \in Range(s)
  BY <1>1, <1>2 DEF Range
<1>6. ASSUME NEW x PROVE x \in Range(Front(s)) <=> x \in Range(s) \ {Last(s)}
  <2>1. x \in Range(Front(s)) <=> \E i \in 1 .. Len(s) - 1 : s[i] = x
    BY <1>1, <1>2 DEF Range
  <2>2. x \in Range(s) <=> \E i \in 1 .. Len(s) : s[i] = x
    BY <1>2 DEF Range
  <2> QED
    BY <1>1, <1>3, <2>1, <2>2
<1> QED
  BY <1>4, <1>5, <1>6

\* Pushing adds one node.
LEMMA PushRange ==
  ASSUME NEW S, NEW s \in Seq(S), NEW x \in S
  PROVE  /\ Range(Append(s, x)) = Range(s) \union {x}
         /\ IsInjective(s) /\ x \notin Range(s) => IsInjective(Append(s, x))
<1>1. /\ Append(s, x) \in Seq(S) /\ Len(Append(s, x)) = Len(s) + 1
      /\ \A i \in 1 .. Len(s) : Append(s, x)[i] = s[i]
      /\ Append(s, x)[Len(s) + 1] = x
  BY AppendFacts
<1>2. DOMAIN s = 1 .. Len(s) /\ DOMAIN Append(s, x) = 1 .. Len(s) + 1 /\ Len(s) \in Nat
  BY <1>1
<1>3. ASSUME NEW y PROVE y \in Range(Append(s, x)) <=> y \in Range(s) \union {x}
  <2>1. y \in Range(Append(s, x)) <=> \E i \in 1 .. Len(s) + 1 : Append(s, x)[i] = y
    BY <1>2 DEF Range
  <2>2. y \in Range(s) <=> \E i \in 1 .. Len(s) : s[i] = y
    BY <1>2 DEF Range
  <2> QED
    BY <1>1, <1>2, <2>1, <2>2
<1>4. ASSUME IsInjective(s), x \notin Range(s) PROVE IsInjective(Append(s, x))
  <2>1. \A i \in 1 .. Len(s) : s[i] # x
    BY <1>2, <1>4 DEF Range
  <2>2. \A i, j \in 1 .. Len(s) : s[i] = s[j] => i = j
    BY <1>2, <1>4 DEF IsInjective
  <2> QED
    BY <1>1, <1>2, <2>1, <2>2 DEF IsInjective
<1> QED
  BY <1>3, <1>4

----------------------------------------------------------------------------
(* Types. *)

\* The first batch is a stack of nodes.
LEMMA InitTypes == Init => TypeOK
<1> SUFFICES ASSUME Init PROVE TypeOK
  OBVIOUS
<1>1. stack \in Seq(Nodes)
  BY SizeAssumption DEF Init, Nodes
<1>2. <<>> \in Seq(Nodes)
  OBVIOUS
<1> QED
  BY <1>1, <1>2, SizeAssumption DEF Init, TypeOK, Workers, Labels

----------------------------------------------------------------------------
(* What a step of one worker leaves of Control. *)

\* Who may take a step.
LEMMA RunningWorker ==
  ASSUME TypeOK, NEW w \in Running
  PROVE  w \in Workers /\ (phase = "load" => w = Loader) /\ (phase = "work" => w \in Hands)
BY DEF TypeOK, Running, Workers

\* A step of w that changes only what belongs to w, and the stack of the
\* allocator only under the mutex, keeps Control when it does so for w.
LEMMA LocalStep ==
  ASSUME TypeOK, Control, NEW w \in Running,
         phase' = phase,
         \A v \in Workers \ {w} :
           /\ pc'[v] = pc[v] /\ free_node_stack'[v] = free_node_stack[v]
           /\ count'[v] = count[v] /\ hand'[v] = hand[v],
         stack' = stack \/ pc[w] \in Held,
         mutex' = mutex \/ mutex = Null \/ pc[w] \in Held,
         pc'[w] \in Held => mutex' = w,
         pc'[w] # "abort",
         hand'[w] # Null <=> pc'[w] \in {"mark", "flush_lock", "flush"},
         Counted(w)'
  PROVE  Control'
<1>1. w \in Workers /\ (phase = "load" => w = Loader) /\ (phase = "work" => w \in Hands)
  BY RunningWorker
<1>2. (~Aborted)'
  BY <1>1 DEF Control, Aborted
<1>3. OnlyRunning'
  BY <1>1, WorkersAssumption DEF Control, OnlyRunning, Workers
<1>4. MutexHeld'
  BY <1>1, WorkersAssumption DEF Control, MutexHeld, Workers
<1>5. HandUsed'
  BY <1>1 DEF Control, HandUsed
<1>6. ASSUME NEW v \in Workers PROVE Counted(v)'
  <2>1. CASE v = w
    BY <2>1
  <2>2. CASE v # w
    <3>1. pc[v] = "refill_move" => stack' = stack
      BY <1>1, <2>2 DEF Control, MutexHeld, Held
    <3> QED
      BY <2>2, <3>1 DEF Control, Counted
  <2> QED
    BY <2>1, <2>2
<1> QED
  BY <1>2, <1>3, <1>4, <1>5, <1>6 DEF Control

----------------------------------------------------------------------------
(* Each action keeps the types and Control. *)

\* Nobody runs when the allocator is made.
LEMMA InitControl == Init => Control
<1> SUFFICES ASSUME Init PROVE Control
  OBVIOUS
<1>1. \A w \in Workers : pc[w] = "idle" /\ free_node_stack[w] = <<>> /\ count[w] = 0
                         /\ hand[w] = Null
  BY DEF Init
<1>2. \A w \in Workers : Counted(w)
  BY <1>1, SizeAssumption DEF Counted
<1> QED
  BY <1>1, <1>2 DEF Init, Control, Aborted, OnlyRunning, MutexHeld, HandUsed, Workers, Held

\* mutex_lock.
LEMMA LockKeeps ==
  ASSUME TypeOK, Control, NEW w \in Running, mutex_lock(w)
  PROVE  TypeOK' /\ Control'
<1>0. w \in Workers
  BY RunningWorker
<1> USE <1>0
<1>1. /\ mutex = Null /\ mutex' = w
      /\ pc[w] \in {"refill_lock", "batch_lock", "flush_lock", "list_lock"}
      /\ pc' = [pc EXCEPT ![w] = CASE pc[w] = "refill_lock" -> "refill_test"
                                   [] pc[w] = "batch_lock" -> "batch"
                                   [] pc[w] = "flush_lock" -> "flush"
                                   [] pc[w] = "list_lock" -> "list"]
      /\ UNCHANGED <<node_count, stack, free_node_stack, is_allocated, live, hand,
                     count, peak, phase, rounds, lost, listed>>
  BY DEF mutex_lock, Goto, global, listing
<1>2. TypeOK'
  <2>1. steady' \in [Workers -> SUBSET Nodes] /\ seen' \in [Workers -> SUBSET Nodes]
    BY DEF mutex_lock, TypeOK, listing
  <2> QED
    BY <1>1, <2>1 DEF TypeOK, Nodes, Labels
<1>3. pc \in [Workers -> Labels]
  BY DEF TypeOK
<1>4. \A v \in Workers \ {w} : pc'[v] = pc[v]
  BY <1>1, <1>3
<1>5. /\ pc[w] = "refill_lock" => pc'[w] = "refill_test"
      /\ pc[w] = "batch_lock" => pc'[w] = "batch"
      /\ pc[w] = "flush_lock" => pc'[w] = "flush"
      /\ pc[w] = "list_lock" => pc'[w] = "list"
  BY <1>1, <1>3
<1>6. Counted(w)'
  <2>1. Counted(w) /\ count[w] \in Nat
    BY DEF Control, TypeOK
  <2>2. pc[w] = "refill_lock" => Len(free_node_stack[w]) = 0
    BY <2>1 DEF Counted
  <2> QED
    BY <1>1, <1>5, <2>1, <2>2, SizeAssumption DEF Counted
<1>7. hand'[w] # Null <=> pc'[w] \in {"mark", "flush_lock", "flush"}
  BY <1>1, <1>5 DEF Control, HandUsed
<1> QED
  BY <1>1, <1>2, <1>4, <1>5, <1>6, <1>7, LocalStep

\* The end of allocator_maybe_allocate: a node in hand, or none to be had.
LEMMA PopFreeFacts ==
  ASSUME TypeOK, NEW w \in Workers, PopFree(w)
  PROVE  /\ free_node_stack' \in [Workers -> Seq(Nodes)]
         /\ hand' \in [Workers -> Nodes \union {Null}]
         /\ pc' \in [Workers -> Labels]
         /\ \A v \in Workers \ {w} : /\ pc'[v] = pc[v] /\ hand'[v] = hand[v]
                                     /\ free_node_stack'[v] = free_node_stack[v]
         /\ \/ /\ free_node_stack[w] = <<>> /\ pc'[w] = "batch_lock"
               /\ hand' = hand /\ free_node_stack' = free_node_stack
            \/ /\ free_node_stack[w] # <<>> /\ pc'[w] = "mark"
               /\ hand'[w] = Last(free_node_stack[w]) /\ hand'[w] \in Nodes
               /\ free_node_stack'[w] = Front(free_node_stack[w])
<1>1. CASE free_node_stack[w] = <<>>
  BY <1>1 DEF PopFree, TypeOK, Goto, Labels
<1>2. CASE free_node_stack[w] # <<>>
  <2>1. Last(free_node_stack[w]) \in Nodes /\ Front(free_node_stack[w]) \in Seq(Nodes)
    BY <1>2, FrontFacts DEF TypeOK
  <2>2. /\ hand' = [hand EXCEPT ![w] = Last(free_node_stack[w])]
        /\ free_node_stack' = [free_node_stack EXCEPT ![w] = Front(@)]
        /\ pc' = [pc EXCEPT ![w] = "mark"]
    BY <1>2 DEF PopFree, Goto
  <2>3. /\ pc \in [Workers -> Labels] /\ hand \in [Workers -> Nodes \union {Null}]
        /\ free_node_stack \in [Workers -> Seq(Nodes)]
    BY DEF TypeOK
  <2>4. pc' \in [Workers -> Labels] /\ pc'[w] = "mark"
    BY <2>2, <2>3 DEF Labels
  <2>5. /\ hand' \in [Workers -> Nodes \union {Null}]
        /\ hand'[w] = Last(free_node_stack[w])
    BY <2>1, <2>2, <2>3
  <2>6. /\ free_node_stack' \in [Workers -> Seq(Nodes)]
        /\ free_node_stack'[w] = Front(free_node_stack[w])
    BY <2>1, <2>2, <2>3
  <2>7. \A v \in Workers \ {w} : /\ pc'[v] = pc[v] /\ hand'[v] = hand[v]
                                 /\ free_node_stack'[v] = free_node_stack[v]
    BY <2>2, <2>3
  <2> QED
    BY ONLY <1>2, <2>1, <2>4, <2>5, <2>6, <2>7
<1> QED
  BY <1>1, <1>2

\* A worker whose stack was refilled takes a node from it.
LEMMA PopFreeCounted ==
  ASSUME TypeOK, Control, NEW w \in Running, PopFree(w), count'[w] = 0,
         hand[w] = Null
  PROVE  /\ Counted(w)' /\ pc'[w] \notin Held \union {"abort"}
         /\ hand'[w] # Null <=> pc'[w] \in {"mark", "flush_lock", "flush"}
<1>0. w \in Workers
  BY RunningWorker
<1>1. \/ /\ free_node_stack[w] = <<>> /\ pc'[w] = "batch_lock"
         /\ hand' = hand /\ free_node_stack' = free_node_stack
      \/ /\ free_node_stack[w] # <<>> /\ pc'[w] = "mark"
         /\ hand'[w] = Last(free_node_stack[w]) /\ hand'[w] \in Nodes
         /\ free_node_stack'[w] = Front(free_node_stack[w])
  BY <1>0, PopFreeFacts
<1>2. Len(free_node_stack[w]) <= 2 * cache_size
  BY <1>0 DEF Control, Counted
<1>3. free_node_stack[w] \in Seq(Nodes)
  BY <1>0 DEF TypeOK
<1>4. CASE free_node_stack[w] = <<>>
  BY <1>1, <1>2, <1>4 DEF Counted, Held
<1>5. CASE free_node_stack[w] # <<>>
  <2>1. Len(free_node_stack'[w]) = Len(free_node_stack[w]) - 1 /\ pc'[w] = "mark"
        /\ Len(free_node_stack[w]) \in Nat
    BY <1>1, <1>3, <1>5, FrontFacts
  <2>2. Len(free_node_stack'[w]) <= 2 * cache_size
    BY <1>2, <2>1, SizeAssumption
  <2>3. hand'[w] # Null
    BY <1>1, <1>5, WorkersAssumption DEF Nodes, TypeOK
  <2> QED
    BY <2>1, <2>2, <2>3 DEF Counted, Held
<1> QED
  BY <1>4, <1>5

\* node_allocator_allocate, up to the mutex.
LEMMA AllocateKeeps ==
  ASSUME TypeOK, Control, NEW w \in Running, node_allocator_allocate(w)
  PROVE  TypeOK' /\ Control'
<1>0. w \in Workers
  BY RunningWorker
<1> USE <1>0
<1>1. /\ pc[w] = "idle" /\ hand[w] = Null /\ count[w] = 0
      /\ Counted(w)
      /\ UNCHANGED <<node_count, stack, mutex, is_allocated, live, count, listed, steady,
                     seen, peak, phase, rounds, lost>>
  BY DEF node_allocator_allocate, Control, HandUsed, Counted, global, listing
<1>2. CASE free_node_stack[w] = <<>>
  <2>1. pc' = [pc EXCEPT ![w] = "refill_lock"] /\ UNCHANGED <<hand, free_node_stack>>
    BY <1>2 DEF node_allocator_allocate, Goto
  <2>2. TypeOK'
    BY <1>1, <2>1 DEF TypeOK, Nodes, Labels
  <2>3. Counted(w)'
    BY <1>1, <1>2, <2>1 DEF Counted, TypeOK
  <2> QED
    BY <1>1, <2>1, <2>2, <2>3, LocalStep DEF TypeOK, Held
<1>3. CASE free_node_stack[w] # <<>>
  <2>1. PopFree(w)
    BY <1>3 DEF node_allocator_allocate
  <2>2. TypeOK'
    BY <1>1, <2>1, PopFreeFacts DEF TypeOK, Nodes
  <2>3. /\ Counted(w)' /\ pc'[w] \notin Held \union {"abort"}
        /\ hand'[w] # Null <=> pc'[w] \in {"mark", "flush_lock", "flush"}
    BY <1>1, <2>1, PopFreeCounted
  <2> QED
    BY <1>1, <2>1, <2>2, <2>3, LocalStep, PopFreeFacts
<1> QED
  BY <1>2, <1>3

\* The test of the loop that fills the private stack, or the end of it.
LEMMA RefillTestKeeps ==
  ASSUME TypeOK, Control, NEW w \in Running, RefillTest(w)
  PROVE  TypeOK' /\ Control'
<1>0. w \in Workers
  BY RunningWorker
<1> USE <1>0
<1>1. /\ pc[w] = "refill_test" /\ pc[w] \in Held /\ hand[w] = Null
      /\ Counted(w) /\ mutex = w
      /\ UNCHANGED <<node_count, stack, is_allocated, live, listed, steady,
                     seen, peak, phase, rounds, lost>>
  BY DEF RefillTest, Control, HandUsed, MutexHeld, Held, global, listing
<1>2. CASE count[w] < cache_size /\ stack # <<>>
  <2>1. pc' = [pc EXCEPT ![w] = "refill_move"]
        /\ UNCHANGED <<mutex, hand, free_node_stack, count>>
    BY <1>2 DEF RefillTest, Goto
  <2>2. TypeOK'
    BY <1>1, <2>1 DEF TypeOK, Nodes, Labels
  <2>3. Counted(w)'
    BY <1>1, <1>2, <2>1 DEF Counted, TypeOK
  <2> QED
    BY <1>1, <2>1, <2>2, <2>3, LocalStep DEF TypeOK
<1>3. CASE ~(count[w] < cache_size /\ stack # <<>>)
  <2>1. PopFree(w) /\ mutex' = Null /\ count' = [count EXCEPT ![w] = 0]
    BY <1>3 DEF RefillTest
  <2>2. count' \in [Workers -> Nat] /\ count'[w] = 0
        /\ \A v \in Workers \ {w} : count'[v] = count[v]
    BY <2>1 DEF TypeOK
  <2>3. TypeOK'
    BY <1>1, <2>1, <2>2, PopFreeFacts DEF TypeOK, Nodes
  <2>4. /\ Counted(w)' /\ pc'[w] \notin Held \union {"abort"}
        /\ hand'[w] # Null <=> pc'[w] \in {"mark", "flush_lock", "flush"}
    BY <1>1, <2>1, <2>2, PopFreeCounted
  <2> QED
    BY <1>1, <2>1, <2>2, <2>3, <2>4, LocalStep, PopFreeFacts
<1> QED
  BY <1>2, <1>3

\* A node moves from the shared stack to that of the worker.
LEMMA RefillMoveKeeps ==
  ASSUME TypeOK, Control, NEW w \in Running, RefillMove(w)
  PROVE  TypeOK' /\ Control'
<1>0. w \in Workers
  BY RunningWorker
<1> USE <1>0
<1>1. /\ pc[w] = "refill_move" /\ pc[w] \in Held /\ hand[w] = Null /\ stack # <<>>
      /\ Counted(w) /\ mutex = w /\ stack \in Seq(Nodes) /\ free_node_stack[w] \in Seq(Nodes)
      /\ UNCHANGED <<node_count, mutex, is_allocated, live, hand, listed, steady,
                     seen, peak, phase, rounds, lost>>
  BY DEF RefillMove, Control, HandUsed, MutexHeld, Held, global, listing, Counted, TypeOK
<1>2. /\ stack' = Front(stack)
      /\ free_node_stack' = [free_node_stack EXCEPT ![w] = Append(@, Last(stack))]
      /\ count' = [count EXCEPT ![w] = @ + 1]
      /\ pc' = [pc EXCEPT ![w] = "refill_test"]
  BY <1>1 DEF RefillMove, Goto
<1>3. Front(stack) \in Seq(Nodes) /\ Last(stack) \in Nodes
  BY <1>1, FrontFacts
<1>4. /\ Append(free_node_stack[w], Last(stack)) \in Seq(Nodes)
      /\ Len(Append(free_node_stack[w], Last(stack))) = Len(free_node_stack[w]) + 1
  BY <1>1, <1>3, AppendFacts
<1>5. TypeOK'
  <2>1. free_node_stack' \in [Workers -> Seq(Nodes)]
    BY <1>2, <1>4 DEF TypeOK
  <2>2. count' \in [Workers -> Nat] /\ pc' \in [Workers -> Labels] /\ stack' \in Seq(Nodes)
    BY <1>2, <1>3 DEF TypeOK, Labels
  <2> QED
    BY <1>1, <2>1, <2>2 DEF TypeOK, Nodes
<1>6. Counted(w)'
  <2>1. Len(free_node_stack'[w]) = count'[w] /\ count'[w] <= cache_size /\ count'[w] \in Nat
        /\ pc'[w] = "refill_test"
    BY <1>1, <1>2, <1>4, SizeAssumption DEF TypeOK, Counted
  <2> QED
    BY <2>1, SizeAssumption DEF Counted
<1> QED
  BY <1>1, <1>2, <1>5, <1>6, LocalStep DEF TypeOK

\* prepare_one_batch_of_nodes, one node at a time.
LEMMA BatchKeeps ==
  ASSUME TypeOK, Control, NEW w \in Running, prepare_one_batch_of_nodes(w)
  PROVE  TypeOK' /\ Control'
<1>0. w \in Workers
  BY RunningWorker
<1> USE <1>0
<1>1. /\ pc[w] = "batch" /\ pc[w] \in Held /\ hand[w] = Null
      /\ Counted(w) /\ mutex = w /\ count[w] \in Nat /\ free_node_stack[w] = <<>>
      /\ UNCHANGED <<free_node_stack, is_allocated, live, hand, listed, steady,
                     seen, peak, phase, rounds, lost>>
  BY DEF prepare_one_batch_of_nodes, Control, HandUsed, MutexHeld, Held, global, listing,
         Counted, TypeOK
<1>2. CASE count[w] < batch_size
  <2>1. /\ node_count' = node_count + 1 /\ stack' = Append(stack, node_count + 1)
        /\ count' = [count EXCEPT ![w] = @ + 1]
        /\ UNCHANGED <<mutex, pc>>
    BY <1>2 DEF prepare_one_batch_of_nodes
  <2>2. Nodes \subseteq Nodes' /\ node_count + 1 \in Nodes'
    BY <2>1 DEF TypeOK, Nodes
  <2>3. stack \in Seq(Nodes') /\ \A v \in Workers : free_node_stack[v] \in Seq(Nodes')
                                                   /\ listed[v] \in Seq(Nodes')
    BY <2>2, SeqGrows DEF TypeOK
  <2>4. stack' \in Seq(Nodes')
    BY <2>1, <2>2, <2>3, AppendFacts
  <2>5. free_node_stack' \in [Workers -> Seq(Nodes')] /\ listed' \in [Workers -> Seq(Nodes')]
    BY <1>1, <2>3 DEF TypeOK
  <2>6. /\ steady' \in [Workers -> SUBSET Nodes'] /\ seen' \in [Workers -> SUBSET Nodes']
        /\ hand' \in [Workers -> Nodes' \union {Null}]
    BY <1>1, <2>2 DEF TypeOK
  <2>7. TypeOK'
    BY <1>1, <2>1, <2>2, <2>4, <2>5, <2>6 DEF TypeOK
  <2>8. Counted(w)'
    BY <1>1, <1>2, <2>1, SizeAssumption DEF Counted, TypeOK
  <2> QED
    BY <1>1, <2>1, <2>7, <2>8, LocalStep DEF TypeOK
<1>3. CASE ~(count[w] < batch_size)
  <2>1. /\ UNCHANGED <<node_count, stack>> /\ mutex' = Null
        /\ count' = [count EXCEPT ![w] = 0] /\ pc' = [pc EXCEPT ![w] = "refill_lock"]
    BY <1>3 DEF prepare_one_batch_of_nodes, Goto
  <2>2. TypeOK'
    BY <1>1, <2>1 DEF TypeOK, Nodes, Labels
  <2>3. Counted(w)'
    BY <1>1, <2>1, SizeAssumption DEF Counted, TypeOK
  <2> QED
    BY <1>1, <2>1, <2>2, <2>3, LocalStep DEF TypeOK, Held
<1> QED
  BY <1>2, <1>3

\* The net is a finite set.
LEMMA LiveFinite ==
  ASSUME TypeOK
  PROVE  IsFiniteSet(live) /\ Cardinality(live) \in Nat
<1>1. IsFiniteSet(Nodes)
  BY FS_Interval DEF TypeOK, Nodes
<1> QED
  BY <1>1, FS_Subset, FS_CardinalityType DEF TypeOK

\* The allocated node is marked and given to the worker.
LEMMA MarkKeeps ==
  ASSUME TypeOK, Control, NEW w \in Running, MarkAllocated(w)
  PROVE  TypeOK' /\ Control'
<1>0. w \in Workers
  BY RunningWorker
<1> USE <1>0
<1>1. /\ pc[w] = "mark" /\ hand[w] \in Nodes
      /\ Counted(w) /\ count[w] = 0
      /\ is_allocated' = is_allocated \union {hand[w]} /\ live' = live \union {hand[w]}
      /\ pc' = [pc EXCEPT ![w] = "idle"] /\ hand' = [hand EXCEPT ![w] = Null]
      /\ UNCHANGED <<node_count, stack, mutex, free_node_stack, count, listed, steady,
                     phase, rounds, lost>>
  BY DEF MarkAllocated, Control, HandUsed, global, Counted, TypeOK, Goto
<1>2. live' \subseteq Nodes /\ is_allocated' \subseteq Nodes
  BY <1>1 DEF TypeOK
<1>3. peak' \in Nat
  <2>1. IsFiniteSet(live')
    BY <1>1, LiveFinite, FS_AddElement
  <2> QED
    BY <2>1, FS_CardinalityType DEF MarkAllocated, TypeOK
<1>4. seen' \in [Workers -> SUBSET Nodes]
  BY <1>1 DEF MarkAllocated, TypeOK
<1>5. TypeOK'
  BY <1>1, <1>2, <1>3, <1>4 DEF TypeOK, Nodes, Labels
<1>6. Counted(w)'
  BY <1>1 DEF Counted, TypeOK
<1> QED
  BY <1>1, <1>5, <1>6, LocalStep DEF TypeOK, Held

\* node_allocator_recycle, up to the mutex.
LEMMA RecycleKeeps ==
  ASSUME TypeOK, Control, NEW w \in Running, NEW n \in live, node_allocator_recycle(w, n)
  PROVE  TypeOK' /\ Control'
<1>0. w \in Workers
  BY RunningWorker
<1> USE <1>0
<1>a. n \in Nodes /\ n # Null
  BY WorkersAssumption DEF TypeOK, Nodes
<1>1. /\ pc[w] = "idle" /\ hand[w] = Null /\ n \in Nodes /\ n # Null
      /\ Counted(w) /\ count[w] = 0 /\ free_node_stack[w] \in Seq(Nodes)
      /\ Len(free_node_stack[w]) \in Nat /\ Len(free_node_stack[w]) <= 2 * cache_size
      /\ is_allocated' = is_allocated \ {n} /\ live' = live \ {n}
      /\ UNCHANGED <<node_count, stack, mutex, count, listed, seen, peak,
                     phase, rounds, lost>>
  <2>1. pc[w] = "idle" /\ hand[w] = Null /\ Counted(w)
    BY DEF node_allocator_recycle, Control, HandUsed
  <2>2. free_node_stack[w] \in Seq(Nodes)
    BY DEF TypeOK
  <2>3. count[w] = 0 /\ Len(free_node_stack[w]) <= 2 * cache_size
    BY <2>1 DEF Counted
  <2> QED
    BY <1>a, <2>1, <2>2, <2>3 DEF node_allocator_recycle, global
<1>2. steady' \in [Workers -> SUBSET Nodes]
  BY DEF node_allocator_recycle, TypeOK
<1>3. CASE Len(free_node_stack[w]) >= 2 * cache_size
  <2>1. /\ hand' = [hand EXCEPT ![w] = n] /\ pc' = [pc EXCEPT ![w] = "flush_lock"]
        /\ UNCHANGED free_node_stack
    BY <1>3 DEF node_allocator_recycle, Goto
  <2>2. TypeOK'
    BY <1>1, <1>2, <2>1 DEF TypeOK, Nodes, Labels
  <2>3. Len(free_node_stack[w]) = 2 * cache_size
    BY <1>1, <1>3, SizeAssumption
  <2>4. Counted(w)'
    BY <1>1, <2>1, <2>3 DEF Counted, TypeOK
  <2> QED
    BY <1>1, <2>1, <2>2, <2>4, LocalStep DEF TypeOK, Held
<1>4. CASE ~(Len(free_node_stack[w]) >= 2 * cache_size)
  <2>1. /\ UNCHANGED <<hand, pc>>
        /\ free_node_stack' = [free_node_stack EXCEPT ![w] = Append(@, n)]
    BY <1>4 DEF node_allocator_recycle
  <2>2. /\ Append(free_node_stack[w], n) \in Seq(Nodes)
        /\ Len(Append(free_node_stack[w], n)) = Len(free_node_stack[w]) + 1
    BY <1>1, AppendFacts
  <2>3. free_node_stack' \in [Workers -> Seq(Nodes)]
    BY <2>1, <2>2 DEF TypeOK
  <2>4. TypeOK'
    BY <1>1, <1>2, <2>1, <2>3 DEF TypeOK, Nodes
  <2>5. Len(free_node_stack'[w]) <= 2 * cache_size
    BY <1>1, <1>4, <2>1, <2>2, SizeAssumption DEF TypeOK
  <2>6. Counted(w)'
    BY <1>1, <2>1, <2>5 DEF Counted
  <2> QED
    BY <1>1, <2>1, <2>4, <2>6, LocalStep DEF TypeOK, Held
<1> QED
  BY <1>3, <1>4

\* allocator_free moves a node to the shared stack, or ends and keeps its own.
LEMMA FreeKeeps ==
  ASSUME TypeOK, Control, NEW w \in Running, allocator_free(w)
  PROVE  TypeOK' /\ Control'
<1>0. w \in Workers
  BY RunningWorker
<1> USE <1>0
<1>1. /\ pc[w] = "flush" /\ pc[w] \in Held /\ hand[w] \in Nodes /\ hand[w] # Null
      /\ Counted(w) /\ mutex = w /\ count[w] \in Nat
      /\ stack \in Seq(Nodes) /\ free_node_stack[w] \in Seq(Nodes)
      /\ Len(free_node_stack[w]) = 2 * cache_size - count[w] /\ count[w] <= cache_size
      /\ UNCHANGED <<node_count, is_allocated, live, listed, steady, seen, peak,
                     phase, rounds, lost>>
  <2>1. pc[w] = "flush" /\ pc[w] \in Held /\ hand[w] # Null /\ Counted(w) /\ mutex = w
    BY DEF allocator_free, Control, HandUsed, MutexHeld, Held
  <2>2. /\ hand[w] \in Nodes \union {Null} /\ count[w] \in Nat /\ stack \in Seq(Nodes)
        /\ free_node_stack[w] \in Seq(Nodes)
    BY DEF TypeOK
  <2>3. Len(free_node_stack[w]) = 2 * cache_size - count[w] /\ count[w] <= cache_size
    BY <2>1 DEF Counted
  <2> QED
    BY <2>1, <2>2, <2>3 DEF allocator_free, global, listing
<1>2. CASE count[w] < cache_size
  <2>1. /\ stack' = Append(stack, Last(free_node_stack[w]))
        /\ free_node_stack' = [free_node_stack EXCEPT ![w] = Front(@)]
        /\ count' = [count EXCEPT ![w] = @ + 1]
        /\ UNCHANGED <<mutex, pc, hand>>
    BY <1>2 DEF allocator_free
  <2>2. free_node_stack[w] # <<>>
    BY <1>1, <1>2, SizeAssumption
  <2>3. /\ Last(free_node_stack[w]) \in Nodes /\ Front(free_node_stack[w]) \in Seq(Nodes)
        /\ Len(Front(free_node_stack[w])) = Len(free_node_stack[w]) - 1
    BY <1>1, <2>2, FrontFacts
  <2>4. stack' \in Seq(Nodes)
    BY <1>1, <2>1, <2>3, AppendFacts
  <2>5. free_node_stack' \in [Workers -> Seq(Nodes)] /\ count' \in [Workers -> Nat]
    BY <2>1, <2>3 DEF TypeOK
  <2>6. TypeOK'
    BY <1>1, <2>1, <2>4, <2>5 DEF TypeOK, Nodes
  <2>7. /\ Len(free_node_stack'[w]) = 2 * cache_size - count'[w] /\ count'[w] <= cache_size
        /\ Len(free_node_stack'[w]) <= 2 * cache_size /\ pc'[w] = "flush"
    <3>1. free_node_stack'[w] = Front(free_node_stack[w]) /\ count'[w] = count[w] + 1
      BY <2>1 DEF TypeOK
    <3> QED
      BY <1>1, <1>2, <2>1, <2>3, <3>1, SizeAssumption
  <2>8. Counted(w)'
    BY <2>7 DEF Counted
  <2> QED
    BY <1>1, <2>1, <2>6, <2>8, LocalStep DEF TypeOK
<1>3. CASE ~(count[w] < cache_size)
  <2>1. /\ mutex' = Null /\ UNCHANGED stack
        /\ free_node_stack' = [free_node_stack EXCEPT ![w] = Append(@, hand[w])]
        /\ hand' = [hand EXCEPT ![w] = Null]
        /\ count' = [count EXCEPT ![w] = 0] /\ pc' = [pc EXCEPT ![w] = "idle"]
    BY <1>3 DEF allocator_free, Goto
  <2>2. /\ Append(free_node_stack[w], hand[w]) \in Seq(Nodes)
        /\ Len(Append(free_node_stack[w], hand[w])) = Len(free_node_stack[w]) + 1
    BY <1>1, AppendFacts
  <2>3. free_node_stack' \in [Workers -> Seq(Nodes)]
    BY <2>1, <2>2 DEF TypeOK
  <2>4. TypeOK'
    BY <1>1, <2>1, <2>3 DEF TypeOK, Nodes, Labels
  <2>5. Len(free_node_stack'[w]) <= 2 * cache_size
    BY <1>1, <1>3, <2>1, <2>2, SizeAssumption DEF TypeOK
  <2>6. Counted(w)'
    BY <2>1, <2>5 DEF Counted, TypeOK
  <2> QED
    BY <1>1, <2>1, <2>4, <2>6, LocalStep DEF TypeOK, Held
<1> QED
  BY <1>2, <1>3

\* A listing is asked for; the mutex is taken by a later step.
LEMMA ListBeginKeeps ==
  ASSUME TypeOK, Control, NEW w \in Running, ListBegin(w)
  PROVE  TypeOK' /\ Control'
<1>0. w \in Workers
  BY RunningWorker
<1> USE <1>0
<1>1. /\ pc[w] = "idle" /\ hand[w] = Null /\ Counted(w)
      /\ pc' = [pc EXCEPT ![w] = "list_lock"]
      /\ UNCHANGED <<node_count, stack, mutex, free_node_stack, is_allocated, live, hand,
                     count, listed, steady, seen, peak, phase, rounds, lost>>
  BY DEF ListBegin, Control, HandUsed, global, listing, Goto
<1>2. TypeOK'
  BY <1>1 DEF TypeOK, Nodes, Labels
<1>3. Counted(w)'
  BY <1>1 DEF Counted, TypeOK
<1> QED
  BY <1>1, <1>2, <1>3, LocalStep DEF TypeOK, Held

\* allocated_node_iter_next looks at one node.
LEMMA IterNextKeeps ==
  ASSUME TypeOK, Control, NEW w \in Running, allocated_node_iter_next(w)
  PROVE  TypeOK' /\ Control'
<1>0. w \in Workers
  BY RunningWorker
<1> USE <1>0
<1>1. /\ pc[w] = "list" /\ pc[w] \in Held /\ hand[w] = Null /\ Counted(w) /\ mutex = w
      /\ count' = [count EXCEPT ![w] = @ + 1]
      /\ UNCHANGED <<node_count, stack, free_node_stack, is_allocated, live, hand,
                     steady, seen, peak, phase, rounds, lost>>
  BY DEF allocated_node_iter_next, Control, HandUsed, MutexHeld, Held, global
<1>2. count' \in [Workers -> Nat] /\ listed[w] \in Seq(Nodes)
  BY <1>1 DEF TypeOK
<1>3. listed' \in [Workers -> Seq(Nodes)]
  <2>1. CASE count[w] + 1 \in is_allocated
    <3>1. Append(listed[w], count[w] + 1) \in Seq(Nodes)
      BY <1>2, <2>1, AppendFacts DEF TypeOK
    <3> QED
      BY <2>1, <3>1 DEF allocated_node_iter_next, TypeOK
  <2>2. CASE count[w] + 1 \notin is_allocated
    BY <2>2 DEF allocated_node_iter_next, TypeOK
  <2> QED
    BY <2>1, <2>2
<1>4. \/ UNCHANGED <<mutex, pc>>
      \/ mutex' = Null /\ pc' = [pc EXCEPT ![w] = "listed"]
  BY DEF allocated_node_iter_next, Goto
<1>5. TypeOK'
  BY <1>1, <1>2, <1>3, <1>4 DEF TypeOK, Nodes, Labels
<1>6. pc'[w] \in {"list", "listed"} /\ (pc'[w] = "list" => mutex' = w)
  BY <1>1, <1>4 DEF TypeOK
<1>7. Counted(w)'
  BY <1>1, <1>6 DEF Counted
<1> QED
  BY <1>1, <1>4, <1>5, <1>6, <1>7, LocalStep DEF TypeOK, Held

\* A listing ends.
LEMMA ListEndKeeps ==
  ASSUME TypeOK, Control, NEW w \in Running, ListEnd(w)
  PROVE  TypeOK' /\ Control'
<1>0. w \in Workers
  BY RunningWorker
<1> USE <1>0
<1>1. /\ pc[w] = "listed" /\ hand[w] = Null /\ Counted(w)
      /\ count' = [count EXCEPT ![w] = 0] /\ pc' = [pc EXCEPT ![w] = "idle"]
      /\ UNCHANGED <<node_count, stack, mutex, free_node_stack, is_allocated, live, hand,
                     peak, phase, rounds, lost>>
  BY DEF ListEnd, Control, HandUsed, global, Goto
<1>2. /\ <<>> \in Seq(Nodes)
      /\ listed' = [listed EXCEPT ![w] = <<>>] /\ steady' = [steady EXCEPT ![w] = {}]
      /\ seen' = [seen EXCEPT ![w] = {}]
  BY DEF ListEnd
<1>3. TypeOK'
  BY <1>1, <1>2 DEF TypeOK, Nodes, Labels
<1>4. Counted(w)'
  BY <1>1 DEF Counted, TypeOK
<1> QED
  BY <1>1, <1>3, <1>4, LocalStep DEF TypeOK, Held

\* worker_work_parallelly: the workers of a scheduler take over.
LEMMA WorkKeeps ==
  ASSUME TypeOK, Control, worker_work_parallelly
  PROVE  TypeOK' /\ Control'
<1>1. /\ phase = "load" /\ pc[Loader] = "idle" /\ rounds < MaxRounds
      /\ phase' = "work" /\ rounds' = rounds + 1
      /\ UNCHANGED <<node_count, stack, mutex, free_node_stack, is_allocated, live, pc,
                     hand, count, listed, steady, seen, peak, lost>>
  BY DEF worker_work_parallelly, listing
<1>2. TypeOK'
  BY <1>1, SizeAssumption DEF TypeOK, Nodes
<1>3. (~Aborted)' /\ OnlyRunning' /\ MutexHeld' /\ HandUsed'
  BY <1>1 DEF Control, Aborted, OnlyRunning, MutexHeld, HandUsed
<1>4. \A w \in Workers : Counted(w)'
  BY <1>1 DEF Control, Counted
<1> QED
  BY <1>2, <1>3, <1>4 DEF Control

\* worker_destroy: the private stacks are dropped between two schedulers.
LEMMA DestroyKeeps ==
  ASSUME TypeOK, Control, worker_destroy
  PROVE  TypeOK' /\ Control'
<1>1. /\ phase = "work" /\ phase' = "load" /\ \A w \in Hands : pc[w] = "idle"
      /\ free_node_stack' = [w \in Workers |-> IF w \in Hands THEN <<>> ELSE free_node_stack[w]]
      /\ UNCHANGED <<node_count, stack, mutex, is_allocated, live, pc,
                     hand, count, listed, steady, seen, peak, rounds>>
  BY DEF worker_destroy, listing
<1>2. \A w \in Workers : Range(free_node_stack[w]) \subseteq Nodes
  BY DEF TypeOK, Range
<1>3. lost' \subseteq Nodes
  BY <1>2 DEF worker_destroy, TypeOK, Workers
<1>4. <<>> \in Seq(Nodes) /\ free_node_stack' \in [Workers -> Seq(Nodes)]
  BY <1>1 DEF TypeOK
<1>5. TypeOK'
  BY <1>1, <1>3, <1>4 DEF TypeOK, Nodes
<1>6. (~Aborted)' /\ OnlyRunning' /\ MutexHeld' /\ HandUsed'
  BY <1>1 DEF Control, Aborted, OnlyRunning, MutexHeld, HandUsed, Workers
<1>7. ASSUME NEW w \in Workers PROVE Counted(w)'
  <2>1. CASE w \in Hands
    <3>1. pc'[w] = "idle" /\ count'[w] = count[w] /\ Len(free_node_stack'[w]) = 0
      BY <1>1, <2>1
    <3>2. Counted(w) /\ pc[w] = "idle"
      BY <1>1, <2>1 DEF Control
    <3> QED
      BY <3>1, <3>2, SizeAssumption DEF Counted
  <2>2. CASE w \notin Hands
    BY <1>1, <2>2 DEF Control, Counted
  <2> QED
    BY <2>1, <2>2
<1> QED
  BY <1>5, <1>6, <1>7 DEF Control

\* Every action keeps the types and the discipline of the mutex.
LEMMA NextControl == TypeOK /\ Control /\ [Next]_vars => TypeOK' /\ Control'
<1> SUFFICES ASSUME TypeOK, Control, [Next]_vars PROVE TypeOK' /\ Control'
  OBVIOUS
<1>1. ASSUME NEW w \in Running, Step(w) PROVE TypeOK' /\ Control'
  BY <1>1, LockKeeps, AllocateKeeps, RefillTestKeeps, RefillMoveKeeps, BatchKeeps,
     MarkKeeps, RecycleKeeps, FreeKeeps, ListBeginKeeps, IterNextKeeps, ListEndKeeps DEF Step
<1>2. CASE worker_work_parallelly
  BY <1>2, WorkKeeps
<1>3. CASE worker_destroy
  BY <1>3, DestroyKeeps
<1>4. CASE UNCHANGED vars
  BY <1>4 DEF vars, TypeOK, Control, Nodes, Aborted, OnlyRunning, MutexHeld, HandUsed, Counted
<1> QED
  BY <1>1, <1>2, <1>3, <1>4 DEF Next

\* Every step of the allocator keeps the types of its state and what a worker
\* has established under the mutex: array_pop never meets an empty stack, and
\* only the holder of the mutex touches the stack of the allocator.
THEOREM UnderMutex == Spec => [](TypeOK /\ Control)
<1>1. Init => TypeOK /\ Control
  BY InitTypes, InitControl
<1>2. TypeOK /\ Control /\ [Next]_vars => (TypeOK /\ Control)'
  BY NextControl
<1> QED
  BY <1>1, <1>2, PTL DEF Spec

----------------------------------------------------------------------------
(* Every node has one owner. *)

StackOwner == <<"stack", Null>>
NetOwner == <<"net", Null>>
LostOwner == <<"lost", Null>>
WorkerOwner(w) == <<"worker", w>>
HandOwner(w) == <<"hand", w>>

Owners ==
  {StackOwner, NetOwner, LostOwner}
    \union {WorkerOwner(w) : w \in Workers} \union {HandOwner(w) : w \in Workers}

\* The nodes that an owner has.
Owned(o) ==
  CASE o[1] = "stack" -> Range(stack)
    [] o[1] = "worker" -> Range(free_node_stack[o[2]])
    [] o[1] = "hand" -> {hand[o[2]]} \ {Null}
    [] o[1] = "net" -> live
    [] o[1] = "lost" -> lost

Apart == \A o, p \in Owners : o # p => Owned(o) \intersect Owned(p) = {}
Covered == \A n \in Nodes : \E o \in Owners : n \in Owned(o)
OnceEach == IsInjective(stack) /\ \A w \in Workers : IsInjective(free_node_stack[w])

Partition == Apart /\ Covered /\ OnceEach

\* Owned, and different owners, spelled out.
LEMMA OwnedIs ==
  /\ Owned(StackOwner) = Range(stack)
  /\ Owned(NetOwner) = live
  /\ Owned(LostOwner) = lost
  /\ \A w : Owned(WorkerOwner(w)) = Range(free_node_stack[w])
  /\ \A w : Owned(HandOwner(w)) = {hand[w]} \ {Null}
BY DEF Owned, StackOwner, NetOwner, LostOwner, WorkerOwner, HandOwner

\* Owned after a step.
LEMMA OwnedIsNext ==
  /\ Owned(StackOwner)' = Range(stack')
  /\ Owned(NetOwner)' = live'
  /\ Owned(LostOwner)' = lost'
  /\ \A w : Owned(WorkerOwner(w))' = Range(free_node_stack'[w])
  /\ \A w : Owned(HandOwner(w))' = {hand'[w]} \ {Null}
BY DEF Owned, StackOwner, NetOwner, LostOwner, WorkerOwner, HandOwner

\* An owner whose part of the state stays keeps its nodes.
LEMMA Unmoved ==
  ASSUME NEW o \in Owners,
         o = StackOwner => stack' = stack,
         o = NetOwner => live' = live,
         o = LostOwner => lost' = lost,
         \A v \in Workers : o = WorkerOwner(v) => free_node_stack'[v] = free_node_stack[v],
         \A v \in Workers : o = HandOwner(v) => hand'[v] = hand[v]
  PROVE  Owned(o)' = Owned(o)
<1>1. CASE o = StackOwner
  BY <1>1, OwnedIs, OwnedIsNext
<1>2. CASE o = NetOwner
  BY <1>2, OwnedIs, OwnedIsNext
<1>3. CASE o = LostOwner
  BY <1>3, OwnedIs, OwnedIsNext
<1>4. ASSUME NEW v \in Workers, o = WorkerOwner(v) PROVE Owned(o)' = Owned(o)
  BY <1>4, OwnedIs, OwnedIsNext
<1>5. ASSUME NEW v \in Workers, o = HandOwner(v) PROVE Owned(o)' = Owned(o)
  BY <1>5, OwnedIs, OwnedIsNext
<1> QED
  BY <1>1, <1>2, <1>3, <1>4, <1>5 DEF Owners

\* No two owners are the same.
LEMMA OwnersDiffer ==
  /\ StackOwner # NetOwner /\ StackOwner # LostOwner /\ NetOwner # LostOwner
  /\ \A w : /\ WorkerOwner(w) \notin {StackOwner, NetOwner, LostOwner}
            /\ HandOwner(w) \notin {StackOwner, NetOwner, LostOwner}
  /\ \A v, w : /\ WorkerOwner(v) # HandOwner(w)
               /\ WorkerOwner(v) = WorkerOwner(w) => v = w
               /\ HandOwner(v) = HandOwner(w) => v = w
BY DEF StackOwner, NetOwner, LostOwner, WorkerOwner, HandOwner

\* A node that goes from one owner to another one still has one owner.
LEMMA Moved ==
  ASSUME Apart, Covered, node_count' = node_count,
         NEW a \in Owners, NEW b \in Owners, a # b, NEW n \in Owned(a),
         Owned(a)' = Owned(a) \ {n}, Owned(b)' = Owned(b) \union {n},
         \A o \in Owners \ {a, b} : Owned(o)' = Owned(o)
  PROVE  Apart' /\ Covered'
<1>1. Apart'
  BY DEF Apart
<1>2. Covered'
  BY DEF Covered, Nodes
<1> QED
  BY <1>1, <1>2

\* Nothing moves when every owner has what it had.
LEMMA NothingMoved ==
  ASSUME Partition, node_count' = node_count,
         UNCHANGED <<stack, free_node_stack, live, lost>>,
         \A w \in Workers : hand'[w] = hand[w]
  PROVE  Partition'
<1>1. \A o \in Owners : Owned(o)' = Owned(o)
  BY Unmoved
<1>2. Apart' /\ Covered'
  BY <1>1 DEF Partition, Apart, Covered, Nodes
<1>3. OnceEach'
  BY DEF Partition, OnceEach
<1> QED
  BY <1>2, <1>3 DEF Partition

\* A node moves from a private stack to the hand of its worker.
LEMMA PopFreePartition ==
  ASSUME TypeOK, Partition, NEW w \in Workers, PopFree(w), hand[w] = Null,
         UNCHANGED <<node_count, stack, live, lost>>
  PROVE  Partition'
<1>1. CASE free_node_stack[w] = <<>>
  BY <1>1, NothingMoved DEF PopFree
<1>2. CASE free_node_stack[w] # <<>>
  <2> DEFINE n == Last(free_node_stack[w])
  <2>1. /\ free_node_stack' = [free_node_stack EXCEPT ![w] = Front(@)]
        /\ hand' = [hand EXCEPT ![w] = n]
        /\ free_node_stack[w] \in Seq(Nodes) /\ IsInjective(free_node_stack[w])
    BY <1>2 DEF PopFree, TypeOK, Partition, OnceEach
  <2>2. /\ IsInjective(Front(free_node_stack[w])) /\ n \in Range(free_node_stack[w])
        /\ Range(Front(free_node_stack[w])) = Range(free_node_stack[w]) \ {n}
    BY <1>2, <2>1, PopRange
  <2>3. n \in Nodes /\ n # Null
    <3>1. n \in Nodes
      BY <1>2, <2>1, FrontFacts
    <3> QED
      BY <3>1, WorkersAssumption DEF Nodes, TypeOK
  <2> HIDE DEF n
  <2>4. /\ Owned(WorkerOwner(w))' = Owned(WorkerOwner(w)) \ {n}
        /\ Owned(HandOwner(w))' = Owned(HandOwner(w)) \union {n}
        /\ n \in Owned(WorkerOwner(w))
    BY <2>1, <2>2, <2>3, OwnedIs, OwnedIsNext DEF TypeOK
  <2>5. \A o \in Owners \ {WorkerOwner(w), HandOwner(w)} : Owned(o)' = Owned(o)
    BY <2>1, Unmoved DEF TypeOK
  <2>6. /\ WorkerOwner(w) \in Owners /\ HandOwner(w) \in Owners
        /\ WorkerOwner(w) # HandOwner(w)
    BY OwnersDiffer DEF Owners
  <2>7. Apart' /\ Covered'
    BY <2>4, <2>5, <2>6, Moved DEF Partition
  <2>8. OnceEach'
    BY <2>1, <2>2 DEF Partition, OnceEach, TypeOK
  <2> QED
    BY <2>7, <2>8 DEF Partition
<1> QED
  BY <1>1, <1>2

\* A node moves from the shared stack to a private one.
LEMMA RefillMovePartition ==
  ASSUME TypeOK, Control, Partition, NEW w \in Workers, RefillMove(w)
  PROVE  Partition'
<1> DEFINE n == Last(stack)
<1>1. stack # <<>> /\ stack \in Seq(Nodes) /\ IsInjective(stack)
      /\ free_node_stack[w] \in Seq(Nodes) /\ IsInjective(free_node_stack[w])
  BY DEF RefillMove, Control, Counted, TypeOK, Partition, OnceEach
<1>2. /\ stack' = Front(stack)
      /\ free_node_stack' = [free_node_stack EXCEPT ![w] = Append(@, n)]
      /\ UNCHANGED <<node_count, live, hand, lost>>
  BY <1>1 DEF RefillMove, global
<1>3. /\ IsInjective(Front(stack)) /\ n \in Range(stack)
      /\ Range(Front(stack)) = Range(stack) \ {n}
  BY <1>1, PopRange
<1>4. n \in Nodes
  BY <1>1, FrontFacts
<1> HIDE DEF n
<1>5. StackOwner \in Owners /\ WorkerOwner(w) \in Owners /\ StackOwner # WorkerOwner(w)
  BY OwnersDiffer DEF Owners
<1>6. n \notin Range(free_node_stack[w])
  BY <1>3, <1>5, OwnedIs DEF Partition, Apart
<1>7. /\ Range(Append(free_node_stack[w], n)) = Range(free_node_stack[w]) \union {n}
      /\ IsInjective(Append(free_node_stack[w], n))
  BY <1>1, <1>4, <1>6, PushRange
<1>8. /\ Owned(StackOwner)' = Owned(StackOwner) \ {n}
      /\ Owned(WorkerOwner(w))' = Owned(WorkerOwner(w)) \union {n}
      /\ n \in Owned(StackOwner)
  BY <1>2, <1>3, <1>7, OwnedIs, OwnedIsNext DEF TypeOK
<1>9. \A o \in Owners \ {StackOwner, WorkerOwner(w)} : Owned(o)' = Owned(o)
  BY <1>2, Unmoved DEF TypeOK
<1>10. Apart' /\ Covered'
  BY <1>2, <1>5, <1>8, <1>9, Moved DEF Partition
<1>11. OnceEach'
  BY <1>2, <1>3, <1>7 DEF Partition, OnceEach, TypeOK
<1> QED
  BY <1>10, <1>11 DEF Partition

\* A new node has no owner before it is pushed.
LEMMA BatchPartition ==
  ASSUME TypeOK, Partition, NEW w \in Workers, prepare_one_batch_of_nodes(w)
  PROVE  Partition'
<1>1. UNCHANGED <<free_node_stack, live, hand, lost>>
  BY DEF prepare_one_batch_of_nodes, global
<1>2. CASE ~(count[w] < batch_size)
  BY <1>1, <1>2, NothingMoved DEF prepare_one_batch_of_nodes
<1>3. CASE count[w] < batch_size
  <2> DEFINE n == node_count + 1
  <2>1. /\ node_count' = n /\ stack' = Append(stack, n)
        /\ n \notin Nodes /\ Nodes' = Nodes \union {n}
    BY <1>3 DEF prepare_one_batch_of_nodes, Nodes, TypeOK
  <2>2. stack \in Seq(Nodes') /\ n \in Nodes'
    BY <2>1, SeqGrows DEF TypeOK
  <2>3. Range(stack) \subseteq Nodes /\ \A v \in Workers : Range(free_node_stack[v]) \subseteq Nodes
    BY DEF Range, TypeOK
  <2> HIDE DEF n
  <2>4. Range(stack') = Range(stack) \union {n} /\ IsInjective(stack')
    BY <2>1, <2>2, <2>3, PushRange DEF Partition, OnceEach
  <2>5. n # Null
    BY <2>2, WorkersAssumption DEF Nodes
  <2>6. \A o \in Owners : n \notin Owned(o)
    BY <2>1, <2>3, <2>5, OwnedIs DEF Owners, TypeOK
  <2>7. StackOwner \in Owners /\ Owned(StackOwner)' = Owned(StackOwner) \union {n}
    BY <2>4, OwnedIs, OwnedIsNext DEF Owners
  <2>8. \A o \in Owners \ {StackOwner} : Owned(o)' = Owned(o)
    BY <1>1, Unmoved
  <2>9. Apart'
    BY <2>6, <2>7, <2>8 DEF Partition, Apart
  <2>10. Covered'
    BY <2>1, <2>7, <2>8 DEF Partition, Covered
  <2> QED
    BY <1>1, <2>4, <2>9, <2>10 DEF Partition, OnceEach
<1> QED
  BY <1>2, <1>3

\* A node moves from the hand of a worker to the net.
LEMMA MarkPartition ==
  ASSUME TypeOK, Control, Partition, NEW w \in Workers, MarkAllocated(w)
  PROVE  Partition'
<1>1. /\ hand[w] # Null
      /\ live' = live \union {hand[w]} /\ hand' = [hand EXCEPT ![w] = Null]
      /\ UNCHANGED <<node_count, stack, free_node_stack, lost>>
  BY DEF MarkAllocated, Control, HandUsed, global
<1>2. HandOwner(w) \in Owners /\ NetOwner \in Owners /\ HandOwner(w) # NetOwner
  BY OwnersDiffer DEF Owners
<1>3. /\ Owned(HandOwner(w))' = Owned(HandOwner(w)) \ {hand[w]}
      /\ Owned(NetOwner)' = Owned(NetOwner) \union {hand[w]}
      /\ hand[w] \in Owned(HandOwner(w))
  BY <1>1, OwnedIs, OwnedIsNext DEF TypeOK
<1>4. \A o \in Owners \ {HandOwner(w), NetOwner} : Owned(o)' = Owned(o)
  BY <1>1, Unmoved DEF TypeOK
<1>5. Apart' /\ Covered'
  BY <1>1, <1>2, <1>3, <1>4, Moved DEF Partition
<1> QED
  BY <1>1, <1>5 DEF Partition, OnceEach

\* A node moves from the net to the private stack, or to the hand that
\* brings it to the shared one.
LEMMA RecyclePartition ==
  ASSUME TypeOK, Control, Partition, NEW w \in Workers, NEW n \in live,
         node_allocator_recycle(w, n)
  PROVE  Partition'
<1>1. /\ hand[w] = Null /\ live' = live \ {n}
      /\ UNCHANGED <<node_count, stack, lost>>
      /\ free_node_stack[w] \in Seq(Nodes) /\ IsInjective(free_node_stack[w])
  BY DEF node_allocator_recycle, Control, HandUsed, global, TypeOK, Partition, OnceEach
<1>2. n \in Nodes /\ n # Null
  BY WorkersAssumption DEF TypeOK, Nodes
<1>3. /\ HandOwner(w) \in Owners /\ NetOwner \in Owners /\ WorkerOwner(w) \in Owners
      /\ HandOwner(w) # NetOwner /\ WorkerOwner(w) # NetOwner
  BY OwnersDiffer DEF Owners
<1>4. n \in Owned(NetOwner) /\ Owned(NetOwner)' = Owned(NetOwner) \ {n}
  BY <1>1, OwnedIs, OwnedIsNext
<1>5. CASE Len(free_node_stack[w]) >= 2 * cache_size
  <2>1. hand' = [hand EXCEPT ![w] = n] /\ UNCHANGED free_node_stack
    BY <1>5 DEF node_allocator_recycle
  <2>2. Owned(HandOwner(w))' = Owned(HandOwner(w)) \union {n}
    BY <1>1, <1>2, <2>1, OwnedIs, OwnedIsNext DEF TypeOK
  <2>3. \A o \in Owners \ {NetOwner, HandOwner(w)} : Owned(o)' = Owned(o)
    BY <1>1, <2>1, Unmoved DEF TypeOK
  <2>4. Apart' /\ Covered'
    BY <1>1, <1>3, <1>4, <2>2, <2>3, Moved DEF Partition
  <2> QED
    BY <1>1, <2>1, <2>4 DEF Partition, OnceEach
<1>6. CASE ~(Len(free_node_stack[w]) >= 2 * cache_size)
  <2>1. free_node_stack' = [free_node_stack EXCEPT ![w] = Append(@, n)] /\ UNCHANGED hand
    BY <1>6 DEF node_allocator_recycle
  <2>2. n \notin Range(free_node_stack[w])
    BY <1>3, <1>4, OwnedIs DEF Partition, Apart
  <2>3. /\ Range(Append(free_node_stack[w], n)) = Range(free_node_stack[w]) \union {n}
        /\ IsInjective(Append(free_node_stack[w], n))
    BY <1>1, <1>2, <2>2, PushRange
  <2>4. Owned(WorkerOwner(w))' = Owned(WorkerOwner(w)) \union {n}
    BY <2>1, <2>3, OwnedIs, OwnedIsNext DEF TypeOK
  <2>5. \A o \in Owners \ {NetOwner, WorkerOwner(w)} : Owned(o)' = Owned(o)
    BY <1>1, <2>1, Unmoved DEF TypeOK
  <2>6. Apart' /\ Covered'
    BY <1>1, <1>3, <1>4, <2>4, <2>5, Moved DEF Partition
  <2> QED
    BY <1>1, <2>1, <2>3, <2>6 DEF Partition, OnceEach, TypeOK
<1> QED
  BY <1>5, <1>6

\* A node moves from the private stack to the shared one, or, after the last,
\* from the hand to the private stack.
LEMMA FreePartition ==
  ASSUME TypeOK, Control, Partition, NEW w \in Workers, allocator_free(w)
  PROVE  Partition'
<1>1. /\ pc[w] = "flush" /\ hand[w] # Null /\ hand[w] \in Nodes
      /\ UNCHANGED <<node_count, live, lost>>
      /\ stack \in Seq(Nodes) /\ IsInjective(stack)
      /\ free_node_stack[w] \in Seq(Nodes) /\ IsInjective(free_node_stack[w])
  <2>1. pc[w] = "flush" /\ hand[w] # Null
    BY DEF allocator_free, Control, HandUsed
  <2> QED
    BY <2>1 DEF allocator_free, global, TypeOK, Partition, OnceEach
<1>2. /\ StackOwner \in Owners /\ WorkerOwner(w) \in Owners /\ HandOwner(w) \in Owners
      /\ StackOwner # WorkerOwner(w) /\ WorkerOwner(w) # HandOwner(w)
  BY OwnersDiffer DEF Owners
<1>3. CASE count[w] < cache_size
  <2> DEFINE n == Last(free_node_stack[w])
  <2>1. /\ stack' = Append(stack, n) /\ UNCHANGED hand
        /\ free_node_stack' = [free_node_stack EXCEPT ![w] = Front(@)]
    BY <1>3 DEF allocator_free
  <2>2. free_node_stack[w] # <<>>
    <3>1. Len(free_node_stack[w]) = 2 * cache_size - count[w] /\ count[w] \in Nat
      BY <1>1 DEF Control, Counted, TypeOK
    <3> QED
      BY <1>3, <3>1, SizeAssumption
  <2>3. n \in Nodes
    BY <1>1, <2>2, FrontFacts
  <2>4. /\ IsInjective(Front(free_node_stack[w])) /\ n \in Range(free_node_stack[w])
        /\ Range(Front(free_node_stack[w])) = Range(free_node_stack[w]) \ {n}
    BY <1>1, <2>2, PopRange
  <2> HIDE DEF n
  <2>5. n \notin Range(stack)
    BY <1>2, <2>4, OwnedIs DEF Partition, Apart
  <2>6. Range(stack') = Range(stack) \union {n} /\ IsInjective(stack')
    BY <1>1, <2>1, <2>3, <2>5, PushRange
  <2>7. /\ Owned(WorkerOwner(w))' = Owned(WorkerOwner(w)) \ {n}
        /\ Owned(StackOwner)' = Owned(StackOwner) \union {n}
        /\ n \in Owned(WorkerOwner(w))
    BY <2>1, <2>4, <2>6, OwnedIs, OwnedIsNext DEF TypeOK
  <2>8. \A o \in Owners \ {WorkerOwner(w), StackOwner} : Owned(o)' = Owned(o)
    BY <1>1, <2>1, Unmoved DEF TypeOK
  <2>9. Apart' /\ Covered'
    BY <1>1, <1>2, <2>7, <2>8, Moved DEF Partition
  <2> QED
    BY <2>1, <2>4, <2>6, <2>9 DEF Partition, OnceEach, TypeOK
<1>4. CASE ~(count[w] < cache_size)
  <2> DEFINE n == hand[w]
  <2>1. /\ UNCHANGED stack /\ hand' = [hand EXCEPT ![w] = Null]
        /\ free_node_stack' = [free_node_stack EXCEPT ![w] = Append(@, n)]
    BY <1>4 DEF allocator_free
  <2>2. n \in Owned(HandOwner(w))
    BY <1>1, OwnedIs
  <2>3. n \notin Range(free_node_stack[w])
    BY <1>2, <2>2, OwnedIs DEF Partition, Apart
  <2>4. /\ Range(Append(free_node_stack[w], n)) = Range(free_node_stack[w]) \union {n}
        /\ IsInjective(Append(free_node_stack[w], n))
    BY <1>1, <2>3, PushRange
  <2>5. /\ Owned(HandOwner(w))' = Owned(HandOwner(w)) \ {n}
        /\ Owned(WorkerOwner(w))' = Owned(WorkerOwner(w)) \union {n}
    BY <1>1, <2>1, <2>4, OwnedIs, OwnedIsNext DEF TypeOK
  <2>6. \A o \in Owners \ {HandOwner(w), WorkerOwner(w)} : Owned(o)' = Owned(o)
    BY <1>1, <2>1, Unmoved DEF TypeOK
  <2>7. Apart' /\ Covered'
    BY <1>1, <1>2, <2>2, <2>5, <2>6, Moved DEF Partition
  <2> QED
    BY <2>1, <2>4, <2>7 DEF Partition, OnceEach, TypeOK
<1> QED
  BY <1>3, <1>4

\* What the workers of a scheduler had is lost with them.
LEMMA DestroyPartition ==
  ASSUME TypeOK, Partition, worker_destroy
  PROVE  Partition'
<1>1. /\ UNCHANGED <<node_count, stack, live, hand>>
      /\ free_node_stack' = [w \in Workers |-> IF w \in Hands THEN <<>> ELSE free_node_stack[w]]
      /\ lost' = lost \union UNION {Range(free_node_stack[w]) : w \in Hands}
  BY DEF worker_destroy
<1>2. \A w \in Hands : w \in Workers /\ WorkerOwner(w) \in Owners
  BY DEF Workers, Owners
<1>3. Range(<<>>) = {} /\ IsInjective(<<>>)
  BY DEF Range, IsInjective
<1>4. \A w \in Hands : Owned(WorkerOwner(w))' = {}
  BY <1>1, <1>2, <1>3, OwnedIsNext
<1>5. Owned(LostOwner)' = Owned(LostOwner) \union UNION {Owned(WorkerOwner(w)) : w \in Hands}
  BY <1>1, OwnedIs, OwnedIsNext
<1>6. LostOwner \in Owners /\ \A w \in Hands : WorkerOwner(w) # LostOwner
  BY OwnersDiffer DEF Owners
<1>7. \A o \in Owners : o # LostOwner /\ (\A w \in Hands : o # WorkerOwner(w))
                          => Owned(o)' = Owned(o)
  BY <1>1, Unmoved
<1>8. ASSUME NEW o \in Owners, NEW p \in Owners, o # p, NEW n \in Owned(o)', n \in Owned(p)'
      PROVE  FALSE
  <2>1. \A q \in Owners : n \in Owned(q)' => \/ q # LostOwner /\ n \in Owned(q)
                                                /\ \A w \in Hands : q # WorkerOwner(w)
                                             \/ q = LostOwner
                                                /\ (n \in Owned(q) \/ \E w \in Hands : n \in Owned(WorkerOwner(w)))
    BY <1>4, <1>5, <1>7
  <2> QED
    BY <1>2, <1>6, <1>8, <2>1 DEF Partition, Apart
<1>9. ASSUME NEW n \in Nodes' PROVE \E o \in Owners : n \in Owned(o)'
  <2>1. PICK o \in Owners : n \in Owned(o)
    BY <1>1 DEF Partition, Covered, Nodes
  <2> QED
    BY <1>5, <1>6, <1>7, <2>1
<1>10. OnceEach'
  BY <1>1, <1>3 DEF Partition, OnceEach
<1> QED
  BY <1>8, <1>9, <1>10 DEF Partition, Apart, Covered

\* Every action moves at most one node, from one owner to another.
LEMMA NextPartition ==
  TypeOK /\ Control /\ Partition /\ [Next]_vars => Partition'
<1> SUFFICES ASSUME TypeOK, Control, Partition, [Next]_vars PROVE Partition'
  OBVIOUS
<1>1. ASSUME NEW w \in Running, Step(w) PROVE Partition'
  <2>0. w \in Workers
    BY RunningWorker
  <2>1. CASE mutex_lock(w) \/ ListBegin(w) \/ allocated_node_iter_next(w) \/ ListEnd(w)
    BY <2>1, NothingMoved DEF mutex_lock, ListBegin, allocated_node_iter_next, ListEnd, global
  <2>2. CASE node_allocator_allocate(w)
    <3>1. hand[w] = Null /\ UNCHANGED <<node_count, stack, live, lost>>
      BY <2>0, <2>2 DEF node_allocator_allocate, Control, HandUsed, global
    <3> QED
      BY <2>0, <2>2, <3>1, PopFreePartition, NothingMoved DEF node_allocator_allocate
  <2>3. CASE RefillTest(w)
    <3>1. hand[w] = Null /\ UNCHANGED <<node_count, stack, live, lost>>
      BY <2>0, <2>3 DEF RefillTest, Control, HandUsed, global
    <3> QED
      BY <2>0, <2>3, <3>1, PopFreePartition, NothingMoved DEF RefillTest
  <2> QED
    BY <1>1, <2>0, <2>1, <2>2, <2>3, RefillMovePartition, BatchPartition, MarkPartition,
       RecyclePartition, FreePartition DEF Step
<1>2. CASE worker_work_parallelly
  BY <1>2, NothingMoved DEF worker_work_parallelly
<1>3. CASE worker_destroy
  BY <1>3, DestroyPartition
<1>4. CASE UNCHANGED vars
  BY <1>4, NothingMoved DEF vars
<1> QED
  BY <1>1, <1>2, <1>3, <1>4 DEF Next

\* At first every node is in the stack of the allocator.
LEMMA InitPartition == Init => Partition
<1> SUFFICES ASSUME Init PROVE Partition
  OBVIOUS
<1>1. Range(stack) = Nodes /\ IsInjective(stack)
  BY DEF Init, Range, IsInjective, Nodes
<1>2. \A w \in Workers : Range(free_node_stack[w]) = {} /\ IsInjective(free_node_stack[w])
  BY DEF Init, Range, IsInjective
<1>3. Owned(StackOwner) = Nodes /\ \A o \in Owners \ {StackOwner} : Owned(o) = {}
  BY <1>1, <1>2, OwnedIs DEF Init, Owners
<1>4. Apart /\ Covered
  BY <1>3 DEF Apart, Covered, Owners
<1> QED
  BY <1>1, <1>2, <1>4 DEF Partition, OnceEach

\* One owner means one place.
LEMMA OnePlace ==
  ASSUME TypeOK, Partition, NEW n \in Nodes
  PROVE  Cardinality(Holders(n)) = 1
<1> DEFINE InStack == {<<"stack", i>> : i \in {i \in DOMAIN stack : stack[i] = n}}
           Of(w) == {<<"worker", w, i>> : i \in {i \in DOMAIN free_node_stack[w] :
                                                    free_node_stack[w][i] = n}}
           InWorkers == UNION {Of(w) : w \in Workers}
           InHand == {<<"hand", w>> : w \in {w \in Workers : hand[w] = n}}
           InNet == {<<"net", m>> : m \in live \intersect {n}}
           Lost == {<<"lost", m>> : m \in lost \intersect {n}}
<1>1. Holders(n) = InStack \union InWorkers \union InHand \union InNet \union Lost
  BY DEF Holders
<1>2. n # Null
  BY WorkersAssumption DEF TypeOK, Nodes
<1>3. PICK o \in Owners : n \in Owned(o)
  BY DEF Partition, Covered
<1>4. \A p \in Owners : p # o => n \notin Owned(p)
  BY <1>3 DEF Partition, Apart
<1>5. /\ StackOwner \in Owners /\ NetOwner \in Owners /\ LostOwner \in Owners
      /\ \A w \in Workers : WorkerOwner(w) \in Owners /\ HandOwner(w) \in Owners
  BY DEF Owners
<1>6. o # StackOwner => InStack = {}
  BY <1>4, <1>5, OwnedIs DEF Range
<1>7. \A w \in Workers : o # WorkerOwner(w) => Of(w) = {}
  BY <1>4, <1>5, OwnedIs DEF Range
<1>8. \A w \in Workers : o # HandOwner(w) => hand[w] # n
  BY <1>2, <1>4, <1>5, OwnedIs
<1>9. o # NetOwner => InNet = {}
  BY <1>4, <1>5, OwnedIs
<1>10. o # LostOwner => Lost = {}
  BY <1>4, <1>5, OwnedIs
<1>11. \E p : Holders(n) = {p}
  <2>1. CASE o = StackOwner
    <3>1. PICK i \in DOMAIN stack : stack[i] = n
      BY <1>3, <2>1, OwnedIs DEF Range
    <3>2. InStack = {<<"stack", i>>}
      BY <3>1 DEF Partition, OnceEach, IsInjective
    <3>3. InWorkers = {} /\ InHand = {} /\ InNet = {} /\ Lost = {}
      BY <1>7, <1>8, <1>9, <1>10, <2>1, OwnersDiffer
    <3> QED
      BY <1>1, <3>2, <3>3
  <2>2. CASE o = NetOwner
    <3>1. InNet = {<<"net", n>>}
      BY <1>3, <2>2, OwnedIs
    <3>2. InWorkers = {} /\ InHand = {} /\ InStack = {} /\ Lost = {}
      BY <1>6, <1>7, <1>8, <1>10, <2>2, OwnersDiffer
    <3> QED
      BY <1>1, <3>1, <3>2
  <2>3. CASE o = LostOwner
    <3>1. Lost = {<<"lost", n>>}
      BY <1>3, <2>3, OwnedIs
    <3>2. InWorkers = {} /\ InHand = {} /\ InStack = {} /\ InNet = {}
      BY <1>6, <1>7, <1>8, <1>9, <2>3, OwnersDiffer
    <3> QED
      BY <1>1, <3>1, <3>2
  <2>4. ASSUME NEW w \in Workers, o = WorkerOwner(w) PROVE \E p : Holders(n) = {p}
    <3>1. PICK i \in DOMAIN free_node_stack[w] : free_node_stack[w][i] = n
      BY <1>3, <2>4, OwnedIs DEF Range
    <3>2. Of(w) = {<<"worker", w, i>>}
      BY <3>1 DEF Partition, OnceEach, IsInjective
    <3>3. \A v \in Workers : v # w => Of(v) = {}
      BY <1>7, <2>4, OwnersDiffer
    <3> HIDE DEF Of
    <3>4. InWorkers = {<<"worker", w, i>>}
      BY <3>2, <3>3
    <3>5. InStack = {} /\ InHand = {} /\ InNet = {} /\ Lost = {}
      BY <1>6, <1>8, <1>9, <1>10, <2>4, OwnersDiffer
    <3> QED
      BY <1>1, <3>4, <3>5
  <2>5. ASSUME NEW w \in Workers, o = HandOwner(w) PROVE \E p : Holders(n) = {p}
    <3>1. hand[w] = n /\ \A v \in Workers : hand[v] = n => v = w
      BY <1>3, <1>8, <2>5, OwnedIs, OwnersDiffer
    <3>2. InHand = {<<"hand", w>>}
      BY <3>1
    <3>3. InWorkers = {} /\ InStack = {} /\ InNet = {} /\ Lost = {}
      BY <1>6, <1>7, <1>9, <1>10, <2>5, OwnersDiffer
    <3> QED
      BY <1>1, <3>2, <3>3
  <2> QED
    BY <2>1, <2>2, <2>3, <2>4, <2>5 DEF Owners
<1> QED
  BY <1>11, FS_Singleton

\* However nodes are allocated, exchanged between the stacks, recycled and
\* lost, by any number of workers: a node is in exactly one place, so that none
\* is handed out twice.
THEOREM OneOwnerEach == Spec => []OneOwner
<1>1. Init => Partition
  BY InitPartition
<1>2. TypeOK /\ Control /\ Partition /\ [Next]_vars => Partition'
  BY NextPartition
<1>3. TypeOK /\ Control /\ Partition => OneOwner
  BY OnePlace DEF OneOwner, Control
<1> QED
  BY <1>1, <1>2, <1>3, UnderMutex, PTL DEF Spec

----------------------------------------------------------------------------
(* The listing of the allocated nodes. *)

Ascending(s) == \A i, j \in DOMAIN s : i < j => s[i] < s[j]

\* What a worker that lists the nodes has collected up to its cursor, whatever
\* the other workers mark and recycle meanwhile.
Listing(w) ==
  /\ pc[w] \notin {"list", "listed"} => listed[w] = <<>>
  /\ pc[w] = "list" =>
       /\ steady[w] \subseteq live /\ live \subseteq seen[w]
       /\ \A n \in steady[w] : n <= count[w] => n \in Range(listed[w])
       /\ \A i \in DOMAIN listed[w] : listed[w][i] <= count[w]
  /\ pc[w] = "listed" => steady[w] \subseteq Range(listed[w])
  /\ pc[w] \in {"list", "listed"} =>
       Range(listed[w]) \subseteq seen[w] /\ Ascending(listed[w])

ListInv == is_allocated = live /\ \A w \in Workers : Listing(w)

\* A step that has nothing to do with listings.
LEMMA ListingStays ==
  ASSUME ListInv, UNCHANGED <<live, is_allocated, listed, steady, seen>>,
         \A v \in Workers :
           \/ pc'[v] = pc[v] /\ count'[v] = count[v]
           \/ pc[v] \notin {"list", "listed"} /\ pc'[v] \notin {"list", "listed"}
  PROVE  ListInv'
<1>1. ASSUME NEW v \in Workers PROVE Listing(v)'
  BY DEF ListInv, Listing
<1> QED
  BY <1>1 DEF ListInv

\* A listing starts with nothing collected.
LEMMA LockListing ==
  ASSUME TypeOK, Control, ListInv, NEW w \in Workers, mutex_lock(w)
  PROVE  ListInv'
<1>1. /\ UNCHANGED <<node_count, stack, free_node_stack, is_allocated, live, hand, count,
                     listed>>
      /\ \A v \in Workers \ {w} : pc'[v] = pc[v]
  BY DEF mutex_lock, Goto, TypeOK, listing
<1>2. CASE pc[w] # "list_lock"
  <2>1. pc[w] \notin {"list", "listed"} /\ pc'[w] \notin {"list", "listed"}
        /\ UNCHANGED <<steady, seen>>
    BY <1>2 DEF mutex_lock, Goto, TypeOK, listing
  <2> QED
    BY <1>1, <2>1, ListingStays
<1>3. CASE pc[w] = "list_lock"
  <2>1. /\ pc'[w] = "list" /\ steady' = [steady EXCEPT ![w] = live]
        /\ seen' = [seen EXCEPT ![w] = live]
    BY <1>3 DEF mutex_lock, Goto, TypeOK
  <2>2. count[w] = 0 /\ listed[w] = <<>>
    BY <1>3 DEF Control, Counted, ListInv, Listing
  <2>3. Listing(w)'
    <3>1. steady'[w] = live /\ seen'[w] = live
      BY <2>1 DEF TypeOK
    <3>2. Range(<<>>) = {} /\ Ascending(<<>>)
      BY DEF Range, Ascending
    <3>3. \A n \in live : ~(n <= 0)
      BY DEF TypeOK, Nodes
    <3> QED
      BY <1>1, <2>1, <2>2, <3>1, <3>2, <3>3 DEF Listing
  <2>4. ASSUME NEW v \in Workers, v # w PROVE Listing(v)'
    BY <1>1, <2>1, <2>4 DEF ListInv, Listing, TypeOK
  <2> QED
    BY <1>1, <2>3, <2>4 DEF ListInv
<1> QED
  BY <1>2, <1>3

\* A node that is marked under a listing may be listed or not.
LEMMA MarkListing ==
  ASSUME TypeOK, ListInv, NEW w \in Workers, MarkAllocated(w)
  PROVE  ListInv'
<1>1. /\ pc[w] = "mark" /\ pc'[w] = "idle" /\ \A v \in Workers \ {w} : pc'[v] = pc[v]
      /\ UNCHANGED <<count, listed, steady>>
      /\ live' = live \union {hand[w]} /\ is_allocated' = is_allocated \union {hand[w]}
      /\ \A v \in Workers : seen'[v] = IF pc[v] = "list" THEN seen[v] \union {hand[w]} ELSE seen[v]
  BY DEF MarkAllocated, Goto, TypeOK
<1>2. ASSUME NEW v \in Workers PROVE Listing(v)'
  <2>1. CASE v = w
    BY <1>1, <2>1 DEF ListInv, Listing
  <2>2. CASE v # w
    BY <1>1, <2>2 DEF ListInv, Listing
  <2> QED
    BY <2>1, <2>2
<1> QED
  BY <1>1, <1>2 DEF ListInv

\* A node that is recycled under a listing may be listed or not.
LEMMA RecycleListing ==
  ASSUME TypeOK, ListInv, NEW w \in Workers, NEW n \in live, node_allocator_recycle(w, n)
  PROVE  ListInv'
<1>1. /\ pc[w] = "idle" /\ pc'[w] \notin {"list", "listed"}
      /\ \A v \in Workers \ {w} : pc'[v] = pc[v]
      /\ UNCHANGED <<count, listed, seen>>
      /\ live' = live \ {n} /\ is_allocated' = is_allocated \ {n}
      /\ \A v \in Workers : steady'[v] = steady[v] \ {n}
  BY DEF node_allocator_recycle, Goto, TypeOK
<1>2. ASSUME NEW v \in Workers PROVE Listing(v)'
  <2>1. CASE v = w
    BY <1>1, <2>1 DEF ListInv, Listing
  <2>2. CASE v # w
    BY <1>1, <2>2 DEF ListInv, Listing
  <2> QED
    BY <2>1, <2>2
<1> QED
  BY <1>1, <1>2 DEF ListInv

\* One more node is looked at; when the listing ends, it was the last one.
LEMMA IterNextListing ==
  ASSUME TypeOK, Control, ListInv, NEW w \in Workers, allocated_node_iter_next(w)
  PROVE  ListInv'
<1> DEFINE n == count[w] + 1
<1>1. /\ pc[w] = "list" /\ n \in Nat \ {0} /\ count'[w] = n /\ count[w] = n - 1
      /\ UNCHANGED <<node_count, live, is_allocated, steady, seen>>
      /\ \A v \in Workers \ {w} : count'[v] = count[v]
  <2>1. count \in [Workers -> Nat]
    BY DEF TypeOK
  <2> QED
    BY <2>1 DEF allocated_node_iter_next
<1>2. /\ is_allocated = live /\ steady[w] \subseteq live /\ live \subseteq seen[w]
      /\ \A m \in steady[w] : m <= count[w] => m \in Range(listed[w])
      /\ \A i \in DOMAIN listed[w] : listed[w][i] <= count[w]
      /\ Range(listed[w]) \subseteq seen[w] /\ Ascending(listed[w])
  BY <1>1 DEF ListInv, Listing
<1>3. /\ listed[w] \in Seq(Nodes) /\ Len(listed[w]) \in Nat
      /\ DOMAIN listed[w] = 1 .. Len(listed[w])
      /\ \A m \in live : m \in Nat /\ m <= node_count
      /\ \A i \in 1 .. Len(listed[w]) : listed[w][i] \in Nat
      /\ node_count \in Nat
  <2>1. listed[w] \in Seq(Nodes) /\ live \subseteq Nodes /\ node_count \in Nat
    BY DEF TypeOK
  <2>2. Len(listed[w]) \in Nat /\ DOMAIN listed[w] = 1 .. Len(listed[w])
    BY <2>1
  <2>3. \A i \in 1 .. Len(listed[w]) : listed[w][i] \in Nodes
    BY <2>1, <2>2
  <2>4. \A m \in Nodes : m \in Nat /\ m <= node_count
    BY <2>1 DEF Nodes
  <2> QED
    BY ONLY <2>1, <2>2, <2>3, <2>4
<1>4. CASE n \in is_allocated
  <2>1. /\ listed' = [listed EXCEPT ![w] = Append(@, n)] /\ UNCHANGED pc
    BY <1>4 DEF allocated_node_iter_next
  <2>2. n \in Nodes
    BY <1>4 DEF TypeOK
  <2> HIDE DEF n
  <2>3. /\ Range(Append(listed[w], n)) = Range(listed[w]) \union {n}
        /\ Len(Append(listed[w], n)) = Len(listed[w]) + 1
        /\ Append(listed[w], n) \in Seq(Nodes)
        /\ \A i \in 1 .. Len(listed[w]) : Append(listed[w], n)[i] = listed[w][i]
        /\ Append(listed[w], n)[Len(listed[w]) + 1] = n
    BY <1>3, <2>2, AppendFacts, PushRange
  <2>4. DOMAIN Append(listed[w], n) = 1 .. Len(listed[w]) + 1
    BY <2>3
  <2>5. \A i \in DOMAIN Append(listed[w], n) : Append(listed[w], n)[i] <= n
    BY <1>1, <1>2, <1>3, <2>3, <2>4
  <2>6. Ascending(Append(listed[w], n))
    BY <1>1, <1>2, <1>3, <2>3, <2>4 DEF Ascending
  <2>7. \A m \in steady[w] : m <= n => m \in Range(Append(listed[w], n))
    BY <1>1, <1>2, <1>3, <2>3
  <2>8. listed'[w] = Append(listed[w], n) /\ \A v \in Workers \ {w} : listed'[v] = listed[v]
    BY <2>1 DEF TypeOK
  <2>9. Listing(w)'
    BY <1>1, <1>2, <1>4, <2>1, <2>3, <2>5, <2>6, <2>7, <2>8 DEF Listing
  <2>10. ASSUME NEW v \in Workers, v # w PROVE Listing(v)'
    BY <1>1, <2>1, <2>8, <2>10 DEF ListInv, Listing
  <2> QED
    BY <1>1, <1>2, <2>9, <2>10 DEF ListInv
<1>5. CASE n \notin is_allocated
  <2>1. /\ UNCHANGED listed
        /\ \A v \in Workers \ {w} : pc'[v] = pc[v]
        /\ \/ pc'[w] = "list"
           \/ pc'[w] = "listed" /\ n >= node_count
    BY <1>1, <1>5 DEF allocated_node_iter_next, Goto, TypeOK
  <2> HIDE DEF n
  <2>2. \A m \in steady[w] : m <= n => m \in Range(listed[w])
    BY <1>1, <1>2, <1>3, <1>5
  <2>3. \A i \in DOMAIN listed[w] : listed[w][i] <= n
    BY <1>1, <1>2, <1>3
  <2>4. n >= node_count => steady[w] \subseteq Range(listed[w])
    BY <1>1, <1>2, <1>3, <2>2
  <2>5. Listing(w)'
    BY <1>1, <1>2, <2>1, <2>2, <2>3, <2>4 DEF Listing
  <2>6. ASSUME NEW v \in Workers, v # w PROVE Listing(v)'
    BY <1>1, <2>1, <2>6 DEF ListInv, Listing
  <2> QED
    BY <1>1, <1>2, <2>5, <2>6 DEF ListInv
<1> QED
  BY <1>4, <1>5

\* The listing is forgotten.
LEMMA ListEndListing ==
  ASSUME TypeOK, ListInv, NEW w \in Workers, ListEnd(w)
  PROVE  ListInv'
<1>1. /\ pc'[w] = "idle" /\ listed'[w] = <<>> /\ UNCHANGED <<live, is_allocated>>
      /\ \A v \in Workers \ {w} : /\ pc'[v] = pc[v] /\ listed'[v] = listed[v]
                                  /\ count'[v] = count[v] /\ steady'[v] = steady[v]
                                  /\ seen'[v] = seen[v]
  BY DEF ListEnd, Goto, TypeOK
<1>2. Listing(w)'
  BY <1>1 DEF Listing
<1>3. ASSUME NEW v \in Workers, v # w PROVE Listing(v)'
  BY <1>1, <1>3 DEF ListInv, Listing
<1> QED
  BY <1>1, <1>2, <1>3 DEF ListInv

\* Every action keeps what the listings under way know.
LEMMA NextListing ==
  TypeOK /\ Control /\ ListInv /\ [Next]_vars => ListInv'
<1> SUFFICES ASSUME TypeOK, Control, ListInv, [Next]_vars PROVE ListInv'
  OBVIOUS
<1>1. ASSUME NEW w \in Running, Step(w) PROVE ListInv'
  <2>0. w \in Workers
    BY RunningWorker
  <2>1. CASE node_allocator_allocate(w) \/ RefillTest(w)
    <3>1. UNCHANGED <<live, is_allocated, listed, steady, seen>>
      BY <2>1 DEF node_allocator_allocate, RefillTest, listing
    <3>2. /\ pc[w] \notin {"list", "listed"} /\ pc'[w] \notin {"list", "listed"}
          /\ \A v \in Workers \ {w} : pc'[v] = pc[v] /\ count'[v] = count[v]
      BY <2>0, <2>1 DEF node_allocator_allocate, RefillTest, PopFree, Goto, TypeOK
    <3> QED
      BY <3>1, <3>2, ListingStays
  <2>2. CASE RefillMove(w) \/ prepare_one_batch_of_nodes(w) \/ allocator_free(w) \/ ListBegin(w)
    <3>1. UNCHANGED <<live, is_allocated, listed, steady, seen>>
      BY <2>2 DEF RefillMove, prepare_one_batch_of_nodes, allocator_free, ListBegin, listing
    <3>2. /\ pc[w] \notin {"list", "listed"} /\ pc'[w] \notin {"list", "listed"}
          /\ \A v \in Workers \ {w} : pc'[v] = pc[v] /\ count'[v] = count[v]
      BY <2>0, <2>2
         DEF RefillMove, prepare_one_batch_of_nodes, allocator_free, ListBegin, Goto, TypeOK
    <3> QED
      BY <3>1, <3>2, ListingStays
  <2> QED
    BY <1>1, <2>0, <2>1, <2>2, LockListing, MarkListing, RecycleListing, IterNextListing,
       ListEndListing DEF Step
<1>2. CASE worker_work_parallelly \/ worker_destroy
  BY <1>2, ListingStays DEF worker_work_parallelly, worker_destroy, listing
<1>3. CASE UNCHANGED vars
  BY <1>3, ListingStays DEF vars
<1> QED
  BY <1>1, <1>2, <1>3 DEF Next

\* allocated_node_array returns, in order, every node that was in the net all
\* the time and none that never was, whatever is marked and recycled meanwhile.
THEOREM ListingsAreExact == Spec => []ListingExact
<1>1. Init => ListInv
  BY DEF Init, ListInv, Listing
<1>2. TypeOK /\ Control /\ ListInv /\ [Next]_vars => ListInv'
  BY NextListing
<1>3. TypeOK /\ ListInv => ListingExact
  <2>1. ASSUME TypeOK, ListInv, NEW w \in Workers, pc[w] = "listed"
        PROVE  /\ steady[w] \subseteq Range(listed[w]) /\ Range(listed[w]) \subseteq seen[w]
               /\ \A i, j \in DOMAIN listed[w] : i < j => listed[w][i] < listed[w][j]
    BY <2>1 DEF ListInv, Listing, Ascending
  <2> QED
    BY <2>1 DEF ListingExact
<1> QED
  BY <1>1, <1>2, <1>3, UnderMutex, PTL DEF Spec

----------------------------------------------------------------------------
(* How many nodes there can be. *)

\* A set has no more images than elements.
LEMMA ImageBound ==
  ASSUME NEW D, IsFiniteSet(D), NEW f, NEW T, T = {f[x] : x \in D}
  PROVE  IsFiniteSet(T) /\ Cardinality(T) <= Cardinality(D)
<1> DEFINE g == [x \in D |-> f[x]]
<1>1. g \in Surjection(D, T)
  BY DEF Surjection
<1> HIDE DEF g
<1> QED
  BY ONLY <1>1, IsFiniteSet(D), FS_Surjection

\* A part is no larger, and two parts together no larger than their sum.
LEMMA UnionBound ==
  ASSUME NEW S, IsFiniteSet(S), NEW T, IsFiniteSet(T)
  PROVE  /\ IsFiniteSet(S \union T) /\ Cardinality(S \union T) \in Nat
         /\ Cardinality(S \union T) <= Cardinality(S) + Cardinality(T)
         /\ Cardinality(S) \in Nat /\ Cardinality(T) \in Nat
<1>1. /\ IsFiniteSet(S \union T) /\ IsFiniteSet(S \intersect T)
      /\ Cardinality(S \union T) = Cardinality(S) + Cardinality(T) - Cardinality(S \intersect T)
  BY FS_Union, FS_Intersection
<1>2. /\ Cardinality(S) \in Nat /\ Cardinality(T) \in Nat /\ Cardinality(S \union T) \in Nat
      /\ Cardinality(S \intersect T) \in Nat
  BY <1>1, FS_CardinalityType
<1> QED
  BY <1>1, <1>2

\* Stacks of bounded length hold a bounded number of nodes.
LEMMA StacksBound ==
  ASSUME NEW W, IsFiniteSet(W), NEW k \in Nat, NEW S, NEW F,
         \A v \in W : F[v] \in Seq(S) /\ Len(F[v]) <= k
  PROVE  /\ IsFiniteSet(UNION {Range(F[v]) : v \in W})
         /\ Cardinality(UNION {Range(F[v]) : v \in W}) <= Cardinality(W) * k
<1> DEFINE D == W \X (1 .. k)
           E == {p \in D : p[2] \in DOMAIN F[p[1]]}
           f == [p \in D |-> F[p[1]][p[2]]]
           T == {f[p] : p \in E}
<1>1. IsFiniteSet(D) /\ Cardinality(D) = Cardinality(W) * k
  <2>1. IsFiniteSet(1 .. k) /\ Cardinality(1 .. k) = k
    BY FS_Interval
  <2> QED
    BY <2>1, FS_Product
<1>2. T = UNION {Range(F[v]) : v \in W}
  <2>1. ASSUME NEW v \in W, NEW i \in DOMAIN F[v] PROVE <<v, i>> \in E /\ f[<<v, i>>] = F[v][i]
    OBVIOUS
  <2>2. \A p \in E : p[1] \in W /\ p[2] \in DOMAIN F[p[1]] /\ f[p] = F[p[1]][p[2]]
    OBVIOUS
  <2> HIDE DEF E, f
  <2>3. ASSUME NEW x PROVE x \in T <=> x \in UNION {Range(F[v]) : v \in W}
    <3>1. x \in UNION {Range(F[v]) : v \in W} <=> \E v \in W : \E i \in DOMAIN F[v] : x = F[v][i]
      BY DEF Range
    <3>2. x \in T <=> \E p \in E : x = f[p]
      OBVIOUS
    <3>3. ASSUME NEW p \in E, x = f[p] PROVE \E v \in W : \E i \in DOMAIN F[v] : x = F[v][i]
      BY <2>2, <3>3
    <3>4. ASSUME NEW v \in W, NEW i \in DOMAIN F[v], x = F[v][i] PROVE \E p \in E : x = f[p]
      BY <2>1, <3>4
    <3> QED
      BY <3>1, <3>2, <3>3, <3>4
  <2> HIDE DEF T
  <2> QED
    BY <2>3
<1>3. IsFiniteSet(E) /\ Cardinality(E) <= Cardinality(D) /\ Cardinality(E) \in Nat
  BY <1>1, FS_Subset, FS_CardinalityType
<1> HIDE DEF D, E, f
<1>4. IsFiniteSet(T) /\ Cardinality(T) <= Cardinality(E)
  BY <1>3, ImageBound
<1>5. Cardinality(T) \in Nat /\ Cardinality(D) \in Nat
  BY <1>1, <1>4, FS_CardinalityType
<1> HIDE DEF T
<1>6. Cardinality(T) <= Cardinality(W) * k
  BY <1>1, <1>3, <1>4, <1>5
<1> QED
  BY <1>2, <1>4, <1>6

\* There is one worker more than the scheduler has.
LEMMA WorkerCounts ==
  /\ IsFiniteSet(Workers) /\ Cardinality(Hands) \in Nat \ {0}
  /\ \A w \in Workers : /\ IsFiniteSet(Workers \ {w})
                        /\ Cardinality(Workers \ {w}) = Cardinality(Hands)
  /\ \A w \in Workers : \A x \in Workers \ {w} :
       /\ IsFiniteSet(Workers \ {w, x})
       /\ Cardinality(Workers \ {w, x}) = Cardinality(Hands) - 1
<1>1. IsFiniteSet(Hands) /\ Hands # {} /\ Loader \notin Hands
  BY WorkersAssumption
<1>2. Cardinality(Hands) \in Nat \ {0}
  BY <1>1, FS_CardinalityType, FS_EmptySet
<1>3. IsFiniteSet(Workers) /\ Cardinality(Workers) = Cardinality(Hands) + 1
  BY <1>1, FS_AddElement DEF Workers
<1>4. ASSUME NEW w \in Workers
      PROVE  IsFiniteSet(Workers \ {w}) /\ Cardinality(Workers \ {w}) = Cardinality(Hands)
  BY <1>2, <1>3, FS_RemoveElement
<1>5. ASSUME NEW w \in Workers, NEW x \in Workers \ {w}
      PROVE  /\ IsFiniteSet(Workers \ {w, x})
             /\ Cardinality(Workers \ {w, x}) = Cardinality(Hands) - 1
  <2>1. Workers \ {w, x} = (Workers \ {w}) \ {x}
    OBVIOUS
  <2> QED
    BY <1>4, <2>1, FS_RemoveElement
<1> QED
  BY <1>2, <1>3, <1>4, <1>5

\* The nodes that are not in the stack of the allocator: what the net has, what
\* is lost, and what the other workers hold, of which one has nothing in hand.
LEMMA OutsideBound ==
  ASSUME TypeOK, Control, Partition, NEW w \in Running, stack = <<>>,
         free_node_stack[w] = <<>>, hand[w] = Null
  PROVE  node_count <= Cardinality(live) + Cardinality(lost)
                         + Cardinality(Hands) * (2 * cache_size) + Cardinality(Hands) - 1
<1> DEFINE W == Workers \ {w}
           F == UNION {Range(free_node_stack[v]) : v \in W}
<1>1. w \in Workers /\ (phase = "load" => w = Loader) /\ (phase = "work" => w \in Hands)
  BY RunningWorker
<1>2. PICK x \in W : hand[x] = Null
  <2>1. CASE phase = "load"
    <3>1. PICK v \in Hands : v \in Workers /\ v # w
      BY <1>1, <2>1, WorkersAssumption DEF Workers
    <3>2. hand[v] = Null
      BY <2>1, <3>1 DEF Control, OnlyRunning, HandUsed
    <3> QED
      BY <3>1, <3>2
  <2>2. CASE phase = "work"
    <3>1. Loader \in W
      BY <1>1, <2>2, WorkersAssumption DEF Workers
    <3>2. hand[Loader] = Null
      BY <2>2, <3>1 DEF Control, OnlyRunning, HandUsed
    <3> QED
      BY <3>1, <3>2
  <2> QED
    BY <2>1, <2>2 DEF TypeOK
<1> DEFINE V == Workers \ {w, x}
           H == {hand[v] : v \in V}
<1>3. Nodes \subseteq (live \union lost) \union (F \union H)
  <2>1. ASSUME NEW n \in Nodes PROVE n \in (live \union lost) \union (F \union H)
    <3>1. PICK o \in Owners : n \in Owned(o)
      BY DEF Partition, Covered
    <3>2. o # StackOwner
      BY <3>1, OwnedIs DEF Range
    <3>3. ASSUME NEW v \in Workers, o = WorkerOwner(v) PROVE n \in F
      BY <3>1, <3>3, OwnedIs DEF Range
    <3>4. ASSUME NEW v \in Workers, o = HandOwner(v) PROVE n \in H
      BY <1>2, <3>1, <3>4, OwnedIs
    <3> QED
      BY <3>1, <3>2, <3>3, <3>4, OwnedIs DEF Owners
  <2> QED
    BY <2>1
<1>4. IsFiniteSet(Nodes) /\ Cardinality(Nodes) = node_count /\ node_count \in Nat
  BY FS_Interval DEF TypeOK, Nodes
<1>5. IsFiniteSet(live) /\ IsFiniteSet(lost)
  BY <1>4, FS_Subset DEF TypeOK
<1>6. IsFiniteSet(F) /\ Cardinality(F) <= Cardinality(Hands) * (2 * cache_size)
  <2>1. IsFiniteSet(W) /\ Cardinality(W) = Cardinality(Hands)
    BY <1>1, WorkerCounts
  <2>2. \A v \in W : free_node_stack[v] \in Seq(Nodes) /\ Len(free_node_stack[v]) <= 2 * cache_size
    BY DEF TypeOK, Control, Counted
  <2>3. 2 * cache_size \in Nat
    BY SizeAssumption
  <2> HIDE DEF W
  <2>4. IsFiniteSet(F) /\ Cardinality(F) <= Cardinality(W) * (2 * cache_size)
    BY ONLY <2>1, <2>2, <2>3, StacksBound
  <2> QED
    BY <2>1, <2>4
<1>7. IsFiniteSet(H) /\ Cardinality(H) <= Cardinality(Hands) - 1
  <2>1. IsFiniteSet(V) /\ Cardinality(V) = Cardinality(Hands) - 1
    BY <1>1, <1>2, WorkerCounts
  <2> HIDE DEF V
  <2>2. IsFiniteSet(H) /\ Cardinality(H) <= Cardinality(V)
    BY ONLY <2>1, ImageBound
  <2> QED
    BY <2>1, <2>2
<1> HIDE DEF F, H, V, W
<1>8. /\ IsFiniteSet(live \union lost) /\ Cardinality(live \union lost) \in Nat
      /\ Cardinality(live \union lost) <= Cardinality(live) + Cardinality(lost)
      /\ Cardinality(live) \in Nat /\ Cardinality(lost) \in Nat
  BY <1>5, UnionBound
<1>9. /\ IsFiniteSet(F \union H) /\ Cardinality(F \union H) \in Nat
      /\ Cardinality(F \union H) <= Cardinality(F) + Cardinality(H)
      /\ Cardinality(F) \in Nat /\ Cardinality(H) \in Nat
  BY <1>6, <1>7, UnionBound
<1>10. /\ IsFiniteSet((live \union lost) \union (F \union H))
       /\ Cardinality((live \union lost) \union (F \union H)) \in Nat
       /\ Cardinality((live \union lost) \union (F \union H))
            <= Cardinality(live \union lost) + Cardinality(F \union H)
  BY <1>8, <1>9, UnionBound
<1>11. node_count <= Cardinality((live \union lost) \union (F \union H))
  BY <1>3, <1>4, <1>10, FS_Subset
<1>12. Cardinality(Hands) \in Nat /\ Cardinality(Hands) * (2 * cache_size) \in Nat
  BY WorkerCounts, SizeAssumption
<1> DEFINE S == Cardinality(live \union lost)
           T == Cardinality(F \union H)
           R == Cardinality(Hands) * (2 * cache_size)
<1>13. /\ S <= Cardinality(live) + Cardinality(lost) /\ S \in Nat
       /\ T <= R + Cardinality(Hands) - 1 /\ T \in Nat
       /\ node_count <= S + T
  <2>1. T <= Cardinality(F) + Cardinality(H) /\ T \in Nat
    BY <1>9
  <2>2. Cardinality(F) <= R /\ Cardinality(H) <= Cardinality(Hands) - 1
    BY <1>6, <1>7
  <2>3. node_count <= S + T
    <3>1. S \in Nat
      BY <1>8
    <3> DEFINE U == Cardinality((live \union lost) \union (F \union H))
    <3>2. U \in Nat /\ U <= S + T /\ node_count <= U
      BY <1>10, <1>11
    <3> HIDE DEF U, S, T
    <3> QED
      BY ONLY <1>4, <2>1, <3>1, <3>2
  <2>4. R \in Nat /\ Cardinality(F) \in Nat /\ Cardinality(H) \in Nat
    BY <1>9, <1>12
  <2>5. S <= Cardinality(live) + Cardinality(lost) /\ S \in Nat
    BY <1>8
  <2> HIDE DEF R, S, T
  <2> QED
    BY ONLY <1>12, <2>1, <2>2, <2>3, <2>4, <2>5
<1>14. R \in Nat
  BY <1>12
<1> HIDE DEF R, S, T
<1>15. node_count <= Cardinality(live) + Cardinality(lost) + R + Cardinality(Hands) - 1
  BY ONLY <1>4, <1>8, <1>12, <1>13, <1>14
<1> QED
  BY ONLY <1>15 DEF R

\* The nodes that the workers that found the stack empty are still to make.
Pending ==
  {p \in Workers \X (1 .. batch_size) :
     pc[p[1]] \in {"batch_lock", "batch"} /\ count[p[1]] < p[2]}

\* What n workers can hold in their stacks, and what they can make at one time.
Room == Cardinality(Hands) * (2 * cache_size)
Batches == Cardinality(Hands) * batch_size

Finished == IF phase = "work" THEN rounds - 1 ELSE rounds

Memory ==
  /\ Cardinality(live) <= peak
  /\ node_count + Cardinality(Pending)
       <= peak + Room + Cardinality(Hands) - 1 + Batches + Cardinality(lost)
  /\ Cardinality(lost) <= Finished * Cardinality(Hands) * 2 * cache_size

\* The constants of the bound are numbers.
LEMMA MemoryTypes ==
  /\ Cardinality(Hands) \in Nat \ {0} /\ Room \in Nat /\ Batches \in Nat
  /\ batch_size <= Batches
<1>1. Cardinality(Hands) \in Nat \ {0}
  BY WorkerCounts
<1>2. \A m \in Nat \ {0}, b \in Nat : m * b \in Nat /\ b <= m * b
  OBVIOUS
<1> QED
  BY <1>1, <1>2, SizeAssumption DEF Room, Batches

\* The batches under way can be counted.
LEMMA PendingFinite == IsFiniteSet(Pending) /\ Cardinality(Pending) \in Nat
<1>1. IsFiniteSet(Workers \X (1 .. batch_size))
  <2>1. IsFiniteSet(Workers) /\ IsFiniteSet(1 .. batch_size)
    BY WorkerCounts, FS_Interval, SizeAssumption
  <2> QED
    BY ONLY <2>1, FS_Product
<1>2. Pending \subseteq Workers \X (1 .. batch_size)
  BY DEF Pending
<1> QED
  BY <1>1, <1>2, FS_Subset, FS_CardinalityType

\* What is lost is finite, and so is the net.
LEMMA NodesFinite ==
  ASSUME TypeOK
  PROVE  /\ IsFiniteSet(live) /\ Cardinality(live) \in Nat
         /\ IsFiniteSet(lost) /\ Cardinality(lost) \in Nat
<1>1. IsFiniteSet(Nodes)
  BY FS_Interval DEF TypeOK, Nodes
<1> QED
  BY <1>1, FS_Subset, FS_CardinalityType DEF TypeOK

\* A step that makes no node, and after which no more are pending.
LEMMA MemoryStays ==
  ASSUME TypeOK, TypeOK', Memory, node_count' = node_count, lost' = lost, phase' = phase,
         rounds' = rounds, peak' >= peak, Cardinality(live') <= peak',
         Pending' \subseteq Pending
  PROVE  Memory'
<1>1. Cardinality(Pending') <= Cardinality(Pending) /\ Cardinality(Pending') \in Nat
      /\ Cardinality(Pending) \in Nat
  BY PendingFinite, FS_Subset, FS_CardinalityType
<1>2. Cardinality(lost) \in Nat
  BY NodesFinite
<1>3. node_count + Cardinality(Pending')
        <= peak' + Room + Cardinality(Hands) - 1 + Batches + Cardinality(lost)
  <2>1. /\ node_count + Cardinality(Pending)
             <= peak + Room + Cardinality(Hands) - 1 + Batches + Cardinality(lost)
        /\ peak \in Nat /\ peak' \in Nat /\ node_count \in Nat /\ peak' >= peak
    BY DEF Memory, TypeOK
  <2>2. Cardinality(Hands) \in Nat /\ Room \in Nat /\ Batches \in Nat
    BY MemoryTypes
  <2> QED
    BY ONLY <1>1, <1>2, <2>1, <2>2
<1>4. Room' = Room /\ Batches' = Batches
  BY DEF Room, Batches
<1> QED
  BY <1>3, <1>4 DEF Memory, Finished

\* A worker that found nothing: however much is pending then, the nodes that
\* exist are accounted for by the net and by the others.
LEMMA EmptyMemory ==
  ASSUME TypeOK, TypeOK', Control, Control', Partition, Memory, NEW w \in Running,
         stack = <<>>, free_node_stack[w] = <<>>, hand[w] = Null,
         phase' = phase,
         UNCHANGED <<node_count, live, lost, rounds, peak>>
  PROVE  Memory'
<1>1. node_count <= Cardinality(live) + Cardinality(lost) + Room + Cardinality(Hands) - 1
  BY OutsideBound DEF Room
<1>2. Cardinality(Pending') <= Batches /\ Cardinality(Pending') \in Nat
  <2>1. PICK x \in Workers : pc'[x] = "idle"
    <3>1. CASE phase = "load"
      <4>1. PICK v \in Hands : v \in Workers
        BY WorkersAssumption DEF Workers
      <4> QED
        BY <3>1, <4>1 DEF Control, OnlyRunning
    <3>2. CASE phase = "work"
      BY <3>2 DEF Control, OnlyRunning, Workers
    <3> QED
      BY <3>1, <3>2 DEF TypeOK
  <2>2. Pending' \subseteq (Workers \ {x}) \X (1 .. batch_size)
    BY <2>1 DEF Pending
  <2>3. IsFiniteSet(Workers \ {x}) /\ Cardinality(Workers \ {x}) = Cardinality(Hands)
    BY WorkerCounts
  <2>4. IsFiniteSet(1 .. batch_size) /\ Cardinality(1 .. batch_size) = batch_size
    BY FS_Interval, SizeAssumption
  <2>5. /\ IsFiniteSet((Workers \ {x}) \X (1 .. batch_size))
        /\ Cardinality((Workers \ {x}) \X (1 .. batch_size)) = Batches
    <3>1. /\ IsFiniteSet((Workers \ {x}) \X (1 .. batch_size))
          /\ Cardinality((Workers \ {x}) \X (1 .. batch_size))
               = Cardinality(Workers \ {x}) * Cardinality(1 .. batch_size)
      BY ONLY <2>3, <2>4, FS_Product
    <3> QED
      BY <2>3, <2>4, <3>1 DEF Batches
  <2> QED
    BY <2>2, <2>5, FS_Subset, FS_CardinalityType
<1>3. Cardinality(live) <= peak /\ Cardinality(live) \in Nat /\ Cardinality(lost) \in Nat
  BY NodesFinite DEF Memory
<1>4. node_count + Cardinality(Pending')
        <= peak + Room + Cardinality(Hands) - 1 + Batches + Cardinality(lost)
  <2>1. node_count \in Nat /\ peak \in Nat
    BY DEF TypeOK
  <2>2. Cardinality(Hands) \in Nat /\ Room \in Nat /\ Batches \in Nat
    BY MemoryTypes
  <2> QED
    BY ONLY <1>1, <1>2, <1>3, <2>1, <2>2
<1>5. Room' = Room /\ Batches' = Batches
  BY DEF Room, Batches
<1> QED
  BY <1>3, <1>4, <1>5 DEF Memory, Finished

\* One more node is made, for the batch of the worker.
LEMMA BatchMemory ==
  ASSUME TypeOK, TypeOK', Control, Memory, NEW w \in Workers, prepare_one_batch_of_nodes(w)
  PROVE  Memory'
<1>1. /\ pc[w] = "batch" /\ count \in [Workers -> Nat] /\ pc \in [Workers -> Labels]
      /\ UNCHANGED <<live, lost, peak, phase, rounds>>
  BY DEF prepare_one_batch_of_nodes, global, TypeOK
<1>2. CASE count[w] < batch_size
  <2>1. node_count' = node_count + 1 /\ count' = [count EXCEPT ![w] = @ + 1] /\ UNCHANGED pc
    BY <1>2 DEF prepare_one_batch_of_nodes
  <2> DEFINE p == <<w, count[w] + 1>>
  <2>2. p \in Pending
    BY <1>1, <1>2, SizeAssumption DEF Pending
  <2>3. Pending' = Pending \ {p}
    <3>1. \A q \in Workers \X (1 .. batch_size) : q = <<q[1], q[2]>> /\ q[1] \in Workers /\ q[2] \in Nat
      OBVIOUS
    <3>2. ASSUME NEW q \in Workers \X (1 .. batch_size)
          PROVE  q \in Pending' <=> q \in Pending /\ q # p
      <4>1. CASE q[1] = w
        BY <1>1, <2>1, <3>1, <4>1 DEF Pending
      <4>2. CASE q[1] # w
        BY <1>1, <2>1, <3>1, <4>2 DEF Pending
      <4> QED
        BY <4>1, <4>2
    <3> QED
      BY <3>2 DEF Pending
  <2> HIDE DEF p
  <2>4. Cardinality(Pending') = Cardinality(Pending) - 1 /\ Cardinality(Pending) \in Nat
    BY <2>2, <2>3, PendingFinite, FS_RemoveElement
  <2>5. node_count' + Cardinality(Pending') = node_count + Cardinality(Pending)
    BY <2>1, <2>4 DEF TypeOK
  <2>6. Room' = Room /\ Batches' = Batches
    BY DEF Room, Batches
  <2> QED
    BY <1>1, <2>5, <2>6 DEF Memory, Finished
<1>3. CASE ~(count[w] < batch_size)
  <2>1. node_count' = node_count /\ count' = [count EXCEPT ![w] = 0]
        /\ pc' = [pc EXCEPT ![w] = "refill_lock"]
    BY <1>3 DEF prepare_one_batch_of_nodes, Goto
  <2>2. Pending' \subseteq Pending
    BY <1>1, <2>1 DEF Pending
  <2>3. peak' >= peak /\ Cardinality(live') <= peak'
    <3>1. peak \in Nat /\ peak' = peak /\ live' = live
      BY <1>1 DEF TypeOK
    <3> QED
      BY <3>1 DEF Memory
  <2> QED
    BY <1>1, <2>1, <2>2, <2>3, MemoryStays
<1> QED
  BY <1>2, <1>3

\* The node in the hand of a worker is used, which may be a new peak.
LEMMA MarkMemory ==
  ASSUME TypeOK, TypeOK', Memory, NEW w \in Workers, MarkAllocated(w)
  PROVE  Memory'
<1>1. /\ pc[w] = "mark" /\ pc' = [pc EXCEPT ![w] = "idle"]
      /\ peak' = (IF Cardinality(live') > peak THEN Cardinality(live') ELSE peak)
      /\ UNCHANGED <<node_count, count, lost, phase, rounds>>
  BY DEF MarkAllocated, Goto, global
<1>2. IsFiniteSet(live') /\ Cardinality(live') \in Nat
  <2>1. live' = live \union {hand[w]}
    BY DEF MarkAllocated
  <2> QED
    BY <2>1, NodesFinite, FS_AddElement, FS_CardinalityType
<1>3. peak' >= peak /\ Cardinality(live') <= peak'
  BY <1>1, <1>2 DEF TypeOK
<1>4. Pending' \subseteq Pending
  BY <1>1 DEF Pending, TypeOK
<1> QED
  BY <1>1, <1>3, <1>4, MemoryStays

\* A node that is recycled is used no more.
LEMMA RecycleMemory ==
  ASSUME TypeOK, TypeOK', Memory, NEW w \in Workers, NEW n \in live,
         node_allocator_recycle(w, n)
  PROVE  Memory'
<1>1. /\ live' = live \ {n} /\ UNCHANGED <<node_count, peak, count, lost, phase, rounds>>
      /\ \/ UNCHANGED pc
         \/ pc' = [pc EXCEPT ![w] = "flush_lock"]
  BY DEF node_allocator_recycle, Goto, global
<1>2. Cardinality(live') <= Cardinality(live) /\ Cardinality(live') \in Nat
      /\ Cardinality(live) \in Nat
  BY <1>1, NodesFinite, FS_Subset, FS_CardinalityType
<1>3. Pending' \subseteq Pending
  BY <1>1 DEF Pending, TypeOK
<1>4. peak' >= peak /\ Cardinality(live') <= peak'
  BY <1>1, <1>2 DEF Memory, TypeOK
<1> QED
  BY <1>1, <1>3, <1>4, MemoryStays

\* A scheduler loses no more than the stacks of its workers hold.
LEMMA DestroyMemory ==
  ASSUME TypeOK, TypeOK', Control, Memory, worker_destroy
  PROVE  Memory'
<1> DEFINE L == UNION {Range(free_node_stack[w]) : w \in Hands}
<1>1. /\ phase = "work" /\ phase' = "load" /\ lost' = lost \union L
      /\ UNCHANGED <<node_count, live, pc, count, peak, rounds>>
  BY DEF worker_destroy
<1>2. IsFiniteSet(L) /\ Cardinality(L) <= Room
  <2>1. \A v \in Hands : free_node_stack[v] \in Seq(Nodes) /\ Len(free_node_stack[v]) <= 2 * cache_size
    BY DEF TypeOK, Control, Counted, Workers
  <2>2. IsFiniteSet(Hands) /\ 2 * cache_size \in Nat
    BY WorkersAssumption, SizeAssumption
  <2>3. IsFiniteSet(L) /\ Cardinality(L) <= Cardinality(Hands) * (2 * cache_size)
    BY ONLY <2>1, <2>2, StacksBound
  <2> QED
    BY <2>3 DEF Room
<1> HIDE DEF L
<1>3. /\ Cardinality(lost') \in Nat /\ Cardinality(lost) \in Nat /\ Cardinality(L) \in Nat
      /\ Cardinality(lost') <= Cardinality(lost) + Cardinality(L)
  BY <1>1, <1>2, NodesFinite, UnionBound
<1>4. Cardinality(lost) <= Cardinality(lost')
  BY <1>1, <1>2, <1>3, NodesFinite, UnionBound, FS_Subset
<1>5. Pending' = Pending
  BY <1>1 DEF Pending
<1>6. Room' = Room /\ Batches' = Batches
  BY DEF Room, Batches
<1>7. Cardinality(lost) <= (rounds - 1) * Cardinality(Hands) * 2 * cache_size
  BY <1>1 DEF Memory, Finished
<1>8. Cardinality(lost') <= rounds * Cardinality(Hands) * 2 * cache_size
  <2>1. \A r, m, c \in Int : r * m * 2 * c = (r - 1) * m * 2 * c + m * (2 * c)
    OBVIOUS
  <2>2. rounds * Cardinality(Hands) * 2 * cache_size
          = (rounds - 1) * Cardinality(Hands) * 2 * cache_size + Room
    <3>1. rounds \in Int /\ Cardinality(Hands) \in Int /\ cache_size \in Int
      BY MemoryTypes, SizeAssumption DEF TypeOK
    <3> QED
      BY ONLY <2>1, <3>1 DEF Room
  <2>3. (rounds - 1) * Cardinality(Hands) * 2 * cache_size \in Int
    BY MemoryTypes, SizeAssumption DEF TypeOK
  <2> QED
    BY <1>2, <1>3, <1>7, <2>2, <2>3, MemoryTypes
<1>9. node_count + Cardinality(Pending)
        <= peak + Room + Cardinality(Hands) - 1 + Batches + Cardinality(lost')
  <2>1. /\ node_count + Cardinality(Pending)
             <= peak + Room + Cardinality(Hands) - 1 + Batches + Cardinality(lost)
        /\ peak \in Nat /\ node_count \in Nat
    BY DEF Memory, TypeOK
  <2>2. /\ Cardinality(Hands) \in Nat /\ Room \in Nat /\ Batches \in Nat
        /\ Cardinality(Pending) \in Nat
    BY MemoryTypes, PendingFinite
  <2> QED
    BY ONLY <1>3, <1>4, <2>1, <2>2
<1> QED
  BY <1>1, <1>5, <1>6, <1>8, <1>9 DEF Memory, Finished

\* Every action keeps the bound.
LEMMA NextMemory ==
  TypeOK /\ Control /\ Partition /\ Memory /\ [Next]_vars => Memory'
<1> SUFFICES ASSUME TypeOK, Control, Partition, Memory, [Next]_vars PROVE Memory'
  OBVIOUS
<1>0. TypeOK' /\ Control'
  BY NextControl
<1>a. Cardinality(live) <= peak /\ peak >= peak
  BY DEF Memory, TypeOK
<1>1. ASSUME NEW w \in Running, Step(w) PROVE Memory'
  <2>0. w \in Workers
    BY RunningWorker
  <2>1. CASE mutex_lock(w)
    <3>1. Pending' \subseteq Pending
      BY <2>0, <2>1 DEF mutex_lock, Goto, Pending, TypeOK
    <3> QED
      BY <1>0, <1>a, <2>1, <3>1, MemoryStays DEF mutex_lock, global
  <2>2. CASE node_allocator_allocate(w)
    <3>1. pc[w] = "idle" /\ pc'[w] \in {"refill_lock", "mark"}
          /\ \A v \in Workers \ {w} : pc'[v] = pc[v]
      BY <2>0, <2>2 DEF node_allocator_allocate, PopFree, Goto, TypeOK
    <3>2. Pending' \subseteq Pending
      BY <2>0, <2>2, <3>1 DEF node_allocator_allocate, Pending
    <3> QED
      BY <1>0, <1>a, <2>2, <3>2, MemoryStays DEF node_allocator_allocate, global
  <2>3. CASE RefillTest(w)
    <3>1. /\ hand[w] = Null /\ Counted(w) /\ pc[w] = "refill_test"
          /\ UNCHANGED <<node_count, live, lost, phase, rounds, peak>>
      BY <2>0, <2>3 DEF RefillTest, Control, HandUsed, global
    <3>2. CASE count[w] < cache_size /\ stack # <<>>
      <4>1. pc' = [pc EXCEPT ![w] = "refill_move"] /\ UNCHANGED count
        BY <2>3, <3>2 DEF RefillTest, Goto
      <4>2. Pending' \subseteq Pending
        BY <2>0, <4>1 DEF Pending, TypeOK
      <4> QED
        BY <1>0, <1>a, <3>1, <4>2, MemoryStays
    <3>3. CASE ~(count[w] < cache_size /\ stack # <<>>)
      <4>1. PopFree(w) /\ count' = [count EXCEPT ![w] = 0]
        BY <2>3, <3>3 DEF RefillTest
      <4>2. CASE free_node_stack[w] = <<>>
        <5>1. count[w] = 0
          BY <3>1, <4>2 DEF Counted
        <5>2. stack = <<>>
          BY <3>3, <5>1, SizeAssumption
        <5> QED
          BY <1>0, <3>1, <4>2, <5>2, EmptyMemory
      <4>3. CASE free_node_stack[w] # <<>>
        <5>1. pc' = [pc EXCEPT ![w] = "mark"]
          BY <4>1, <4>3 DEF PopFree, Goto
        <5>2. Pending' \subseteq Pending
          BY <2>0, <4>1, <5>1 DEF Pending, TypeOK
        <5> QED
          BY <1>0, <1>a, <3>1, <5>2, MemoryStays
      <4> QED
        BY <4>2, <4>3
    <3> QED
      BY <3>2, <3>3
  <2>4. CASE RefillMove(w) \/ allocator_free(w)
    <3>1. /\ pc[w] \in {"refill_move", "flush"} /\ pc'[w] \notin {"batch_lock", "batch"}
          /\ \A v \in Workers \ {w} : pc'[v] = pc[v] /\ count'[v] = count[v]
          /\ UNCHANGED <<node_count, live, lost, phase, rounds, peak>>
      BY <2>0, <2>4 DEF RefillMove, allocator_free, Goto, TypeOK, global
    <3>2. Pending' \subseteq Pending
      BY <2>0, <3>1 DEF Pending
    <3> QED
      BY <1>0, <1>a, <3>1, <3>2, MemoryStays
  <2>5. CASE ListBegin(w) \/ allocated_node_iter_next(w) \/ ListEnd(w)
    <3>1. /\ pc[w] \in {"idle", "list", "listed"} /\ pc'[w] \notin {"batch_lock", "batch"}
          /\ \A v \in Workers \ {w} : pc'[v] = pc[v] /\ count'[v] = count[v]
          /\ UNCHANGED <<node_count, live, lost, phase, rounds, peak>>
      BY <2>0, <2>5 DEF ListBegin, allocated_node_iter_next, ListEnd, Goto, TypeOK, global
    <3>2. Pending' \subseteq Pending
      BY <2>0, <3>1 DEF Pending
    <3> QED
      BY <1>0, <1>a, <3>1, <3>2, MemoryStays
  <2> QED
    BY <1>0, <1>1, <2>0, <2>1, <2>2, <2>3, <2>4, <2>5, BatchMemory, MarkMemory,
       RecycleMemory DEF Step
<1>2. CASE worker_work_parallelly
  <2>1. /\ phase = "load" /\ phase' = "work" /\ rounds' = rounds + 1
        /\ UNCHANGED <<node_count, live, pc, count, lost, peak>>
    BY <1>2 DEF worker_work_parallelly
  <2>2. Pending' = Pending /\ Room' = Room /\ Batches' = Batches
    BY <2>1 DEF Pending, Room, Batches
  <2>3. Finished' = Finished
    BY <2>1 DEF Finished, TypeOK
  <2> QED
    BY <2>1, <2>2, <2>3 DEF Memory
<1>3. CASE worker_destroy
  BY <1>0, <1>3, DestroyMemory
<1>4. CASE UNCHANGED vars
  BY <1>4 DEF vars, Memory, Pending, Room, Batches, Finished
<1> QED
  BY <1>1, <1>2, <1>3, <1>4 DEF Next

\* At first there is one batch.
LEMMA InitMemory == Init => Memory
<1> SUFFICES ASSUME Init PROVE Memory
  OBVIOUS
<1>1. live = {} /\ lost = {} /\ peak = 0 /\ node_count = batch_size /\ Finished = 0
  BY DEF Init, Finished
<1>2. Pending = {}
  BY DEF Init, Pending
<1>3. Cardinality({}) = 0
  BY FS_EmptySet
<1>4. Finished * Cardinality(Hands) * 2 * cache_size = 0
  BY <1>1, MemoryTypes, SizeAssumption
<1> QED
  BY <1>1, <1>2, <1>3, <1>4, MemoryTypes, SizeAssumption DEF Memory

\* However many workers find the stack of the allocator empty at one time, the
\* nodes that exist are bounded by what the net has needed, what the others can
\* hold, one batch for every worker and what was lost; and a scheduler loses no
\* more than the stacks of its workers hold.
THEOREM MemoryIsBounded == Spec => []MemoryBound
<1>1. Init => Memory /\ Partition
  BY InitMemory, InitPartition
<1>2. TypeOK /\ Control /\ Memory /\ Partition /\ [Next]_vars => (Memory /\ Partition)'
  BY NextMemory, NextPartition
<1>3. TypeOK /\ Memory => MemoryBound
  <2>1. ASSUME TypeOK, Memory PROVE MemoryBound
    <3>1. Cardinality(Pending) \in Nat /\ Cardinality(lost) \in Nat
      BY <2>1, PendingFinite, NodesFinite
    <3>2. node_count <= peak + Room + Cardinality(Hands) - 1 + Batches + Cardinality(lost)
      BY <2>1, <3>1, MemoryTypes DEF Memory, TypeOK
    <3> QED
      BY <2>1, <3>2 DEF Memory, MemoryBound, Room, Batches, Finished
  <2> QED
    BY <2>1
<1> QED
  BY <1>1, <1>2, <1>3, UnderMutex, PTL DEF Spec
=============================================================================
