------------------------------- MODULE Array -------------------------------
(***************************************************************************)
(* The growable array, packages/std/array, and the stack that is made of   *)
(* it, packages/std/stack.  The ports of a node, the variables of a frame, *)
(* the value stack of a worker and the free lists of the allocators are    *)
(* such arrays: some are used as stacks, some by index, some as both.      *)
(*                                                                         *)
(* values is the memory behind the pointer: a store beyond its size makes  *)
(* its domain larger.  `contents' is what the callers believe to be there. *)
(***************************************************************************)
EXTENDS Memory

CONSTANTS
  ArraySizes,    \* the sizes that array_new is called with
  ArrayMaxSize,  \* bound: no operation is tried that would need more
  ArrayValues

ASSUME ArrayAssumption ==
  /\ ArraySizes \subseteq Nat \ {0}  \* array_new(0) would never grow
  /\ ArrayMaxSize \in Nat
  /\ NULL \notin ArrayValues

VARIABLES array, contents
arrayVars == <<array, contents>>

array_new(size) ==
  [size |-> size, grow_step |-> size, cursor |-> 0,
   values |-> [i \in 0 .. size - 1 |-> NULL]]

ArrayInit == \E n \in ArraySizes : array = array_new(n) /\ contents = <<>>

\* reallocate_pointers clears what it adds.
array_resize(a, larger_size) ==
  [a EXCEPT !.size = larger_size,
            !.values = [i \in DOMAIN @ \union 0 .. larger_size - 1 |->
                          IF i \in DOMAIN @ THEN @[i] ELSE NULL]]

Store(a, index, v) ==
  [a EXCEPT !.values = [i \in DOMAIN @ \union {index} |-> IF i = index THEN v ELSE @[i]]]

array_push(a, v) ==
  LET b == IF a.cursor = a.size THEN array_resize(a, a.size + a.grow_step) ELSE a
  IN  [Store(b, b.cursor, v) EXCEPT !.cursor = @ + 1]

\* Mutant: leaves the value behind.
array_pop_behind(a) == [a EXCEPT !.cursor = @ - 1]

array_pop(a) == [Store(a, a.cursor - 1, NULL) EXCEPT !.cursor = @ - 1]

array_top(a) == a.values[a.cursor - 1]

array_set(a, index, v) ==
  LET b == IF index >= a.size THEN array_resize(a, index + a.grow_step) ELSE a
  IN  [Store(b, index, v) EXCEPT !.cursor = IF index >= @ THEN index + 1 ELSE @]

array_get(a, index) == IF index >= a.size THEN NULL ELSE a.values[index]

array_pick(a, back_index) == array_get(a, a.cursor - 1 - back_index)

\* With a destroy_fn the values are destroyed and set to NULL one by one.
array_purge(a) == [a EXCEPT !.values = [i \in DOMAIN @ |-> NULL], !.cursor = 0]

\* Pops n values in front of a list, pushes the target, then the list.
stack_tuck_n(a, target, n) ==
  LET popped[i \in 0 .. n] == IF i = 0 THEN a ELSE array_pop(popped[i - 1])
      value_list == [i \in 1 .. n |-> array_top(popped[n - i])]
      pushed[i \in 0 .. n] == IF i = 0 THEN array_push(popped[n], target)
                              ELSE array_push(pushed[i - 1], value_list[i])
  IN  pushed[n]

----------------------------------------------------------------------------
(* The calls.  Where the code asserts, no step is taken: the program ends. *)

Fits(n) == n <= ArrayMaxSize

Push(v) ==
  /\ Fits(IF array.cursor = array.size THEN array.size + array.grow_step ELSE 0)
  /\ array' = array_push(array, v)
  /\ contents' = Append(contents, v)

Pop ==
  /\ array.cursor > 0
  /\ array' = array_pop(array)
  /\ contents' = SubSeq(contents, 1, Len(contents) - 1)

Set(index, v) ==
  /\ Fits(IF index >= array.size THEN index + array.grow_step ELSE 0)
  /\ array' = array_set(array, index, v)
  /\ contents' = [i \in 1 .. (IF index < Len(contents) THEN Len(contents) ELSE index + 1) |->
                    IF i = index + 1 THEN v
                    ELSE IF i <= Len(contents) THEN contents[i] ELSE NULL]

Purge == array' = array_purge(array) /\ contents' = <<>>

Tuck(target, n) ==
  /\ Fits(IF array.cursor = array.size THEN array.size + array.grow_step ELSE 0)
  /\ n <= array.cursor
  /\ \A i \in 0 .. n - 1 : array_pick(array, i) # NULL
  /\ array' = stack_tuck_n(array, target, n)
  /\ contents' = SubSeq(contents, 1, Len(contents) - n) \o <<target>>
                   \o SubSeq(contents, Len(contents) - n + 1, Len(contents))

ArrayNext ==
  \/ \E v \in ArrayValues : Push(v)
  \/ Pop \/ Purge
  \/ \E index \in 0 .. ArrayMaxSize - 1, v \in ArrayValues \union {NULL} : Set(index, v)
  \/ \E target \in ArrayValues, n \in 0 .. ArrayMaxSize : Tuck(target, n)

ArraySpec == ArrayInit /\ [][ArrayNext]_arrayVars

----------------------------------------------------------------------------
(* Properties. *)

\* The memory of the array, and the cursor within it.
InBounds ==
  /\ DOMAIN array.values = 0 .. array.size - 1
  /\ array.cursor \in 0 .. array.size /\ array.grow_step > 0

\* The array holds what was put there: the values below the cursor in order,
\* and NULL above it, also after pops and purges of an array that is used
\* again, and at the indexes that a store jumped over.  Ports and variables are
\* read there, and NULL means that there is none.  No store is beyond the memory,
\* whatever mix of pushes and stores by index made it grow.
Holds ==
  /\ InBounds
  /\ array.cursor = Len(contents)
  /\ \A i \in 0 .. array.size + 1 :
       array_get(array, i) = IF i < Len(contents) THEN contents[i + 1] ELSE NULL
  /\ \A i \in 0 .. array.cursor - 1 : array_pick(array, i) = contents[Len(contents) - i]
=============================================================================
