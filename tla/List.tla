-------------------------------- MODULE List --------------------------------
(***************************************************************************)
(* The doubly linked list with a cursor: packages/std/list/list.c.  Tokens,*)
(* s-expressions, statements and operands are all handed on in such lists, *)
(* and walked with list_first and list_next, which share the one cursor.   *)
(*                                                                         *)
(* A node lives at an address that malloc chooses among the free ones, so  *)
(* an address comes back as another node.  `order' is what the callers     *)
(* believe: the nodes from first to last.                                  *)
(***************************************************************************)
EXTENDS Memory

CONSTANTS
  ListNodes,   \* addresses for nodes
  ListValues,  \* values; list_next answers NULL at the end, so NULL is none
  equal_fn     \* the pairs of values that equal_fn takes for equal

ASSUME ListAssumption ==
  /\ NULL \notin ListNodes \union ListValues
  /\ IsFiniteSet(ListNodes)
  /\ equal_fn \subseteq ListValues \X ListValues

VARIABLES
  list,    \* [first, last, cursor, length]
  node,    \* address of a live node -> [prev, next, value]
  order,   \* history: the addresses in the order of the calls
  list_walk, \* history: the nodes that were in the list since list_first (kept),
           \* and those of them that list_first and list_next came to (seen);
           \* on as long as the callers only go on, push, and remove others
  answer   \* what the last call that only reads answered, and what it means

listVars == <<list, node, order, list_walk, answer>>

NoWalk == [on |-> FALSE, seen |-> <<>>, kept |-> {}]
NoAnswer == [is |-> NULL, means |-> NULL]

ListInit ==
  /\ list = [first |-> NULL, last |-> NULL, cursor |-> NULL, length |-> 0]
  /\ node = <<>> /\ order = <<>>
  /\ list_walk = NoWalk /\ answer = NoAnswer

\* Reading along the next pointers: the i-th node, NULL after the last.
Follow ==
  LET f[i \in 0 .. Cardinality(ListNodes)] ==
        IF i = 0 THEN list.first
        ELSE IF f[i - 1] = NULL THEN NULL ELSE node[f[i - 1]].next
  IN  f
Reached == {i \in DOMAIN Follow : Follow[i] # NULL}

Same(n, v) == node[n].value = v \/ <<node[n].value, v>> \in equal_fn

\* The node that list_has, list_find and list_remove stop at, or NULL.
FindNode(v) ==
  LET hits == {i \in Reached : Same(Follow[i], v)}
  IN  IF hits = {} THEN NULL ELSE Follow[CHOOSE i \in hits : \A j \in hits : i <= j]

\* What the callers mean by the first value that is equal to v.
FirstEqual(v) ==
  LET hits == {i \in DOMAIN order : Same(order[i], v)}
  IN  IF hits = {} THEN NULL
      ELSE node[order[CHOOSE i \in hits : \A j \in hits : i <= j]].value

Contents == [i \in DOMAIN order |-> node[order[i]].value]

----------------------------------------------------------------------------
(* Changing the list. *)

Link(n, v, p, x) ==
  node' = [m \in DOMAIN node \union {n} |->
             IF m = n THEN [prev |-> p, next |-> x, value |-> v]
             ELSE IF m = p THEN [node[m] EXCEPT !.next = n]
             ELSE IF m = x THEN [node[m] EXCEPT !.prev = n]
             ELSE node[m]]

list_push(v) ==
  \E n \in ListNodes \ DOMAIN node :
    /\ Link(n, v, list.last, NULL)
    /\ list' = [list EXCEPT !.first = IF list.last = NULL THEN n ELSE @,
                            !.last = n, !.length = @ + 1]
    /\ order' = Append(order, n)
    /\ UNCHANGED list_walk /\ answer' = NoAnswer

list_unshift(v) ==
  \E n \in ListNodes \ DOMAIN node :
    /\ Link(n, v, NULL, list.first)
    /\ list' = [list EXCEPT !.last = IF list.first = NULL THEN n ELSE @,
                            !.first = n, !.length = @ + 1]
    /\ order' = <<n>> \o order
    /\ UNCHANGED list_walk /\ answer' = NoAnswer

\* The sequence s without node n.
Leave(s, n) ==
  LET k == CHOOSE i \in DOMAIN s : s[i] = n
  IN  IF n \in Elements(s) THEN [i \in 1 .. Len(s) - 1 |-> s[IF i < k THEN i ELSE i + 1]] ELSE s

\* The histories when node n leaves the list.
Forget(n) ==
  /\ order' = Leave(order, n)
  /\ list_walk' = IF list.cursor = n THEN NoWalk
             ELSE [list_walk EXCEPT !.kept = @ \ {n}, !.seen = Leave(@, n)]

\* The histories when a walk comes to n.
See(n) ==
  list_walk' = IF list.cursor = NULL THEN NoWalk
          ELSE [list_walk EXCEPT !.seen = IF n \in list_walk.kept THEN Append(@, n) ELSE @]

Unlink(n) ==
  node' = [m \in DOMAIN node \ {n} |->
             IF m = node[n].prev THEN [node[m] EXCEPT !.next = node[n].next]
             ELSE IF m = node[n].next THEN [node[m] EXCEPT !.prev = node[n].prev]
             ELSE node[m]]

\* Mutant: the neighbour after the node still points back to it.
list_remove_one_way(v) ==
  LET n == FindNode(v) IN
    /\ n # NULL
    /\ node' = [m \in DOMAIN node \ {n} |->
                  IF m = node[n].prev THEN [node[m] EXCEPT !.next = node[n].next]
                  ELSE node[m]]
    /\ list' = [list EXCEPT !.cursor = IF @ = n THEN NULL ELSE @,
                            !.first = IF @ = n THEN node[n].next ELSE @,
                            !.last = IF @ = n THEN node[n].prev ELSE @,
                            !.length = @ - 1]
    /\ Forget(n) /\ answer' = NoAnswer

\* Also destroys the value, if the list owns its values.
list_remove(v) ==
  LET n == FindNode(v) IN
    /\ n # NULL
    /\ Unlink(n)
    /\ list' = [list EXCEPT !.cursor = IF @ = n THEN NULL ELSE @,
                            !.first = IF @ = n THEN node[n].next ELSE @,
                            !.last = IF @ = n THEN node[n].prev ELSE @,
                            !.length = @ - 1]
    /\ Forget(n) /\ answer' = NoAnswer

\* A pop from an empty list changes nothing: its cursor is NULL already.
list_pop ==
  /\ list.last # NULL
  /\ Unlink(list.last)
  /\ list' = [list EXCEPT !.cursor = IF @ = list.last THEN NULL ELSE @,
                          !.first = IF @ = list.last THEN NULL ELSE @,
                          !.last = node[list.last].prev, !.length = @ - 1]
  /\ Forget(list.last)
  /\ answer' = [is |-> node[list.last].value, means |-> Contents[Len(order)]]

list_shift ==
  /\ list.first # NULL
  /\ Unlink(list.first)
  /\ list' = [list EXCEPT !.cursor = IF @ = list.first THEN NULL ELSE @,
                          !.last = IF @ = list.first THEN NULL ELSE @,
                          !.first = node[list.first].next, !.length = @ - 1]
  /\ Forget(list.first)
  /\ answer' = [is |-> node[list.first].value, means |-> Contents[1]]

\* Frees the nodes along the next pointers.
list_purge ==
  /\ node' = Without(node, {Follow[i] : i \in Reached})
  /\ list' = [first |-> NULL, last |-> NULL, cursor |-> NULL, length |-> 0]
  /\ order' = <<>> /\ list_walk' = NoWalk /\ answer' = NoAnswer

----------------------------------------------------------------------------
(* The cursor. *)

list_first ==
  /\ list' = [list EXCEPT !.cursor = list.first]
  /\ list_walk' = [on |-> TRUE, kept |-> Elements(order),
              seen |-> IF list.first = NULL THEN <<>> ELSE <<list.first>>]
  /\ answer' = NoAnswer /\ UNCHANGED <<node, order>>

\* Mutant: skips one node.
list_next_twice ==
  LET n == IF list.cursor # NULL THEN node[list.cursor].next ELSE list.first
      x == IF n # NULL THEN node[n].next ELSE NULL
  IN  /\ list' = [list EXCEPT !.cursor = x]
      /\ See(x) /\ answer' = NoAnswer /\ UNCHANGED <<node, order>>

\* After the end, and after the node of the cursor was removed, list_next
\* starts again from the first.
list_next ==
  LET n == IF list.cursor # NULL THEN node[list.cursor].next ELSE list.first
  IN  /\ list' = [list EXCEPT !.cursor = n]
      /\ See(n) /\ answer' = NoAnswer /\ UNCHANGED <<node, order>>

list_prev ==
  /\ list' = [list EXCEPT !.cursor =
                IF list.cursor # NULL THEN node[list.cursor].prev ELSE list.last]
  /\ list_walk' = NoWalk /\ answer' = NoAnswer /\ UNCHANGED <<node, order>>

list_last ==
  /\ list' = [list EXCEPT !.cursor = list.last]
  /\ list_walk' = NoWalk /\ answer' = NoAnswer /\ UNCHANGED <<node, order>>

\* A value that is not found leaves the cursor at the first node.
list_find(v) ==
  LET n == FindNode(v) IN
    /\ list' = [list EXCEPT !.cursor = IF n = NULL THEN list.first ELSE n]
    /\ list_walk' = NoWalk
    /\ answer' = [is |-> IF n = NULL THEN NULL ELSE node[n].value, means |-> FirstEqual(v)]
    /\ UNCHANGED <<node, order>>

\* The copy is made with the cursor of the list that is copied, which ends at
\* NULL: a walk that the caller was in is over.
list_copy ==
  /\ list' = [list EXCEPT !.cursor = NULL]
  /\ list_walk' = NoWalk
  /\ answer' = [is |-> [i \in 1 .. Cardinality(Reached) |-> node[Follow[i - 1]].value],
                means |-> Contents]
  /\ UNCHANGED <<node, order>>

list_copy_reversed ==
  /\ list' = [list EXCEPT !.cursor = NULL]
  /\ list_walk' = NoWalk
  /\ answer' = [is |-> [i \in 1 .. Cardinality(Reached) |->
                         node[Follow[Cardinality(Reached) - i]].value],
                means |-> [i \in 1 .. Len(order) |-> Contents[Len(order) + 1 - i]]]
  /\ UNCHANGED <<node, order>>

list_has(v) ==
  /\ answer' = [is |-> FindNode(v) # NULL, means |-> \E i \in DOMAIN order : Same(order[i], v)]
  /\ UNCHANGED <<list, node, order, list_walk>>

list_get(i) ==
  /\ answer' = [is |-> IF i \in Reached THEN node[Follow[i]].value ELSE NULL,
                means |-> IF i < Len(order) THEN Contents[i + 1] ELSE NULL]
  /\ UNCHANGED <<list, node, order, list_walk>>

ListNext ==
  \/ \E v \in ListValues :
       list_push(v) \/ list_unshift(v) \/ list_remove(v) \/ list_find(v) \/ list_has(v)
  \/ list_pop \/ list_shift \/ list_purge \/ list_copy \/ list_copy_reversed
  \/ list_first \/ list_next \/ list_prev \/ list_last
  \/ \E i \in 0 .. Cardinality(ListNodes) : list_get(i)

ListSpec == ListInit /\ [][ListNext]_listVars

----------------------------------------------------------------------------
(* Properties. *)

\* The nodes, and the pointers to them, are of their types; the length, which is
\* unsigned, does not pass below zero.
ListTypeOK ==
  /\ DOMAIN node \subseteq ListNodes
  /\ \A n \in DOMAIN node :
       /\ {node[n].prev, node[n].next} \subseteq ListNodes \union {NULL}
       /\ node[n].value \in ListValues
  /\ {list.first, list.last, list.cursor} \subseteq ListNodes \union {NULL}
  /\ list.length \in 0 .. Cardinality(ListNodes)
  /\ order \in Seq(ListNodes) /\ list_walk.seen \in Seq(ListNodes)

At(i) == IF i \in DOMAIN order THEN order[i] ELSE NULL

\* The pointers that each operation patches one by one describe one list: both
\* directions agree with the order of the calls, the two ends and the length
\* too, each node is there once, and nothing is allocated that is not in it.
Links ==
  /\ list.first = At(1) /\ list.last = At(Len(order)) /\ list.length = Len(order)
  /\ Elements(order) = DOMAIN node /\ Cardinality(DOMAIN node) = Len(order)
  /\ \A i \in DOMAIN order :
       node[order[i]].prev = At(i - 1) /\ node[order[i]].next = At(i + 1)

\* Removing, popping and purging free nodes while callers walk: the cursor is
\* never left on a freed node, nor on an address that became another node.
CursorSafe == list.cursor # NULL => list.cursor \in DOMAIN node

\* A walk with list_first and list_next that came to its end has answered each
\* node that was in the list all the time exactly once, although nodes were
\* pushed, unshifted and removed meanwhile.
WalkComplete ==
  list_walk.on =>
    LET times(n) == Cardinality({i \in DOMAIN list_walk.seen : list_walk.seen[i] = n})
    IN  \A n \in list_walk.kept :
          times(n) <= 1 /\ (list.cursor = NULL => times(n) = 1)

\* What pop, shift, has, find, get and the copies answer is what the order of the calls
\* makes them mean.
Answers == answer.is = answer.means

\* The list is what the calls have made it, and answers that; the cursor of a
\* walk that is under way stays in it.
ListCorrect == ListTypeOK /\ Links /\ CursorSafe /\ Answers
=============================================================================
