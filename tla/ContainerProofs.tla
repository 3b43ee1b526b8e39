--------------------------- MODULE ContainerProofs ---------------------------
(***************************************************************************)
(* Proofs about the containers.                                            *)
(*                                                                         *)
(* List: the pointers that each operation patches describe the order of    *)
(* the calls (Linked), reading along them reads that order                 *)
(* (FollowIsOrder), and a walk has seen what lies before its cursor        *)
(* (Walked).                                                               *)
(*                                                                         *)
(* Array: an array is determined by its size, its grow_step and the        *)
(* sequence that it holds (Holding), and each operation makes of such an   *)
(* array the one that holds what the callers mean.                         *)
(*                                                                         *)
(* Hash: each chain has the entries of its bucket once, in a table as the  *)
(* map says (Sound), a rehash moves them all (RehashKeeps), and a walk has *)
(* answered the entries that its cursor is past (Underway).                *)
(***************************************************************************)
EXTENDS List, Array, Hash, SequenceTheorems, FiniteSetTheorems, WellFoundedInduction, TLAPS

Addresses == ListNodes \union {NULL}
ListRecord == [first : Addresses, last : Addresses, cursor : Addresses, length : Nat]
NodeRecord == [prev : Addresses, next : Addresses, value : ListValues]

\* The types of the list and of what is recorded of it.
Shape ==
  /\ list \in ListRecord
  /\ DOMAIN node \subseteq ListNodes
  /\ \A n \in DOMAIN node : node[n] \in NodeRecord
  /\ order \in Seq(ListNodes)
  /\ list_walk \in [on : BOOLEAN, seen : Seq(ListNodes), kept : SUBSET ListNodes]

Once(s) == \A i, j \in DOMAIN s : s[i] = s[j] => i = j

\* The two ends, the length and the pointers are those of the order.
Linked ==
  /\ list.first = At(1) /\ list.last = At(Len(order)) /\ list.length = Len(order)
  /\ Once(order) /\ Elements(order) = DOMAIN node
  /\ \A i \in DOMAIN order :
       node[order[i]].prev = At(i - 1) /\ node[order[i]].next = At(i + 1)

ListInv == Shape /\ Linked /\ CursorSafe

\* Of the nodes that were in the list since list_first, a walk has seen those
\* up to its cursor, each once.
Walked ==
  list_walk.on =>
    /\ Once(list_walk.seen) /\ Elements(list_walk.seen) \subseteq list_walk.kept
    /\ list_walk.kept \subseteq Elements(order)
    /\ list.cursor = NULL => list_walk.kept \subseteq Elements(list_walk.seen)
    /\ \A k, i \in DOMAIN order :
         list.cursor = order[k] /\ order[i] \in list_walk.kept
           => (order[i] \in Elements(list_walk.seen) <=> i <= k)

----------------------------------------------------------------------------
(* Sequences. *)

\* What At is at a number.
LEMMA AtFacts ==
  ASSUME Shape
  PROVE  /\ Len(order) \in Nat /\ DOMAIN order = 1 .. Len(order)
         /\ \A i \in DOMAIN order : order[i] \in ListNodes /\ order[i] # NULL
         /\ \A i \in Int : At(i) = IF 1 <= i /\ i <= Len(order) THEN order[i] ELSE NULL
<1>1. order \in Seq(ListNodes)
  BY DEF Shape
<1>2. Len(order) \in Nat /\ DOMAIN order = 1 .. Len(order)
  BY <1>1
<1>3. \A i \in DOMAIN order : order[i] \in ListNodes /\ order[i] # NULL
  BY <1>1, <1>2, ListAssumption
<1> QED
  BY <1>2, <1>3 DEF At

\* A sequence that a node leaves.
LEMMA LeaveFacts ==
  ASSUME NEW s \in Seq(ListNodes), NEW n \in Elements(s)
  PROVE  \E k \in 1 .. Len(s) :
           /\ s[k] = n /\ DOMAIN s = 1 .. Len(s) /\ Len(s) \in Nat \ {0}
           /\ Leave(s, n) \in Seq(ListNodes) /\ Len(Leave(s, n)) = Len(s) - 1
           /\ DOMAIN Leave(s, n) = 1 .. Len(s) - 1
           /\ \A i \in 1 .. Len(s) - 1 : Leave(s, n)[i] = s[IF i < k THEN i ELSE i + 1]
<1> DEFINE k == CHOOSE i \in DOMAIN s : s[i] = n
           t == [i \in 1 .. Len(s) - 1 |-> s[IF i < k THEN i ELSE i + 1]]
<1>1. \E i \in DOMAIN s : s[i] = n
  BY DEF Elements
<1>2. k \in DOMAIN s /\ s[k] = n
  BY <1>1
<1>3. DOMAIN s = 1 .. Len(s) /\ Len(s) \in Nat
  OBVIOUS
<1>4. Leave(s, n) = t
  BY DEF Leave
<1> HIDE DEF k
<1>5. Len(s) \in Nat \ {0} /\ Len(s) - 1 \in Nat /\ k \in 1 .. Len(s)
  BY <1>2, <1>3
<1>6. \A i \in 1 .. Len(s) - 1 : s[IF i < k THEN i ELSE i + 1] \in ListNodes
  BY <1>3, <1>5
<1>7. t \in Seq(ListNodes) /\ Len(t) = Len(s) - 1
  BY <1>5, <1>6
<1> QED
  BY <1>2, <1>3, <1>4, <1>5, <1>7

\* What is left of it.
LEMMA LeaveSet ==
  ASSUME NEW s \in Seq(ListNodes), Once(s), NEW n
  PROVE  /\ Leave(s, n) \in Seq(ListNodes) /\ Once(Leave(s, n))
         /\ Elements(Leave(s, n)) = Elements(s) \ {n}
<1>1. CASE n \notin Elements(s)
  BY <1>1 DEF Leave
<1>2. CASE n \in Elements(s)
  <2> DEFINE t == Leave(s, n)
  <2>1. PICK k \in 1 .. Len(s) :
           /\ s[k] = n /\ DOMAIN s = 1 .. Len(s) /\ Len(s) \in Nat \ {0}
           /\ t \in Seq(ListNodes) /\ Len(t) = Len(s) - 1 /\ DOMAIN t = 1 .. Len(s) - 1
           /\ \A i \in 1 .. Len(s) - 1 : t[i] = s[IF i < k THEN i ELSE i + 1]
    BY <1>2, LeaveFacts
  <2> HIDE DEF t
  <2>2. \A i \in 1 .. Len(s) - 1 : (IF i < k THEN i ELSE i + 1) \in 1 .. Len(s) \ {k}
    BY <2>1
  <2>3. Once(t)
    <3>1. ASSUME NEW i \in DOMAIN t, NEW j \in DOMAIN t, t[i] = t[j] PROVE i = j
      <4>1. i \in 1 .. Len(s) - 1 /\ j \in 1 .. Len(s) - 1 /\ Len(s) \in Nat
        BY <2>1
      <4>2. PICK x, y : x = (IF i < k THEN i ELSE i + 1) /\ y = (IF j < k THEN j ELSE j + 1)
        OBVIOUS
      <4>3. x \in DOMAIN s /\ y \in DOMAIN s /\ s[x] = s[y]
        BY <2>1, <2>2, <3>1, <4>1, <4>2
      <4>4. x = y
        BY <4>3 DEF Once
      <4> QED
        BY <4>1, <4>2, <4>4
    <3> QED
      BY <3>1 DEF Once
  <2>4. ASSUME NEW i \in DOMAIN t PROVE t[i] \in Elements(s) \ {n}
    <3>1. PICK j \in 1 .. Len(s) : j # k /\ t[i] = s[j]
      BY <2>1, <2>2, <2>4
    <3>2. s[j] # s[k]
      BY <2>1, <3>1 DEF Once
    <3> QED
      BY <2>1, <3>1, <3>2 DEF Elements
  <2>5. ASSUME NEW i \in DOMAIN s, s[i] # n PROVE s[i] \in Elements(t)
    <3>1. CASE i < k
      <4>1. i \in DOMAIN t /\ t[i] = s[i]
        BY <2>1, <3>1
      <4> QED
        BY <4>1 DEF Elements
    <3>2. CASE ~(i < k)
      <4>1. i - 1 \in DOMAIN t /\ t[i - 1] = s[i]
        BY <2>1, <2>5, <3>2
      <4> QED
        BY <4>1 DEF Elements
    <3> QED
      BY <3>1, <3>2
  <2>6. Elements(t) = Elements(s) \ {n}
    BY <2>4, <2>5 DEF Elements
  <2> QED
    BY <2>1, <2>3, <2>6 DEF t
<1> QED
  BY <1>1, <1>2

\* A sequence in which each element is once has as many as its length.
LEMMA OnceCounts ==
  ASSUME NEW S, NEW s \in Seq(S), Once(s)
  PROVE  IsFiniteSet(Elements(s)) /\ Cardinality(Elements(s)) = Len(s)
<1>1. DOMAIN s = 1 .. Len(s) /\ Len(s) \in Nat
  OBVIOUS
<1>2. s \in [1 .. Len(s) -> Elements(s)]
  BY <1>1 DEF Elements
<1>3. s \in Surjection(1 .. Len(s), Elements(s))
  BY <1>1, <1>2 DEF Surjection, Elements
<1>4. s \in Injection(1 .. Len(s), Elements(s))
  BY <1>1, <1>2 DEF Injection, IsInjective, Once
<1>5. IsFiniteSet(1 .. Len(s)) /\ Cardinality(1 .. Len(s)) = Len(s)
  BY <1>1, FS_Interval
<1> QED
  BY <1>3, <1>4, <1>5, FS_Surjection

----------------------------------------------------------------------------
(* Nodes that come and go. *)

\* The pointers after a node was put between p and x.
LEMMA LinkFacts ==
  ASSUME Shape, NEW n \in ListNodes \ DOMAIN node, NEW v \in ListValues,
         NEW p \in Addresses, NEW x \in Addresses, p = NULL \/ x = NULL, Link(n, v, p, x)
  PROVE  /\ DOMAIN node' = DOMAIN node \union {n}
         /\ \A m \in DOMAIN node' : node'[m] \in NodeRecord
         /\ node'[n].prev = p /\ node'[n].next = x
         /\ \A m \in DOMAIN node :
              /\ m # n
              /\ node'[m].next = IF m = p THEN n ELSE node[m].next
              /\ node'[m].prev = IF m = x THEN n ELSE node[m].prev
<1>1. /\ DOMAIN node' = DOMAIN node \union {n}
      /\ node'[n] = [prev |-> p, next |-> x, value |-> v]
  BY DEF Link
<1>2. ASSUME NEW m \in DOMAIN node
      PROVE  node'[m] = IF m = p THEN [node[m] EXCEPT !.next = n]
                        ELSE IF m = x THEN [node[m] EXCEPT !.prev = n] ELSE node[m]
  BY DEF Link
<1>3. \A m \in DOMAIN node : m # n /\ m # NULL /\ node[m] \in NodeRecord
  BY ListAssumption DEF Shape
<1>4. n \in Addresses
  BY DEF Addresses
<1>5. node'[n] \in NodeRecord /\ node'[n].prev = p /\ node'[n].next = x
  BY <1>1 DEF NodeRecord
<1>6. ASSUME NEW m \in DOMAIN node
      PROVE  /\ node'[m] \in NodeRecord
             /\ node'[m].next = IF m = p THEN n ELSE node[m].next
             /\ node'[m].prev = IF m = x THEN n ELSE node[m].prev
  BY <1>2, <1>3, <1>4 DEF NodeRecord
<1> QED
  BY <1>1, <1>3, <1>5, <1>6

\* The pointers after a node was taken out.
LEMMA UnlinkFacts ==
  ASSUME Shape, NEW n \in DOMAIN node, Unlink(n),
         node[n].prev = node[n].next => node[n].prev = NULL
  PROVE  /\ DOMAIN node' = DOMAIN node \ {n}
         /\ \A m \in DOMAIN node' :
              /\ node'[m] \in NodeRecord
              /\ node'[m].next = IF m = node[n].prev THEN node[n].next ELSE node[m].next
              /\ node'[m].prev = IF m = node[n].next THEN node[n].prev ELSE node[m].prev
<1>1. DOMAIN node' = DOMAIN node \ {n}
  BY DEF Unlink
<1>2. ASSUME NEW m \in DOMAIN node \ {n}
      PROVE  node'[m] = IF m = node[n].prev THEN [node[m] EXCEPT !.next = node[n].next]
                        ELSE IF m = node[n].next THEN [node[m] EXCEPT !.prev = node[n].prev]
                        ELSE node[m]
  BY DEF Unlink
<1>3. \A m \in DOMAIN node : m # NULL /\ node[m] \in NodeRecord
  BY ListAssumption DEF Shape
<1>4. node[n].prev \in Addresses /\ node[n].next \in Addresses
  BY <1>3 DEF NodeRecord
<1>5. ASSUME NEW m \in DOMAIN node \ {n}
      PROVE  /\ node'[m] \in NodeRecord
             /\ node'[m].next = IF m = node[n].prev THEN node[n].next ELSE node[m].next
             /\ node'[m].prev = IF m = node[n].next THEN node[n].prev ELSE node[m].prev
  BY <1>2, <1>3, <1>4 DEF NodeRecord
<1> QED
  BY <1>1, <1>5

\* list_push.
LEMMA PushKeeps ==
  ASSUME ListInv, NEW v \in ListValues, list_push(v)
  PROVE  ListInv'
<1> DEFINE L == Len(order)
<1>1. PICK n \in ListNodes \ DOMAIN node :
        /\ Link(n, v, list.last, NULL)
        /\ list' = [list EXCEPT !.first = IF list.last = NULL THEN n ELSE @,
                                !.last = n, !.length = @ + 1]
        /\ order' = Append(order, n)
        /\ UNCHANGED list_walk
  BY DEF list_push
<1>2. Shape /\ list \in ListRecord /\ order \in Seq(ListNodes) /\ Linked
  BY DEF ListInv, Shape
<1>3. /\ L \in Nat /\ DOMAIN order = 1 .. L
      /\ \A i \in DOMAIN order : order[i] \in ListNodes /\ order[i] # NULL
      /\ \A i \in Int : At(i) = IF 1 <= i /\ i <= L THEN order[i] ELSE NULL
  BY <1>2, AtFacts
<1>4. /\ list.last \in Addresses /\ list.first \in Addresses /\ list.length \in Nat
      /\ NULL \in Addresses /\ n \in Addresses
  BY <1>2 DEF ListRecord, Addresses
<1>5. /\ DOMAIN node' = DOMAIN node \union {n}
      /\ \A m \in DOMAIN node' : node'[m] \in NodeRecord
      /\ node'[n].prev = list.last /\ node'[n].next = NULL
      /\ \A m \in DOMAIN node :
           /\ m # n
           /\ node'[m].next = IF m = list.last THEN n ELSE node[m].next
           /\ node'[m].prev = IF m = NULL THEN n ELSE node[m].prev
  <2>1. PICK p \in Addresses : p = list.last /\ Link(n, v, p, NULL)
    BY <1>1, <1>4
  <2>2. Shape /\ NULL \in Addresses
    BY <1>2, <1>4
  <2>3. /\ DOMAIN node' = DOMAIN node \union {n}
        /\ \A m \in DOMAIN node' : node'[m] \in NodeRecord
        /\ node'[n].prev = p /\ node'[n].next = NULL
        /\ \A m \in DOMAIN node :
             /\ m # n
             /\ node'[m].next = IF m = p THEN n ELSE node[m].next
             /\ node'[m].prev = IF m = NULL THEN n ELSE node[m].prev
    BY <2>1, <2>2, LinkFacts
  <2> QED
    BY <2>1, <2>3
<1>6. /\ order' \in Seq(ListNodes) /\ Len(order') = L + 1 /\ DOMAIN order' = 1 .. L + 1
      /\ order'[L + 1] = n /\ \A i \in 1 .. L : order'[i] = order[i]
  BY <1>1, <1>2, <1>3
<1>7. /\ list' \in ListRecord /\ list'.length = list.length + 1 /\ list'.last = n
      /\ list'.cursor = list.cursor
      /\ list'.first = IF list.last = NULL THEN n ELSE list.first
  <2> DEFINE f == IF list.last = NULL THEN n ELSE list.first
  <2>1. f \in Addresses /\ list.length + 1 \in Nat
    BY <1>4
  <2>2. list \in [first : Addresses, last : Addresses, cursor : Addresses, length : Nat]
    BY <1>2 DEF ListRecord
  <2>3. list' = [first |-> f, last |-> n, cursor |-> list.cursor, length |-> list.length + 1]
    BY <1>1, <2>2
  <2> HIDE DEF f
  <2>4. /\ list'.first = f /\ list'.last = n /\ list'.length = list.length + 1
        /\ list'.cursor = list.cursor
    BY ONLY <2>3
  <2>5. list' \in ListRecord
    BY <1>4, <2>1, <2>2, <2>3 DEF ListRecord
  <2> QED
    BY <2>4, <2>5 DEF f
<1>8. Shape'
  BY <1>1, <1>2, <1>5, <1>6, <1>7 DEF Shape
<1>9. \A i \in Int : At(i)' = IF 1 <= i /\ i <= L + 1 THEN order'[i] ELSE NULL
  BY <1>3, <1>6 DEF At
<1>10. /\ list.first = At(1) /\ list.last = At(L) /\ list.length = L
       /\ Once(order) /\ Elements(order) = DOMAIN node
       /\ \A i \in 1 .. L : node[order[i]].prev = At(i - 1) /\ node[order[i]].next = At(i + 1)
  BY <1>2, <1>3 DEF Linked
<1>11. \A i \in 1 .. L : order[i] \in DOMAIN node
  BY <1>3, <1>10 DEF Elements
<1>12. list.last = NULL <=> L = 0
  BY <1>3, <1>10
<1>13. list'.first = At(1)' /\ list'.last = At(Len(order))' /\ list'.length = Len(order')
  BY <1>3, <1>6, <1>7, <1>9, <1>10, <1>12
<1>14. Once(order')
  BY <1>3, <1>6, <1>10, <1>11 DEF Once
<1>15. Elements(order') = DOMAIN node'
  <2>1. Elements(order') = Elements(order) \union {n}
    BY <1>3, <1>6 DEF Elements
  <2> QED
    BY <1>5, <1>10, <2>1
<1>16. ASSUME NEW i \in 1 .. L + 1
       PROVE  node'[order'[i]].prev = At(i - 1)' /\ node'[order'[i]].next = At(i + 1)'
  <2>1. CASE i = L + 1
    BY <1>3, <1>5, <1>6, <1>9, <1>10, <2>1
  <2>2. CASE i # L + 1
    <3>1. i \in 1 .. L /\ order'[i] = order[i] /\ order[i] \in DOMAIN node /\ order[i] # NULL
      BY <1>3, <1>6, <1>11, <2>2
    <3>2. order[i] = list.last <=> i = L
      <4>1. L \in 1 .. L /\ At(L) = order[L] /\ DOMAIN order = 1 .. L
        BY <1>3, <3>1
      <4>2. list.last = order[L]
        BY <1>10, <4>1
      <4>3. order[i] = order[L] => i = L
        BY <1>10, <3>1, <4>1 DEF Once
      <4> QED
        BY <4>2, <4>3
    <3>3. node'[order[i]].prev = At(i - 1)
      BY <1>5, <1>10, <3>1
    <3>4. node'[order[i]].next = IF i = L THEN n ELSE At(i + 1)
      BY <1>5, <1>10, <3>1, <3>2
    <3>5. At(i - 1)' = At(i - 1)
      BY <1>3, <1>6, <1>9, <3>1
    <3>6. At(i + 1)' = IF i = L THEN n ELSE At(i + 1)
      <4>1. i + 1 \in Int /\ 1 <= i + 1 /\ i + 1 <= L + 1
        BY <1>3, <3>1
      <4>2. At(i + 1)' = order'[i + 1]
        BY <1>9, <4>1
      <4>3. CASE i = L
        BY <1>6, <4>2, <4>3
      <4>4. CASE i # L
        <5>1. i + 1 \in 1 .. L
          <6>1. L \in Nat /\ i \in 1 .. L
            BY <1>3, <3>1
          <6> HIDE DEF L
          <6> QED
            BY ONLY <4>4, <6>1
        <5>2. At(i + 1) = order[i + 1]
          BY <1>3, <4>1, <5>1
        <5>3. order'[i + 1] = order[i + 1]
          BY <1>6, <5>1
        <5> QED
          BY <4>2, <4>4, <5>2, <5>3
      <4> QED
        BY <4>3, <4>4
    <3> QED
      BY <3>1, <3>3, <3>4, <3>5, <3>6
  <2> QED
    BY <2>1, <2>2
<1>17. Linked'
  BY <1>6, <1>13, <1>14, <1>15, <1>16 DEF Linked
<1>18. CursorSafe'
  BY <1>5, <1>7 DEF ListInv, CursorSafe
<1> QED
  BY <1>8, <1>17, <1>18 DEF ListInv

\* list_unshift.
LEMMA UnshiftKeeps ==
  ASSUME ListInv, NEW v \in ListValues, list_unshift(v)
  PROVE  ListInv'
<1> DEFINE L == Len(order)
<1>1. PICK n \in ListNodes \ DOMAIN node :
        /\ Link(n, v, NULL, list.first)
        /\ list' = [list EXCEPT !.last = IF list.first = NULL THEN n ELSE @,
                                !.first = n, !.length = @ + 1]
        /\ order' = <<n>> \o order
        /\ UNCHANGED list_walk
  BY DEF list_unshift
<1>2. Shape /\ list \in ListRecord /\ order \in Seq(ListNodes) /\ Linked
  BY DEF ListInv, Shape
<1>3. /\ L \in Nat /\ DOMAIN order = 1 .. L
      /\ \A i \in DOMAIN order : order[i] \in ListNodes /\ order[i] # NULL
      /\ \A i \in Int : At(i) = IF 1 <= i /\ i <= L THEN order[i] ELSE NULL
  BY <1>2, AtFacts
<1>4. /\ list.last \in Addresses /\ list.first \in Addresses /\ list.length \in Nat
      /\ NULL \in Addresses /\ n \in Addresses
  BY <1>2 DEF ListRecord, Addresses
<1>5. /\ DOMAIN node' = DOMAIN node \union {n}
      /\ \A m \in DOMAIN node' : node'[m] \in NodeRecord
      /\ node'[n].prev = NULL /\ node'[n].next = list.first
      /\ \A m \in DOMAIN node :
           /\ m # n
           /\ node'[m].next = IF m = NULL THEN n ELSE node[m].next
           /\ node'[m].prev = IF m = list.first THEN n ELSE node[m].prev
  <2>1. PICK p \in Addresses, x \in Addresses : p = NULL /\ x = list.first /\ Link(n, v, p, x)
    BY <1>1, <1>4
  <2>2. Shape /\ NULL \in Addresses
    BY <1>2, <1>4
  <2>3. /\ DOMAIN node' = DOMAIN node \union {n}
        /\ \A m \in DOMAIN node' : node'[m] \in NodeRecord
        /\ node'[n].prev = p /\ node'[n].next = x
        /\ \A m \in DOMAIN node :
             /\ m # n
             /\ node'[m].next = IF m = p THEN n ELSE node[m].next
             /\ node'[m].prev = IF m = x THEN n ELSE node[m].prev
    BY <2>1, <2>2, LinkFacts
  <2> QED
    BY <2>1, <2>3
<1>6. /\ order' \in Seq(ListNodes) /\ Len(order') = L + 1 /\ DOMAIN order' = 1 .. L + 1
      /\ order'[1] = n /\ \A i \in 1 .. L : order'[i + 1] = order[i]
  <2>1. <<n>> \in Seq(ListNodes) /\ Len(<<n>>) = 1 /\ <<n>>[1] = n
    OBVIOUS
  <2> QED
    BY <1>1, <1>2, <1>3, <2>1
<1>7. /\ list' \in ListRecord /\ list'.length = list.length + 1 /\ list'.first = n
      /\ list'.cursor = list.cursor
      /\ list'.last = IF list.first = NULL THEN n ELSE list.last
  <2> DEFINE l == IF list.first = NULL THEN n ELSE list.last
  <2>1. l \in Addresses /\ list.length + 1 \in Nat
    BY <1>4
  <2>2. list \in [first : Addresses, last : Addresses, cursor : Addresses, length : Nat]
    BY <1>2 DEF ListRecord
  <2>3. list' = [first |-> n, last |-> l, cursor |-> list.cursor, length |-> list.length + 1]
    BY <1>1, <2>2
  <2> HIDE DEF l
  <2>4. /\ list'.first = n /\ list'.last = l /\ list'.length = list.length + 1
        /\ list'.cursor = list.cursor
    BY ONLY <2>3
  <2>5. list' \in ListRecord
    BY <1>4, <2>1, <2>2, <2>3 DEF ListRecord
  <2> QED
    BY <2>4, <2>5 DEF l
<1>8. Shape'
  BY <1>1, <1>2, <1>5, <1>6, <1>7 DEF Shape
<1>9. \A i \in Int : At(i)' = IF 1 <= i /\ i <= L + 1 THEN order'[i] ELSE NULL
  BY <1>3, <1>6 DEF At
<1>10. /\ list.first = At(1) /\ list.last = At(L) /\ list.length = L
       /\ Once(order) /\ Elements(order) = DOMAIN node
       /\ \A i \in 1 .. L : node[order[i]].prev = At(i - 1) /\ node[order[i]].next = At(i + 1)
  BY <1>2, <1>3 DEF Linked
<1>11. \A i \in 1 .. L : order[i] \in DOMAIN node /\ order[i] # NULL /\ order[i] # n
  BY <1>3, <1>10 DEF Elements
<1>12. \A i \in 1 .. L + 1 : i = 1 \/ (i - 1 \in 1 .. L /\ order'[i] = order[i - 1])
  <2>1. SUFFICES ASSUME NEW i \in 1 .. L + 1, i # 1
                 PROVE  i - 1 \in 1 .. L /\ order'[i] = order[i - 1]
    OBVIOUS
  <2>2. i - 1 \in 1 .. L /\ (i - 1) + 1 = i
    <3>1. L \in Nat
      BY <1>3
    <3> HIDE DEF L
    <3> QED
      BY ONLY <2>1, <3>1
  <2> QED
    BY <1>6, <2>2
<1>13. list'.first = At(1)' /\ list'.last = At(Len(order))' /\ list'.length = Len(order')
  <2>1. At(1)' = n /\ list'.length = Len(order')
    BY <1>3, <1>6, <1>7, <1>9, <1>10
  <2>2. At(Len(order))' = order'[L + 1]
    BY <1>3, <1>6, <1>9
  <2>3. CASE L = 0
    BY <1>3, <1>6, <1>7, <1>10, <2>1, <2>2, <2>3
  <2>4. CASE L # 0
    <3>1. L \in 1 .. L /\ 1 \in 1 .. L
      BY <1>3, <2>4
    <3>2. list.first # NULL /\ list.last = order[L]
      BY <1>3, <1>10, <1>11, <3>1
    <3> QED
      BY <1>6, <1>7, <2>1, <2>2, <3>1, <3>2
  <2> QED
    BY <2>3, <2>4
<1>14. Once(order')
  <2>1. ASSUME NEW i \in 1 .. L + 1, NEW j \in 1 .. L + 1, order'[i] = order'[j]
        PROVE  i = j
    <3>1. CASE i = 1 \/ j = 1
      BY <1>6, <1>11, <1>12, <2>1, <3>1
    <3>2. CASE i # 1 /\ j # 1
      <4>1. /\ i - 1 \in DOMAIN order /\ order'[i] = order[i - 1]
            /\ j - 1 \in DOMAIN order /\ order'[j] = order[j - 1]
        BY <1>3, <1>12, <3>2
      <4>2. i - 1 = j - 1
        BY <1>10, <2>1, <4>1 DEF Once
      <4> QED
        BY <1>3, <4>2
    <3> QED
      BY <3>1, <3>2
  <2> QED
    BY <1>6, <2>1 DEF Once
<1>15. Elements(order') = DOMAIN node'
  <2>1. \A m \in Elements(order') : m \in Elements(order) \union {n}
    BY <1>3, <1>6, <1>12 DEF Elements
  <2>2. \A i \in 1 .. L : i + 1 \in 1 .. L + 1 /\ order'[i + 1] = order[i]
    BY <1>3, <1>6
  <2>3. \A m \in Elements(order) \union {n} : m \in Elements(order')
    BY <1>3, <1>6, <2>2 DEF Elements
  <2> QED
    BY <1>5, <1>10, <2>1, <2>3
<1>16. ASSUME NEW i \in 1 .. L + 1
       PROVE  node'[order'[i]].prev = At(i - 1)' /\ node'[order'[i]].next = At(i + 1)'
  <2>0. \A j \in 1 .. L : At(j + 1)' = order[j] /\ At(j) = order[j]
    BY <1>3, <1>6, <1>9
  <2>1. At(1)' = n /\ At(0)' = NULL /\ At(L + 1) = NULL /\ At(0) = NULL
       /\ \A j \in Int : j = L + 2 => At(j)' = NULL
    BY <1>3, <1>6, <1>9
  <2>2. \A j \in 0 .. L + 1 : j # 0 => At(j + 1)' = At(j)
    <3>1. SUFFICES ASSUME NEW j \in 0 .. L + 1, j # 0 PROVE At(j + 1)' = At(j)
      OBVIOUS
    <3>2. CASE j = L + 1
      <4>1. j + 1 \in Int /\ j + 1 = L + 2
        BY <1>3, <3>2
      <4> QED
        BY <2>1, <3>2, <4>1
    <3>3. CASE j # L + 1
      <4>1. j \in 1 .. L
        BY <1>3, <3>1, <3>3
      <4> QED
        BY <2>0, <4>1
    <3> QED
      BY <3>2, <3>3
  <2>3. CASE i = 1
    <3>1. node'[order'[i]].prev = NULL /\ node'[order'[i]].next = At(1)
      BY <1>5, <1>6, <1>10, <2>3
    <3>2. 1 \in 0 .. L + 1 /\ i - 1 = 0 /\ i + 1 = 1 + 1
      BY <1>3, <2>3
    <3> QED
      BY <2>1, <2>2, <3>1, <3>2
  <2>4. CASE i # 1
    <3>1. PICK j \in 1 .. L : j = i - 1
      BY <1>12, <2>4
    <3>2. order'[i] = order[j] /\ i = j + 1
      BY <1>3, <1>12, <2>4, <3>1
    <3>3. order[j] = list.first <=> j = 1
      <4>1. 1 \in 1 .. L /\ list.first = order[1]
        BY <1>3, <1>10, <3>1
      <4> QED
        BY <1>3, <1>10, <4>1 DEF Once
    <3>4. node'[order[j]].prev = IF j = 1 THEN n ELSE At(j - 1)
      BY <1>5, <1>10, <1>11, <3>3
    <3>5. node'[order[j]].next = At(j + 1)
      BY <1>5, <1>10, <1>11
    <3>6. At(j)' = IF j = 1 THEN n ELSE At(j - 1)
      <4>1. CASE j = 1
        BY <2>1, <4>1
      <4>2. CASE j # 1
        <5>1. PICK h \in 0 .. L + 1 : h = j - 1 /\ h # 0 /\ h + 1 = j
          BY <1>3, <4>2
        <5> QED
          BY <2>2, <4>2, <5>1
      <4> QED
        BY <4>1, <4>2
    <3>7. At((j + 1) + 1)' = At(j + 1)
      <4>1. PICK h \in 0 .. L + 1 : h = j + 1 /\ h # 0
        BY <1>3
      <4> QED
        BY <2>2, <4>1
    <3>8. i - 1 = j
      BY <3>1
    <3> QED
      BY <3>2, <3>4, <3>5, <3>6, <3>7, <3>8
  <2> QED
    BY <2>3, <2>4
<1>17. Linked'
  BY <1>6, <1>13, <1>14, <1>15, <1>16 DEF Linked
<1>18. CursorSafe'
  BY <1>5, <1>7 DEF ListInv, CursorSafe
<1> QED
  BY <1>8, <1>17, <1>18 DEF ListInv

\* Taking a node out: what list_remove, list_pop and list_shift do.
LEMMA RemoveKeeps ==
  ASSUME ListInv, NEW n \in DOMAIN node, Unlink(n), Forget(n),
         list' = [first |-> IF list.first = n THEN node[n].next ELSE list.first,
                  last |-> IF list.last = n THEN node[n].prev ELSE list.last,
                  cursor |-> IF list.cursor = n THEN NULL ELSE list.cursor,
                  length |-> list.length - 1]
  PROVE  ListInv'
<1>1. Shape /\ list \in ListRecord /\ order \in Seq(ListNodes) /\ Linked
  BY DEF ListInv, Shape
<1>2. PICK L \in Nat : L = Len(order)
  BY <1>1
<1>3. /\ DOMAIN order = 1 .. L
      /\ \A i \in 1 .. L : order[i] \in ListNodes /\ order[i] # NULL
      /\ \A i \in Int : At(i) = IF 1 <= i /\ i <= L THEN order[i] ELSE NULL
  BY <1>1, <1>2, AtFacts
<1>4. /\ list.first = At(1) /\ list.last = At(L) /\ list.length = L
      /\ Once(order) /\ Elements(order) = DOMAIN node
      /\ \A i \in 1 .. L : node[order[i]].prev = At(i - 1) /\ node[order[i]].next = At(i + 1)
  BY <1>1, <1>2, <1>3 DEF Linked
<1>5. order' = Leave(order, n) /\ n \in Elements(order)
  BY <1>4 DEF Forget
<1>6. PICK k \in 1 .. L :
        /\ order[k] = n /\ L - 1 \in Nat
        /\ order' \in Seq(ListNodes) /\ Len(order') = L - 1 /\ DOMAIN order' = 1 .. L - 1
        /\ \A i \in 1 .. L - 1 : order'[i] = order[IF i < k THEN i ELSE i + 1]
  <2>1. \E k \in 1 .. Len(order) :
          /\ order[k] = n /\ DOMAIN order = 1 .. Len(order) /\ Len(order) \in Nat \ {0}
          /\ Leave(order, n) \in Seq(ListNodes) /\ Len(Leave(order, n)) = Len(order) - 1
          /\ DOMAIN Leave(order, n) = 1 .. Len(order) - 1
          /\ \A i \in 1 .. Len(order) - 1 : Leave(order, n)[i] = order[IF i < k THEN i ELSE i + 1]
    BY <1>1, <1>5, LeaveFacts, Zenon
  <2> QED
    BY <1>2, <1>5, <2>1
<1>7. \A i \in Int : At(i)' = IF 1 <= i /\ i <= L - 1 THEN order'[i] ELSE NULL
  BY <1>6 DEF At
\* The list is read as before, but for position k.
<1>8. ASSUME NEW i \in 0 .. L
      PROVE  At(i)' = IF i < k THEN At(i) ELSE At(i + 1)
  <2>1. CASE i = 0 \/ i = L
    BY <1>3, <1>6, <1>7, <2>1
  <2>2. CASE i # 0 /\ i # L
    <3>1. i \in 1 .. L - 1 /\ i \in 1 .. L /\ i + 1 \in 1 .. L
      BY <1>6, <2>2
    <3>2. At(i)' = order'[i] /\ At(i) = order[i] /\ At(i + 1) = order[i + 1]
      BY <1>3, <1>7, <3>1
    <3> QED
      BY <1>6, <3>1, <3>2
  <2> QED
    BY <2>1, <2>2
<1>9. node[n].prev = At(k - 1) /\ node[n].next = At(k + 1)
  BY <1>4, <1>6
\* Which node is before n, and which is after it.
<1>10. ASSUME NEW i \in 1 .. L
       PROVE  /\ order[i] \in DOMAIN node
              /\ order[i] = At(k - 1) <=> i = k - 1
              /\ order[i] = At(k + 1) <=> i = k + 1
  <2>1. order[i] \in DOMAIN node
    BY <1>3, <1>4 DEF Elements
  <2>2. ASSUME NEW j \in Int PROVE order[i] = At(j) <=> i = j
    <3>1. CASE j \in 1 .. L
      <4>1. At(j) = order[j]
        BY <1>3, <3>1
      <4> QED
        BY <1>3, <1>4, <3>1, <4>1 DEF Once
    <3>2. CASE j \notin 1 .. L
      <4>1. At(j) = NULL
        BY <1>3, <2>2, <3>2
      <4> QED
        BY <1>3, <3>2, <4>1
    <3> QED
      BY <3>1, <3>2
  <2> QED
    BY <2>1, <2>2
<1>11. At(k - 1) = At(k + 1) => At(k - 1) = NULL
  <2>1. SUFFICES ASSUME At(k - 1) # NULL PROVE At(k - 1) # At(k + 1)
    OBVIOUS
  <2>2. PICK j \in 1 .. L : j = k - 1
    BY <1>3, <2>1
  <2>3. At(k - 1) = order[j] /\ j # k + 1
    BY <1>3, <2>2
  <2> QED
    BY <1>10, <2>3
<1>12. /\ DOMAIN node' = DOMAIN node \ {n}
       /\ \A m \in DOMAIN node' :
            /\ node'[m] \in NodeRecord
            /\ node'[m].next = IF m = At(k - 1) THEN At(k + 1) ELSE node[m].next
            /\ node'[m].prev = IF m = At(k + 1) THEN At(k - 1) ELSE node[m].prev
  <2>1. node[n].prev = node[n].next => node[n].prev = NULL
    BY <1>9, <1>11
  <2>2. /\ DOMAIN node' = DOMAIN node \ {n}
        /\ \A m \in DOMAIN node' :
             /\ node'[m] \in NodeRecord
             /\ node'[m].next = IF m = node[n].prev THEN node[n].next ELSE node[m].next
             /\ node'[m].prev = IF m = node[n].next THEN node[n].prev ELSE node[m].prev
    BY <1>1, <2>1, UnlinkFacts
  <2> QED
    BY ONLY <1>9, <2>2
<1>13. /\ list \in [first : Addresses, last : Addresses, cursor : Addresses, length : Nat]
       /\ node[n].prev \in Addresses /\ node[n].next \in Addresses /\ NULL \in Addresses
  <2>1. node[n] \in NodeRecord
    BY <1>1 DEF Shape
  <2> QED
    BY <1>1, <2>1 DEF ListRecord, NodeRecord, Addresses
<1>14. /\ list'.first = IF list.first = n THEN At(k + 1) ELSE list.first
       /\ list'.last = IF list.last = n THEN At(k - 1) ELSE list.last
       /\ list'.cursor = IF list.cursor = n THEN NULL ELSE list.cursor
       /\ list'.length = L - 1
  BY <1>4, <1>9
<1>15. list' \in ListRecord
  BY <1>4, <1>6, <1>13 DEF ListRecord
<1>16. list_walk' \in [on : BOOLEAN, seen : Seq(ListNodes), kept : SUBSET ListNodes]
  <2>1. PICK w \in [on : BOOLEAN, seen : Seq(ListNodes), kept : SUBSET ListNodes] : w = list_walk
    BY <1>1 DEF Shape
  <2>2. PICK s \in Seq(ListNodes) : s = Leave(w.seen, n)
    <3>1. CASE n \in Elements(w.seen)
      BY <2>1, <3>1, LeaveFacts
    <3>2. CASE n \notin Elements(w.seen)
      BY <2>1, <3>2 DEF Leave
    <3> QED
      BY <3>1, <3>2
  <2>3. list_walk' = IF list.cursor = n THEN NoWalk
                     ELSE [w EXCEPT !.kept = w.kept \ {n}, !.seen = s]
    BY <2>1, <2>2 DEF Forget
  <2>4. NoWalk \in [on : BOOLEAN, seen : Seq(ListNodes), kept : SUBSET ListNodes]
    BY DEF NoWalk
  <2>5. [w EXCEPT !.kept = w.kept \ {n}, !.seen = s]
          \in [on : BOOLEAN, seen : Seq(ListNodes), kept : SUBSET ListNodes]
    OBVIOUS
  <2> QED
    BY <2>3, <2>4, <2>5
<1>17. Shape'
  BY <1>1, <1>6, <1>12, <1>15, <1>16 DEF Shape
<1>18. /\ list'.first = At(1)' /\ list'.last = At(Len(order))' /\ list'.length = Len(order')
  <2>1. list.first = n <=> k = 1
    <3>1. 1 \in 1 .. L /\ list.first = order[1]
      BY <1>3, <1>4, <1>6
    <3> QED
      BY <1>3, <1>4, <1>6, <3>1 DEF Once
  <2>2. list.last = n <=> k = L
    <3>1. L \in 1 .. L /\ list.last = order[L]
      BY <1>3, <1>4, <1>6
    <3> QED
      BY <1>3, <1>4, <1>6, <3>1 DEF Once
  <2>3. At(1)' = IF k = 1 THEN At(k + 1) ELSE At(1)
    <3>1. 1 \in 0 .. L /\ (1 < k <=> k # 1)
      BY <1>6
    <3> QED
      BY <1>8, <3>1
  <2>4. \A j \in 0 .. L : j = L - 1 => At(j)' = IF k = L THEN At(k - 1) ELSE At(L)
    <3>1. SUFFICES ASSUME NEW j \in 0 .. L, j = L - 1
                   PROVE  At(j)' = IF k = L THEN At(k - 1) ELSE At(L)
      OBVIOUS
    <3>2. (j < k <=> k = L) /\ j + 1 = L
      BY <1>6, <3>1
    <3> QED
      BY <1>8, <3>1, <3>2
  <2>5. L - 1 \in 0 .. L
    BY <1>6
  <2>6. At(Len(order))' = IF k = L THEN At(k - 1) ELSE At(L)
    BY <1>6, <2>4, <2>5
  <2> QED
    BY <1>4, <1>6, <1>14, <2>1, <2>2, <2>3, <2>6
<1>19. Once(order') /\ Elements(order') = DOMAIN node'
  BY <1>1, <1>4, <1>5, <1>12, LeaveSet
<1>20. ASSUME NEW i \in 1 .. L - 1
       PROVE  node'[order'[i]].prev = At(i - 1)' /\ node'[order'[i]].next = At(i + 1)'
  <2>1. PICK j \in 1 .. L : j = IF i < k THEN i ELSE i + 1
    BY <1>6
  <2>2. order'[i] = order[j] /\ j # k /\ (i < k => j = i) /\ (~ (i < k) => j = i + 1)
    BY <1>6, <2>1
  <2>3. order[j] \in DOMAIN node'
    BY <1>3, <1>4, <1>6, <1>10, <1>12, <2>2 DEF Once
  <2>4. /\ node'[order[j]].prev = IF j = k + 1 THEN At(k - 1) ELSE At(j - 1)
        /\ node'[order[j]].next = IF j = k - 1 THEN At(k + 1) ELSE At(j + 1)
    BY <1>4, <1>10, <1>12, <2>3
  <2>5. \A h \in 0 .. L : h = i - 1 => At(h)' = IF j = k + 1 THEN At(k - 1) ELSE At(j - 1)
    <3>1. SUFFICES ASSUME NEW h \in 0 .. L, h = i - 1
                   PROVE  At(h)' = IF j = k + 1 THEN At(k - 1) ELSE At(j - 1)
      OBVIOUS
    <3>2. CASE i < k
      <4>1. h < k /\ h = j - 1 /\ j # k + 1
        BY <2>2, <3>1, <3>2
      <4> QED
        BY <1>8, <4>1
    <3>3. CASE i = k
      <4>1. h < k /\ h = k - 1 /\ j = k + 1
        BY <2>2, <3>1, <3>3
      <4> QED
        BY <1>8, <4>1
    <3>4. CASE i > k
      <4>1. ~ (h < k) /\ h + 1 = j - 1 /\ j # k + 1
        BY <2>2, <3>1, <3>4
      <4> QED
        BY <1>8, <4>1
    <3> QED
      BY <3>2, <3>3, <3>4
  <2>6. \A h \in 0 .. L : h = i + 1 => At(h)' = IF j = k - 1 THEN At(k + 1) ELSE At(j + 1)
    <3>1. SUFFICES ASSUME NEW h \in 0 .. L, h = i + 1
                   PROVE  At(h)' = IF j = k - 1 THEN At(k + 1) ELSE At(j + 1)
      OBVIOUS
    <3>2. CASE h < k
      <4>1. i < k /\ h = j + 1 /\ j # k - 1
        BY <2>2, <3>1, <3>2
      <4> QED
        BY <1>8, <3>2, <4>1
    <3>3. CASE h = k
      <4>1. i < k /\ ~ (h < k) /\ h + 1 = k + 1 /\ j = k - 1
        BY <2>2, <3>1, <3>3
      <4> QED
        BY <1>8, <4>1
    <3>4. CASE h > k
      <4>1. ~ (i < k) /\ ~ (h < k) /\ h + 1 = j + 1 /\ j # k - 1
        BY <2>2, <3>1, <3>4
      <4> QED
        BY <1>8, <4>1
    <3> QED
      BY <3>2, <3>3, <3>4
  <2>7. i - 1 \in 0 .. L /\ i + 1 \in 0 .. L
    BY <1>6
  <2> QED
    BY <2>2, <2>4, <2>5, <2>6, <2>7
<1>21. Linked'
  BY <1>6, <1>18, <1>19, <1>20 DEF Linked
<1>22. CursorSafe'
  BY <1>12, <1>14 DEF ListInv, CursorSafe
<1> QED
  BY <1>17, <1>21, <1>22 DEF ListInv

----------------------------------------------------------------------------
(* Reading the list. *)

\* The ends and the neighbours are nodes of the list, or none.
LEMMA Neighbours ==
  ASSUME ListInv
  PROVE  /\ list.first \in DOMAIN node \union {NULL} /\ list.last \in DOMAIN node \union {NULL}
         /\ \A n \in DOMAIN node :
              /\ node[n].prev \in DOMAIN node \union {NULL}
              /\ node[n].next \in DOMAIN node \union {NULL}
<1>1. Shape /\ Linked
  BY DEF ListInv
<1>2. /\ Len(order) \in Nat /\ DOMAIN order = 1 .. Len(order)
      /\ \A i \in Int : At(i) = IF 1 <= i /\ i <= Len(order) THEN order[i] ELSE NULL
  BY <1>1, AtFacts
<1>3. \A i \in Int : At(i) \in DOMAIN node \union {NULL}
  BY <1>1, <1>2 DEF Linked, Elements
<1>4. \A n \in DOMAIN node : \E i \in DOMAIN order : n = order[i]
  BY <1>1 DEF Linked, Elements
<1>5. \A i \in DOMAIN order : i - 1 \in Int /\ i + 1 \in Int
  BY <1>2
<1> QED
  BY <1>1, <1>2, <1>3, <1>4, <1>5 DEF Linked

\* A set of naturals that is not empty has a least element.
LEMMA LeastElement ==
  ASSUME NEW T, T \subseteq Nat, T # {}
  PROVE  \E x \in T : \A y \in T : x <= y
<1> DEFINE R == OpToRel(<, Nat)
<1>1. IsWellFoundedOn(R, Nat)
  BY ONLY NatLessThanWellFounded, Zenon
<1>2. \A x, y \in Nat : <<x, y>> \in R <=> x < y
  BY DEF OpToRel
<1> HIDE DEF R
<1>3. PICK x \in T : \A y \in T : ~ (<<y, x>> \in R)
  BY <1>1, WFMin
<1>4. ASSUME NEW y \in T PROVE x <= y
  <2>1. x \in Nat /\ y \in Nat /\ ~ (y < x)
    BY <1>2, <1>3
  <2> QED
    BY <2>1
<1> QED
  BY <1>4

\* There is an address for each node.
LEMMA LengthBound ==
  ASSUME ListInv
  PROVE  /\ Len(order) \in Nat /\ Cardinality(ListNodes) \in Nat
         /\ Len(order) <= Cardinality(ListNodes) /\ Cardinality(DOMAIN node) = Len(order)
<1>1. /\ order \in Seq(ListNodes) /\ Once(order) /\ Elements(order) = DOMAIN node
      /\ DOMAIN node \subseteq ListNodes /\ IsFiniteSet(ListNodes)
  BY ListAssumption DEF ListInv, Shape, Linked
<1>2. Cardinality(DOMAIN node) = Len(order) /\ Len(order) \in Nat
  BY <1>1, OnceCounts
<1> QED
  BY <1>1, <1>2, FS_Subset, FS_CardinalityType

\* Reading along the next pointers reads the order.
LEMMA FollowIsOrder ==
  ASSUME ListInv
  PROVE  /\ DOMAIN Follow = 0 .. Cardinality(ListNodes)
         /\ \A i \in 0 .. Cardinality(ListNodes) : Follow[i] = At(i + 1)
<1> DEFINE D == 0 .. Cardinality(ListNodes)
           body(f) == [i \in D |-> IF i = 0 THEN list.first
                                   ELSE IF f[i - 1] = NULL THEN NULL ELSE node[f[i - 1]].next]
           g == [i \in D |-> At(i + 1)]
<1>1. Shape /\ Linked /\ Cardinality(ListNodes) \in Nat
  BY LengthBound DEF ListInv
<1>2. /\ Len(order) \in Nat /\ DOMAIN order = 1 .. Len(order)
      /\ \A i \in DOMAIN order : order[i] # NULL
      /\ \A i \in Int : At(i) = IF 1 <= i /\ i <= Len(order) THEN order[i] ELSE NULL
  BY <1>1, AtFacts
<1>3. /\ list.first = At(1)
      /\ \A i \in DOMAIN order : node[order[i]].next = At(i + 1)
  BY <1>1 DEF Linked
\* From one node to the next.
<1>4. ASSUME NEW i \in D, i # 0
      PROVE  /\ i - 1 \in D /\ (i - 1) + 1 = i
             /\ At(i + 1) = IF At(i) = NULL THEN NULL ELSE node[At(i)].next
  <2>1. i \in Nat /\ i - 1 \in D /\ (i - 1) + 1 = i
    BY <1>1, <1>4
  <2>2. CASE i <= Len(order)
    <3>1. i \in DOMAIN order /\ At(i) = order[i]
      BY <1>2, <1>4, <2>1, <2>2
    <3> QED
      BY <1>2, <1>3, <2>1, <3>1
  <2>3. CASE ~ (i <= Len(order))
    BY <1>2, <1>4, <2>1, <2>3
  <2> QED
    BY <2>1, <2>2, <2>3
<1>5. g = body(g)
  <2>1. ASSUME NEW i \in D PROVE g[i] = body(g)[i]
    <3>1. CASE i = 0
      BY <1>3, <3>1
    <3>2. CASE i # 0
      <4>1. g[i - 1] = At(i) /\ g[i] = At(i + 1)
        BY <1>4, <3>2
      <4> QED
        BY <1>4, <3>2, <4>1
    <3> QED
      BY <3>1, <3>2
  <2> QED
    BY <2>1
<1>6. Follow = CHOOSE f : f = body(f)
  BY DEF Follow
<1>7. Follow = body(Follow)
  <2> HIDE DEF body, g
  <2> QED
    BY <1>5, <1>6
<1>8. DOMAIN Follow = D
  BY <1>7
<1>9. ASSUME NEW i \in D
      PROVE  Follow[i] = IF i = 0 THEN list.first
                         ELSE IF Follow[i - 1] = NULL THEN NULL ELSE node[Follow[i - 1]].next
  <2> DEFINE F == Follow
  <2>1. F = body(F)
    BY <1>7
  <2> HIDE DEF F
  <2>2. F[i] = body(F)[i]
    BY <2>1
  <2>3. F[i] = IF i = 0 THEN list.first
               ELSE IF F[i - 1] = NULL THEN NULL ELSE node[F[i - 1]].next
    BY <2>2
  <2> QED
    BY <2>3 DEF F
<1>10. ASSUME NEW T, T = {i \in D : Follow[i] # At(i + 1)}, T # {} PROVE FALSE
  <2>1. T \subseteq Nat
    BY <1>1, <1>10
  <2>2. PICK i \in T : \A j \in T : i <= j
    BY <1>10, <2>1, LeastElement
  <2>3. i \in D /\ Follow[i] # At(i + 1)
    BY <1>10
  <2>4. CASE i = 0
    BY <1>3, <1>9, <2>3, <2>4
  <2>5. CASE i # 0
    <3>1. i - 1 \in D /\ ~ (i <= i - 1)
      BY <1>1, <1>4, <2>3, <2>5
    <3>2. Follow[i - 1] = At((i - 1) + 1)
      BY <1>10, <2>2, <3>1
    <3>3. Follow[i - 1] = At(i)
      BY <1>4, <2>3, <2>5, <3>2
    <3> QED
      BY <1>4, <1>9, <2>3, <2>5, <3>3
  <2> QED
    BY <2>4, <2>5
<1>11. \A i \in D : Follow[i] = At(i + 1)
  BY <1>10
<1> QED
  BY <1>8, <1>11

\* The places that are read along the next pointers.
LEMMA ReachedIsOrder ==
  ASSUME ListInv
  PROVE  /\ Len(order) \in Nat /\ DOMAIN order = 1 .. Len(order)
         /\ Reached = 0 .. Len(order) - 1 /\ Cardinality(Reached) = Len(order)
         /\ \A i \in 0 .. Len(order) - 1 : i + 1 \in DOMAIN order /\ Follow[i] = order[i + 1]
<1>1. PICK L \in Nat : L = Len(order)
  BY LengthBound
<1>2. PICK C \in Nat : C = Cardinality(ListNodes)
  BY LengthBound
<1>3. L <= C
  BY <1>1, <1>2, LengthBound
<1>4. /\ DOMAIN order = 1 .. L
      /\ \A i \in DOMAIN order : order[i] # NULL
      /\ \A i \in Int : At(i) = IF 1 <= i /\ i <= L THEN order[i] ELSE NULL
  BY <1>1, AtFacts DEF ListInv
<1>5. DOMAIN Follow = 0 .. C /\ \A i \in 0 .. C : Follow[i] = At(i + 1)
  BY <1>2, FollowIsOrder
<1>6. ASSUME NEW i \in 0 .. C PROVE Follow[i] = IF i < L THEN order[i + 1] ELSE NULL
  BY <1>4, <1>5
<1>7. \A i \in 0 .. C : i < L => i + 1 \in DOMAIN order
  BY <1>4
<1>8. Reached = 0 .. L - 1
  <2>1. Reached = {i \in 0 .. C : Follow[i] # NULL}
    BY <1>5 DEF Reached
  <2>2. \A i \in 0 .. C : Follow[i] # NULL <=> i < L
    BY <1>4, <1>6, <1>7
  <2>3. Reached = {i \in 0 .. C : i < L}
    BY <2>1, <2>2
  <2> QED
    BY <1>3, <2>3
<1>9. Cardinality(Reached) = L
  <2>1. Cardinality(0 .. L - 1) = IF 0 > L - 1 THEN 0 ELSE (L - 1) - 0 + 1
    BY FS_Interval
  <2> QED
    BY <1>8, <2>1
<1>10. \A i \in 0 .. L - 1 : i \in 0 .. C /\ i < L
  BY <1>3
<1> QED
  BY <1>1, <1>4, <1>6, <1>7, <1>8, <1>9, <1>10

\* list_has, list_find and list_remove stop at the first node whose value is equal.
LEMMA FoundIsFirst ==
  ASSUME ListInv, NEW v
  PROVE  \/ /\ FindNode(v) = NULL /\ FirstEqual(v) = NULL
            /\ \A i \in DOMAIN order : ~ Same(order[i], v)
         \/ /\ FindNode(v) \in DOMAIN node /\ FirstEqual(v) = node[FindNode(v)].value
            /\ \E i \in DOMAIN order : Same(order[i], v)
<1> DEFINE found == {i \in Reached : Same(Follow[i], v)}
           meant == {i \in DOMAIN order : Same(order[i], v)}
           f == CHOOSE i \in found : \A j \in found : i <= j
           m == CHOOSE i \in meant : \A j \in meant : i <= j
<1>1. PICK L \in Nat : L = Len(order)
  BY ReachedIsOrder
<1>2. /\ DOMAIN order = 1 .. L /\ Reached = 0 .. L - 1
      /\ \A i \in 0 .. L - 1 : i + 1 \in 1 .. L /\ Follow[i] = order[i + 1]
  BY <1>1, ReachedIsOrder
<1>3. \A i \in DOMAIN order : order[i] \in DOMAIN node
  BY DEF ListInv, Linked, Elements
<1>4. /\ FindNode(v) = IF found = {} THEN NULL ELSE Follow[f]
      /\ FirstEqual(v) = IF meant = {} THEN NULL ELSE node[order[m]].value
  BY DEF FindNode, FirstEqual
<1>5. \A i \in 0 .. L - 1 : i \in found <=> i + 1 \in meant
  BY <1>2
<1>6. \A i \in 1 .. L : i - 1 \in 0 .. L - 1 /\ (i - 1) + 1 = i
  BY <1>1
<1>7. found \subseteq 0 .. L - 1 /\ meant \subseteq 1 .. L
  BY <1>2
<1>8. CASE meant = {}
  <2>1. found = {}
    BY <1>5, <1>7, <1>8
  <2>2. \A i \in DOMAIN order : ~ Same(order[i], v)
    BY <1>8
  <2> QED
    BY <1>4, <1>8, <2>1, <2>2
<1>9. CASE meant # {}
  <2>1. found # {}
    <3>1. PICK i \in meant : TRUE
      BY <1>9
    <3> QED
      BY <1>5, <1>6, <1>7, <3>1
  <2>2. found \subseteq Nat /\ meant \subseteq Nat
    BY <1>1, <1>7
  <2>3. f \in found /\ \A j \in found : f <= j
    <3>1. \E i \in found : \A j \in found : i <= j
      BY <2>1, <2>2, LeastElement
    <3> HIDE DEF found
    <3> QED
      BY <3>1
  <2>4. m \in meant /\ \A j \in meant : m <= j
    <3>1. \E i \in meant : \A j \in meant : i <= j
      BY <1>9, <2>2, LeastElement
    <3> HIDE DEF meant
    <3> QED
      BY <3>1
  <2>5. \E i \in DOMAIN order : Same(order[i], v)
    BY <1>9
  <2> HIDE DEF found, meant, f, m
  <2>6. m = f + 1
    <3>1. f + 1 \in meant /\ m - 1 \in found
      BY <1>5, <1>6, <1>7, <2>3, <2>4
    <3>2. m <= f + 1 /\ f <= m - 1 /\ f \in Nat /\ m \in Nat
      BY <2>2, <2>3, <2>4, <3>1
    <3> QED
      BY ONLY <3>2
  <2>7. Follow[f] = order[m] /\ m \in DOMAIN order
    BY <1>2, <1>7, <2>3, <2>6
  <2> QED
    BY <1>3, <1>4, <1>9, <2>1, <2>5, <2>7
<1> QED
  BY <1>8, <1>9

----------------------------------------------------------------------------
(* The operations. *)

\* The cursor moves, and nothing else does.
LEMMA MoveKeeps ==
  ASSUME ListInv, NEW c \in DOMAIN node \union {NULL}, list' = [list EXCEPT !.cursor = c],
         UNCHANGED <<node, order>>,
         list_walk' \in [on : BOOLEAN, seen : Seq(ListNodes), kept : SUBSET ListNodes]
  PROVE  ListInv'
<1>1. Shape /\ Linked /\ list \in [first : Addresses, last : Addresses, cursor : Addresses, length : Nat]
  BY DEF ListInv, Shape, ListRecord
<1>2. c \in Addresses
  BY <1>1 DEF Shape, Addresses
<1>3. /\ list'.first = list.first /\ list'.last = list.last /\ list'.length = list.length
      /\ list'.cursor = c /\ list' \in ListRecord
  BY <1>1, <1>2 DEF ListRecord
<1>4. Shape'
  BY <1>1, <1>3 DEF Shape
<1>5. \A i : At(i)' = At(i)
  BY DEF At
<1>6. Linked'
  BY <1>1, <1>3, <1>5 DEF Linked
<1>7. CursorSafe'
  BY <1>3 DEF CursorSafe
<1> QED
  BY <1>4, <1>6, <1>7 DEF ListInv

\* What a walk is recorded to have seen.
LEMMA SeeShape ==
  ASSUME Shape, NEW n, See(n)
  PROVE  list_walk' \in [on : BOOLEAN, seen : Seq(ListNodes), kept : SUBSET ListNodes]
<1>1. PICK w \in [on : BOOLEAN, seen : Seq(ListNodes), kept : SUBSET ListNodes] : w = list_walk
  BY DEF Shape
<1>2. NoWalk \in [on : BOOLEAN, seen : Seq(ListNodes), kept : SUBSET ListNodes]
  BY DEF NoWalk
<1>3. PICK s \in Seq(ListNodes) : s = IF n \in w.kept THEN Append(w.seen, n) ELSE w.seen
  <2>1. w.seen \in Seq(ListNodes) /\ w.kept \subseteq ListNodes
    OBVIOUS
  <2>2. CASE n \in w.kept
    <3>1. Append(w.seen, n) \in Seq(ListNodes)
      BY <2>1, <2>2, AppendProperties
    <3> QED
      BY <2>2, <3>1
  <2>3. CASE n \notin w.kept
    BY <2>1, <2>3
  <2> QED
    BY <2>2, <2>3
<1>4. list_walk' = IF list.cursor = NULL THEN NoWalk ELSE [w EXCEPT !.seen = s]
  BY <1>1, <1>3 DEF See
<1> QED
  BY <1>2, <1>4

\* list_remove, list_pop and list_shift.
LEMMA RemovesKeep ==
  ASSUME ListInv,
         (\E v \in ListValues : list_remove(v)) \/ list_pop \/ list_shift
  PROVE  /\ \E n \in DOMAIN node :
              Forget(n) /\ (list.cursor # n => list'.cursor = list.cursor)
         /\ ListInv' /\ Answers'
<1>1. Shape /\ Linked /\ list \in [first : Addresses, last : Addresses, cursor : Addresses, length : Nat]
  BY DEF ListInv, Shape, ListRecord
<1>2. PICK L \in Nat : L = Len(order)
  BY LengthBound
<1>3. /\ DOMAIN order = 1 .. L
      /\ \A i \in 1 .. L : order[i] # NULL /\ order[i] \in DOMAIN node
      /\ \A i \in Int : At(i) = IF 1 <= i /\ i <= L THEN order[i] ELSE NULL
      /\ list.first = At(1) /\ list.last = At(L)
      /\ \A i \in 1 .. L : node[order[i]].prev = At(i - 1) /\ node[order[i]].next = At(i + 1)
  BY <1>1, <1>2, AtFacts DEF Linked, Elements
<1>4. CASE \E v \in ListValues : list_remove(v)
  <2>1. PICK v \in ListValues : list_remove(v)
    BY <1>4
  <2>2. PICK n \in DOMAIN node : n = FindNode(v)
    BY <2>1, FoundIsFirst DEF list_remove
  <2>3. /\ Unlink(n) /\ Forget(n) /\ answer' = NoAnswer
        /\ list' = [list EXCEPT !.cursor = IF list.cursor = n THEN NULL ELSE list.cursor,
                                !.first = IF list.first = n THEN node[n].next ELSE list.first,
                                !.last = IF list.last = n THEN node[n].prev ELSE list.last,
                                !.length = list.length - 1]
    BY <2>1, <2>2 DEF list_remove
  <2>4. list' = [first |-> IF list.first = n THEN node[n].next ELSE list.first,
                 last |-> IF list.last = n THEN node[n].prev ELSE list.last,
                 cursor |-> IF list.cursor = n THEN NULL ELSE list.cursor,
                 length |-> list.length - 1]
    BY <1>1, <2>3
  <2>5. ListInv'
    BY <2>3, <2>4, RemoveKeeps
  <2>6. list.cursor # n => list'.cursor = list.cursor
    BY <2>4
  <2> QED
    BY <2>3, <2>5, <2>6 DEF Answers, NoAnswer
<1>5. CASE list_pop
  <2>1. L \in 1 .. L /\ list.last = order[L]
    BY <1>3, <1>5 DEF list_pop
  <2>2. PICK n \in DOMAIN node : n = list.last
    BY <1>3, <2>1
  <2>3. node[n].next = NULL
    BY <1>3, <2>1, <2>2
  <2>4. /\ Unlink(n) /\ Forget(n) /\ answer' = [is |-> node[n].value, means |-> Contents[L]]
        /\ list' = [list EXCEPT !.cursor = IF list.cursor = n THEN NULL ELSE list.cursor,
                                !.first = IF list.first = n THEN NULL ELSE list.first,
                                !.last = node[n].prev,
                                !.length = list.length - 1]
    BY <1>2, <1>5, <2>2 DEF list_pop
  <2>5. list' = [first |-> IF list.first = n THEN node[n].next ELSE list.first,
                 last |-> IF list.last = n THEN node[n].prev ELSE list.last,
                 cursor |-> IF list.cursor = n THEN NULL ELSE list.cursor,
                 length |-> list.length - 1]
    BY <1>1, <2>2, <2>3, <2>4
  <2>6. ListInv'
    BY <2>4, <2>5, RemoveKeeps
  <2>7. Contents[L] = node[n].value
    BY <1>3, <2>1, <2>2 DEF Contents
  <2>8. list.cursor # n => list'.cursor = list.cursor
    BY <2>5
  <2> QED
    BY <2>4, <2>6, <2>7, <2>8 DEF Answers
<1>6. CASE list_shift
  <2>1. 1 \in 1 .. L /\ list.first = order[1]
    BY <1>3, <1>6 DEF list_shift
  <2>2. PICK n \in DOMAIN node : n = list.first
    BY <1>3, <2>1
  <2>3. node[n].prev = NULL
    BY <1>3, <2>1, <2>2
  <2>4. /\ Unlink(n) /\ Forget(n) /\ answer' = [is |-> node[n].value, means |-> Contents[1]]
        /\ list' = [list EXCEPT !.cursor = IF list.cursor = n THEN NULL ELSE list.cursor,
                                !.last = IF list.last = n THEN NULL ELSE list.last,
                                !.first = node[n].next,
                                !.length = list.length - 1]
    BY <1>2, <1>6, <2>2 DEF list_shift
  <2>5. list' = [first |-> IF list.first = n THEN node[n].next ELSE list.first,
                 last |-> IF list.last = n THEN node[n].prev ELSE list.last,
                 cursor |-> IF list.cursor = n THEN NULL ELSE list.cursor,
                 length |-> list.length - 1]
    BY <1>1, <2>2, <2>3, <2>4
  <2>6. ListInv'
    BY <2>4, <2>5, RemoveKeeps
  <2>7. Contents[1] = node[n].value
    BY <1>3, <2>1, <2>2 DEF Contents
  <2>8. list.cursor # n => list'.cursor = list.cursor
    BY <2>5
  <2> QED
    BY <2>4, <2>6, <2>7, <2>8 DEF Answers
<1> QED
  BY <1>4, <1>5, <1>6

\* list_purge frees every node.
LEMMA PurgeKeeps ==
  ASSUME ListInv, list_purge
  PROVE  ListInv' /\ Answers'
<1>1. Shape /\ Linked
  BY DEF ListInv
<1>2. PICK L \in Nat : L = Len(order)
  BY ReachedIsOrder
<1>3. /\ DOMAIN order = 1 .. L /\ Reached = 0 .. L - 1
      /\ \A i \in 0 .. L - 1 : i + 1 \in 1 .. L /\ Follow[i] = order[i + 1]
  BY <1>2, ReachedIsOrder
<1>4. ASSUME NEW m \in DOMAIN node PROVE \E i \in Reached : Follow[i] = m
  <2>1. PICK i \in 1 .. L : m = order[i]
    BY <1>1, <1>3 DEF Linked, Elements
  <2>2. i - 1 \in 0 .. L - 1 /\ (i - 1) + 1 = i
    BY <1>2
  <2> QED
    BY <1>3, <2>1, <2>2
<1>5. DOMAIN node' = {}
  BY <1>4 DEF list_purge, Without
<1>6. /\ list' = [first |-> NULL, last |-> NULL, cursor |-> NULL, length |-> 0]
      /\ order' = <<>> /\ list_walk' = NoWalk /\ answer' = NoAnswer
  BY DEF list_purge
<1>7. NULL \in Addresses
  BY DEF Addresses
<1>8. list' \in ListRecord
  BY <1>6, <1>7 DEF ListRecord
<1>9. order' \in Seq(ListNodes) /\ Len(order') = 0 /\ DOMAIN order' = {}
  BY <1>6
<1>10. list_walk' \in [on : BOOLEAN, seen : Seq(ListNodes), kept : SUBSET ListNodes]
  BY <1>6 DEF NoWalk
<1>11. Shape'
  BY <1>5, <1>8, <1>9, <1>10 DEF Shape
<1>12. \A i : At(i)' = NULL
  BY <1>9 DEF At
<1>13. Linked'
  BY <1>5, <1>6, <1>9, <1>12 DEF Linked, Once, Elements
<1>14. CursorSafe' /\ Answers'
  BY <1>6 DEF CursorSafe, Answers, NoAnswer
<1> QED
  BY <1>11, <1>13, <1>14 DEF ListInv

\* The operations that move the cursor.
LEMMA MovesKeep ==
  ASSUME ListInv,
         \/ \E v \in ListValues : list_find(v)
         \/ list_first \/ list_next \/ list_prev \/ list_last
         \/ list_copy \/ list_copy_reversed
  PROVE  ListInv' /\ Answers'
<1> DEFINE Walks == [on : BOOLEAN, seen : Seq(ListNodes), kept : SUBSET ListNodes]
<1>1. Shape /\ Linked /\ CursorSafe /\ NoWalk \in Walks
  BY DEF ListInv, NoWalk
<1>2. PICK L \in Nat : L = Len(order)
  BY ReachedIsOrder
<1>3. /\ DOMAIN order = 1 .. L /\ Reached = 0 .. L - 1 /\ Cardinality(Reached) = L
      /\ \A i \in 0 .. L - 1 : i + 1 \in 1 .. L /\ Follow[i] = order[i + 1]
  BY <1>2, ReachedIsOrder
<1>4. \A i \in 1 .. L : i - 1 \in 0 .. L - 1 /\ Follow[i - 1] = order[i]
  <2>1. \A i \in 1 .. L : i - 1 \in 0 .. L - 1 /\ (i - 1) + 1 = i
    BY <1>2
  <2> QED
    BY <1>3, <2>1
<1> HIDE DEF Walks
<1>5. CASE \E v \in ListValues : list_find(v)
  <2>1. PICK v \in ListValues : list_find(v)
    BY <1>5
  <2>2. PICK c \in DOMAIN node \union {NULL} :
          c = IF FindNode(v) = NULL THEN list.first ELSE FindNode(v)
    BY Neighbours, FoundIsFirst
  <2>3. list' = [list EXCEPT !.cursor = c] /\ UNCHANGED <<node, order>> /\ list_walk' \in Walks
    BY <1>1, <2>1, <2>2 DEF list_find
  <2>4. ListInv'
    BY <2>3, MoveKeeps DEF Walks
  <2>5. answer'.is = answer'.means
    <3>1. FindNode(v) \in DOMAIN node => FindNode(v) # NULL
      BY <1>1, ListAssumption DEF Shape
    <3>2. answer' = [is |-> IF FindNode(v) = NULL THEN NULL ELSE node[FindNode(v)].value,
                     means |-> FirstEqual(v)]
      BY <2>1 DEF list_find
    <3> QED
      BY <3>1, <3>2, FoundIsFirst
  <2> QED
    BY <2>4, <2>5 DEF Answers
<1>6. CASE list_first
  <2>1. PICK c \in DOMAIN node \union {NULL} : c = list.first
    BY Neighbours
  <2>2. Elements(order) \subseteq ListNodes
    BY <1>1 DEF Linked, Shape
  <2>3. list.first \in ListNodes \union {NULL}
    BY <1>1, Neighbours DEF Shape
  <2>4. list_walk' \in Walks
    BY <1>6, <2>2, <2>3 DEF list_first, Walks
  <2>5. list' = [list EXCEPT !.cursor = c] /\ UNCHANGED <<node, order>> /\ answer' = NoAnswer
    BY <1>6, <2>1 DEF list_first
  <2>6. ListInv'
    BY <2>4, <2>5, MoveKeeps DEF Walks
  <2> QED
    BY <2>5, <2>6 DEF Answers, NoAnswer
<1>7. CASE list_next
  <2>1. PICK c \in DOMAIN node \union {NULL} :
          c = IF list.cursor # NULL THEN node[list.cursor].next ELSE list.first
    BY <1>1, Neighbours DEF CursorSafe
  <2>2. list' = [list EXCEPT !.cursor = c] /\ UNCHANGED <<node, order>> /\ answer' = NoAnswer
    BY <1>7, <2>1 DEF list_next
  <2>3. See(c)
    BY <1>7, <2>1 DEF list_next
  <2>4. list_walk' \in Walks
    BY <1>1, <2>3, SeeShape DEF Walks
  <2>5. ListInv'
    BY <2>2, <2>4, MoveKeeps DEF Walks
  <2> QED
    BY <2>2, <2>5 DEF Answers, NoAnswer
<1>8. CASE list_prev
  <2>1. PICK c \in DOMAIN node \union {NULL} :
          c = IF list.cursor # NULL THEN node[list.cursor].prev ELSE list.last
    BY <1>1, Neighbours DEF CursorSafe
  <2>2. /\ list' = [list EXCEPT !.cursor = c] /\ UNCHANGED <<node, order>> /\ answer' = NoAnswer
        /\ list_walk' \in Walks
    BY <1>1, <1>8, <2>1 DEF list_prev
  <2>3. ListInv'
    BY <2>2, MoveKeeps DEF Walks
  <2> QED
    BY <2>2, <2>3 DEF Answers, NoAnswer
<1>9. CASE list_last
  <2>1. PICK c \in DOMAIN node \union {NULL} : c = list.last
    BY Neighbours
  <2>2. /\ list' = [list EXCEPT !.cursor = c] /\ UNCHANGED <<node, order>> /\ answer' = NoAnswer
        /\ list_walk' \in Walks
    BY <1>1, <1>9, <2>1 DEF list_last
  <2>3. ListInv'
    BY <2>2, MoveKeeps DEF Walks
  <2> QED
    BY <2>2, <2>3 DEF Answers, NoAnswer
<1>10. CASE list_copy
  <2>1. /\ list' = [list EXCEPT !.cursor = NULL] /\ UNCHANGED <<node, order>>
        /\ list_walk' \in Walks /\ NULL \in DOMAIN node \union {NULL}
    BY <1>1, <1>10 DEF list_copy
  <2>2. ListInv'
    BY <2>1, MoveKeeps DEF Walks
  <2>3. [i \in 1 .. L |-> node[Follow[i - 1]].value] = Contents
    BY <1>3, <1>4 DEF Contents
  <2>4. answer' = [is |-> [i \in 1 .. L |-> node[Follow[i - 1]].value], means |-> Contents]
    BY <1>3, <1>10 DEF list_copy
  <2> QED
    BY <2>2, <2>3, <2>4 DEF Answers
<1>11. CASE list_copy_reversed
  <2>1. /\ list' = [list EXCEPT !.cursor = NULL] /\ UNCHANGED <<node, order>>
        /\ list_walk' \in Walks /\ NULL \in DOMAIN node \union {NULL}
    BY <1>1, <1>11 DEF list_copy_reversed
  <2>2. ListInv'
    BY <2>1, MoveKeeps DEF Walks
  <2>3. ASSUME NEW i \in 1 .. L PROVE node[Follow[L - i]].value = Contents[L + 1 - i]
    <3>1. PICK j \in 0 .. L - 1 : j = L - i /\ L + 1 - i = j + 1
      BY <1>2
    <3>2. Follow[j] = order[j + 1] /\ j + 1 \in DOMAIN order
      BY <1>3, <3>1
    <3> QED
      BY <3>1, <3>2 DEF Contents
  <2>4. [i \in 1 .. L |-> node[Follow[L - i]].value] = [i \in 1 .. L |-> Contents[L + 1 - i]]
    BY <2>3
  <2>5. answer' = [is |-> [i \in 1 .. L |-> node[Follow[L - i]].value],
                   means |-> [i \in 1 .. L |-> Contents[L + 1 - i]]]
    BY <1>2, <1>3, <1>11 DEF list_copy_reversed
  <2> QED
    BY <2>2, <2>4, <2>5 DEF Answers
<1> QED
  BY <1>5, <1>6, <1>7, <1>8, <1>9, <1>10, <1>11

\* list_has and list_get.
LEMMA QuestionsKeep ==
  ASSUME ListInv,
         \/ \E v \in ListValues : list_has(v)
         \/ \E i \in 0 .. Cardinality(ListNodes) : list_get(i)
  PROVE  ListInv' /\ Answers'
<1>1. UNCHANGED <<list, node, order, list_walk>>
  BY DEF list_has, list_get
<1>2. \A i : At(i)' = At(i)
  BY <1>1 DEF At
<1>3. ListInv'
  BY <1>1, <1>2 DEF ListInv, Shape, Linked, CursorSafe
<1>4. CASE \E v \in ListValues : list_has(v)
  <2>1. PICK v \in ListValues : list_has(v)
    BY <1>4
  <2>2. DOMAIN node \subseteq ListNodes /\ NULL \notin ListNodes
    BY ListAssumption DEF ListInv, Shape
  <2>3. FindNode(v) # NULL <=> \E i \in DOMAIN order : Same(order[i], v)
    BY <2>2, FoundIsFirst
  <2> QED
    BY <1>3, <2>1, <2>3 DEF list_has, Answers
<1>5. CASE \E i \in 0 .. Cardinality(ListNodes) : list_get(i)
  <2>1. PICK i \in 0 .. Cardinality(ListNodes) : list_get(i)
    BY <1>5
  <2>2. PICK L \in Nat : L = Len(order)
    BY ReachedIsOrder
  <2>3. /\ DOMAIN order = 1 .. L /\ Reached = 0 .. L - 1
        /\ \A j \in 0 .. L - 1 : j + 1 \in 1 .. L /\ Follow[j] = order[j + 1]
    BY <2>2, ReachedIsOrder
  <2>4. i \in Reached <=> i < L
    BY <2>1, <2>2, <2>3, LengthBound
  <2>5. i \in Reached => Contents[i + 1] = node[Follow[i]].value
    BY <2>3 DEF Contents
  <2>6. answer' = [is |-> IF i \in Reached THEN node[Follow[i]].value ELSE NULL,
                   means |-> IF i < L THEN Contents[i + 1] ELSE NULL]
    BY <2>1, <2>2 DEF list_get
  <2> QED
    BY <1>3, <2>4, <2>5, <2>6 DEF Answers
<1> QED
  BY <1>4, <1>5

\* An operation keeps what the list is and answers what it means.
LEMMA NextKeeps ==
  ASSUME ListInv, Answers, [ListNext]_listVars
  PROVE  ListInv' /\ Answers'
<1>1. CASE \E v \in ListValues : list_push(v)
  <2>1. ListInv'
    BY <1>1, PushKeeps
  <2> QED
    BY <1>1, <2>1 DEF list_push, Answers, NoAnswer
<1>2. CASE \E v \in ListValues : list_unshift(v)
  <2>1. ListInv'
    BY <1>2, UnshiftKeeps
  <2> QED
    BY <1>2, <2>1 DEF list_unshift, Answers, NoAnswer
<1>3. CASE (\E v \in ListValues : list_remove(v)) \/ list_pop \/ list_shift
  BY <1>3, RemovesKeep
<1>4. CASE list_purge
  BY <1>4, PurgeKeeps
<1>5. CASE \/ \E v \in ListValues : list_find(v)
           \/ list_first \/ list_next \/ list_prev \/ list_last
           \/ list_copy \/ list_copy_reversed
  BY <1>5, MovesKeep
<1>6. CASE \/ \E v \in ListValues : list_has(v)
           \/ \E i \in 0 .. Cardinality(ListNodes) : list_get(i)
  BY <1>6, QuestionsKeep
<1>7. CASE UNCHANGED listVars
  <2>1. UNCHANGED <<list, node, order, list_walk, answer>>
    BY <1>7 DEF listVars
  <2>2. \A i : At(i)' = At(i)
    BY <2>1 DEF At
  <2> QED
    BY <2>1, <2>2 DEF ListInv, Shape, Linked, CursorSafe, Answers
<1> QED
  BY <1>1, <1>2, <1>3, <1>4, <1>5, <1>6, <1>7 DEF ListNext

\* The invariant gives what the run checks.
LEMMA InvGivesListCorrect ==
  ASSUME ListInv, Answers
  PROVE  ListCorrect
<1>1. Shape /\ Linked /\ CursorSafe
  BY DEF ListInv
<1>2. /\ Len(order) \in Nat /\ Cardinality(ListNodes) \in Nat
      /\ Len(order) <= Cardinality(ListNodes) /\ Cardinality(DOMAIN node) = Len(order)
  BY LengthBound
<1>3. list.length \in 0 .. Cardinality(ListNodes)
  BY <1>1, <1>2 DEF Linked
<1>4. {list.first, list.last, list.cursor} \subseteq ListNodes \union {NULL}
  BY <1>1 DEF Shape, ListRecord, Addresses
<1>5. \A n \in DOMAIN node :
        /\ {node[n].prev, node[n].next} \subseteq ListNodes \union {NULL}
        /\ node[n].value \in ListValues
  BY <1>1 DEF Shape, NodeRecord, Addresses
<1>6. ListTypeOK
  BY <1>1, <1>3, <1>4, <1>5 DEF ListTypeOK, Shape
<1>7. Links
  BY <1>1, <1>2 DEF Links, Linked
<1> QED
  BY <1>1, <1>6, <1>7 DEF ListCorrect

\* An empty list.
LEMMA InitGivesInv ==
  ASSUME ListInit
  PROVE  ListInv /\ Answers
<1>1. /\ list = [first |-> NULL, last |-> NULL, cursor |-> NULL, length |-> 0]
      /\ node = <<>> /\ order = <<>> /\ list_walk = NoWalk /\ answer = NoAnswer
  BY DEF ListInit
<1>2. list \in ListRecord
  BY <1>1 DEF ListRecord, Addresses
<1>3. order \in Seq(ListNodes) /\ Len(order) = 0 /\ DOMAIN order = {} /\ DOMAIN node = {}
  BY <1>1
<1>4. list_walk \in [on : BOOLEAN, seen : Seq(ListNodes), kept : SUBSET ListNodes]
  BY <1>1 DEF NoWalk
<1>5. Shape
  BY <1>2, <1>3, <1>4 DEF Shape
<1>6. \A i : At(i) = NULL
  BY <1>3 DEF At
<1>7. Linked
  BY <1>1, <1>3, <1>6 DEF Linked, Once, Elements
<1> QED
  BY <1>1, <1>5, <1>7 DEF ListInv, CursorSafe, Answers, NoAnswer

\* In every reachable state the pointers that the operations of list.c patch one by
\* one describe the list that the calls have made, in both directions, with its
\* ends and its length; no node leaks, the cursor is never on a freed node, and
\* has, find, get, pop, shift and the copies answer what the calls make them mean.
THEOREM ListIsCorrect == ListSpec => []ListCorrect
<1>1. ListInit => ListInv /\ Answers
  BY InitGivesInv
<1>2. ListInv /\ Answers /\ [ListNext]_listVars => (ListInv /\ Answers)'
  BY NextKeeps
<1>3. ListInv /\ Answers => ListCorrect
  BY InvGivesListCorrect
<1> QED
  BY <1>1, <1>2, <1>3, PTL DEF ListSpec

----------------------------------------------------------------------------
(* A walk. *)

\* A walk goes on while other nodes come and go, if the nodes that stay keep
\* their sides of the cursor.
LEMMA WalkCarried ==
  ASSUME ListInv, Walked, list_walk.on, list'.cursor = list.cursor,
         list_walk'.kept \subseteq list_walk.kept, list_walk'.kept \subseteq Elements(order'),
         Once(list_walk'.seen),
         Elements(list_walk'.seen) = Elements(list_walk.seen) \intersect list_walk'.kept,
         \A k, i \in DOMAIN order' :
           list.cursor = order'[k] /\ order'[i] \in list_walk'.kept
             => \E h, j \in DOMAIN order :
                  order[h] = order'[k] /\ order[j] = order'[i] /\ (j <= h <=> i <= k)
  PROVE  Walked'
<1>1. list'.cursor = NULL => list_walk'.kept \subseteq Elements(list_walk'.seen)
  BY DEF Walked
<1>2. ASSUME NEW k \in DOMAIN order', NEW i \in DOMAIN order',
             list'.cursor = order'[k], order'[i] \in list_walk'.kept
      PROVE  order'[i] \in Elements(list_walk'.seen) <=> i <= k
  <2>1. PICK h \in DOMAIN order, j \in DOMAIN order :
          order[h] = order'[k] /\ order[j] = order'[i] /\ (j <= h <=> i <= k)
    BY <1>2
  <2>2. order[j] \in Elements(list_walk.seen) <=> j <= h
    BY <1>2, <2>1 DEF Walked
  <2> QED
    BY <1>2, <2>1, <2>2
<1> QED
  BY <1>1, <1>2 DEF Walked

\* A node that comes is not one that the walk has to see.
LEMMA PushWalked ==
  ASSUME ListInv, Walked, NEW v \in ListValues, list_push(v) \/ list_unshift(v)
  PROVE  Walked'
<1>1. SUFFICES ASSUME list_walk'.on PROVE Walked'
  BY DEF Walked
<1>2. list_walk' = list_walk /\ list_walk.on
  BY <1>1 DEF list_push, list_unshift
<1>3. Shape /\ Linked /\ CursorSafe /\ order \in Seq(ListNodes)
  BY DEF ListInv, Shape
<1>4. PICK L \in Nat : L = Len(order) /\ DOMAIN order = 1 .. L
  BY <1>3, AtFacts
<1>5. /\ Once(list_walk.seen) /\ Elements(list_walk.seen) \subseteq list_walk.kept
      /\ list_walk.kept \subseteq Elements(order)
  BY <1>2 DEF Walked
<1>6. NULL \notin ListNodes /\ Elements(order) = DOMAIN node
  BY <1>3, ListAssumption DEF Linked
<1>7. CASE list_push(v)
  <2>1. PICK n \in ListNodes \ DOMAIN node :
          /\ order' = Append(order, n)
          /\ list' = [list EXCEPT !.first = IF list.last = NULL THEN n ELSE @,
                                  !.last = n, !.length = @ + 1]
    BY <1>7 DEF list_push
  <2>2. list'.cursor = list.cursor
    BY <1>3, <2>1 DEF Shape, ListRecord
  <2>3. /\ DOMAIN order' = 1 .. L + 1 /\ order'[L + 1] = n
        /\ \A i \in 1 .. L : order'[i] = order[i]
    BY <1>3, <1>4, <2>1
  <2>4. Elements(order) \subseteq Elements(order')
    BY <1>4, <2>3 DEF Elements
  <2>5. list.cursor # n /\ n \notin list_walk.kept
    BY <1>3, <1>5, <1>6 DEF CursorSafe
  <2>6. ASSUME NEW k \in DOMAIN order', NEW i \in DOMAIN order',
               list.cursor = order'[k] /\ order'[i] \in list_walk'.kept
        PROVE  \E h, j \in DOMAIN order :
                 order[h] = order'[k] /\ order[j] = order'[i] /\ (j <= h <=> i <= k)
    <3>1. k # L + 1 /\ i # L + 1
      BY <1>2, <2>3, <2>5, <2>6
    <3>2. k \in DOMAIN order /\ i \in DOMAIN order
      BY <1>4, <2>3, <3>1
    <3> QED
      BY <1>4, <2>3, <3>2
  <2> QED
    BY <1>2, <1>5, <2>2, <2>4, <2>6, WalkCarried
<1>8. CASE list_unshift(v)
  <2>1. PICK n \in ListNodes \ DOMAIN node :
          /\ order' = <<n>> \o order
          /\ list' = [list EXCEPT !.last = IF list.first = NULL THEN n ELSE @,
                                  !.first = n, !.length = @ + 1]
    BY <1>8 DEF list_unshift
  <2>2. list'.cursor = list.cursor
    BY <1>3, <2>1 DEF Shape, ListRecord
  <2>3. /\ DOMAIN order' = 1 .. L + 1 /\ order'[1] = n
        /\ \A i \in 1 .. L : order'[i + 1] = order[i]
    <3>1. <<n>> \in Seq(ListNodes) /\ Len(<<n>>) = 1 /\ <<n>>[1] = n
      OBVIOUS
    <3> QED
      BY <1>3, <1>4, <2>1, <3>1
  <2>4. ASSUME NEW i \in 1 .. L PROVE order[i] \in Elements(order')
    <3>1. i + 1 \in DOMAIN order' /\ order'[i + 1] = order[i]
      BY <1>4, <2>3
    <3> QED
      BY <3>1 DEF Elements
  <2>5. Elements(order) \subseteq Elements(order')
    BY <1>4, <2>4 DEF Elements
  <2>6. list.cursor # n /\ n \notin list_walk.kept
    BY <1>3, <1>5, <1>6 DEF CursorSafe
  <2>7. ASSUME NEW k \in DOMAIN order', NEW i \in DOMAIN order',
               list.cursor = order'[k] /\ order'[i] \in list_walk'.kept
        PROVE  \E h, j \in DOMAIN order :
                 order[h] = order'[k] /\ order[j] = order'[i] /\ (j <= h <=> i <= k)
    <3>1. k # 1 /\ i # 1
      BY <1>2, <2>3, <2>6, <2>7
    <3>2. PICK h \in 1 .. L : h = k - 1 /\ h + 1 = k
      BY <1>4, <2>3, <3>1
    <3>3. PICK j \in 1 .. L : j = i - 1 /\ j + 1 = i
      BY <1>4, <2>3, <3>1
    <3>4. order[h] = order'[k] /\ order[j] = order'[i]
      BY <2>3, <3>2, <3>3
    <3>5. j <= h <=> i <= k
      BY <3>2, <3>3
    <3> QED
      BY <1>4, <3>4, <3>5
  <2> QED
    BY <1>2, <1>5, <2>2, <2>5, <2>7, WalkCarried
<1> QED
  BY <1>7, <1>8

\* A node that leaves is not one that the walk has to see any more.
LEMMA RemoveWalked ==
  ASSUME ListInv, Walked,
         (\E v \in ListValues : list_remove(v)) \/ list_pop \/ list_shift
  PROVE  Walked'
<1>1. PICK n \in DOMAIN node : Forget(n) /\ (list.cursor # n => list'.cursor = list.cursor)
  BY RemovesKeep
<1>2. CASE list.cursor = n
  <2>1. ~ list_walk'.on
    BY <1>1, <1>2 DEF Forget, NoWalk
  <2> QED
    BY <2>1 DEF Walked
<1>3. CASE list.cursor # n
  <2>1. SUFFICES ASSUME list_walk'.on PROVE Walked'
    BY DEF Walked
  <2>2. Shape /\ Linked /\ order \in Seq(ListNodes)
    BY DEF ListInv, Shape
  <2>3. PICK w \in [on : BOOLEAN, seen : Seq(ListNodes), kept : SUBSET ListNodes] : w = list_walk
    BY <2>2 DEF Shape
  <2>4. list_walk' = [w EXCEPT !.kept = w.kept \ {n}, !.seen = Leave(w.seen, n)]
    BY <1>1, <1>3, <2>3 DEF Forget
  <2>5. /\ list_walk'.on = list_walk.on /\ list_walk'.kept = list_walk.kept \ {n}
        /\ list_walk'.seen = Leave(list_walk.seen, n)
    BY <2>3, <2>4
  <2>6. list_walk.on /\ list_walk.seen \in Seq(ListNodes)
    BY <2>1, <2>3, <2>5
  <2>7. /\ Once(list_walk.seen) /\ Elements(list_walk.seen) \subseteq list_walk.kept
        /\ list_walk.kept \subseteq Elements(order)
    BY <2>6 DEF Walked
  <2>8. Once(list_walk'.seen) /\ Elements(list_walk'.seen) = Elements(list_walk.seen) \ {n}
    BY <2>5, <2>6, <2>7, LeaveSet
  <2>9. Once(order) /\ n \in Elements(order) /\ order' = Leave(order, n)
    BY <1>1, <2>2 DEF Linked, Forget
  <2>10. Elements(order') = Elements(order) \ {n}
    BY <2>2, <2>9, LeaveSet
  <2>11. PICK p \in 1 .. Len(order) :
           /\ DOMAIN order = 1 .. Len(order) /\ Len(order) \in Nat \ {0}
           /\ DOMAIN order' = 1 .. Len(order) - 1
           /\ \A i \in 1 .. Len(order) - 1 : order'[i] = order[IF i < p THEN i ELSE i + 1]
    <3>1. \E p \in 1 .. Len(order) :
            /\ order[p] = n /\ DOMAIN order = 1 .. Len(order) /\ Len(order) \in Nat \ {0}
            /\ Leave(order, n) \in Seq(ListNodes) /\ Len(Leave(order, n)) = Len(order) - 1
            /\ DOMAIN Leave(order, n) = 1 .. Len(order) - 1
            /\ \A i \in 1 .. Len(order) - 1 :
                 Leave(order, n)[i] = order[IF i < p THEN i ELSE i + 1]
      BY <2>2, <2>9, LeaveFacts
    <3> QED
      BY ONLY <2>9, <3>1
  <2>12. PICK L \in Nat : L = Len(order)
    BY <2>11
  <2>13. ASSUME NEW k \in DOMAIN order', NEW i \in DOMAIN order'
         PROVE  \E h, j \in DOMAIN order :
                  order[h] = order'[k] /\ order[j] = order'[i] /\ (j <= h <=> i <= k)
    <3>1. i \in 1 .. L - 1 /\ k \in 1 .. L - 1 /\ DOMAIN order = 1 .. L /\ p \in 1 .. L
      BY <2>11, <2>12
    <3>2. PICK h \in 1 .. L : h = IF k < p THEN k ELSE k + 1
      BY <2>12, <3>1
    <3>3. PICK j \in 1 .. L : j = IF i < p THEN i ELSE i + 1
      BY <2>12, <3>1
    <3>4. order[h] = order'[k] /\ order[j] = order'[i]
      BY <2>11, <2>12, <3>1, <3>2, <3>3
    <3>5. j <= h <=> i <= k
      BY <2>12, <3>1, <3>2, <3>3
    <3> QED
      BY <3>1, <3>4, <3>5
  <2>14. Elements(list_walk'.seen) = Elements(list_walk.seen) \intersect list_walk'.kept
    BY <2>5, <2>7, <2>8
  <2>15. list_walk'.kept \subseteq list_walk.kept /\ list_walk'.kept \subseteq Elements(order')
    BY <2>5, <2>7, <2>10
  <2> QED
    BY <1>1, <1>3, <2>6, <2>8, <2>13, <2>14, <2>15, WalkCarried
<1> QED
  BY <1>2, <1>3

\* The walk starts.
LEMMA FirstWalked ==
  ASSUME ListInv, list_first
  PROVE  Walked'
<1>1. Shape /\ Linked
  BY DEF ListInv
<1>2. PICK L \in Nat : L = Len(order)
  BY LengthBound
<1>3. /\ DOMAIN order = 1 .. L
      /\ \A i \in DOMAIN order : order[i] \in ListNodes /\ order[i] # NULL
      /\ list.first = At(1) /\ Once(order)
      /\ At(1) = IF 1 <= L THEN order[1] ELSE NULL
  BY <1>1, <1>2, AtFacts DEF Linked
<1>4. /\ order' = order /\ list'.cursor = list.first
      /\ list_walk'.kept = Elements(order)
      /\ list_walk'.seen = IF list.first = NULL THEN <<>> ELSE <<list.first>>
  BY <1>1 DEF list_first, Shape, ListRecord
<1>5. CASE L = 0
  <2>1. Elements(order) = {} /\ list_walk'.seen = <<>>
    BY <1>3, <1>4, <1>5 DEF Elements
  <2>2. Once(list_walk'.seen) /\ Elements(list_walk'.seen) = {}
    BY <2>1 DEF Once, Elements
  <2> QED
    BY <1>4, <2>1, <2>2 DEF Walked
<1>6. CASE L # 0
  <2>1. 1 \in DOMAIN order /\ list.first = order[1] /\ list.first # NULL
    BY <1>3, <1>6
  <2>2. list_walk'.seen = <<order[1]>>
    BY <1>4, <2>1
  <2>3. Once(list_walk'.seen) /\ Elements(list_walk'.seen) = {order[1]}
    <3>1. DOMAIN <<order[1]>> = 1 .. 1 /\ <<order[1]>>[1] = order[1]
      OBVIOUS
    <3>2. \A i \in 1 .. 1 : i = 1
      OBVIOUS
    <3> QED
      BY <2>2, <3>1, <3>2 DEF Once, Elements
  <2>4. Elements(list_walk'.seen) \subseteq list_walk'.kept
    BY <1>4, <2>1, <2>3 DEF Elements
  <2>5. ASSUME NEW k \in DOMAIN order', NEW i \in DOMAIN order', list'.cursor = order'[k]
        PROVE  order'[i] \in Elements(list_walk'.seen) <=> i <= k
    <3>1. k = 1 /\ (order[i] = order[1] <=> i = 1) /\ i \in 1 .. L
      BY <1>3, <1>4, <2>1, <2>5 DEF Once
    <3>2. i <= k <=> i = 1
      BY <3>1
    <3> QED
      BY <1>4, <2>3, <3>1, <3>2
  <2> QED
    BY <1>4, <2>1, <2>3, <2>4, <2>5 DEF Walked
<1> QED
  BY <1>5, <1>6

\* The walk goes on to the next node.
LEMMA NextWalked ==
  ASSUME ListInv, Walked, list_next
  PROVE  Walked'
<1>1. CASE list.cursor = NULL
  <2>1. ~ list_walk'.on
    BY <1>1 DEF list_next, See, NoWalk
  <2> QED
    BY <2>1 DEF Walked
<1>2. CASE list.cursor # NULL
  <2>1. SUFFICES ASSUME list_walk'.on PROVE Walked'
    BY DEF Walked
  <2>2. Shape /\ Linked /\ CursorSafe
    BY DEF ListInv
  <2>3. PICK L \in Nat : L = Len(order)
    BY LengthBound
  <2>4. /\ DOMAIN order = 1 .. L /\ Once(order)
        /\ \A i \in DOMAIN order : order[i] \in ListNodes /\ order[i] # NULL
        /\ \A i \in Int : At(i) = IF 1 <= i /\ i <= L THEN order[i] ELSE NULL
    BY <2>2, <2>3, AtFacts DEF Linked
  <2>5. PICK h \in 1 .. L : list.cursor = order[h]
    BY <1>2, <2>2, <2>4 DEF CursorSafe, Linked, Elements
  <2>6. PICK c \in Addresses : c = At(h + 1) /\ c = node[list.cursor].next
    <3>1. node[list.cursor].next = At(h + 1)
      BY <2>2, <2>4, <2>5 DEF Linked
    <3>2. At(h + 1) \in Addresses
      BY <2>4 DEF Addresses
    <3> QED
      BY <3>1, <3>2
  <2>7. order' = order /\ list'.cursor = c /\ See(c)
    BY <1>2, <2>2, <2>6 DEF list_next, Shape, ListRecord
  <2>8. PICK w \in [on : BOOLEAN, seen : Seq(ListNodes), kept : SUBSET ListNodes] : w = list_walk
    BY <2>2 DEF Shape
  <2>9. list_walk' = [w EXCEPT !.seen = IF c \in w.kept THEN Append(w.seen, c) ELSE w.seen]
    BY <1>2, <2>7, <2>8 DEF See
  <2>10. /\ list_walk'.on = w.on /\ list_walk'.kept = w.kept
         /\ list_walk'.seen = IF c \in w.kept THEN Append(w.seen, c) ELSE w.seen
    BY <2>8, <2>9
  <2>11. /\ Once(w.seen) /\ Elements(w.seen) \subseteq w.kept /\ w.kept \subseteq Elements(order)
         /\ \A i \in DOMAIN order : order[i] \in w.kept => (order[i] \in Elements(w.seen) <=> i <= h)
    BY <2>1, <2>4, <2>5, <2>8, <2>10 DEF Walked
  <2>12. CASE c = NULL
    <3>1. h = L
      BY <2>3, <2>4, <2>6, <2>12
    <3>2. c \notin w.kept
      BY <2>8, <2>12, ListAssumption
    <3>3. \A i \in DOMAIN order : i <= h /\ order'[i] # list'.cursor
      BY <2>4, <2>7, <2>12, <3>1
    <3>4. w.kept \subseteq Elements(w.seen)
      BY <2>11, <3>3 DEF Elements
    <3> QED
      BY <2>7, <2>10, <2>11, <3>2, <3>3, <3>4 DEF Walked
  <2>13. CASE c # NULL
    <3>1. h + 1 \in DOMAIN order /\ c = order[h + 1]
      BY <2>4, <2>6, <2>13
    <3>2. \A i \in DOMAIN order : c = order[i] <=> i = h + 1
      BY <2>4, <3>1 DEF Once
    <3>3. c \in w.kept => c \notin Elements(w.seen)
      BY <2>11, <3>1
    <3>4. /\ Once(list_walk'.seen)
          /\ Elements(list_walk'.seen) = Elements(w.seen) \union (w.kept \intersect {c})
      <4>1. CASE c \in w.kept
        <5>1. PICK M \in Nat : M = Len(w.seen) /\ DOMAIN w.seen = 1 .. M
          BY <2>8
        <5>2. /\ DOMAIN list_walk'.seen = 1 .. M + 1 /\ list_walk'.seen[M + 1] = c
              /\ \A i \in 1 .. M : list_walk'.seen[i] = w.seen[i]
          BY <2>8, <2>10, <4>1, <5>1
        <5>3. \A i \in 1 .. M : w.seen[i] # c
          BY <3>3, <4>1, <5>1 DEF Elements
        <5>4. Once(list_walk'.seen)
          BY <2>11, <5>1, <5>2, <5>3 DEF Once
        <5>5. Elements(list_walk'.seen) = Elements(w.seen) \union {c}
          BY <5>1, <5>2 DEF Elements
        <5> QED
          BY <4>1, <5>4, <5>5
      <4>2. CASE c \notin w.kept
        BY <2>10, <2>11, <4>2
      <4> QED
        BY <4>1, <4>2
    <3>5. ASSUME NEW k \in DOMAIN order', NEW i \in DOMAIN order',
                 list'.cursor = order'[k], order'[i] \in list_walk'.kept
          PROVE  order'[i] \in Elements(list_walk'.seen) <=> i <= k
      <4>1. k = h + 1 /\ i \in DOMAIN order /\ order[i] \in w.kept
        BY <2>7, <2>10, <3>2, <3>5
      <4>2. order[i] \in Elements(list_walk'.seen) <=> (i <= h \/ i = h + 1)
        BY <2>11, <3>2, <3>4, <4>1
      <4>3. i <= k <=> (i <= h \/ i = h + 1)
        BY <2>4, <4>1
      <4> QED
        BY <2>7, <4>2, <4>3
    <3>6. Elements(list_walk'.seen) \subseteq list_walk'.kept
      BY <2>10, <2>11, <3>4
    <3> QED
      BY <2>7, <2>10, <2>11, <2>13, <3>4, <3>5, <3>6 DEF Walked
  <2> QED
    BY <2>12, <2>13
<1> QED
  BY <1>1, <1>2

\* Every operation keeps what a walk has seen.
LEMMA StepWalked ==
  ASSUME ListInv, Walked, [ListNext]_listVars
  PROVE  Walked'
<1>1. CASE \E v \in ListValues : list_push(v) \/ list_unshift(v)
  BY <1>1, PushWalked
<1>2. CASE (\E v \in ListValues : list_remove(v)) \/ list_pop \/ list_shift
  BY <1>2, RemoveWalked
<1>3. CASE list_first
  BY <1>3, FirstWalked
<1>4. CASE list_next
  BY <1>4, NextWalked
<1>5. CASE \/ list_purge \/ list_prev \/ list_last \/ list_copy \/ list_copy_reversed
           \/ \E v \in ListValues : list_find(v)
  <2>1. ~ list_walk'.on
    BY <1>5 DEF list_purge, list_prev, list_last, list_copy, list_copy_reversed, list_find, NoWalk
  <2> QED
    BY <2>1 DEF Walked
<1>6. CASE \/ \E v \in ListValues : list_has(v)
           \/ \E i \in 0 .. Cardinality(ListNodes) : list_get(i)
           \/ UNCHANGED listVars
  <2>1. UNCHANGED <<list, node, order, list_walk>>
    BY <1>6 DEF list_has, list_get, listVars
  <2> QED
    BY <2>1 DEF Walked
<1> QED
  BY <1>1, <1>2, <1>3, <1>4, <1>5, <1>6 DEF ListNext

\* What a walk has seen at its end.
LEMMA WalkedIsComplete ==
  ASSUME ListInv, Walked
  PROVE  WalkComplete
<1> DEFINE times(n) == Cardinality({i \in DOMAIN list_walk.seen : list_walk.seen[i] = n})
<1>1. SUFFICES ASSUME list_walk.on, NEW n \in list_walk.kept
               PROVE  times(n) <= 1 /\ (list.cursor = NULL => times(n) = 1)
  BY DEF WalkComplete
<1>2. Once(list_walk.seen) /\ (list.cursor = NULL => list_walk.kept \subseteq Elements(list_walk.seen))
  BY <1>1 DEF Walked
<1>3. CASE n \in Elements(list_walk.seen)
  <2>1. PICK i \in DOMAIN list_walk.seen : list_walk.seen[i] = n
    BY <1>3 DEF Elements
  <2>2. {j \in DOMAIN list_walk.seen : list_walk.seen[j] = n} = {i}
    BY <1>2, <2>1 DEF Once
  <2>3. times(n) = 1
    BY <2>2, FS_Singleton
  <2> HIDE DEF times
  <2> QED
    BY <2>3
<1>4. CASE n \notin Elements(list_walk.seen)
  <2>1. {j \in DOMAIN list_walk.seen : list_walk.seen[j] = n} = {}
    BY <1>4 DEF Elements
  <2>2. times(n) = 0
    BY <2>1, FS_EmptySet
  <2>3. list.cursor # NULL
    BY <1>1, <1>2, <1>4
  <2> HIDE DEF times
  <2> QED
    BY <2>2, <2>3
<1> QED
  BY <1>3, <1>4

\* In every reachable state, whatever the calls push, unshift and remove during a
\* walk with list_first and list_next, the walk has answered no node twice, and at
\* its end it has answered every node that was in the list all the time.
THEOREM WalksAreComplete == ListSpec => []WalkComplete
<1>1. ListInit => ListInv /\ Answers /\ Walked
  <2>1. ListInit => ListInv /\ Answers
    BY InitGivesInv
  <2>2. ListInit => Walked
    BY DEF ListInit, NoWalk, Walked
  <2> QED
    BY <2>1, <2>2
<1>2. ListInv /\ Answers /\ Walked /\ [ListNext]_listVars => (ListInv /\ Answers /\ Walked)'
  BY NextKeeps, StepWalked
<1>3. ListInv /\ Answers /\ Walked => WalkComplete
  BY WalkedIsComplete
<1> QED
  BY <1>1, <1>2, <1>3, PTL DEF ListSpec

----------------------------------------------------------------------------
(* Arrays. *)

Slots == ArrayValues \union {NULL}

\* The array of that size that holds the sequence c, and NULL above it.
Holding(s, g, c) ==
  [size |-> s, grow_step |-> g, cursor |-> Len(c),
   values |-> [i \in 0 .. s - 1 |-> IF i < Len(c) THEN c[i + 1] ELSE NULL]]

\* The sequence that is meant when v is put at the index.
PutLength(c, index) == IF index < Len(c) THEN Len(c) ELSE index + 1
Put(c, index, v) ==
  [i \in 1 .. PutLength(c, index) |->
     IF i = index + 1 THEN v ELSE IF i <= Len(c) THEN c[i] ELSE NULL]

ArrayInv ==
  \E s \in Nat, g \in Nat \ {0}, c \in Seq(Slots) :
    contents = c /\ array = Holding(s, g, c) /\ Len(c) <= s

----------------------------------------------------------------------------
(* The operations as functions. *)

\* Growing an array changes nothing but its size.
LEMMA ResizeIs ==
  ASSUME NEW s \in Nat, NEW g, NEW c \in Seq(Slots), Len(c) <= s, NEW t \in Nat, s <= t
  PROVE  array_resize(Holding(s, g, c), t) = Holding(t, g, c)
<1> DEFINE old == [i \in 0 .. s - 1 |-> IF i < Len(c) THEN c[i + 1] ELSE NULL]
           new == [i \in 0 .. s - 1 \union 0 .. t - 1 |-> IF i \in 0 .. s - 1 THEN old[i] ELSE NULL]
<1>1. PICK L \in Nat : L = Len(c)
  OBVIOUS
<1>2. 0 .. s - 1 \union 0 .. t - 1 = 0 .. t - 1
  OBVIOUS
<1>3. ASSUME NEW i \in 0 .. t - 1
      PROVE  (IF i \in 0 .. s - 1 THEN old[i] ELSE NULL) = IF i < L THEN c[i + 1] ELSE NULL
  BY <1>1
<1>4. new = [i \in 0 .. t - 1 |-> IF i < Len(c) THEN c[i + 1] ELSE NULL]
  BY <1>1, <1>2, <1>3
<1>5. array_resize(Holding(s, g, c), t)
        = [size |-> t, grow_step |-> g, cursor |-> Len(c), values |-> new]
  <2>1. DOMAIN old = 0 .. s - 1
    OBVIOUS
  <2>2. Holding(s, g, c) = [size |-> s, grow_step |-> g, cursor |-> Len(c), values |-> old]
    BY DEF Holding
  <2> DEFINE a == Holding(s, g, c)
             x == [i \in DOMAIN a.values \union 0 .. t - 1 |->
                     IF i \in DOMAIN a.values THEN a.values[i] ELSE NULL]
  <2>3. array_resize(a, t) = [a EXCEPT !.size = t, !.values = x]
    BY DEF array_resize
  <2> HIDE DEF old, x
  <2>5. a.values = old
    BY <2>2
  <2>6. x = new
    BY <2>1, <2>5 DEF x
  <2>7. [a EXCEPT !.size = t, !.values = x]
          = [size |-> t, grow_step |-> g, cursor |-> Len(c), values |-> x]
    <3>1. PICK r : r = a
      OBVIOUS
    <3>2. r = [size |-> s, grow_step |-> g, cursor |-> Len(c), values |-> old]
      BY ONLY <2>2, <3>1
    <3>3. PICK q : q = [r EXCEPT !.size = t]
      OBVIOUS
    <3>4. q = [size |-> t, grow_step |-> g, cursor |-> Len(c), values |-> old]
      BY ONLY <3>2, <3>3
    <3>5. [q EXCEPT !.values = x] = [size |-> t, grow_step |-> g, cursor |-> Len(c), values |-> x]
      BY ONLY <3>4
    <3> QED
      BY ONLY <3>1, <3>3, <3>5
  <2> QED
    BY <2>3, <2>6, <2>7
<1> QED
  BY <1>4, <1>5 DEF Holding

\* The sequence with v at the index.
LEMMA PutIs ==
  ASSUME NEW c \in Seq(Slots), NEW index \in Nat, NEW v \in Slots
  PROVE  /\ Put(c, index, v) \in Seq(Slots)
         /\ Len(Put(c, index, v)) = PutLength(c, index)
         /\ \A i \in 1 .. PutLength(c, index) :
              Put(c, index, v)[i] = IF i = index + 1 THEN v ELSE IF i <= Len(c) THEN c[i] ELSE NULL
<1>1. PICK L \in Nat : L = Len(c)
  OBVIOUS
<1>2. PICK M \in Nat : M = PutLength(c, index) /\ M = IF index < L THEN L ELSE index + 1
  BY <1>1 DEF PutLength
<1>3. ASSUME NEW i \in 1 .. M
      PROVE  (IF i = index + 1 THEN v ELSE IF i <= L THEN c[i] ELSE NULL) \in Slots
  BY <1>1 DEF Slots
<1>4. Put(c, index, v) = [i \in 1 .. M |-> IF i = index + 1 THEN v ELSE IF i <= L THEN c[i] ELSE NULL]
  BY <1>1, <1>2 DEF Put
<1>5. Put(c, index, v) \in Seq(Slots) /\ Len(Put(c, index, v)) = M
  BY <1>3, <1>4
<1> QED
  BY <1>1, <1>2, <1>4, <1>5

\* The array with v in one place, before its cursor is moved.
Replaced(s, g, c, index, v) ==
  [size |-> s, grow_step |-> g, cursor |-> Len(c),
   values |-> [i \in 0 .. s - 1 |->
                 IF i = index THEN v ELSE IF i < Len(c) THEN c[i + 1] ELSE NULL]]

\* A store below the size.
LEMMA StoreRecord ==
  ASSUME NEW s \in Nat, NEW g, NEW c \in Seq(Slots), NEW index \in Nat, index < s, NEW v
  PROVE  Store(Holding(s, g, c), index, v) = Replaced(s, g, c, index, v)
<1> DEFINE old == [i \in 0 .. s - 1 |-> IF i < Len(c) THEN c[i + 1] ELSE NULL]
           new == [i \in 0 .. s - 1 |-> IF i = index THEN v ELSE IF i < Len(c) THEN c[i + 1] ELSE NULL]
<1>1. 0 .. s - 1 \union {index} = 0 .. s - 1
  OBVIOUS
<1>2. DOMAIN old = 0 .. s - 1 /\ \A i \in 0 .. s - 1 : old[i] = IF i < Len(c) THEN c[i + 1] ELSE NULL
  OBVIOUS
<1>3. Holding(s, g, c) = [size |-> s, grow_step |-> g, cursor |-> Len(c), values |-> old]
  BY DEF Holding
<1> HIDE DEF old
<1>4. Store(Holding(s, g, c), index, v)
        = [size |-> s, grow_step |-> g, cursor |-> Len(c),
           values |-> [i \in DOMAIN old \union {index} |-> IF i = index THEN v ELSE old[i]]]
  BY <1>3 DEF Store
<1>5. [i \in DOMAIN old \union {index} |-> IF i = index THEN v ELSE old[i]] = new
  BY <1>1, <1>2
<1>6. Replaced(s, g, c, index, v) = [size |-> s, grow_step |-> g, cursor |-> Len(c), values |-> new]
  BY DEF Replaced
<1> QED
  BY <1>4, <1>5, <1>6

\* What it makes of the sequence.
LEMMA StoreIs ==
  ASSUME NEW s \in Nat, NEW g, NEW c \in Seq(Slots), Len(c) <= s,
         NEW index \in Nat, index < s, NEW v \in Slots
  PROVE  /\ [Store(Holding(s, g, c), index, v) EXCEPT !.cursor = Len(Put(c, index, v))]
              = Holding(s, g, Put(c, index, v))
         /\ Store(Holding(s, g, c), index, v).cursor = Len(c)
         /\ Len(Put(c, index, v)) <= s
<1> DEFINE new == [i \in 0 .. s - 1 |-> IF i = index THEN v ELSE IF i < Len(c) THEN c[i + 1] ELSE NULL]
<1>1. PICK L \in Nat : L = Len(c)
  OBVIOUS
<1>2. PICK M \in Nat : M = PutLength(c, index) /\ M = IF index < L THEN L ELSE index + 1
  BY <1>1 DEF PutLength
<1>3. PICK d \in Seq(Slots) : d = Put(c, index, v) /\ M = Len(d)
  BY <1>2, PutIs
<1>4. \A i \in 1 .. M : d[i] = IF i = index + 1 THEN v ELSE IF i <= L THEN c[i] ELSE NULL
  <2>1. \A i \in 1 .. PutLength(c, index) :
          Put(c, index, v)[i] = IF i = index + 1 THEN v ELSE IF i <= Len(c) THEN c[i] ELSE NULL
    BY PutIs
  <2> QED
    BY ONLY <1>1, <1>2, <1>3, <2>1
<1>5. ASSUME NEW i \in 0 .. s - 1
      PROVE  (IF i = index THEN v ELSE IF i < L THEN c[i + 1] ELSE NULL)
               = IF i < M THEN d[i + 1] ELSE NULL
  <2>1. /\ i < M => i + 1 \in 1 .. M
        /\ i + 1 = index + 1 <=> i = index
        /\ i + 1 <= L <=> i < L
    OBVIOUS
  <2>2. CASE i < M
    <3>1. d[i + 1] = IF i + 1 = index + 1 THEN v ELSE IF i + 1 <= L THEN c[i + 1] ELSE NULL
      BY <1>4, <2>1, <2>2
    <3> QED
      BY ONLY <2>1, <2>2, <3>1
  <2>3. CASE ~ (i < M)
    <3>1. i # index /\ ~ (i < L)
      BY <1>2, <2>3
    <3> QED
      BY ONLY <2>3, <3>1
  <2> QED
    BY <2>2, <2>3
<1>6. new = [i \in 0 .. s - 1 |-> IF i < Len(d) THEN d[i + 1] ELSE NULL]
  BY <1>1, <1>3, <1>5
<1>7. Store(Holding(s, g, c), index, v)
        = [size |-> s, grow_step |-> g, cursor |-> Len(c), values |-> new]
  <2>1. Store(Holding(s, g, c), index, v) = Replaced(s, g, c, index, v)
    BY StoreRecord
  <2> QED
    BY ONLY <2>1 DEF Replaced
<1>8. Len(d) <= s
  BY <1>1, <1>2, <1>3
<1> HIDE DEF new
<1>9. PICK r : r = Store(Holding(s, g, c), index, v)
  OBVIOUS
<1>10. r.cursor = Len(c)
       /\ [r EXCEPT !.cursor = Len(d)] = [size |-> s, grow_step |-> g, cursor |-> Len(d), values |-> new]
  <2>1. r = [size |-> s, grow_step |-> g, cursor |-> Len(c), values |-> new]
    BY ONLY <1>7, <1>9
  <2> QED
    BY ONLY <2>1
<1>11. Holding(s, g, d) = [size |-> s, grow_step |-> g, cursor |-> Len(d), values |-> new]
  BY ONLY <1>6 DEF Holding
<1> QED
  BY ONLY <1>3, <1>8, <1>9, <1>10, <1>11

\* array_push grows a full array and appends the value.
LEMMA PushIs ==
  ASSUME NEW s \in Nat, NEW g \in Nat \ {0}, NEW c \in Seq(Slots), Len(c) <= s, NEW v \in Slots,
         NEW t \in Nat, t = IF Len(c) = s THEN s + g ELSE s
  PROVE  array_push(Holding(s, g, c), v) = Holding(t, g, Append(c, v)) /\ Len(Append(c, v)) <= t
<1>1. PICK L \in Nat : L = Len(c)
  OBVIOUS
<1>2. t = IF L = s THEN s + g ELSE s
  BY <1>1
<1>3. s <= t /\ L < t
  BY <1>1, <1>2
<1>4. array_resize(Holding(s, g, c), s + g) = Holding(s + g, g, c)
  BY ResizeIs
<1>5. /\ Holding(s, g, c).cursor = L /\ Holding(s, g, c).size = s
      /\ Holding(s, g, c).grow_step = g /\ Holding(t, g, c).cursor = L
  BY <1>1 DEF Holding
<1>6. array_push(Holding(s, g, c), v) = [Store(Holding(t, g, c), L, v) EXCEPT !.cursor = @ + 1]
  BY <1>2, <1>4, <1>5 DEF array_push
<1>7. Put(c, L, v) = Append(c, v) /\ Len(Put(c, L, v)) = L + 1
  <2>1. PICK M \in Nat : M = L + 1
    OBVIOUS
  <2>2. M = PutLength(c, L)
    BY <1>1, <2>1 DEF PutLength
  <2>3. /\ Put(c, L, v) \in Seq(Slots) /\ Len(Put(c, L, v)) = M
        /\ \A i \in 1 .. M : Put(c, L, v)[i] = IF i = L + 1 THEN v ELSE IF i <= L THEN c[i] ELSE NULL
    <3>1. /\ Put(c, L, v) \in Seq(Slots) /\ Len(Put(c, L, v)) = PutLength(c, L)
          /\ \A i \in 1 .. PutLength(c, L) :
               Put(c, L, v)[i] = IF i = L + 1 THEN v ELSE IF i <= Len(c) THEN c[i] ELSE NULL
      BY ONLY L \in Nat, c \in Seq(Slots), v \in Slots, PutIs
    <3> QED
      BY ONLY <1>1, <2>2, <3>1
  <2>4. /\ Append(c, v) \in Seq(Slots) /\ Len(Append(c, v)) = M
        /\ \A i \in 1 .. M : Append(c, v)[i] = IF i = L + 1 THEN v ELSE c[i]
    BY <1>1, <2>1
  <2>5. \A i \in 1 .. M : i <= L \/ i = L + 1
    BY <2>1
  <2> QED
    BY <2>1, <2>3, <2>4, <2>5, SeqEqual
<1>8. /\ [Store(Holding(t, g, c), L, v) EXCEPT !.cursor = Len(Put(c, L, v))]
           = Holding(t, g, Put(c, L, v))
      /\ Store(Holding(t, g, c), L, v).cursor = L
      /\ Len(Put(c, L, v)) <= t
  <2>1. Len(c) <= t
    BY <1>1, <1>3
  <2>2. /\ [Store(Holding(t, g, c), L, v) EXCEPT !.cursor = Len(Put(c, L, v))]
              = Holding(t, g, Put(c, L, v))
        /\ Store(Holding(t, g, c), L, v).cursor = Len(c)
        /\ Len(Put(c, L, v)) <= t
    BY ONLY <1>3, <2>1, t \in Nat, L \in Nat, c \in Seq(Slots), v \in Slots, StoreIs
  <2> QED
    BY ONLY <1>1, <2>2
<1> QED
  BY <1>6, <1>7, <1>8

\* The first values of a sequence.
LEMMA FirstValues ==
  ASSUME NEW c \in Seq(Slots), NEW h \in Nat, h <= Len(c)
  PROVE  /\ SubSeq(c, 1, h) \in Seq(Slots) /\ Len(SubSeq(c, 1, h)) = h
         /\ \A i \in 1 .. h : SubSeq(c, 1, h)[i] = c[i]
<1>1. \A i \in 1 .. h : c[i] \in Slots
  OBVIOUS
<1>2. /\ SubSeq(c, 1, h) \in Seq(Slots)
      /\ Len(SubSeq(c, 1, h)) = IF 1 <= h THEN h - 1 + 1 ELSE 0
      /\ \A i \in 1 .. h - 1 + 1 : SubSeq(c, 1, h)[i] = c[1 + i - 1]
  BY <1>1, SubSeqProperties
<1>3. /\ (IF 1 <= h THEN h - 1 + 1 ELSE 0) = h /\ h - 1 + 1 = h
      /\ \A i \in 1 .. h : 1 + i - 1 = i
  OBVIOUS
<1> QED
  BY <1>2, <1>3

\* The last values of a sequence.
LEMMA LastValues ==
  ASSUME NEW c \in Seq(Slots), NEW h \in Nat, NEW n \in Nat, h + n = Len(c)
  PROVE  /\ SubSeq(c, h + 1, Len(c)) \in Seq(Slots) /\ Len(SubSeq(c, h + 1, Len(c))) = n
         /\ \A i \in 1 .. n : SubSeq(c, h + 1, Len(c))[i] = c[h + i]
<1>1. PICK m \in Nat : m = h + n /\ m = Len(c)
  OBVIOUS
<1>2. \A i \in h + 1 .. m : c[i] \in Slots
  BY <1>1
<1>3. /\ SubSeq(c, h + 1, m) \in Seq(Slots)
      /\ Len(SubSeq(c, h + 1, m)) = IF h + 1 <= m THEN m - (h + 1) + 1 ELSE 0
      /\ \A i \in 1 .. m - (h + 1) + 1 : SubSeq(c, h + 1, m)[i] = c[(h + 1) + i - 1]
  BY <1>2, SubSeqProperties
<1>4. /\ (IF h + 1 <= m THEN m - (h + 1) + 1 ELSE 0) = n /\ m - (h + 1) + 1 = n
      /\ \A i \in 1 .. n : (h + 1) + i - 1 = h + i
  BY <1>1
<1> QED
  BY <1>1, <1>3, <1>4

\* array_pop takes the last value off, array_top reads it.
LEMMA PopIs ==
  ASSUME NEW s \in Nat, NEW g, NEW c \in Seq(Slots), Len(c) <= s, Len(c) > 0
  PROVE  /\ array_pop(Holding(s, g, c)) = Holding(s, g, SubSeq(c, 1, Len(c) - 1))
         /\ array_top(Holding(s, g, c)) = c[Len(c)]
<1>1. PICK L \in Nat : L = Len(c) /\ L # 0 /\ L - 1 \in Nat /\ L - 1 < s
  OBVIOUS
<1>2. PICK d \in Seq(Slots) : /\ d = SubSeq(c, 1, L - 1) /\ Len(d) = L - 1
                               /\ \A i \in 1 .. L - 1 : d[i] = c[i]
  <2>1. PICK h \in Nat : h = L - 1 /\ h <= Len(c)
    BY <1>1
  <2>2. /\ SubSeq(c, 1, h) \in Seq(Slots) /\ Len(SubSeq(c, 1, h)) = h
        /\ \A i \in 1 .. h : SubSeq(c, 1, h)[i] = c[i]
    BY <2>1, FirstValues
  <2> QED
    BY ONLY <2>1, <2>2
<1> DEFINE new == [i \in 0 .. s - 1 |-> IF i = L - 1 THEN NULL ELSE IF i < Len(c) THEN c[i + 1] ELSE NULL]
<1>3. /\ Holding(s, g, c).cursor = L
      /\ Holding(s, g, c).values = [i \in 0 .. s - 1 |-> IF i < Len(c) THEN c[i + 1] ELSE NULL]
  BY <1>1 DEF Holding
<1>4. Store(Holding(s, g, c), L - 1, NULL)
        = [size |-> s, grow_step |-> g, cursor |-> Len(c), values |-> new]
  <2>1. PICK k \in Nat : k = L - 1 /\ k < s
    BY ONLY <1>1
  <2>2. Store(Holding(s, g, c), k, NULL) = Replaced(s, g, c, k, NULL)
    BY <2>1, StoreRecord
  <2> QED
    BY ONLY <2>1, <2>2 DEF Replaced
<1>5. ASSUME NEW i \in 0 .. s - 1
      PROVE  (IF i = L - 1 THEN NULL ELSE IF i < L THEN c[i + 1] ELSE NULL)
               = IF i < L - 1 THEN d[i + 1] ELSE NULL
  <2>1. CASE i < L - 1
    <3>1. i + 1 \in 1 .. L - 1 /\ i # L - 1 /\ i < L
      BY <1>1, <2>1
    <3> QED
      BY <1>2, <2>1, <3>1
  <2>2. CASE ~ (i < L - 1)
    <3>1. i = L - 1 \/ ~ (i < L)
      BY <1>1, <2>2
    <3> QED
      BY ONLY <2>2, <3>1
  <2> QED
    BY <2>1, <2>2
<1>6. new = [i \in 0 .. s - 1 |-> IF i < Len(d) THEN d[i + 1] ELSE NULL]
  BY <1>1, <1>2, <1>5
<1> HIDE DEF new
<1>7. PICK r : r = Store(Holding(s, g, c), L - 1, NULL)
  OBVIOUS
<1>8. [r EXCEPT !.cursor = @ - 1] = [size |-> s, grow_step |-> g, cursor |-> L - 1, values |-> new]
  <2>1. r = [size |-> s, grow_step |-> g, cursor |-> L, values |-> new]
    BY ONLY <1>1, <1>4, <1>7
  <2> QED
    BY ONLY <2>1
<1>9. Holding(s, g, d) = [size |-> s, grow_step |-> g, cursor |-> L - 1, values |-> new]
  BY ONLY <1>2, <1>6 DEF Holding
<1>10. array_pop(Holding(s, g, c)) = [r EXCEPT !.cursor = @ - 1]
  BY ONLY <1>3, <1>7 DEF array_pop
<1>11. array_top(Holding(s, g, c)) = c[L]
  <2>1. L - 1 \in 0 .. s - 1 /\ L - 1 < L /\ (L - 1) + 1 = L
    BY <1>1
  <2> QED
    BY <1>1, <1>3, <2>1 DEF array_top
<1> QED
  BY ONLY <1>1, <1>2, <1>8, <1>9, <1>10, <1>11

\* array_set grows an array that the index is beyond.
LEMMA SetIs ==
  ASSUME NEW s \in Nat, NEW g \in Nat \ {0}, NEW c \in Seq(Slots), Len(c) <= s,
         NEW index \in Nat, NEW v \in Slots
  PROVE  \E t \in Nat :
           /\ array_set(Holding(s, g, c), index, v) = Holding(t, g, Put(c, index, v))
           /\ Len(Put(c, index, v)) <= t
<1>1. PICK L \in Nat : L = Len(c)
  OBVIOUS
<1>2. PICK t \in Nat : t = IF index >= s THEN index + g ELSE s
  OBVIOUS
<1>3. s <= t /\ index < t /\ Len(c) <= t
  BY <1>1, <1>2
<1>4. index >= s => array_resize(Holding(s, g, c), index + g) = Holding(index + g, g, c)
  BY ResizeIs
<1>5. /\ Holding(s, g, c).size = s /\ Holding(s, g, c).grow_step = g
  BY DEF Holding
<1>6. /\ [Store(Holding(t, g, c), index, v) EXCEPT !.cursor = Len(Put(c, index, v))]
           = Holding(t, g, Put(c, index, v))
      /\ Store(Holding(t, g, c), index, v).cursor = Len(c)
      /\ Len(Put(c, index, v)) <= t
  BY <1>3, StoreIs
<1>7. array_set(Holding(s, g, c), index, v)
        = [Store(Holding(t, g, c), index, v) EXCEPT !.cursor = IF index >= @ THEN index + 1 ELSE @]
  BY ONLY <1>2, <1>4, <1>5 DEF array_set
<1>8. Len(Put(c, index, v)) = IF index >= Len(c) THEN index + 1 ELSE Len(c)
  <2>1. Len(Put(c, index, v)) = IF index < Len(c) THEN Len(c) ELSE index + 1
    BY PutIs DEF PutLength
  <2>2. index >= Len(c) <=> ~ (index < Len(c))
    BY <1>1
  <2> QED
    BY <2>1, <2>2
<1>9. array_set(Holding(s, g, c), index, v) = Holding(t, g, Put(c, index, v))
  BY ONLY <1>6, <1>7, <1>8
<1> QED
  BY <1>6, <1>9

\* array_purge empties the array and keeps its size.
LEMMA PurgeIs ==
  ASSUME NEW s \in Nat, NEW g, NEW c \in Seq(Slots)
  PROVE  array_purge(Holding(s, g, c)) = Holding(s, g, <<>>)
<1> DEFINE old == [i \in 0 .. s - 1 |-> IF i < Len(c) THEN c[i + 1] ELSE NULL]
           new == [i \in 0 .. s - 1 |-> NULL]
<1>1. PICK r : r = Holding(s, g, c)
  OBVIOUS
<1>2. r = [size |-> s, grow_step |-> g, cursor |-> Len(c), values |-> old] /\ DOMAIN old = 0 .. s - 1
  BY <1>1 DEF Holding
<1>3. Holding(s, g, <<>>) = [size |-> s, grow_step |-> g, cursor |-> 0, values |-> new]
  <2>1. Len(<<>>) = 0
    OBVIOUS
  <2>2. \A i \in 0 .. s - 1 : ~ (i < 0)
    OBVIOUS
  <2>3. [i \in 0 .. s - 1 |-> IF i < Len(<<>>) THEN <<>>[i + 1] ELSE NULL] = new
    BY <2>1, <2>2
  <2> QED
    BY <2>1, <2>3 DEF Holding
<1> HIDE DEF old
<1>4. array_purge(r) = [r EXCEPT !.values = [i \in DOMAIN r.values |-> NULL], !.cursor = 0]
  BY DEF array_purge
<1>5. r.values = old
  BY ONLY <1>2
<1>6. [i \in DOMAIN r.values |-> NULL] = new
  BY ONLY <1>2, <1>5
<1> HIDE DEF new
<1>7. PICK q : q = [r EXCEPT !.values = new]
  OBVIOUS
<1>8. q = [size |-> s, grow_step |-> g, cursor |-> Len(c), values |-> new]
  BY ONLY <1>2, <1>7
<1>9. [q EXCEPT !.cursor = 0] = [size |-> s, grow_step |-> g, cursor |-> 0, values |-> new]
  BY ONLY <1>8
<1> QED
  BY ONLY <1>1, <1>3, <1>4, <1>6, <1>7, <1>9

----------------------------------------------------------------------------
(* stack_tuck_n. *)

\* The array after i of the values have been popped.
Popped(s, g, c, i) == Holding(s, g, SubSeq(c, 1, Len(c) - i))

\* The values are popped one by one.
LEMMA PopsAre ==
  ASSUME NEW s \in Nat, NEW g, NEW c \in Seq(Slots), Len(c) <= s, NEW n \in Nat, n <= Len(c)
  PROVE  /\ Popped(s, g, c, 0) = Holding(s, g, c)
         /\ \A i \in 0 .. n : i # 0 =>
              /\ i - 1 \in 0 .. n
              /\ Popped(s, g, c, i) = array_pop(Popped(s, g, c, i - 1))
<1> DEFINE D == 0 .. n
           P(i) == Holding(s, g, SubSeq(c, 1, Len(c) - i))
<1>1. PICK L \in Nat : L = Len(c)
  OBVIOUS
<1>2. P(0) = Holding(s, g, c)
  <2>1. /\ SubSeq(c, 1, L) \in Seq(Slots) /\ Len(SubSeq(c, 1, L)) = L
        /\ \A i \in 1 .. L : SubSeq(c, 1, L)[i] = c[i]
    BY <1>1, FirstValues
  <2>2. SubSeq(c, 1, L) = c
    BY <1>1, <2>1, SeqEqual
  <2>3. Len(c) - 0 = L
    BY <1>1
  <2> QED
    BY <2>2, <2>3
<1>3. ASSUME NEW i \in D, i # 0 PROVE i - 1 \in D /\ P(i) = array_pop(P(i - 1))
  <2>1. i - 1 \in D
    BY <1>3
  <2>2. PICK h \in Nat : h = L - (i - 1) /\ h <= L /\ h > 0 /\ h - 1 = L - i /\ h - 1 \in Nat /\ h - 1 <= h
    <3>1. i \in Nat /\ 1 <= i /\ i <= n /\ n \in Nat /\ n <= L
      BY <1>1, <1>3
    <3>2. L \in Nat
      OBVIOUS
    <3> QED
      BY ONLY <3>1, <3>2
  <2>3. PICK d \in Seq(Slots) : d = SubSeq(c, 1, h) /\ Len(d) = h /\ \A j \in 1 .. h : d[j] = c[j]
    BY <1>1, <2>2, FirstValues
  <2>4. array_pop(Holding(s, g, d)) = Holding(s, g, SubSeq(d, 1, Len(d) - 1))
    <3>1. Len(d) <= s /\ Len(d) > 0
      BY <1>1, <2>2, <2>3
    <3> QED
      BY <3>1, PopIs
  <2>5. SubSeq(d, 1, h - 1) = SubSeq(c, 1, h - 1)
    <3>0. Len(d) = h /\ Len(c) = L
      BY <1>1, <2>3
    <3>1. PICK m \in Nat : m = h - 1 /\ m <= Len(d) /\ m <= Len(c) /\ m <= h
      BY ONLY <2>2, <3>0, h \in Nat, L \in Nat
    <3>2. /\ SubSeq(d, 1, m) \in Seq(Slots) /\ Len(SubSeq(d, 1, m)) = m
          /\ \A j \in 1 .. m : SubSeq(d, 1, m)[j] = d[j]
      BY <3>1, FirstValues
    <3>3. /\ SubSeq(c, 1, m) \in Seq(Slots) /\ Len(SubSeq(c, 1, m)) = m
          /\ \A j \in 1 .. m : SubSeq(c, 1, m)[j] = c[j]
      BY <3>1, FirstValues
    <3>4. \A j \in 1 .. m : j \in 1 .. h
      BY <3>1
    <3>5. SubSeq(d, 1, m) = SubSeq(c, 1, m)
      BY <2>3, <3>2, <3>3, <3>4, SeqEqual
    <3> QED
      BY <3>1, <3>5
  <2>6. P(i) = Holding(s, g, SubSeq(c, 1, h - 1)) /\ P(i - 1) = Holding(s, g, SubSeq(c, 1, h))
    BY <1>1, <2>2
  <2> QED
    BY ONLY <2>1, <2>3, <2>4, <2>5, <2>6
<1> QED
  BY <1>2, <1>3 DEF Popped

\* The sequence when the target and i of the values that were above it are back.
Tucked(c, h, target, i) ==
  [j \in 1 .. h + 1 + i |-> IF j <= h THEN c[j] ELSE IF j = h + 1 THEN target ELSE c[j - 1]]
TuckSize(s, g, h, i) == IF h + i = s THEN s + g ELSE s
Pushed(s, g, c, h, target, i) == Holding(TuckSize(s, g, h, i), g, Tucked(c, h, target, i))

IsTucked(d, c, h, target, i) ==
  /\ d \in Seq(Slots) /\ Len(d) = h + 1 + i
  /\ \A j \in 1 .. h + 1 + i : d[j] = IF j <= h THEN c[j] ELSE IF j = h + 1 THEN target ELSE c[j - 1]

\* What that sequence is.
LEMMA TuckedFacts ==
  ASSUME NEW c \in Seq(Slots), NEW h \in Nat, NEW target \in Slots,
         NEW i \in Nat, h + i <= Len(c)
  PROVE  IsTucked(Tucked(c, h, target, i), c, h, target, i)
<1>1. PICK L \in Nat : L = Len(c) /\ h + i <= L /\ h <= L /\ h <= Len(c)
  OBVIOUS
<1>2. \A j \in 1 .. L : c[j] \in Slots
  <2>1. \A j \in 1 .. Len(c) : c[j] \in Slots
    BY ONLY c \in Seq(Slots)
  <2> QED
    BY ONLY <1>1, <2>1
<1>3. PICK m \in Nat : m = h + 1 + i
  OBVIOUS
<1>4. ASSUME NEW j \in 1 .. m
      PROVE  (IF j <= h THEN c[j] ELSE IF j = h + 1 THEN target ELSE c[j - 1]) \in Slots
  <2>1. CASE j <= h
    <3>1. j \in 1 .. L
      BY <1>1, <2>1
    <3> QED
      BY ONLY <1>2, <2>1, <3>1
  <2>2. CASE j > h + 1
    <3>1. j - 1 \in 1 .. L /\ ~ (j <= h) /\ j # h + 1
      BY <1>1, <1>3, <2>2
    <3> QED
      BY ONLY <1>2, <3>1
  <2>3. CASE j = h + 1
    <3>1. ~ (j <= h)
      BY <2>3
    <3> QED
      BY ONLY <2>3, <3>1, target \in Slots
  <2> QED
    BY <2>1, <2>2, <2>3
<1>5. Tucked(c, h, target, i) = [j \in 1 .. m |-> IF j <= h THEN c[j] ELSE IF j = h + 1 THEN target ELSE c[j - 1]]
  BY ONLY <1>3 DEF Tucked
<1>6. Tucked(c, h, target, i) \in Seq(Slots) /\ Len(Tucked(c, h, target, i)) = m
  BY <1>4, <1>5
<1> QED
  BY <1>3, <1>5, <1>6 DEF IsTucked

\* The target and then the values that were above it are pushed one by one.
LEMMA PushesAre ==
  ASSUME NEW s \in Nat, NEW g \in Nat \ {0}, NEW c \in Seq(Slots), Len(c) <= s,
         NEW h \in Nat, h <= Len(c), NEW target \in Slots
  PROVE  /\ Pushed(s, g, c, h, target, 0) = array_push(Holding(s, g, SubSeq(c, 1, h)), target)
         /\ \A i \in Nat : i > 0 /\ h + i <= Len(c) =>
              Pushed(s, g, c, h, target, i) = array_push(Pushed(s, g, c, h, target, i - 1), c[h + i])
<1>1. PICK L \in Nat, n \in Nat : L = Len(c) /\ n = L - h /\ L = h + n /\ L <= s /\ h <= L /\ h <= Len(c)
  <2>1. PICK L \in Nat : L = Len(c)
    OBVIOUS
  <2>2. h <= L /\ L <= s
    BY <2>1
  <2>3. PICK n \in Nat : n = L - h /\ L = h + n
    BY ONLY <2>2, L \in Nat, h \in Nat
  <2> QED
    BY <2>1, <2>2, <2>3
<1> DEFINE D == 0 .. n
           C(i) == Tucked(c, h, target, i)
           T(i) == TuckSize(s, g, h, i)
           P(i) == Holding(T(i), g, C(i))
<1>2. \A j \in 1 .. L : c[j] \in Slots
  <2>1. \A j \in 1 .. Len(c) : c[j] \in Slots
    BY ONLY c \in Seq(Slots)
  <2> QED
    BY ONLY <1>1, <2>1
<1>3. ASSUME NEW i \in D
      PROVE  /\ C(i) \in Seq(Slots) /\ Len(C(i)) = h + 1 + i
             /\ \A j \in 1 .. h + 1 + i :
                  C(i)[j] = IF j <= h THEN c[j] ELSE IF j = h + 1 THEN target ELSE c[j - 1]
  <2>1. i \in Nat /\ h + i <= Len(c)
    BY <1>1
  <2>2. IsTucked(C(i), c, h, target, i)
    BY <2>1, TuckedFacts
  <2> QED
    BY ONLY <2>2 DEF IsTucked
<1> HIDE DEF C
<1>4. P(0) = array_push(Holding(s, g, SubSeq(c, 1, h)), target)
  <2>1. PICK e \in Seq(Slots) : e = SubSeq(c, 1, h) /\ Len(e) = h /\ \A j \in 1 .. h : e[j] = c[j]
    BY <1>1, FirstValues
  <2>2. PICK t \in Nat : t = IF h = s THEN s + g ELSE s
    OBVIOUS
  <2>3. array_push(Holding(s, g, SubSeq(c, 1, h)), target) = Holding(t, g, Append(e, target))
    <3>1. Len(e) <= s /\ t = IF Len(e) = s THEN s + g ELSE s
      BY <1>1, <2>1, <2>2
    <3>2. array_push(Holding(s, g, e), target) = Holding(t, g, Append(e, target))
      BY <3>1, PushIs
    <3> QED
      BY ONLY <2>1, <3>2
  <2>4. T(0) = t
    BY <2>2 DEF TuckSize
  <2>5. C(0) = Append(e, target)
    <3>1. PICK m \in Nat : m = h + 1
      OBVIOUS
    <3>2. 0 \in D /\ h + 1 + 0 = m
      BY <3>1
    <3>3. /\ C(0) \in Seq(Slots) /\ Len(C(0)) = m
          /\ \A j \in 1 .. m : C(0)[j] = IF j <= h THEN c[j] ELSE IF j = h + 1 THEN target ELSE c[j - 1]
      BY <1>3, <3>2
    <3>4. /\ Append(e, target) \in Seq(Slots) /\ Len(Append(e, target)) = m
          /\ \A j \in 1 .. m : Append(e, target)[j] = IF j <= h THEN c[j] ELSE target
      BY <2>1, <3>1
    <3>5. \A j \in 1 .. m : j <= h \/ j = h + 1
      BY <3>1
    <3>6. \A j \in 1 .. m : C(0)[j] = Append(e, target)[j]
      BY ONLY <3>3, <3>4, <3>5
    <3> QED
      BY <3>3, <3>4, <3>6, SeqEqual
  <2> QED
    BY <2>3, <2>4, <2>5
<1>5. ASSUME NEW i \in D, i # 0 PROVE i - 1 \in D /\ P(i) = array_push(P(i - 1), c[h + i])
  <2>1. PICK k \in D : k = i - 1 /\ i = k + 1 /\ k < n
    BY <1>5
  <2>2. PICK e \in Seq(Slots) : /\ e = C(k) /\ Len(e) = h + 1 + k
                                 /\ \A j \in 1 .. h + 1 + k :
                                      e[j] = IF j <= h THEN c[j] ELSE IF j = h + 1 THEN target ELSE c[j - 1]
    BY <1>3
  <2>3. PICK v \in Slots : v = c[h + i]
    <3>1. i \in 1 .. n /\ h + i \in 1 .. L
      BY <1>1, <1>5
    <3> QED
      BY ONLY <1>2, <3>1
  <2>4. T(k) = s /\ h + 1 + k <= s /\ h + 1 + k = h + i
    <3>1. h + k < s
      BY <1>1, <2>1
    <3> QED
      BY <2>1, <3>1 DEF TuckSize
  <2>5. T(i) \in Nat /\ T(i) = IF Len(e) = s THEN s + g ELSE s
    BY <2>2, <2>4 DEF TuckSize
  <2>6. array_push(Holding(s, g, e), v) = Holding(T(i), g, Append(e, v))
    <3>1. Len(e) <= s
      BY <2>2, <2>4
    <3> HIDE DEF T
    <3> QED
      BY <2>5, <3>1, PushIs
  <2>7. C(i) = Append(e, v)
    <3>1. PICK m \in Nat : m = h + 1 + i /\ m = (h + 1 + k) + 1
      BY <2>1
    <3>2. /\ C(i) \in Seq(Slots) /\ Len(C(i)) = m
          /\ \A j \in 1 .. m : C(i)[j] = IF j <= h THEN c[j] ELSE IF j = h + 1 THEN target ELSE c[j - 1]
      BY <1>3, <3>1
    <3>3. /\ Append(e, v) \in Seq(Slots) /\ Len(Append(e, v)) = m
          /\ \A j \in 1 .. m : Append(e, v)[j] = IF j = m THEN v ELSE e[j]
      <4>1. /\ Append(e, v) \in Seq(Slots) /\ Len(Append(e, v)) = Len(e) + 1
            /\ \A j \in 1 .. Len(e) + 1 : Append(e, v)[j] = IF j = Len(e) + 1 THEN v ELSE e[j]
        OBVIOUS
      <4>2. Len(e) + 1 = m
        BY <2>2, <3>1
      <4> QED
        BY ONLY <4>1, <4>2
    <3>4. ASSUME NEW j \in 1 .. m PROVE C(i)[j] = Append(e, v)[j]
      <4>1. CASE j = m
        <5>1. ~ (j <= h) /\ j # h + 1 /\ j - 1 = h + i
          BY <1>5, <3>1, <4>1
        <5> QED
          BY <2>3, <3>2, <3>3, <4>1, <5>1
      <4>2. CASE j # m
        <5>1. j \in 1 .. h + 1 + k
          BY <3>1, <4>2
        <5> QED
          BY <2>2, <3>2, <3>3, <4>2, <5>1
      <4> QED
        BY <4>1, <4>2
    <3> QED
      BY <3>2, <3>3, <3>4, SeqEqual
  <2> HIDE DEF T
  <2> QED
    BY <2>1, <2>2, <2>3, <2>4, <2>6, <2>7
<1>6. \A i \in Nat : i > 0 /\ h + i <= Len(c) => i \in D /\ i # 0
  BY <1>1
<1>7. \A i \in Nat : Pushed(s, g, c, h, target, i) = P(i)
  BY DEF Pushed, C
<1>8. \A i \in Nat : i > 0 => i - 1 \in Nat
  OBVIOUS
<1> HIDE DEF P, D
<1> QED
  BY ONLY <1>4, <1>5, <1>6, <1>7, <1>8

\* The sequence that stack_tuck_n is to leave.
TuckedList(c, h, target) == SubSeq(c, 1, h) \o <<target>> \o SubSeq(c, h + 1, Len(c))

\* It is what the calls mean.
LEMMA TuckedIs ==
  ASSUME NEW s \in Nat, NEW g \in Nat \ {0}, NEW c \in Seq(Slots), Len(c) <= s,
         NEW h \in Nat, NEW n \in Nat, h + n = Len(c), NEW target \in Slots
  PROVE  /\ Tucked(c, h, target, n) = TuckedList(c, h, target)
         /\ TuckedList(c, h, target) \in Seq(Slots)
         /\ Len(TuckedList(c, h, target)) = Len(c) + 1
         /\ TuckSize(s, g, h, n) \in Nat
         /\ Len(TuckedList(c, h, target)) <= TuckSize(s, g, h, n)
<1> DEFINE C(i) == Tucked(c, h, target, i)
           a == SubSeq(c, 1, h)
           b == SubSeq(c, h + 1, Len(c))
           d == a \o <<target>> \o b
<1>1. PICK L \in Nat : L = Len(c) /\ L = h + n /\ L <= s /\ h <= L /\ h <= Len(c)
  OBVIOUS
<1>2. d \in Seq(Slots) /\ Len(d) = L + 1 /\ d = C(n)
  <2>1. a \in Seq(Slots) /\ Len(a) = h /\ \A j \in 1 .. h : a[j] = c[j]
    BY <1>1, FirstValues
  <2>2. b \in Seq(Slots) /\ Len(b) = n /\ \A j \in 1 .. n : b[j] = c[h + j]
    BY LastValues
  <2> HIDE DEF a, b
  <2>3. PICK e \in Seq(Slots) : /\ e = a \o <<target>> /\ Len(e) = h + 1
                                 /\ \A j \in 1 .. h : e[j] = c[j]
                                 /\ e[h + 1] = target
    <3>1. <<target>> \in Seq(Slots) /\ Len(<<target>>) = 1 /\ <<target>>[1] = target
      OBVIOUS
    <3>2. /\ a \o <<target>> \in Seq(Slots) /\ Len(a \o <<target>>) = Len(a) + 1
          /\ \A j \in 1 .. Len(a) + 1 :
               (a \o <<target>>)[j] = IF j <= Len(a) THEN a[j] ELSE <<target>>[j - Len(a)]
      BY <2>1, <3>1, ConcatProperties
    <3>3. Len(a) = h /\ 1 .. Len(a) + 1 = 1 .. h + 1 /\ h + 1 \in 1 .. h + 1 /\ ~ (h + 1 <= h)
          /\ (h + 1) - h = 1 /\ \A j \in 1 .. h : j \in 1 .. h + 1 /\ j <= h
      BY <2>1
    <3>4. \A j \in 1 .. h + 1 : (a \o <<target>>)[j] = IF j <= h THEN a[j] ELSE <<target>>[j - h]
      BY ONLY <3>2, <3>3
    <3>5. (a \o <<target>>)[h + 1] = <<target>>[(h + 1) - h]
      BY ONLY <3>3, <3>4
    <3>6. \A j \in 1 .. h : (a \o <<target>>)[j] = a[j]
      BY ONLY <3>3, <3>4
    <3>7. (a \o <<target>>)[h + 1] = target
      BY ONLY <3>1, <3>3, <3>5
    <3> QED
      BY ONLY <2>1, <3>2, <3>3, <3>6, <3>7
  <2>4. PICK m \in Nat : m = L + 1 /\ m = (h + 1) + n /\ m = h + 1 + n
    BY <1>1
  <2>5. /\ d \in Seq(Slots) /\ Len(d) = m
        /\ \A j \in 1 .. m : d[j] = IF j <= h + 1 THEN e[j] ELSE b[j - (h + 1)]
    <3>1. /\ e \o b \in Seq(Slots) /\ Len(e \o b) = Len(e) + Len(b)
          /\ \A j \in 1 .. Len(e) + Len(b) : (e \o b)[j] = IF j <= Len(e) THEN e[j] ELSE b[j - Len(e)]
      BY <2>2, ConcatProperties
    <3> QED
      BY ONLY <2>2, <2>3, <2>4, <3>1
  <2> HIDE DEF d
  <2>6. /\ C(n) \in Seq(Slots) /\ Len(C(n)) = m
        /\ \A j \in 1 .. m : C(n)[j] = IF j <= h THEN c[j] ELSE IF j = h + 1 THEN target ELSE c[j - 1]
    <3>1. h + n <= Len(c)
      BY <1>1
    <3>2. IsTucked(C(n), c, h, target, n)
      BY <3>1, TuckedFacts
    <3> QED
      BY ONLY <2>4, <3>2 DEF IsTucked
  <2>7. ASSUME NEW j \in 1 .. m PROVE d[j] = C(n)[j]
    <3>1. CASE j <= h + 1
      <4>1. (j \in 1 .. h /\ j <= h) \/ (j = h + 1 /\ ~ (j <= h))
        BY <3>1
      <4>2. d[j] = e[j]
        BY ONLY <2>5, <3>1, j \in 1 .. m
      <4>3. C(n)[j] = IF j <= h THEN c[j] ELSE IF j = h + 1 THEN target ELSE c[j - 1]
        BY ONLY <2>6, j \in 1 .. m
      <4> QED
        BY ONLY <2>3, <4>1, <4>2, <4>3
    <3>2. CASE ~ (j <= h + 1)
      <4>1. j - (h + 1) \in 1 .. n /\ h + (j - (h + 1)) = j - 1 /\ ~ (j <= h) /\ j # h + 1
        BY <2>4, <3>2
      <4> QED
        BY <2>2, <2>5, <2>6, <3>2, <4>1
    <3> QED
      BY <3>1, <3>2
  <2> QED
    BY <2>4, <2>5, <2>6, <2>7, SeqEqual
<1>3. TuckSize(s, g, h, n) \in Nat /\ L + 1 <= TuckSize(s, g, h, n)
  BY <1>1 DEF TuckSize
<1> HIDE DEF d
<1>4. d = TuckedList(c, h, target)
  BY ONLY DEF d, a, b, TuckedList
<1>5. /\ Tucked(c, h, target, n) = d /\ d \in Seq(Slots) /\ Len(d) = Len(c) + 1
      /\ TuckSize(s, g, h, n) \in Nat /\ Len(d) <= TuckSize(s, g, h, n)
  BY ONLY <1>1, <1>2, <1>3
<1> QED
  BY ONLY <1>4, <1>5

\* stack_tuck_n puts the target below the last n values.
LEMMA TuckIs ==
  ASSUME NEW s \in Nat, NEW g \in Nat \ {0}, NEW c \in Seq(Slots), Len(c) <= s,
         NEW n \in Nat, n <= Len(c), NEW target \in Slots
  PROVE  LET d == SubSeq(c, 1, Len(c) - n) \o <<target>> \o SubSeq(c, Len(c) - n + 1, Len(c))
         IN  /\ d \in Seq(Slots) /\ Len(d) = Len(c) + 1
             /\ \E t \in Nat : stack_tuck_n(Holding(s, g, c), target, n) = Holding(t, g, d) /\ Len(d) <= t
<1> DEFINE popped == CHOOSE f : f = [i \in 0 .. n |-> IF i = 0 THEN Holding(s, g, c) ELSE array_pop(f[i - 1])]
           value_list == [i \in 1 .. n |-> array_top(popped[n - i])]
           pushed == CHOOSE f : f = [i \in 0 .. n |-> IF i = 0 THEN array_push(popped[n], target)
                                                      ELSE array_push(f[i - 1], value_list[i])]
<1>1. stack_tuck_n(Holding(s, g, c), target, n) = pushed[n]
  BY DEF stack_tuck_n
<1>2. PICK h \in Nat : h + n = Len(c) /\ h = Len(c) - n
  OBVIOUS
<1> DEFINE D == 0 .. n
           P(i) == Popped(s, g, c, i)
           Q(i) == Pushed(s, g, c, h, target, i)
\* The pops.
<1>3. \A i \in D : popped[i] = P(i)
  <2> DEFINE body(f) == [i \in D |-> IF i = 0 THEN Holding(s, g, c) ELSE array_pop(f[i - 1])]
             w == [i \in D |-> P(i)]
  <2>1. P(0) = Holding(s, g, c) /\ \A i \in D : i # 0 => i - 1 \in D /\ P(i) = array_pop(P(i - 1))
    BY PopsAre
  <2> HIDE DEF P
  <2>2. w = body(w)
    <3>1. ASSUME NEW i \in D PROVE w[i] = body(w)[i]
      <4>1. CASE i = 0
        BY <2>1, <4>1
      <4>2. CASE i # 0
        BY <2>1, <4>2
      <4> QED
        BY <4>1, <4>2
    <3> QED
      BY <3>1
  <2>3. popped = CHOOSE f : f = body(f)
    OBVIOUS
  <2> HIDE DEF popped
  <2>4. popped = body(popped)
    <3> HIDE DEF body, w
    <3> QED
      BY <2>2, <2>3
  <2>5. ASSUME NEW i \in D
        PROVE  popped[i] = IF i = 0 THEN Holding(s, g, c) ELSE array_pop(popped[i - 1])
    <3>1. popped[i] = body(popped)[i]
      BY <2>4
    <3> QED
      BY ONLY <3>1, i \in D
  <2>6. ASSUME NEW R, R = {i \in D : popped[i] # P(i)}, R # {} PROVE FALSE
    <3>1. R \subseteq Nat
      BY <2>6
    <3>2. PICK i \in R : \A j \in R : i <= j
      BY <2>6, <3>1, LeastElement
    <3>3. i \in D /\ popped[i] # P(i)
      BY <2>6
    <3>4. CASE i = 0
      BY <2>1, <2>5, <3>3, <3>4
    <3>5. CASE i # 0
      <4>1. i - 1 \in D /\ ~ (i <= i - 1)
        BY <2>1, <3>3, <3>5
      <4>2. popped[i - 1] = P(i - 1)
        BY <2>6, <3>2, <4>1
      <4> QED
        BY <2>1, <2>5, <3>3, <3>5, <4>2
    <3> QED
      BY <3>4, <3>5
  <2>7. {i \in D : popped[i] # P(i)} = {}
    BY <2>6
  <2> QED
    BY <2>7
<1> HIDE DEF popped
<1>4. n \in D /\ popped[n] = Holding(s, g, SubSeq(c, 1, h))
  BY <1>2, <1>3 DEF Popped
<1>5. ASSUME NEW i \in 1 .. n PROVE value_list[i] = c[h + i]
  <2>1. PICK m \in Nat : m = h + i /\ m = Len(c) - (n - i) /\ m <= Len(c) /\ m > 0
    <3>1. PICK L \in Nat : L = Len(c)
      OBVIOUS
    <3>2. L = h + n /\ i \in Nat /\ i > 0 /\ i <= n
      BY ONLY <1>2, <3>1, i \in 1 .. n, n \in Nat, h \in Nat
    <3> QED
      BY ONLY <3>1, <3>2, n \in Nat, h \in Nat
  <2>2. n - i \in 0 .. n
    OBVIOUS
  <2>3. PICK e \in Seq(Slots) : e = SubSeq(c, 1, m) /\ Len(e) = m /\ \A j \in 1 .. m : e[j] = c[j]
    BY <2>1, FirstValues
  <2>4. array_top(Holding(s, g, e)) = e[Len(e)]
    <3>1. Len(e) <= s /\ Len(e) > 0
      BY <2>1, <2>3
    <3> QED
      BY <3>1, PopIs
  <2>5. popped[n - i] = Holding(s, g, e)
    BY ONLY <1>3, <2>1, <2>2, <2>3 DEF Popped
  <2>6. m \in 1 .. m
    BY <2>1
  <2>7. value_list[i] = array_top(popped[n - i])
    OBVIOUS
  <2> QED
    BY ONLY <2>1, <2>3, <2>4, <2>5, <2>6, <2>7
<1> HIDE DEF value_list
\* The pushes.
<1>6. \A i \in D : pushed[i] = Q(i)
  <2> DEFINE body(f) == [i \in D |-> IF i = 0 THEN array_push(popped[n], target) ELSE array_push(f[i - 1], value_list[i])]
             w == [i \in D |-> Q(i)]
  <2>1. /\ Q(0) = array_push(popped[n], target)
        /\ \A i \in D : i # 0 => i - 1 \in D /\ Q(i) = array_push(Q(i - 1), value_list[i])
    <3>1. /\ Q(0) = array_push(Holding(s, g, SubSeq(c, 1, h)), target)
          /\ \A i \in Nat : i > 0 /\ h + i <= Len(c) => Q(i) = array_push(Q(i - 1), c[h + i])
      <4>1. h <= Len(c)
        BY <1>2
      <4> QED
        BY <4>1, PushesAre
    <3>2. \A i \in D : i # 0 => i \in 1 .. n /\ i - 1 \in D /\ i \in Nat /\ i > 0 /\ h + i <= Len(c)
      BY <1>2
    <3> HIDE DEF Q, D
    <3> QED
      BY ONLY <1>4, <1>5, <3>1, <3>2
  <2> HIDE DEF Q
  <2>2. w = body(w)
    <3>1. ASSUME NEW i \in D PROVE w[i] = body(w)[i]
      <4>1. CASE i = 0
        BY <2>1, <4>1
      <4>2. CASE i # 0
        BY <2>1, <4>2
      <4> QED
        BY <4>1, <4>2
    <3> QED
      BY <3>1
  <2>3. pushed = CHOOSE f : f = body(f)
    OBVIOUS
  <2> HIDE DEF pushed
  <2>4. pushed = body(pushed)
    <3> HIDE DEF body, w
    <3> QED
      BY <2>2, <2>3
  <2>5. ASSUME NEW i \in D
        PROVE  pushed[i] = IF i = 0 THEN array_push(popped[n], target) ELSE array_push(pushed[i - 1], value_list[i])
    <3>1. pushed[i] = body(pushed)[i]
      BY <2>4
    <3> QED
      BY ONLY <3>1, i \in D
  <2>6. ASSUME NEW R, R = {i \in D : pushed[i] # Q(i)}, R # {} PROVE FALSE
    <3>1. R \subseteq Nat
      BY <2>6
    <3>2. PICK i \in R : \A j \in R : i <= j
      BY <2>6, <3>1, LeastElement
    <3>3. i \in D /\ pushed[i] # Q(i)
      BY <2>6
    <3>4. CASE i = 0
      BY <2>1, <2>5, <3>3, <3>4
    <3>5. CASE i # 0
      <4>1. i - 1 \in D /\ ~ (i <= i - 1)
        BY <2>1, <3>3, <3>5
      <4>2. pushed[i - 1] = Q(i - 1)
        BY <2>6, <3>2, <4>1
      <4> QED
        BY <2>1, <2>5, <3>3, <3>5, <4>2
    <3> QED
      BY <3>4, <3>5
  <2>7. {i \in D : pushed[i] # Q(i)} = {}
    BY <2>6
  <2> QED
    BY <2>7
<1> HIDE DEF pushed
<1>7. /\ TuckedList(c, h, target) \in Seq(Slots) /\ Len(TuckedList(c, h, target)) = Len(c) + 1
      /\ \E t \in Nat : /\ pushed[n] = Holding(t, g, TuckedList(c, h, target))
                       /\ Len(TuckedList(c, h, target)) <= t
  <2>1. pushed[n] = Holding(TuckSize(s, g, h, n), g, Tucked(c, h, target, n))
    BY ONLY <1>4, <1>6 DEF Pushed
  <2>2. /\ Tucked(c, h, target, n) = TuckedList(c, h, target)
        /\ TuckedList(c, h, target) \in Seq(Slots)
        /\ Len(TuckedList(c, h, target)) = Len(c) + 1
        /\ TuckSize(s, g, h, n) \in Nat
        /\ Len(TuckedList(c, h, target)) <= TuckSize(s, g, h, n)
    BY <1>2, TuckedIs
  <2> QED
    BY ONLY <2>1, <2>2
<1>8. Len(c) - n = h
  BY <1>2
<1> QED
  BY ONLY <1>1, <1>7, <1>8 DEF TuckedList

----------------------------------------------------------------------------
(* Every call. *)

\* A call keeps the array what the calls mean.
LEMMA CallKeeps ==
  ASSUME ArrayInv, [ArrayNext]_arrayVars
  PROVE  ArrayInv'
<1>1. PICK s \in Nat, g \in Nat \ {0}, c \in Seq(Slots) :
        contents = c /\ array = Holding(s, g, c) /\ Len(c) <= s
  BY DEF ArrayInv
<1>2. CASE \E v \in ArrayValues : Push(v)
  <2>1. PICK v \in Slots : array' = array_push(array, v) /\ contents' = Append(contents, v)
    BY <1>2 DEF Push, Slots
  <2>2. PICK t \in Nat : t = IF Len(c) = s THEN s + g ELSE s
    BY <1>1
  <2>3. array_push(Holding(s, g, c), v) = Holding(t, g, Append(c, v)) /\ Len(Append(c, v)) <= t
    BY <1>1, <2>2, PushIs
  <2>4. Append(c, v) \in Seq(Slots)
    OBVIOUS
  <2>5. array' = Holding(t, g, Append(c, v)) /\ contents' = Append(c, v)
    BY ONLY <1>1, <2>1, <2>3
  <2> QED
    BY <2>3, <2>4, <2>5 DEF ArrayInv
<1>3. CASE Pop
  <2>1. Len(c) > 0
    <3>1. array.cursor > 0
      BY <1>3 DEF Pop
    <3>2. array.cursor = Len(c)
      BY ONLY <1>1 DEF Holding
    <3> QED
      BY ONLY <3>1, <3>2
  <2>2. array_pop(Holding(s, g, c)) = Holding(s, g, SubSeq(c, 1, Len(c) - 1))
    BY <1>1, <2>1, PopIs
  <2>3. PICK h \in Nat : h = Len(c) - 1 /\ h <= Len(c) /\ h <= s
    <3>1. PICK L \in Nat : L = Len(c) /\ L > 0 /\ L <= s
      BY <1>1, <2>1
    <3>2. L - 1 \in Nat /\ L - 1 <= L /\ L - 1 <= s
      BY ONLY <3>1, s \in Nat
    <3> QED
      BY ONLY <3>1, <3>2
  <2>4. SubSeq(c, 1, h) \in Seq(Slots) /\ Len(SubSeq(c, 1, h)) = h
    BY <2>3, FirstValues
  <2>5. array' = Holding(s, g, SubSeq(c, 1, h)) /\ contents' = SubSeq(c, 1, h)
    BY ONLY <1>1, <1>3, <2>2, <2>3 DEF Pop
  <2> QED
    BY <2>3, <2>4, <2>5 DEF ArrayInv
<1>4. CASE Purge
  <2>1. array' = Holding(s, g, <<>>) /\ contents' = <<>>
    BY <1>1, <1>4, PurgeIs DEF Purge
  <2>2. <<>> \in Seq(Slots) /\ Len(<<>>) <= s
    OBVIOUS
  <2> QED
    BY <2>1, <2>2 DEF ArrayInv
<1>5. CASE \E index \in 0 .. ArrayMaxSize - 1, v \in ArrayValues \union {NULL} : Set(index, v)
  <2>1. PICK index \in 0 .. ArrayMaxSize - 1, v \in Slots : Set(index, v)
    BY <1>5 DEF Slots
  <2>2. index \in Nat
    BY ArrayAssumption
  <2>3. PICK t \in Nat : /\ array_set(Holding(s, g, c), index, v) = Holding(t, g, Put(c, index, v))
                         /\ Len(Put(c, index, v)) <= t
    BY <1>1, <2>2, SetIs
  <2>4. Put(c, index, v) \in Seq(Slots)
    BY <2>2, PutIs
  <2>5. contents' = Put(c, index, v)
    BY ONLY <1>1, <2>1 DEF Set, Put, PutLength
  <2>6. array' = Holding(t, g, Put(c, index, v))
    BY ONLY <1>1, <2>1, <2>3 DEF Set
  <2> QED
    BY <2>3, <2>4, <2>5, <2>6 DEF ArrayInv
<1>6. CASE \E target \in ArrayValues, n \in 0 .. ArrayMaxSize : Tuck(target, n)
  <2>1. PICK target \in Slots, n \in 0 .. ArrayMaxSize : Tuck(target, n)
    BY <1>6 DEF Slots
  <2>2. n \in Nat /\ n <= Len(c)
    <3>1. n <= array.cursor
      BY <2>1 DEF Tuck
    <3>2. array.cursor = Len(c)
      BY <1>1 DEF Holding
    <3> QED
      BY <3>1, <3>2, ArrayAssumption
  <2>3. LET d == SubSeq(c, 1, Len(c) - n) \o <<target>> \o SubSeq(c, Len(c) - n + 1, Len(c))
        IN  /\ d \in Seq(Slots) /\ Len(d) = Len(c) + 1
            /\ \E t \in Nat : stack_tuck_n(Holding(s, g, c), target, n) = Holding(t, g, d) /\ Len(d) <= t
    BY <1>1, <2>2, TuckIs
  <2>4. /\ array' = stack_tuck_n(array, target, n)
        /\ contents' = SubSeq(contents, 1, Len(contents) - n) \o <<target>>
                         \o SubSeq(contents, Len(contents) - n + 1, Len(contents))
    BY <2>1 DEF Tuck
  <2>5. PICK d \in Seq(Slots), t \in Nat : contents' = d /\ array' = Holding(t, g, d) /\ Len(d) <= t
    BY ONLY <1>1, <2>3, <2>4
  <2> QED
    BY <2>5 DEF ArrayInv
<1>7. CASE UNCHANGED arrayVars
  BY <1>1, <1>7 DEF arrayVars, ArrayInv
<1> QED
  BY <1>2, <1>3, <1>4, <1>5, <1>6, <1>7 DEF ArrayNext

\* The invariant gives what the run checks.
LEMMA InvGivesHolds ==
  ASSUME ArrayInv
  PROVE  Holds
<1>1. PICK s \in Nat, g \in Nat \ {0}, c \in Seq(Slots) :
        contents = c /\ array = Holding(s, g, c) /\ Len(c) <= s
  BY DEF ArrayInv
<1>2. PICK L \in Nat : L = Len(c) /\ L <= s
  BY <1>1
<1>3. /\ array.size = s /\ array.grow_step = g /\ array.cursor = L
      /\ array.values = [i \in 0 .. s - 1 |-> IF i < L THEN c[i + 1] ELSE NULL]
  BY <1>1, <1>2 DEF Holding
<1>4. InBounds
  BY <1>2, <1>3 DEF InBounds
<1>5. ASSUME NEW i \in Nat
      PROVE  array_get(array, i) = IF i < L THEN c[i + 1] ELSE NULL
  <2>1. CASE i >= s
    <3>1. ~ (i < L)
      BY <1>2, <2>1
    <3> QED
      BY <1>3, <2>1, <3>1 DEF array_get
  <2>2. CASE ~ (i >= s)
    <3>1. i \in 0 .. s - 1
      BY <2>2
    <3> QED
      BY <1>3, <2>2, <3>1 DEF array_get
  <2> QED
    BY <2>1, <2>2
<1>6. ASSUME NEW i \in 0 .. L - 1 PROVE array_pick(array, i) = c[L - i]
  <2>1. PICK j \in Nat : j = L - 1 - i /\ j < L /\ j + 1 = L - i
    OBVIOUS
  <2>2. array_pick(array, i) = array_get(array, j)
    BY ONLY <1>3, <2>1 DEF array_pick
  <2>3. array_get(array, j) = c[j + 1]
    BY ONLY <1>5, <2>1, j \in Nat
  <2> QED
    BY ONLY <2>1, <2>2, <2>3
<1>7. \A i \in 0 .. s + 1 : i \in Nat
  OBVIOUS
<1>8. \A i \in 0 .. array.size + 1 :
        array_get(array, i) = IF i < Len(contents) THEN contents[i + 1] ELSE NULL
  BY ONLY <1>1, <1>2, <1>3, <1>5, <1>7
<1>9. /\ array.cursor = Len(contents)
      /\ \A i \in 0 .. array.cursor - 1 : array_pick(array, i) = contents[Len(contents) - i]
  BY ONLY <1>1, <1>2, <1>3, <1>6
<1> QED
  BY <1>4, <1>8, <1>9 DEF Holds

\* In every reachable state, for every initial size and every mix of pushes, pops,
\* stores by index, purges and tucks, the array holds what was put there and NULL
\* above it, and no access of array.c is beyond its memory.
THEOREM ArrayHolds == ArraySpec => []Holds
<1>1. ArrayInit => ArrayInv
  <2> SUFFICES ASSUME ArrayInit PROVE ArrayInv
    OBVIOUS
  <2>1. PICK n \in ArraySizes : array = array_new(n) /\ contents = <<>>
    BY DEF ArrayInit
  <2>2. n \in Nat \ {0}
    BY ArrayAssumption
  <2>3. <<>> \in Seq(Slots) /\ Len(<<>>) = 0 /\ 0 <= n
    BY <2>2
  <2>4. [i \in 0 .. n - 1 |-> IF i < 0 THEN <<>>[i + 1] ELSE NULL] = [i \in 0 .. n - 1 |-> NULL]
    <3>1. \A i \in 0 .. n - 1 : ~ (i < 0)
      BY <2>2
    <3> QED
      BY <3>1
  <2>5. Holding(n, n, <<>>) = array_new(n)
    BY ONLY <2>3, <2>4 DEF Holding, array_new
  <2> QED
    BY <2>1, <2>2, <2>3, <2>5 DEF ArrayInv
<1>2. ArrayInv /\ [ArrayNext]_arrayVars => ArrayInv'
  BY CallKeeps
<1>3. ArrayInv => Holds
  BY InvGivesHolds
<1> QED
  BY <1>1, <1>2, <1>3, PTL DEF ArraySpec

----------------------------------------------------------------------------
(* Hash tables: what is defined step by step. *)

\* f starts at x0 and makes each of its values from the one before.
Runs(f, k, g, x0) == f[0] = x0 /\ \A i \in 1 .. k : f[i] = g[<<i, f[i - 1]>>]

\* What is defined step by step exists.
LEMMA Recursion ==
  ASSUME NEW S, NEW N \in Nat, NEW x0 \in S, NEW g \in [(1 .. N) \X S -> S]
  PROVE  \E f \in [0 .. N -> S] : Runs(f, N, g, x0)
<1> DEFINE R == {k \in 0 .. N : ~ \E f \in [0 .. k -> S] : Runs(f, k, g, x0)}
<1>1. SUFFICES R = {}
  <2>1. N \in 0 .. N
    OBVIOUS
  <2> QED
    BY <1>1, <2>1
<1>2. SUFFICES ASSUME R # {} PROVE FALSE
  OBVIOUS
<1>3. R \subseteq Nat
  OBVIOUS
<1>4. PICK k \in R : \A j \in R : k <= j
  <2> HIDE DEF R
  <2> QED
    BY <1>2, <1>3, LeastElement
<1>5. k \in 0 .. N /\ ~ \E f \in [0 .. k -> S] : Runs(f, k, g, x0)
  BY <1>4
<1>6. k # 0
  <2> DEFINE f == [i \in 0 .. 0 |-> x0]
  <2>1. f \in [0 .. 0 -> S] /\ f[0] = x0 /\ 1 .. 0 = {}
    OBVIOUS
  <2> HIDE DEF f
  <2>2. Runs(f, 0, g, x0)
    BY <2>1 DEF Runs
  <2> QED
    BY <1>5, <2>1, <2>2
<1>7. k - 1 \in 0 .. N /\ k - 1 \notin R
  <2> HIDE DEF R
  <2>1. ~ (k <= k - 1)
    BY <1>5
  <2> QED
    BY <1>4, <1>5, <1>6, <2>1
<1>8. PICK h \in [0 .. k - 1 -> S] : Runs(h, k - 1, g, x0)
  BY <1>7
<1> DEFINE f == [i \in 0 .. k |-> IF i = k THEN g[<<k, h[k - 1]>>] ELSE h[i]]
<1>9. k - 1 \in 0 .. k - 1 /\ k \in 1 .. N /\ 0 .. k = 0 .. k - 1 \union {k}
  BY <1>5, <1>6
<1>10. h[k - 1] \in S /\ g[<<k, h[k - 1]>>] \in S
  <2>1. h[k - 1] \in S
    BY <1>9
  <2>2. <<k, h[k - 1]>> \in (1 .. N) \X S
    BY <1>9, <2>1
  <2> QED
    BY <2>1, <2>2
<1>11. f \in [0 .. k -> S]
  BY <1>9, <1>10
<1>12. f[k] = g[<<k, h[k - 1]>>] /\ \A i \in 0 .. k - 1 : f[i] = h[i]
  BY <1>5, <1>9
<1> HIDE DEF f, R
<1>13. f[0] = x0
  BY <1>5, <1>6, <1>8, <1>12 DEF Runs
<1>14. ASSUME NEW i \in 1 .. k PROVE f[i] = g[<<i, f[i - 1]>>]
  <2>1. i - 1 \in 0 .. k - 1
    BY <1>5
  <2>2. CASE i = k
    BY <1>12, <2>1, <2>2
  <2>3. CASE i # k
    <3>1. i \in 1 .. k - 1 /\ i \in 0 .. k - 1
      BY <1>5, <2>3
    <3> QED
      BY <1>8, <1>12, <2>1, <3>1 DEF Runs
  <2> QED
    BY <2>2, <2>3
<1> QED
  BY <1>5, <1>11, <1>13, <1>14 DEF Runs

Alike(f, h, N) == f[0] = h[0] /\ \A i \in 1 .. N : f[i - 1] = h[i - 1] => f[i] = h[i]

\* What starts alike and goes on alike is alike.
LEMMA SameTrace ==
  ASSUME NEW N \in Nat, NEW f, NEW h, Alike(f, h, N)
  PROVE  \A i \in 0 .. N : f[i] = h[i]
<1> USE DEF Alike
<1> DEFINE R == {i \in 0 .. N : f[i] # h[i]}
<1>1. SUFFICES ASSUME R # {} PROVE FALSE
  OBVIOUS
<1>2. R \subseteq Nat
  OBVIOUS
<1>3. PICK k \in R : \A j \in R : k <= j
  <2> HIDE DEF R
  <2> QED
    BY <1>1, <1>2, LeastElement
<1>4. k \in 0 .. N /\ f[k] # h[k] /\ k # 0
  BY <1>3
<1>5. k - 1 \in 0 .. N /\ k \in 1 .. N /\ ~ (k <= k - 1)
  BY <1>4
<1>6. k - 1 \notin R
  <2> HIDE DEF R
  <2> QED
    BY <1>3, <1>5
<1> QED
  BY <1>4, <1>5, <1>6

----------------------------------------------------------------------------
(* Remainders. *)

\* A remainder.
LEMMA ModIs ==
  ASSUME NEW x \in Int, NEW W \in Nat \ {0}
  PROVE  x % W \in 0 .. W - 1 /\ x \div W \in Int /\ x = W * (x \div W) + (x % W)
OBVIOUS

\* It is the only number that it can be.
LEMMA ModUnique ==
  ASSUME NEW x \in Int, NEW W \in Nat \ {0}, NEW q \in Int, NEW r \in 0 .. W - 1, x = W * q + r
  PROVE  x % W = r
<1>1. PICK p \in Int, s \in 0 .. W - 1 : s = x % W /\ x = W * p + s
  BY ModIs
<1>2. \A a, b, c \in Int : a * b - a * c = a * (b - c)
  OBVIOUS
<1>3. W * q \in Int /\ W * p \in Int /\ W \in Int /\ r \in Int /\ s \in Int /\ q - p \in Int
  BY <1>1
<1>4. W * (q - p) = s - r
  <2>1. PICK u \in Int, v \in Int : u = W * q /\ v = W * p
    BY <1>3
  <2>2. x = u + r /\ x = v + s
    BY <1>1, <2>1
  <2>3. u - v = s - r
    BY ONLY <1>3, <2>1, <2>2, x \in Int
  <2> QED
    BY <1>2, <1>3, <2>1, <2>3
<1>5. PICK d \in Int : d = q - p
  BY <1>3
<1>6. d = 0
  <2>1. CASE d >= 1
    <3>1. W * d >= W
      BY <2>1
    <3> QED
      BY <1>1, <1>4, <1>5, <3>1
  <2>2. CASE d <= -1
    <3>1. W * d <= -W
      BY <2>2
    <3> QED
      BY <1>1, <1>4, <1>5, <3>1
  <2> QED
    BY <2>1, <2>2
<1>7. s - r = 0
  BY <1>4, <1>5, <1>6
<1> QED
  BY <1>1, <1>3, <1>7

\* Counting on from a remainder.
LEMMA ModShift ==
  ASSUME NEW x \in Int, NEW y \in Int, NEW W \in Nat \ {0}
  PROVE  ((x % W) + y) % W = (x + y) % W
<1>1. PICK p \in Int, r \in 0 .. W - 1 : r = x % W /\ x = W * p + r
  BY ModIs
<1>2. PICK q \in Int, s \in 0 .. W - 1 : s = (r + y) % W /\ r + y = W * q + s
  <2>1. r + y \in Int
    BY <1>1
  <2> QED
    BY <2>1, ModIs
<1>3. \A a, b, c \in Int : a * b + a * c = a * (b + c)
  OBVIOUS
<1>4. W * p \in Int /\ W * q \in Int /\ p + q \in Int /\ W \in Int /\ r \in Int /\ s \in Int
  BY <1>1, <1>2
<1>5. x + y = W * (p + q) + s
  <2>1. PICK u \in Int, v \in Int : u = W * p /\ v = W * q
    BY <1>4
  <2>2. x = u + r /\ r + y = v + s
    BY <1>1, <1>2, <2>1
  <2>3. x + y = (u + v) + s
    BY ONLY <1>4, <2>1, <2>2, x \in Int, y \in Int
  <2>4. u + v = W * (p + q)
    BY <1>1, <1>2, <1>3, <2>1
  <2> QED
    BY <2>3, <2>4
<1>6. (x + y) % W = s
  <2>1. x + y \in Int
    OBVIOUS
  <2> QED
    BY <1>2, <1>4, <1>5, <2>1, ModUnique
<1> QED
  BY <1>1, <1>2, <1>6

----------------------------------------------------------------------------
(* What a table is. *)

EntryRecs == [index : Nat, key : HashKeys, value : HashValues]
Chains == Seq(EntryRecs)

\* L is the size of a table.
Sized(L) == /\ L \in 1 .. HashWord - 1 /\ L \in Nat \ {0} /\ HashWord \in Nat \ {0}
            /\ \A k \in HashKeys : hash_fn[k] % L \in 0 .. L - 1

\* The table t with L buckets has the entries of m: each in its bucket, once.
Table(t, L, m) ==
  /\ t \in [0 .. L - 1 -> Chains]
  /\ \A i \in 0 .. L - 1 : \A j \in DOMAIN t[i] :
       /\ t[i][j].index = i /\ hash_fn[t[i][j].key] % L = i
       /\ t[i][j].key \in DOMAIN m /\ t[i][j].value = m[t[i][j].key]
       /\ \A l \in DOMAIN t[i] : t[i][l].key = t[i][j].key => l = j
  /\ \A k \in DOMAIN m : k \in HashKeys /\ \E j \in DOMAIN t[hash_fn[k] % L] : t[hash_fn[k] % L][j].key = k

\* What holds at 0 and is handed on holds up to N.
HandedOn(T, N) == 0 \in T /\ \A j \in 1 .. N : j - 1 \in T => j \in T

\* Such a thing holds everywhere.
LEMMA Upwards ==
  ASSUME NEW N \in Nat, NEW T, HandedOn(T, N)
  PROVE  \A j \in 0 .. N : j \in T
<1> DEFINE R == {j \in 0 .. N : j \notin T}
<1>1. SUFFICES ASSUME R # {} PROVE FALSE
  OBVIOUS
<1>2. R \subseteq Nat
  OBVIOUS
<1>3. PICK k \in R : \A j \in R : k <= j
  <2> HIDE DEF R
  <2> QED
    BY <1>1, <1>2, LeastElement
<1>4. k \in 0 .. N /\ k \notin T /\ k # 0
  BY <1>3 DEF HandedOn
<1>5. k - 1 \in 0 .. N /\ k \in 1 .. N /\ ~ (k <= k - 1)
  BY <1>4
<1>6. k - 1 \notin R
  <2> HIDE DEF R
  <2> QED
    BY <1>3, <1>5
<1> QED
  BY <1>4, <1>5, <1>6 DEF HandedOn

----------------------------------------------------------------------------
(* A rehash. *)

\* AllEntries and Rehashed, of a table t with L buckets that becomes one of n buckets.
FlatFrom(t, L) ==
  LET flat[j \in 0 .. L] == IF j = 0 THEN <<>> ELSE flat[j - 1] \o t[j - 1]
  IN  flat[L]
ChainFrom(old, n, i) ==
  LET chain[j \in 0 .. Len(old)] ==
        IF j = 0 THEN <<>>
        ELSE IF hash_fn[old[j].key] % n # i THEN chain[j - 1]
        ELSE <<[old[j] EXCEPT !.index = i]>> \o chain[j - 1]
  IN  chain[Len(old)]

\* What a rehash does with one entry.
ChainStep(chain, e, n, i) ==
  IF hash_fn[e.key] % n # i THEN chain ELSE <<[e EXCEPT !.index = i]>> \o chain

\* The buckets are put behind each other one after the other.
LEMMA FlatTrace ==
  ASSUME NEW L \in Nat, NEW t \in [0 .. L - 1 -> Chains]
  PROVE  \E f \in [0 .. L -> Chains] :
           /\ f[0] = <<>> /\ f[L] = FlatFrom(t, L)
           /\ \A i \in 1 .. L : f[i] = f[i - 1] \o t[i - 1]
<1> DEFINE g == [z \in (1 .. L) \X Chains |-> z[2] \o t[z[1] - 1]]
           D == 0 .. L
           body(h) == [j \in D |-> IF j = 0 THEN <<>> ELSE h[j - 1] \o t[j - 1]]
           at == CHOOSE h : h = body(h)
<1>1. \A i \in 1 .. L : t[i - 1] \in Chains
  OBVIOUS
<1>2. g \in [(1 .. L) \X Chains -> Chains]
  BY <1>1 DEF Chains
<1>3. \A i \in 1 .. L : \A y \in Chains : g[<<i, y>>] = y \o t[i - 1]
  OBVIOUS
<1> HIDE DEF g
<1>4. PICK f \in [0 .. L -> Chains] : Runs(f, L, g, <<>>)
  <2>1. <<>> \in Chains
    BY DEF Chains
  <2> QED
    BY <1>2, <2>1, Recursion
<1>5. f[0] = <<>> /\ \A i \in 1 .. L : i - 1 \in D /\ f[i] = f[i - 1] \o t[i - 1]
  <2>1. \A i \in 1 .. L : i - 1 \in 0 .. L
    OBVIOUS
  <2> QED
    BY <1>3, <1>4, <2>1 DEF Runs
<1>6. f = body(f)
  <2>1. \A i \in D : i = 0 \/ i \in 1 .. L
    OBVIOUS
  <2>2. \A i \in D : f[i] = body(f)[i]
    BY <1>5, <2>1
  <2> QED
    BY <2>2
<1>7. at = body(at)
  <2> HIDE DEF body
  <2> QED
    BY <1>6
<1>8. FlatFrom(t, L) = at[L]
  BY DEF FlatFrom
<1> HIDE DEF at
<1>9. at[0] = <<>> /\ \A i \in 1 .. L : at[i] = at[i - 1] \o t[i - 1]
  <2>1. 0 \in D /\ \A i \in 1 .. L : i \in D /\ i # 0
    OBVIOUS
  <2> QED
    BY <1>7, <2>1
<1>10. f[L] = at[L]
  <2> HIDE DEF body
  <2>1. PICK a : a = at
    OBVIOUS
  <2>2. Alike(f, a, L)
    BY <1>5, <1>9, <2>1 DEF Alike
  <2>3. \A i \in 0 .. L : f[i] = a[i]
    BY <2>2, SameTrace
  <2> QED
    BY <2>1, <2>3
<1> QED
  BY <1>4, <1>5, <1>8, <1>10

\* f has the chain of bucket i of n after each of the first L entries.
Chaining(f, old, L, n, i) ==
  /\ f[0] = <<>> /\ f[L] = ChainFrom(old, n, i)
  /\ \A j \in 1 .. L : f[j] = ChainStep(f[j - 1], old[j], n, i)

\* One entry after the other is put in front of its chain.
LEMMA ChainTrace ==
  ASSUME NEW L \in Nat, NEW old \in Chains, L = Len(old), NEW n, NEW i \in Nat
  PROVE  \E f \in [0 .. L -> Chains] : Chaining(f, old, L, n, i)
<1>1. \A j \in 1 .. L : old[j] \in EntryRecs
  BY DEF Chains
<1> DEFINE g == [z \in (1 .. L) \X Chains |-> ChainStep(z[2], old[z[1]], n, i)]
           D == 0 .. L
           body(h) == [j \in D |-> IF j = 0 THEN <<>>
                                   ELSE IF hash_fn[old[j].key] % n # i THEN h[j - 1]
                                   ELSE <<[old[j] EXCEPT !.index = i]>> \o h[j - 1]]
           at == CHOOSE h : h = body(h)
<1>2. g \in [(1 .. L) \X Chains -> Chains]
  <2> SUFFICES ASSUME NEW j \in 1 .. L, NEW y \in Chains PROVE ChainStep(y, old[j], n, i) \in Chains
    OBVIOUS
  <2>1. PICK e \in EntryRecs : e = old[j]
    BY <1>1
  <2>2. [e EXCEPT !.index = i] \in EntryRecs
    BY DEF EntryRecs
  <2>3. PICK e2 \in EntryRecs : e2 = [e EXCEPT !.index = i]
    BY <2>2
  <2>4. <<e2>> \o y \in Chains
    BY DEF Chains
  <2> QED
    BY <2>1, <2>3, <2>4 DEF ChainStep
<1>3. \A j \in 1 .. L : \A y \in Chains : g[<<j, y>>] = ChainStep(y, old[j], n, i)
  OBVIOUS
<1> HIDE DEF g
<1>4. PICK f \in [0 .. L -> Chains] : Runs(f, L, g, <<>>)
  <2>1. <<>> \in Chains
    BY DEF Chains
  <2> QED
    BY <1>2, <2>1, Recursion
<1>5. f[0] = <<>> /\ \A j \in 1 .. L : j - 1 \in D /\ f[j] = ChainStep(f[j - 1], old[j], n, i)
  <2>1. \A j \in 1 .. L : j - 1 \in 0 .. L
    OBVIOUS
  <2> QED
    BY <1>3, <1>4, <2>1 DEF Runs
<1>6. f = body(f)
  <2>1. \A j \in D : j = 0 \/ j \in 1 .. L
    OBVIOUS
  <2>2. \A j \in D : f[j] = body(f)[j]
    BY <1>5, <2>1 DEF ChainStep
  <2> QED
    BY <2>2
<1>7. at = body(at)
  <2> HIDE DEF body
  <2> QED
    BY <1>6
<1>8. ChainFrom(old, n, i) = at[L]
  BY DEF ChainFrom
<1> HIDE DEF at
<1>9. at[0] = <<>> /\ \A j \in 1 .. L : at[j] = ChainStep(at[j - 1], old[j], n, i)
  <2>1. 0 \in D /\ \A j \in 1 .. L : j \in D /\ j # 0
    OBVIOUS
  <2> QED
    BY <1>7, <2>1 DEF ChainStep
<1>10. f[L] = at[L]
  <2> HIDE DEF body
  <2>1. PICK a : a = at
    OBVIOUS
  <2>2. Alike(f, a, L)
    BY <1>5, <1>9, <2>1 DEF Alike
  <2>3. \A j \in 0 .. L : f[j] = a[j]
    BY <2>2, SameTrace
  <2> QED
    BY <2>1, <2>3
<1> QED
  BY <1>4, <1>5, <1>8, <1>10 DEF Chaining

\* s has the entries of the first J buckets of t, each once.
FlatGood(s, t, J) ==
  /\ s \in Chains
  /\ \A a \in DOMAIN s : \E i \in 0 .. J - 1 : \E b \in DOMAIN t[i] : s[a] = t[i][b]
  /\ \A i \in 0 .. J - 1 : \A b \in DOMAIN t[i] : \E a \in DOMAIN s : s[a] = t[i][b]
  /\ \A a, b \in DOMAIN s : s[a].key = s[b].key => a = b

\* r is u behind s.
Behind(s, u, r) ==
  /\ r \in Chains
  /\ \A a \in DOMAIN r : \/ a \in DOMAIN s /\ r[a] = s[a]
                         \/ \E b \in DOMAIN u : a = Len(s) + b /\ r[a] = u[b]
  /\ \A a \in DOMAIN s : a \in DOMAIN r /\ r[a] = s[a]
  /\ \A b \in DOMAIN u : Len(s) + b \in DOMAIN r /\ r[Len(s) + b] = u[b]

\* Two sequences behind each other.
LEMMA Joined ==
  ASSUME NEW s \in Chains, NEW u \in Chains
  PROVE  Behind(s, u, s \o u)
<1>1. PICK N \in Nat, M \in Nat : N = Len(s) /\ M = Len(u) /\ DOMAIN s = 1 .. N /\ DOMAIN u = 1 .. M
  BY DEF Chains
<1>2. PICK r : r = s \o u
  OBVIOUS
<1>3. r \in Chains /\ Len(r) = N + M
  BY <1>1, <1>2 DEF Chains
<1>4. DOMAIN r = 1 .. N + M
  BY <1>3 DEF Chains
<1>5. \A a \in 1 .. N : r[a] = s[a]
  BY <1>1, <1>2 DEF Chains
<1>6. \A b \in 1 .. M : r[N + b] = u[b]
  <2> SUFFICES ASSUME NEW b \in 1 .. M PROVE r[N + b] = u[b]
    OBVIOUS
  <2>1. N + b \in 1 .. N + M /\ ~ (N + b <= N) /\ (N + b) - N = b
    OBVIOUS
  <2> QED
    BY <1>1, <1>2, <2>1 DEF Chains
<1>7. ASSUME NEW a \in 1 .. N + M
      PROVE  \/ a \in 1 .. N /\ r[a] = s[a]
             \/ \E b \in 1 .. M : a = N + b /\ r[a] = u[b]
  <2>1. CASE a <= N
    BY <1>5, <2>1
  <2>2. CASE ~ (a <= N)
    <3>1. a - N \in 1 .. M /\ a = N + (a - N)
      BY <2>2
    <3>2. r[a] = u[a - N]
      BY <1>6, <3>1
    <3> QED
      BY <3>1, <3>2
  <2> QED
    BY <2>1, <2>2
<1>8. \A a \in 1 .. N : a \in 1 .. N + M
  OBVIOUS
<1>9. \A b \in 1 .. M : N + b \in 1 .. N + M
  OBVIOUS
<1> QED
  <2>1. Behind(s, u, r)
    BY ONLY <1>1, <1>3, <1>4, <1>5, <1>6, <1>7, <1>8, <1>9 DEF Behind
  <2> QED
    BY <1>2, <2>1

\* Entries with one key are one entry.
LEMMA OneEntry ==
  ASSUME NEW t, NEW L, NEW m, Table(t, L, m), NEW i \in 0 .. L - 1, NEW j \in DOMAIN t[i],
         NEW k \in 0 .. L - 1, NEW l \in DOMAIN t[k], t[i][j].key = t[k][l].key
  PROVE  i = k /\ j = l
BY DEF Table

\* The flat sequence has all entries once.
LEMMA FlatIs ==
  ASSUME NEW L \in Nat, NEW t, NEW m, Table(t, L, m)
  PROVE  FlatGood(FlatFrom(t, L), t, L)
<1>1. t \in [0 .. L - 1 -> Chains]
  BY DEF Table
<1>2. PICK f \in [0 .. L -> Chains] :
        /\ f[0] = <<>> /\ f[L] = FlatFrom(t, L)
        /\ \A i \in 1 .. L : f[i] = f[i - 1] \o t[i - 1]
  BY <1>1, FlatTrace
<1> DEFINE T == {j \in 0 .. L : FlatGood(f[j], t, j)}
<1>3. 0 \in T
  <2>1. f[0] \in Chains /\ DOMAIN f[0] = {} /\ 0 .. 0 - 1 = {}
    BY <1>2
  <2>2. FlatGood(f[0], t, 0)
    BY <2>1 DEF FlatGood
  <2> QED
    BY <2>2
<1>4. ASSUME NEW j \in 1 .. L, j - 1 \in T PROVE j \in T
  <2>1. PICK k \in 0 .. L - 1 : k = j - 1 /\ j = k + 1
    <3>1. j - 1 \in 0 .. L - 1 /\ j = (j - 1) + 1
      OBVIOUS
    <3> QED
      BY <3>1
  <2>2. PICK s \in Chains : s = f[k] /\ FlatGood(s, t, k)
    <3>1. FlatGood(f[k], t, k)
      BY <1>4, <2>1
    <3> QED
      BY <3>1 DEF FlatGood
  <2>3. PICK u \in Chains : u = t[k]
    BY <1>1
  <2>4. PICK r : r = s \o u /\ Behind(s, u, r)
    BY Joined
  <2>5. /\ r \in Chains
        /\ \A a \in DOMAIN r : \/ a \in DOMAIN s /\ r[a] = s[a]
                               \/ \E b \in DOMAIN u : a = Len(s) + b /\ r[a] = u[b]
        /\ \A a \in DOMAIN s : a \in DOMAIN r /\ r[a] = s[a]
        /\ \A b \in DOMAIN u : Len(s) + b \in DOMAIN r /\ r[Len(s) + b] = u[b]
    BY <2>4 DEF Behind
  <2>6. \A i : i \in 0 .. j - 1 <=> i \in 0 .. k - 1 \/ i = k
    BY <2>1
  <2>7. \A i \in 0 .. j - 1 : i \in 0 .. L - 1
    OBVIOUS
  <2>8. ASSUME NEW a \in DOMAIN r PROVE \E i \in 0 .. j - 1 : \E b \in DOMAIN t[i] : r[a] = t[i][b]
    <3>1. CASE a \in DOMAIN s /\ r[a] = s[a]
      BY <2>2, <2>6, <3>1 DEF FlatGood
    <3>2. CASE \E b \in DOMAIN u : a = Len(s) + b /\ r[a] = u[b]
      BY <2>3, <2>6, <3>2
    <3> QED
      BY <2>5, <3>1, <3>2
  <2>9. ASSUME NEW i \in 0 .. j - 1, NEW b \in DOMAIN t[i] PROVE \E a \in DOMAIN r : r[a] = t[i][b]
    <3>1. CASE i \in 0 .. k - 1
      <4>1. PICK a \in DOMAIN s : s[a] = t[i][b]
        BY <2>2, <3>1 DEF FlatGood
      <4> QED
        BY <2>5, <4>1
    <3>2. CASE i = k
      BY <2>3, <2>5, <3>2
    <3> QED
      BY <2>6, <3>1, <3>2
  <2>10. ASSUME NEW a \in DOMAIN r, NEW b \in DOMAIN r, r[a].key = r[b].key PROVE a = b
    <3>1. ASSUME NEW x \in DOMAIN s, NEW y \in DOMAIN u, s[x].key = u[y].key PROVE FALSE
      <4>1. PICK i \in 0 .. k - 1 : \E z \in DOMAIN t[i] : s[x] = t[i][z]
        BY <2>2 DEF FlatGood
      <4>2. PICK z \in DOMAIN t[i] : s[x] = t[i][z]
        BY <4>1
      <4>3. i \in 0 .. L - 1 /\ i # k
        BY <2>1
      <4> QED
        BY <2>3, <3>1, <4>2, <4>3, OneEntry
    <3>2. CASE a \in DOMAIN s /\ r[a] = s[a] /\ b \in DOMAIN s /\ r[b] = s[b]
      BY <2>2, <2>10, <3>2 DEF FlatGood
    <3>3. ASSUME NEW y \in DOMAIN u, a = Len(s) + y, r[a] = u[y], NEW z \in DOMAIN u, b = Len(s) + z, r[b] = u[z]
          PROVE  a = b
      <4>1. y = z
        BY <2>3, <2>10, <3>3, OneEntry
      <4> QED
        BY <3>3, <4>1
    <3> QED
      BY <2>5, <2>10, <3>1, <3>2, <3>3
  <2>11. FlatGood(r, t, j)
    BY <2>5, <2>8, <2>9, <2>10 DEF FlatGood
  <2>12. f[j] = r
    BY <1>2, <2>1, <2>2, <2>3, <2>4
  <2> QED
    BY <2>11, <2>12
<1>5. HandedOn(T, L)
  <2> HIDE DEF T
  <2> QED
    BY <1>3, <1>4 DEF HandedOn
<1>6. L \in T
  <2> HIDE DEF T
  <2>1. L \in 0 .. L
    OBVIOUS
  <2> QED
    BY <1>5, <2>1, Upwards
<1> QED
  BY <1>2, <1>6

\* The entry e2 is the entry e, moved to bucket i of n.
Moved(e2, e, n, i) == e2.index = i /\ e2.key = e.key /\ e2.value = e.value /\ hash_fn[e.key] % n = i
\* c has those of the first J entries of s that belong into bucket i of n, each once.
ChainGood(c, s, J, n, i) ==
  /\ c \in Chains
  /\ \A a \in DOMAIN c : \E b \in 1 .. J : Moved(c[a], s[b], n, i)
  /\ \A b \in 1 .. J : hash_fn[s[b].key] % n = i => \E a \in DOMAIN c : c[a].key = s[b].key
  /\ \A a, b \in DOMAIN c : c[a].key = c[b].key => a = b

\* The new chain has its entries once.
LEMMA ChainIs ==
  ASSUME NEW s \in Chains, \A a, b \in DOMAIN s : s[a].key = s[b].key => a = b,
         NEW n, NEW i \in Nat
  PROVE  ChainGood(ChainFrom(s, n, i), s, Len(s), n, i)
<1>1. PICK L \in Nat : L = Len(s) /\ DOMAIN s = 1 .. L /\ \A j \in 1 .. L : s[j] \in EntryRecs
  BY DEF Chains
<1>2. PICK f \in [0 .. L -> Chains] : Chaining(f, s, L, n, i)
  BY <1>1, ChainTrace
<1> DEFINE T == {j \in 0 .. L : ChainGood(f[j], s, j, n, i)}
<1>3. 0 \in T
  <2>1. f[0] \in Chains /\ DOMAIN f[0] = {} /\ 1 .. 0 = {}
    BY <1>2 DEF Chaining
  <2>2. ChainGood(f[0], s, 0, n, i)
    BY <2>1 DEF ChainGood
  <2> QED
    BY <2>2
<1>4. ASSUME NEW j \in 1 .. L, j - 1 \in T PROVE j \in T
  <2>1. PICK k \in 0 .. L - 1 : k = j - 1 /\ j = k + 1
    <3>1. j - 1 \in 0 .. L - 1 /\ j = (j - 1) + 1
      OBVIOUS
    <3> QED
      BY <3>1
  <2>2. PICK c \in Chains : c = f[k] /\ ChainGood(c, s, k, n, i)
    <3>1. ChainGood(f[k], s, k, n, i)
      BY <1>4, <2>1
    <3> QED
      BY <3>1 DEF ChainGood
  <2>3. PICK e \in EntryRecs : e = s[j]
    BY <1>1
  <2>4. \A b : b \in 1 .. j <=> b \in 1 .. k \/ b = j
    BY <2>1
  <2>5. f[j] = ChainStep(c, e, n, i)
    BY <1>2, <2>1, <2>2, <2>3 DEF Chaining
  <2>6. CASE hash_fn[e.key] % n # i
    <3>1. f[j] = c
      BY <2>5, <2>6 DEF ChainStep
    <3>2. \A a \in DOMAIN c : \E b \in 1 .. j : Moved(c[a], s[b], n, i)
      BY <2>2, <2>4 DEF ChainGood
    <3>3. \A b \in 1 .. j : hash_fn[s[b].key] % n = i => \E a \in DOMAIN c : c[a].key = s[b].key
      BY <2>2, <2>3, <2>4, <2>6 DEF ChainGood
    <3>4. ChainGood(c, s, j, n, i)
      BY <2>2, <3>2, <3>3 DEF ChainGood
    <3> QED
      BY <3>1, <3>4
  <2>7. CASE hash_fn[e.key] % n = i
    <3>1. PICK e2 \in EntryRecs : e2 = [e EXCEPT !.index = i] /\ Moved(e2, e, n, i)
      <4>1. /\ [e EXCEPT !.index = i] \in EntryRecs /\ [e EXCEPT !.index = i].index = i
            /\ [e EXCEPT !.index = i].key = e.key /\ [e EXCEPT !.index = i].value = e.value
        BY DEF EntryRecs
      <4> QED
        BY <2>7, <4>1 DEF Moved
    <3>2. PICK h \in Chains : h = <<e2>> /\ DOMAIN h = {1} /\ h[1] = e2 /\ Len(h) = 1
      <4>1. <<e2>> \in Chains /\ DOMAIN <<e2>> = {1} /\ <<e2>>[1] = e2 /\ Len(<<e2>>) = 1
        BY DEF Chains
      <4> QED
        BY <4>1
    <3>3. PICK r : r = h \o c /\ Behind(h, c, r)
      BY Joined
    <3>4. f[j] = r
      BY <2>5, <2>7, <3>1, <3>2, <3>3 DEF ChainStep
    <3>5. /\ r \in Chains
          /\ \A a \in DOMAIN r : (r[a] = e2 /\ a = 1) \/ \E b \in DOMAIN c : a = 1 + b /\ r[a] = c[b]
          /\ 1 \in DOMAIN r /\ r[1] = e2
          /\ \A b \in DOMAIN c : 1 + b \in DOMAIN r /\ r[1 + b] = c[b]
      BY <3>2, <3>3 DEF Behind
    <3>6. ASSUME NEW b \in DOMAIN c PROVE c[b].key # e.key
      <4>1. PICK x \in 1 .. k : Moved(c[b], s[x], n, i)
        BY <2>2 DEF ChainGood
      <4>2. x \in DOMAIN s /\ j \in DOMAIN s /\ x # j
        BY <1>1, <2>1
      <4> QED
        BY <2>3, <4>1, <4>2 DEF Moved
    <3>7. e2.key = e.key
      BY <3>1 DEF Moved
    <3>8. \A a \in DOMAIN r : \E b \in 1 .. j : Moved(r[a], s[b], n, i)
      <4>1. Moved(e2, s[j], n, i) /\ j \in 1 .. j
        BY <2>3, <3>1
      <4>2. \A a \in DOMAIN c : \E b \in 1 .. j : Moved(c[a], s[b], n, i)
        BY <2>2, <2>4 DEF ChainGood
      <4> QED
        BY <3>5, <4>1, <4>2
    <3>9. \A b \in 1 .. j : hash_fn[s[b].key] % n = i => \E a \in DOMAIN r : r[a].key = s[b].key
      <4> SUFFICES ASSUME NEW b \in 1 .. j, hash_fn[s[b].key] % n = i
                   PROVE  \E a \in DOMAIN r : r[a].key = s[b].key
        OBVIOUS
      <4>1. CASE b = j
        BY <2>3, <3>5, <3>7, <4>1
      <4>2. CASE b \in 1 .. k
        <5>1. PICK a \in DOMAIN c : c[a].key = s[b].key
          BY <2>2, <4>2 DEF ChainGood
        <5> QED
          BY <3>5, <5>1
      <4> QED
        BY <2>4, <4>1, <4>2
    <3>10. \A a, b \in DOMAIN r : r[a].key = r[b].key => a = b
      <4> SUFFICES ASSUME NEW a \in DOMAIN r, NEW b \in DOMAIN r, r[a].key = r[b].key PROVE a = b
        OBVIOUS
      <4>1. \A x, y \in DOMAIN c : c[x].key = c[y].key => x = y
        BY <2>2 DEF ChainGood
      <4> QED
        BY <3>5, <3>6, <3>7, <4>1
    <3>11. ChainGood(r, s, j, n, i)
      BY <3>5, <3>8, <3>9, <3>10 DEF ChainGood
    <3> QED
      BY <3>4, <3>11
  <2> QED
    BY <2>6, <2>7
<1>5. HandedOn(T, L)
  <2> HIDE DEF T
  <2> QED
    BY <1>3, <1>4 DEF HandedOn
<1>6. L \in T
  <2> HIDE DEF T
  <2>1. L \in 0 .. L
    OBVIOUS
  <2> QED
    BY <1>5, <2>1, Upwards
<1> QED
  BY <1>1, <1>2, <1>6 DEF Chaining

\* A rehash keeps the entries.
LEMMA RehashKeeps ==
  ASSUME NEW L \in Nat, NEW n \in Nat \ {0}, NEW t, NEW m, Table(t, L, m), NEW t2,
         t2 = [i \in 0 .. n - 1 |-> ChainFrom(FlatFrom(t, L), n, i)], Sized(L), Sized(n)
  PROVE  Table(t2, n, m)
<1>1. PICK s \in Chains : s = FlatFrom(t, L) /\ FlatGood(s, t, L)
  <2>1. FlatGood(FlatFrom(t, L), t, L)
    BY FlatIs
  <2> QED
    BY <2>1 DEF FlatGood
<1>2. DOMAIN s = 1 .. Len(s)
  BY DEF Chains
<1>3. ASSUME NEW i \in 0 .. n - 1 PROVE ChainGood(t2[i], s, Len(s), n, i)
  <2>1. t2[i] = ChainFrom(s, n, i)
    BY <1>1
  <2>2. \A a, b \in DOMAIN s : s[a].key = s[b].key => a = b
    BY <1>1 DEF FlatGood
  <2>3. ChainGood(ChainFrom(s, n, i), s, Len(s), n, i)
    BY <2>2, ChainIs
  <2> QED
    BY <2>1, <2>3
<1>4. DOMAIN t2 = 0 .. n - 1 /\ \A i \in 0 .. n - 1 : t2[i] \in Chains
  BY <1>3 DEF ChainGood
<1>5. t2 \in [0 .. n - 1 -> Chains]
  <2>1. t2 = [i \in 0 .. n - 1 |-> t2[i]]
    OBVIOUS
  <2> QED
    BY <1>4, <2>1
<1>6. ASSUME NEW i \in 0 .. n - 1, NEW j \in DOMAIN t2[i]
      PROVE  /\ t2[i][j].index = i /\ hash_fn[t2[i][j].key] % n = i
             /\ t2[i][j].key \in DOMAIN m /\ t2[i][j].value = m[t2[i][j].key]
             /\ \A l \in DOMAIN t2[i] : t2[i][l].key = t2[i][j].key => l = j
  <2>1. PICK b \in DOMAIN s : Moved(t2[i][j], s[b], n, i)
    BY <1>2, <1>3 DEF ChainGood
  <2>2. PICK o \in 0 .. L - 1 : \E l \in DOMAIN t[o] : s[b] = t[o][l]
    BY <1>1 DEF FlatGood
  <2>3. PICK l \in DOMAIN t[o] : s[b] = t[o][l]
    BY <2>2
  <2>4. s[b].key \in DOMAIN m /\ s[b].value = m[s[b].key]
    BY <2>3 DEF Table
  <2>5. \A x \in DOMAIN t2[i] : t2[i][x].key = t2[i][j].key => x = j
    BY <1>3 DEF ChainGood
  <2> QED
    BY <2>1, <2>4, <2>5 DEF Moved
<1>7. ASSUME NEW k \in DOMAIN m
      PROVE  k \in HashKeys /\ \E j \in DOMAIN t2[hash_fn[k] % n] : t2[hash_fn[k] % n][j].key = k
  <2>1. k \in HashKeys
    BY DEF Table
  <2>2. PICK o \in 0 .. L - 1 : o = hash_fn[k] % L
    BY <2>1 DEF Sized
  <2>3. PICK l \in DOMAIN t[o] : t[o][l].key = k
    BY <2>2 DEF Table
  <2>4. PICK b \in DOMAIN s : s[b] = t[o][l]
    BY <1>1 DEF FlatGood
  <2>5. PICK i \in 0 .. n - 1 : i = hash_fn[k] % n
    BY <2>1 DEF Sized
  <2>6. \E j \in DOMAIN t2[i] : t2[i][j].key = s[b].key
    BY <1>2, <1>3, <2>3, <2>4, <2>5 DEF ChainGood
  <2> QED
    BY <2>1, <2>3, <2>4, <2>5, <2>6
<1> QED
  BY <1>5, <1>6, <1>7 DEF Table

----------------------------------------------------------------------------
(* One bucket changes. *)

\* c is the bucket i of a table with L buckets for m.
ChainOf(c, i, L, m) ==
  /\ c \in Chains
  /\ \A j \in DOMAIN c :
       /\ c[j].index = i /\ hash_fn[c[j].key] % L = i
       /\ c[j].key \in DOMAIN m /\ c[j].value = m[c[j].key]
       /\ \A l \in DOMAIN c : c[l].key = c[j].key => l = j
  /\ \A k \in DOMAIN m : hash_fn[k] % L = i => \E j \in DOMAIN c : c[j].key = k

\* t2 is t with c for bucket i.
Rebucketed(t2, t, L, i, c) ==
  t2 \in [0 .. L - 1 -> Chains] /\ t2[i] = c /\ \A o \in 0 .. L - 1 : o # i => t2[o] = t[o]

\* m and m2 differ only in keys of bucket i.
SameElsewhere(m, m2, i, L) ==
  /\ DOMAIN m2 \subseteq HashKeys
  /\ \A k \in HashKeys : hash_fn[k] % L # i =>
       (k \in DOMAIN m <=> k \in DOMAIN m2) /\ (k \in DOMAIN m => m[k] = m2[k])

\* Each bucket of a table is one.
LEMMA BucketIs ==
  ASSUME NEW t, NEW L, NEW m, Table(t, L, m), NEW i \in 0 .. L - 1
  PROVE  ChainOf(t[i], i, L, m)
BY DEF Table, ChainOf

\* A table with another bucket.
LEMMA OtherBucket ==
  ASSUME NEW L \in Nat \ {0}, NEW t, NEW m, Table(t, L, m), NEW i \in 0 .. L - 1, NEW c, NEW m2, NEW t2,
         ChainOf(c, i, L, m2), Rebucketed(t2, t, L, i, c), SameElsewhere(m, m2, i, L),
         Sized(L)
  PROVE  Table(t2, L, m2)
<1>1. t2 \in [0 .. L - 1 -> Chains]
  BY DEF Rebucketed
<1>2. ASSUME NEW o \in 0 .. L - 1, NEW j \in DOMAIN t2[o]
      PROVE  /\ t2[o][j].index = o /\ hash_fn[t2[o][j].key] % L = o
             /\ t2[o][j].key \in DOMAIN m2 /\ t2[o][j].value = m2[t2[o][j].key]
             /\ \A l \in DOMAIN t2[o] : t2[o][l].key = t2[o][j].key => l = j
  <2>1. CASE o = i
    <3>1. t2[o] = c
      BY <2>1 DEF Rebucketed
    <3> QED
      BY <1>2, <2>1, <3>1 DEF ChainOf
  <2>2. CASE o # i
    <3>1. PICK u : u = t[o] /\ u = t2[o]
      BY <2>2 DEF Rebucketed
    <3>2. /\ u[j].index = o /\ hash_fn[u[j].key] % L = o
          /\ u[j].key \in DOMAIN m /\ u[j].value = m[u[j].key]
          /\ \A l \in DOMAIN u : u[l].key = u[j].key => l = j
      <4>1. ChainOf(u, o, L, m)
        BY <3>1, BucketIs
      <4> QED
        BY <1>2, <3>1, <4>1 DEF ChainOf
    <3>3. u[j].key \in HashKeys
      BY <3>2 DEF Table
    <3>4. u[j].key \in DOMAIN m2 /\ u[j].value = m2[u[j].key]
      BY <2>2, <3>2, <3>3 DEF SameElsewhere
    <3> QED
      BY <3>1, <3>2, <3>4
  <2> QED
    BY <2>1, <2>2
<1>3. ASSUME NEW k \in DOMAIN m2
      PROVE  k \in HashKeys /\ \E j \in DOMAIN t2[hash_fn[k] % L] : t2[hash_fn[k] % L][j].key = k
  <2>1. k \in HashKeys
    BY DEF SameElsewhere
  <2>2. PICK o \in 0 .. L - 1 : o = hash_fn[k] % L
    BY <2>1 DEF Sized
  <2>3. CASE o = i
    <3>1. t2[o] = c
      BY <2>3 DEF Rebucketed
    <3>2. \E j \in DOMAIN c : c[j].key = k
      BY <2>2, <2>3 DEF ChainOf
    <3> QED
      BY <2>1, <2>2, <3>1, <3>2
  <2>4. CASE o # i
    <3>1. t2[o] = t[o]
      BY <2>4 DEF Rebucketed
    <3>2. k \in DOMAIN m
      BY <2>1, <2>2, <2>4 DEF SameElsewhere
    <3>3. \E j \in DOMAIN t[o] : t[o][j].key = k
      BY <2>2, <3>2 DEF Table
    <3> QED
      BY <2>1, <2>2, <3>1, <3>3
  <2> QED
    BY <2>3, <2>4
<1> QED
  BY <1>1, <1>2, <1>3 DEF Table

\* m2 has v at k and is m elsewhere.
Puts(m2, m, k, v) ==
  /\ DOMAIN m2 = DOMAIN m \union {k} /\ m2[k] = v
  /\ \A l \in DOMAIN m : l # k => m2[l] = m[l]

\* c2 is c with another value at place j.
Revalued(c2, c, j, v) ==
  /\ c2 \in Chains /\ DOMAIN c2 = DOMAIN c
  /\ \A l \in DOMAIN c : c2[l].key = c[l].key /\ c2[l].index = c[l].index
                         /\ c2[l].value = IF l = j THEN v ELSE c[l].value

\* c2 is c without the entry at place j.
RemovedAt(c2, c, j) ==
  /\ c2 \in Chains
  /\ \A a \in DOMAIN c2 : \/ a < j /\ a \in DOMAIN c /\ c2[a] = c[a]
                          \/ a >= j /\ a + 1 \in DOMAIN c /\ c2[a] = c[a + 1]
  /\ \A a \in DOMAIN c : \/ a < j /\ a \in DOMAIN c2 /\ c2[a] = c[a]
                         \/ a = j
                         \/ a > j /\ a - 1 \in DOMAIN c2 /\ c2[a - 1] = c[a]

\* r is e in front of c.
Fronted(r, e, c) ==
  /\ r \in Chains
  /\ \A a \in DOMAIN r : (r[a] = e /\ a = 1) \/ \E b \in DOMAIN c : a = 1 + b /\ r[a] = c[b]
  /\ 1 \in DOMAIN r /\ r[1] = e
  /\ \A b \in DOMAIN c : 1 + b \in DOMAIN r /\ r[1 + b] = c[b]

\* m2 is m without k.
Takes(m2, m, k) == DOMAIN m2 = DOMAIN m \ {k} /\ \A l \in DOMAIN m2 : m2[l] = m[l]

\* An entry in front.
LEMMA FrontIs ==
  ASSUME NEW c \in Chains, NEW e \in EntryRecs, NEW r, r = <<e>> \o c
  PROVE  Fronted(r, e, c)
<1>1. PICK h \in Chains : h = <<e>> /\ DOMAIN h = {1} /\ h[1] = e /\ Len(h) = 1
  <2>1. <<e>> \in Chains /\ DOMAIN <<e>> = {1} /\ <<e>>[1] = e /\ Len(<<e>>) = 1
    BY DEF Chains
  <2> QED
    BY <2>1
<1>2. Behind(h, c, r)
  BY <1>1, Joined
<1> QED
  BY <1>1, <1>2 DEF Behind, Fronted

\* An insertion makes the bucket that of the new map.
LEMMA FrontOf ==
  ASSUME NEW c, NEW i, NEW L, NEW m, ChainOf(c, i, L, m), NEW e \in EntryRecs, NEW r, r = <<e>> \o c,
         NEW m2, e.key \notin DOMAIN m, e.index = i, hash_fn[e.key] % L = i, Puts(m2, m, e.key, e.value)
  PROVE  ChainOf(r, i, L, m2)
<1>1. c \in Chains
  BY DEF ChainOf
<1>2. /\ r \in Chains
      /\ \A a \in DOMAIN r : (r[a] = e /\ a = 1) \/ \E b \in DOMAIN c : a = 1 + b /\ r[a] = c[b]
      /\ 1 \in DOMAIN r /\ r[1] = e
      /\ \A b \in DOMAIN c : 1 + b \in DOMAIN r /\ r[1 + b] = c[b]
  <2>1. Fronted(r, e, c)
    BY <1>1, FrontIs
  <2> QED
    BY ONLY <2>1 DEF Fronted
<1>3. \A b \in DOMAIN c : c[b].key # e.key
  BY DEF ChainOf
<1>4. ASSUME NEW a \in DOMAIN r
      PROVE  /\ r[a].index = i /\ hash_fn[r[a].key] % L = i
             /\ r[a].key \in DOMAIN m2 /\ r[a].value = m2[r[a].key]
  <2>1. CASE r[a] = e
    BY <2>1 DEF Puts
  <2>2. ASSUME NEW b \in DOMAIN c, r[a] = c[b]
        PROVE  /\ r[a].index = i /\ hash_fn[r[a].key] % L = i
               /\ r[a].key \in DOMAIN m2 /\ r[a].value = m2[r[a].key]
    BY <1>3, <2>2 DEF Puts, ChainOf
  <2> QED
    BY <1>2, <2>1, <2>2
<1>5. ASSUME NEW a \in DOMAIN r, NEW l \in DOMAIN r, r[l].key = r[a].key PROVE l = a
  <2>1. \A x, y \in DOMAIN c : c[x].key = c[y].key => x = y
    BY DEF ChainOf
  <2> QED
    BY <1>2, <1>3, <1>5, <2>1
<1>6. ASSUME NEW k \in DOMAIN m2, hash_fn[k] % L = i PROVE \E j \in DOMAIN r : r[j].key = k
  <2>1. CASE k = e.key
    BY <1>2, <2>1
  <2>2. CASE k # e.key
    <3>1. k \in DOMAIN m
      BY <2>2 DEF Puts
    <3>2. PICK b \in DOMAIN c : c[b].key = k
      BY <1>6, <3>1 DEF ChainOf
    <3> QED
      BY <1>2, <3>2
  <2> QED
    BY <2>1, <2>2
<1> QED
  BY <1>2, <1>4, <1>5, <1>6 DEF ChainOf

\* So does another value.
LEMMA RevaluedOf ==
  ASSUME NEW c, NEW i, NEW L, NEW m, ChainOf(c, i, L, m), NEW j \in DOMAIN c, NEW v, NEW c2,
         Revalued(c2, c, j, v), NEW m2, Puts(m2, m, c[j].key, v)
  PROVE  ChainOf(c2, i, L, m2)
<1>1. ASSUME NEW a \in DOMAIN c2
      PROVE  /\ c2[a].index = i /\ hash_fn[c2[a].key] % L = i
             /\ c2[a].key \in DOMAIN m2 /\ c2[a].value = m2[c2[a].key]
             /\ \A l \in DOMAIN c2 : c2[l].key = c2[a].key => l = a
  <2>1. a \in DOMAIN c /\ c2[a].key = c[a].key /\ c2[a].index = c[a].index
        /\ c2[a].value = IF a = j THEN v ELSE c[a].value
    BY DEF Revalued
  <2>2. \A l \in DOMAIN c2 : l \in DOMAIN c /\ c2[l].key = c[l].key
    BY DEF Revalued
  <2>3. /\ c[a].index = i /\ hash_fn[c[a].key] % L = i
        /\ c[a].key \in DOMAIN m /\ c[a].value = m[c[a].key]
        /\ \A l \in DOMAIN c : c[l].key = c[a].key => l = a
    BY <2>1 DEF ChainOf
  <2>4. c2[a].key \in DOMAIN m2 /\ c2[a].value = m2[c2[a].key]
    <3>1. CASE a = j
      BY <2>1, <3>1 DEF Puts
    <3>2. CASE a # j
      <4>1. c[a].key # c[j].key
        BY <2>3, <3>2
      <4> QED
        BY <2>1, <2>3, <3>2, <4>1 DEF Puts
    <3> QED
      BY <3>1, <3>2
  <2> QED
    BY <2>1, <2>2, <2>3, <2>4
<1>2. ASSUME NEW k \in DOMAIN m2, hash_fn[k] % L = i PROVE \E l \in DOMAIN c2 : c2[l].key = k
  <2>1. k \in DOMAIN m
    BY DEF Puts, ChainOf
  <2>2. PICK l \in DOMAIN c : c[l].key = k
    BY <1>2, <2>1 DEF ChainOf
  <2> QED
    BY <2>2 DEF Revalued
<1> QED
  BY <1>1, <1>2 DEF ChainOf, Revalued

\* And so does a deletion.
LEMMA RemovedOf ==
  ASSUME NEW c, NEW i, NEW L, NEW m, ChainOf(c, i, L, m), NEW j \in DOMAIN c, NEW c2,
         RemovedAt(c2, c, j), NEW m2, Takes(m2, m, c[j].key)
  PROVE  ChainOf(c2, i, L, m2)
<1> USE DEF Takes
<1>1. c \in Chains /\ j \in Nat /\ c2 \in Chains
  BY DEF ChainOf, RemovedAt, Chains
<1>2. \A x, y \in DOMAIN c : c[x].key = c[y].key => x = y
  BY DEF ChainOf
<1>3. \A a \in DOMAIN c2 : a \in Nat
  BY <1>1 DEF Chains
<1>4. ASSUME NEW a \in DOMAIN c2
      PROVE  \E b \in DOMAIN c : c2[a] = c[b] /\ b # j /\ b = IF a < j THEN a ELSE a + 1
  <2>1. \/ a < j /\ a \in DOMAIN c /\ c2[a] = c[a]
        \/ a >= j /\ a + 1 \in DOMAIN c /\ c2[a] = c[a + 1]
    BY DEF RemovedAt
  <2> QED
    BY <1>1, <1>3, <2>1
<1>5. ASSUME NEW a \in DOMAIN c2
      PROVE  /\ c2[a].index = i /\ hash_fn[c2[a].key] % L = i
             /\ c2[a].key \in DOMAIN m2 /\ c2[a].value = m2[c2[a].key]
  <2>1. PICK b \in DOMAIN c : c2[a] = c[b] /\ b # j
    BY <1>4
  <2>2. c[b].key # c[j].key
    BY <1>2, <2>1
  <2> QED
    BY <2>1, <2>2 DEF ChainOf
<1>6. ASSUME NEW a \in DOMAIN c2, NEW l \in DOMAIN c2, c2[l].key = c2[a].key PROVE l = a
  <2>1. PICK b \in DOMAIN c : c2[a] = c[b] /\ b # j /\ b = IF a < j THEN a ELSE a + 1
    BY <1>4
  <2>2. PICK d \in DOMAIN c : c2[l] = c[d] /\ d # j /\ d = IF l < j THEN l ELSE l + 1
    BY <1>4
  <2>3. b = d
    BY <1>2, <1>6, <2>1, <2>2
  <2> QED
    BY <1>1, <1>3, <2>1, <2>2, <2>3
<1>7. ASSUME NEW k \in DOMAIN m2, hash_fn[k] % L = i PROVE \E l \in DOMAIN c2 : c2[l].key = k
  <2>1. PICK b \in DOMAIN c : c[b].key = k
    BY <1>7 DEF ChainOf
  <2>2. b # j
    BY <2>1
  <2> QED
    BY <2>1, <2>2 DEF RemovedAt
<1> QED
  BY <1>1, <1>5, <1>6, <1>7 DEF ChainOf

\* Leaving out a place of a sequence.
LEMMA RemovedIs ==
  ASSUME NEW c \in Chains, NEW j \in DOMAIN c, NEW c2,
         c2 = SubSeq(c, 1, j - 1) \o SubSeq(c, j + 1, Len(c))
  PROVE  RemovedAt(c2, c, j) /\ (c2 = <<>> => j = 1)
<1>1. PICK N \in Nat : N = Len(c) /\ DOMAIN c = 1 .. N
  BY DEF Chains
<1>2. j \in 1 .. N
  BY <1>1
<1>3. PICK s \in Chains : /\ s = SubSeq(c, 1, j - 1) /\ Len(s) = j - 1 /\ DOMAIN s = 1 .. j - 1
                          /\ \A a \in 1 .. j - 1 : s[a] = c[a]
  <2>1. PICK s : s = SubSeq(c, 1, j - 1)
    OBVIOUS
  <2>2. s \in Chains /\ Len(s) = j - 1
    BY <1>1, <1>2, <2>1 DEF Chains
  <2>3. DOMAIN s = 1 .. j - 1
    BY <2>2 DEF Chains
  <2>4. \A a \in 1 .. j - 1 : s[a] = c[a]
    BY <1>1, <1>2, <2>1 DEF Chains
  <2> QED
    BY <2>1, <2>2, <2>3, <2>4
<1>4. PICK u \in Chains : /\ u = SubSeq(c, j + 1, Len(c)) /\ Len(u) = N - j /\ DOMAIN u = 1 .. N - j
                          /\ \A a \in 1 .. N - j : u[a] = c[j + a]
  <2>1. PICK u : u = SubSeq(c, j + 1, N)
    OBVIOUS
  <2>2. u \in Chains /\ Len(u) = N - j
    BY <1>1, <1>2, <2>1 DEF Chains
  <2>3. DOMAIN u = 1 .. N - j
    BY <2>2 DEF Chains
  <2>4. \A a \in 1 .. N - j : u[a] = c[j + a]
    BY <1>1, <1>2, <2>1 DEF Chains
  <2> QED
    BY <1>1, <2>1, <2>2, <2>3, <2>4
<1>5. Behind(s, u, c2)
  BY <1>3, <1>4, Joined
<1>6. /\ c2 \in Chains
      /\ \A a \in DOMAIN c2 : \/ a \in 1 .. j - 1 /\ c2[a] = s[a]
                              \/ \E b \in 1 .. N - j : a = (j - 1) + b /\ c2[a] = u[b]
      /\ \A a \in 1 .. j - 1 : a \in DOMAIN c2 /\ c2[a] = s[a]
      /\ \A b \in 1 .. N - j : (j - 1) + b \in DOMAIN c2 /\ c2[(j - 1) + b] = u[b]
  <2>1. /\ c2 \in Chains
        /\ \A a \in DOMAIN c2 : \/ a \in DOMAIN s /\ c2[a] = s[a]
                                \/ \E b \in DOMAIN u : a = Len(s) + b /\ c2[a] = u[b]
        /\ \A a \in DOMAIN s : a \in DOMAIN c2 /\ c2[a] = s[a]
        /\ \A b \in DOMAIN u : Len(s) + b \in DOMAIN c2 /\ c2[Len(s) + b] = u[b]
    BY ONLY <1>5 DEF Behind
  <2>2. DOMAIN s = 1 .. j - 1 /\ Len(s) = j - 1 /\ DOMAIN u = 1 .. N - j
    BY <1>3, <1>4
  <2> QED
    BY ONLY <2>1, <2>2
<1>7. ASSUME NEW a \in DOMAIN c2
      PROVE  \/ a < j /\ a \in 1 .. N /\ c2[a] = c[a]
             \/ a >= j /\ a + 1 \in 1 .. N /\ c2[a] = c[a + 1]
  <2>1. CASE a \in 1 .. j - 1 /\ c2[a] = s[a]
    BY <1>2, <1>3, <2>1
  <2>2. ASSUME NEW b \in 1 .. N - j, a = (j - 1) + b, c2[a] = u[b]
        PROVE  a >= j /\ a + 1 \in 1 .. N /\ c2[a] = c[a + 1]
    <3>1. a + 1 = j + b
      BY <1>2, <2>2
    <3>2. c2[a] = c[a + 1]
      BY <1>4, <2>2, <3>1
    <3>3. a >= j /\ a + 1 \in 1 .. N
      <4>1. a = (j - 1) + b /\ b \in 1 .. N - j
        BY <2>2
      <4> QED
        BY ONLY <1>2, <4>1, N \in Nat
    <3> QED
      BY <3>2, <3>3
  <2> QED
    BY <1>6, <2>1, <2>2
<1>8. ASSUME NEW a \in 1 .. N
      PROVE  \/ a < j /\ a \in DOMAIN c2 /\ c2[a] = c[a]
             \/ a = j
             \/ a > j /\ a - 1 \in DOMAIN c2 /\ c2[a - 1] = c[a]
  <2>1. CASE a < j
    <3>1. a \in 1 .. j - 1
      BY <1>2, <2>1
    <3> QED
      BY <1>3, <1>6, <2>1, <3>1
  <2>2. CASE a > j
    <3>1. a - j \in 1 .. N - j /\ (j - 1) + (a - j) = a - 1 /\ j + (a - j) = a
      BY <1>2, <2>2
    <3>2. u[a - j] = c[a]
      BY <1>4, <3>1
    <3>3. (j - 1) + (a - j) \in DOMAIN c2 /\ c2[(j - 1) + (a - j)] = u[a - j]
      BY <1>6, <3>1
    <3> QED
      BY <2>2, <3>1, <3>2, <3>3
  <2>3. a < j \/ a = j \/ a > j
    BY ONLY <1>2, a \in 1 .. N, N \in Nat
  <2> QED
    BY <2>1, <2>2, <2>3
<1>9. ASSUME c2 = <<>> PROVE j = 1
  <2>1. 1 \notin DOMAIN c2
    BY <1>9
  <2>2. j # 1 => 1 \in 1 .. j - 1
    BY <1>2
  <2> QED
    BY <1>6, <2>1, <2>2
<1>10. RemovedAt(c2, c, j)
  BY <1>1, <1>6, <1>7, <1>8 DEF RemovedAt
<1> QED
  BY <1>9, <1>10

----------------------------------------------------------------------------
(* Searching. *)

\* The search for k finds it in the chain c.
FoundIn(h, k, c) == \A j \in DOMAIN c : c[j].key = k => hash_get_entry(h, k) = c[j]

\* A key is found where it is.
LEMMA Found ==
  ASSUME NEW h, NEW m, Table(h.entries, limit(h), m), NEW k \in HashKeys, NEW i \in 0 .. limit(h) - 1,
         i = hash_key_index(h, k), NEW c, c = h.entries[i]
  PROVE  /\ hash_has(h, k) <=> k \in DOMAIN m
         /\ FoundIn(h, k, c)
<1>1. ChainOf(c, i, limit(h), m)
  BY BucketIs
<1>2. Places(h, k) = {j \in DOMAIN c : c[j].key = k}
  BY DEF Places
<1>3. hash_has(h, k) => k \in DOMAIN m
  <2>1. \A j \in DOMAIN c : c[j].key \in DOMAIN m
    BY <1>1 DEF ChainOf
  <2> QED
    BY <1>2, <2>1 DEF hash_has
<1>4. k \in DOMAIN m => hash_has(h, k)
  <2>1. hash_fn[k] % limit(h) = i
    BY DEF hash_key_index
  <2>2. k \in DOMAIN m => \E j \in DOMAIN c : c[j].key = k
    BY <1>1, <2>1 DEF ChainOf
  <2> QED
    BY <1>2, <2>2 DEF hash_has
<1>5. ASSUME NEW j \in DOMAIN c, c[j].key = k PROVE hash_get_entry(h, k) = c[j]
  <2>1. j \in Nat
    BY <1>1 DEF ChainOf, Chains
  <2>2. Places(h, k) = {j}
    BY <1>1, <1>2, <1>5 DEF ChainOf
  <2>3. hash_get_entry(h, k) = c[CHOOSE l \in Places(h, k) : \A z \in Places(h, k) : l <= z]
    BY DEF hash_get_entry
  <2>4. (CHOOSE l \in {j} : \A z \in {j} : l <= z) = j
    BY <2>1
  <2> QED
    BY <2>2, <2>3, <2>4
<1> QED
  BY <1>3, <1>4, <1>5 DEF FoundIn

----------------------------------------------------------------------------
(* The table as a whole. *)

Buckets == UNION {[0 .. n - 1 -> Chains] : n \in Nat}
Hashes == [prime_index : Nat, used_indexes_size : Nat, length : Nat, entries : Buckets,
           cursor_index : Nat, cursor_entry : HashKeys \union {NULL}]
UsedOf(t) == {i \in DOMAIN t : t[i] # <<>>}
Room(n) == (n * 75) \div 100

\* h is the table of m, with hid heads deleted too early.
Sound(h, m, hid) ==
  /\ h \in Hashes
  /\ h.prime_index \in 0 .. Len(hash_primes) - 1
  /\ Table(h.entries, limit(h), m)
  /\ IsFiniteSet(DOMAIN m)
  /\ h.length = Cardinality(DOMAIN m) /\ h.length <= Room(limit(h))
  /\ hid \in Nat
  /\ h.used_indexes_size = (Cardinality(UsedOf(h.entries)) - hid) % HashWord

\* h2 is h with the buckets t2.
Fills(h2, h, t2, u, len) ==
  /\ h2 \in Hashes
  /\ h2.prime_index = h.prime_index /\ h2.entries = t2 /\ h2.length = len
  /\ h2.used_indexes_size = u
  /\ h2.cursor_index = h.cursor_index /\ h2.cursor_entry = h.cursor_entry


\* hash_rehash and the calls that change one bucket write these three fields.
LEMMA Filled ==
  ASSUME NEW h \in Hashes, NEW t2 \in Buckets, NEW u \in Nat, NEW len \in Nat
  PROVE  Fills([h EXCEPT !.entries = t2, !.used_indexes_size = u, !.length = len], h, t2, u, len)
BY DEF Hashes, Fills

\* The chains of a table are buckets.
LEMMA BucketsIs ==
  ASSUME NEW L \in Nat, NEW t \in [0 .. L - 1 -> Chains]
  PROVE  t \in Buckets
BY DEF Buckets

\* Every prime is the size of a table.
LEMMA PrimesSized ==
  ASSUME NEW p \in 1 .. Len(hash_primes)
  PROVE  Sized(hash_primes[p])
<1>1. hash_primes \in Seq(1 .. HashWord - 1) /\ HashWord \in Nat \ {0} /\ hash_fn \in [HashKeys -> Nat]
  BY HashAssumption
<1>2. PICK L : L = hash_primes[p] /\ L \in 1 .. HashWord - 1
  BY <1>1
<1>3. ASSUME NEW k \in HashKeys PROVE hash_fn[k] % L \in 0 .. L - 1
  <2>1. hash_fn[k] \in Int /\ L \in Nat \ {0}
    BY <1>1, <1>2
  <2> QED
    BY <2>1, ModIs
<1> QED
  BY <1>1, <1>2, <1>3 DEF Sized

\* So is the limit of one.
LEMMA LimitSized ==
  ASSUME NEW h, h.prime_index \in 0 .. Len(hash_primes) - 1
  PROVE  Sized(limit(h))
<1>1. h.prime_index + 1 \in 1 .. Len(hash_primes)
  BY HashAssumption
<1> QED
  BY <1>1, PrimesSized DEF limit

\* There are as many used buckets as there are buckets at most.
LEMMA UsedFinite ==
  ASSUME NEW L \in Nat, NEW t, DOMAIN t = 0 .. L - 1
  PROVE  IsFiniteSet(UsedOf(t)) /\ Cardinality(UsedOf(t)) \in 0 .. L
<1>1. UsedOf(t) \subseteq 0 .. L - 1
  BY DEF UsedOf
<1>2. IsFiniteSet(0 .. L - 1) /\ Cardinality(0 .. L - 1) = L
  <2>1. 0 \in Int /\ L - 1 \in Int
    OBVIOUS
  <2>2. IsFiniteSet(0 .. L - 1)
    BY <2>1, FS_Interval
  <2>3. Cardinality(0 .. L - 1) = IF 0 > L - 1 THEN 0 ELSE (L - 1) - 0 + 1
    BY <2>1, FS_Interval
  <2> QED
    BY <2>2, <2>3
<1>3. IsFiniteSet(UsedOf(t)) /\ Cardinality(UsedOf(t)) <= Cardinality(0 .. L - 1)
  BY <1>1, <1>2, FS_Subset
<1>4. Cardinality(UsedOf(t)) \in Nat
  BY <1>3, FS_CardinalityType
<1> QED
  BY <1>2, <1>3, <1>4

\* Another table in its place.
LEMMA Refilled ==
  ASSUME NEW h, NEW m, NEW hid, Sound(h, m, hid), NEW m2, NEW hid2 \in Nat, NEW h2, NEW t2, NEW u, NEW len,
         Fills(h2, h, t2, u, len), Table(t2, limit(h), m2), IsFiniteSet(DOMAIN m2),
         len = Cardinality(DOMAIN m2), len <= Room(limit(h)),
         u = (Cardinality(UsedOf(t2)) - hid2) % HashWord
  PROVE  Sound(h2, m2, hid2)
<1>1. limit(h2) = limit(h)
  BY DEF Fills, limit
<1> QED
  BY <1>1 DEF Sound, Fills

\* A rehash makes room for another entry and puts the count of used buckets right.
LEMMA RehashSound ==
  ASSUME NEW h, NEW m, NEW hid, Sound(h, m, hid), h.prime_index + 1 < Len(hash_primes),
         NEW h2, h2 = hash_rehash(h)
  PROVE  Sound(h2, m, 0) /\ h2.length + 1 <= Room(limit(h2))
<1>1. h.prime_index \in 0 .. Len(hash_primes) - 1 /\ h \in Hashes /\ Len(hash_primes) \in Nat
  BY HashAssumption DEF Sound
<1>2. PICK p \in Nat : p = h.prime_index /\ p + 1 \in 1 .. Len(hash_primes) - 1
                       /\ p + 2 \in 1 .. Len(hash_primes) /\ p + 1 \in 0 .. Len(hash_primes) - 1
  BY <1>1
<1>3. PICK L : L = limit(h) /\ L = hash_primes[p + 1] /\ Sized(L)
  BY <1>1, <1>2, LimitSized DEF limit
<1>4. PICK n : n = hash_primes[p + 2] /\ Sized(n)
  BY <1>2, PrimesSized
<1>5. L \in Nat /\ n \in Nat \ {0} /\ n \in 1 .. HashWord - 1 /\ HashWord \in Nat \ {0}
  BY <1>3, <1>4 DEF Sized
<1>6. PICK t2 : t2 = [i \in 0 .. n - 1 |-> Rehashed(h, i)]
  OBVIOUS
<1>7. ASSUME NEW i \in 0 .. n - 1 PROVE Rehashed(h, i) = ChainFrom(FlatFrom(h.entries, L), n, i)
  <2>1. FlatFrom(h.entries, L) = AllEntries(h)
    BY <1>3 DEF FlatFrom, AllEntries
  <2>2. n = hash_primes[h.prime_index + 2]
    BY <1>2, <1>4
  <2>3. Rehashed(h, i) = ChainFrom(AllEntries(h), n, i)
    BY <2>2 DEF Rehashed, ChainFrom
  <2> QED
    BY <2>1, <2>3
<1>8. t2 = [i \in 0 .. n - 1 |-> ChainFrom(FlatFrom(h.entries, L), n, i)]
  BY <1>6, <1>7
<1>9. Table(t2, n, m)
  <2>1. Table(h.entries, L, m)
    BY <1>3 DEF Sound
  <2> QED
    BY <1>3, <1>4, <1>5, <1>8, <2>1, RehashKeeps
<1>10. t2 \in [0 .. n - 1 -> Chains] /\ t2 \in Buckets /\ DOMAIN t2 = 0 .. n - 1
  BY <1>5, <1>9, BucketsIs DEF Table
<1>11. PICK u : u = Cardinality(UsedOf(t2)) /\ u \in 0 .. n
  BY <1>5, <1>10, UsedFinite
<1>12. hash_rehash(h) = [h EXCEPT !.prime_index = @ + 1, !.entries = t2, !.used_indexes_size = u]
  <2>1. n = hash_primes[h.prime_index + 2]
    BY <1>2, <1>4
  <2> QED
    BY <1>6, <1>11, <2>1 DEF hash_rehash, UsedOf
<1>13. /\ h2 \in Hashes /\ h2.prime_index = p + 1 /\ h2.entries = t2 /\ h2.used_indexes_size = u
       /\ h2.length = h.length
  <2>1. u \in Nat /\ h.prime_index + 1 \in Nat
    BY <1>2, <1>5, <1>11
  <2>2. h2 = [h EXCEPT !.prime_index = @ + 1, !.entries = t2, !.used_indexes_size = u]
    BY <1>12
  <2> QED
    BY ONLY <1>1, <1>2, <1>10, <2>1, <2>2 DEF Hashes
<1>14. limit(h2) = n
  <2>1. (p + 1) + 1 = p + 2
    OBVIOUS
  <2> QED
    BY <1>4, <1>13, <2>1 DEF limit
<1>15. h2.length + 1 <= Room(limit(h2))
  <2>1. h.length <= Room(L) /\ h.length \in Nat
    BY <1>1, <1>3 DEF Sound, Hashes
  <2>2. Room(L) < Room(n)
    <3>1. \A i \in 1 .. Len(hash_primes) - 1 : (hash_primes[i] * 75) \div 100 < (hash_primes[i + 1] * 75) \div 100
      BY HashAssumption
    <3>2. (p + 1) + 1 = p + 2
      OBVIOUS
    <3> QED
      BY <1>2, <1>3, <1>4, <3>1, <3>2 DEF Room
  <2>3. Room(L) \in Int /\ Room(n) \in Int
    BY <1>5 DEF Room
  <2> QED
    BY <1>13, <1>14, <2>1, <2>2, <2>3
<1>16. u = (u - 0) % HashWord
  <2>1. u \in Nat /\ u < HashWord
    BY <1>5, <1>11
  <2> QED
    BY ONLY <1>5, <2>1
<1>17. Sound(h2, m, 0)
  <2>1. h2.prime_index \in 0 .. Len(hash_primes) - 1
    BY <1>2, <1>13
  <2>2. Table(h2.entries, limit(h2), m)
    BY <1>9, <1>13, <1>14
  <2>3. IsFiniteSet(DOMAIN m) /\ h2.length = Cardinality(DOMAIN m)
    BY <1>13 DEF Sound
  <2>4. h2.length <= Room(limit(h2))
    <3>1. h2.length \in Nat /\ Room(n) \in Int
      BY <1>5, <1>13 DEF Hashes, Room
    <3> QED
      BY <1>14, <1>15, <3>1
  <2>5. h2.used_indexes_size = (Cardinality(UsedOf(h2.entries)) - 0) % HashWord
    BY <1>11, <1>13, <1>16
  <2> QED
    BY <1>13, <2>1, <2>2, <2>3, <2>4, <2>5 DEF Sound
<1> QED
  BY <1>15, <1>17

\* One bucket in or out of the used ones.
LEMMA UsedWith ==
  ASSUME NEW L \in Nat, NEW t, DOMAIN t = 0 .. L - 1, NEW i \in 0 .. L - 1, NEW c, NEW t2,
         Rebucketed(t2, t, L, i, c)
  PROVE  /\ c # <<>> /\ t[i] = <<>> => Cardinality(UsedOf(t2)) = Cardinality(UsedOf(t)) + 1
         /\ c = <<>> /\ t[i] # <<>> => Cardinality(UsedOf(t2)) = Cardinality(UsedOf(t)) - 1
         /\ (c = <<>> <=> t[i] = <<>>) => Cardinality(UsedOf(t2)) = Cardinality(UsedOf(t))
<1>1. DOMAIN t2 = 0 .. L - 1 /\ t2[i] = c /\ \A o \in 0 .. L - 1 : o # i => t2[o] = t[o]
  BY DEF Rebucketed
<1>2. IsFiniteSet(UsedOf(t))
  BY UsedFinite
<1>3. \A o : o \in UsedOf(t) <=> o \in 0 .. L - 1 /\ t[o] # <<>>
  BY DEF UsedOf
<1>4. \A o : o \in UsedOf(t2) <=> o \in 0 .. L - 1 /\ t2[o] # <<>>
  BY <1>1 DEF UsedOf
<1>5. ASSUME c # <<>>, t[i] = <<>> PROVE Cardinality(UsedOf(t2)) = Cardinality(UsedOf(t)) + 1
  <2>1. i \notin UsedOf(t) /\ UsedOf(t2) = UsedOf(t) \union {i}
    BY <1>1, <1>3, <1>4, <1>5
  <2> QED
    BY <1>2, <2>1, FS_AddElement
<1>6. ASSUME c = <<>>, t[i] # <<>> PROVE Cardinality(UsedOf(t2)) = Cardinality(UsedOf(t)) - 1
  <2>1. i \in UsedOf(t) /\ UsedOf(t2) = UsedOf(t) \ {i}
    BY <1>1, <1>3, <1>4, <1>6
  <2> QED
    BY <1>2, <2>1, FS_RemoveElement
<1>7. ASSUME c = <<>> <=> t[i] = <<>> PROVE UsedOf(t2) = UsedOf(t)
  BY <1>1, <1>3, <1>4, <1>7
<1> QED
  BY <1>5, <1>6, <1>7

\* h2 is h with c for bucket i.
Placed(h2, h, i, c) ==
  /\ Rebucketed(h2.entries, h.entries, limit(h), i, c)
  /\ h2.prime_index = h.prime_index
  /\ h2.cursor_index = h.cursor_index /\ h2.cursor_entry = h.cursor_entry

\* What the other lemmas need of a sound table and a key.
LEMMA SoundAt ==
  ASSUME NEW h, NEW m, NEW hid, Sound(h, m, hid), NEW k \in HashKeys
  PROVE  /\ Sized(limit(h)) /\ limit(h) \in Nat \ {0} /\ Table(h.entries, limit(h), m)
         /\ hash_key_index(h, k) \in 0 .. limit(h) - 1 /\ hash_key_index(h, k) = hash_fn[k] % limit(h)
         /\ h.entries \in [0 .. limit(h) - 1 -> Chains] /\ DOMAIN h.entries = 0 .. limit(h) - 1
<1>1. Sized(limit(h)) /\ Table(h.entries, limit(h), m)
  BY LimitSized DEF Sound
<1> QED
  BY <1>1 DEF Sized, Table, hash_key_index

\* A table that has one bucket replaced.
LEMMA RebucketedIs ==
  ASSUME NEW L \in Nat, NEW t \in [0 .. L - 1 -> Chains], NEW i \in 0 .. L - 1, NEW c \in Chains, NEW t2,
         t2 = [t EXCEPT ![i] = c]
  PROVE  Rebucketed(t2, t, L, i, c) /\ t2 \in Buckets
<1>1. t2 \in [0 .. L - 1 -> Chains] /\ t2[i] = c /\ \A o \in 0 .. L - 1 : o # i => t2[o] = t[o]
  OBVIOUS
<1>2. t2 \in Buckets
  BY <1>1, BucketsIs
<1> QED
  BY <1>1, <1>2 DEF Rebucketed

\* h2 is h with an entry for k in front of its chain.
Inserts(h2, h, k) ==
  \E i \in 0 .. limit(h) - 1, e \in EntryRecs, c \in Chains :
    i = hash_fn[k] % limit(h) /\ e.key = k /\ Fronted(c, e, h.entries[i]) /\ Placed(h2, h, i, c)

\* An insertion of a new key.
LEMMA InsertSound ==
  ASSUME NEW h, NEW m, NEW hid, Sound(h, m, hid), NEW k \in HashKeys, k \notin DOMAIN m, NEW v \in HashValues,
         h.length + 1 <= Room(limit(h)), NEW m2, Puts(m2, m, k, v),
         NEW h2, h2 = hash_set_entry_if_not_exists(h, k, v)
  PROVE  Sound(h2, m2, hid) /\ Inserts(h2, h, k)
<1>1. PICK L \in Nat \ {0} : L = limit(h) /\ Sized(L) /\ HashWord \in Nat \ {0}
  BY SoundAt DEF Sized
<1>2. PICK i \in 0 .. L - 1 : i = hash_key_index(h, k) /\ i = hash_fn[k] % L
  BY <1>1, SoundAt
<1>3. PICK t \in [0 .. L - 1 -> Chains] : t = h.entries /\ Table(t, L, m)
  BY <1>1, SoundAt
<1>4. PICK c \in Chains : c = t[i] /\ ChainOf(c, i, L, m)
  BY <1>3, BucketIs
<1>5. PICK e \in EntryRecs : e = [index |-> i, key |-> k, value |-> v]
  <2>1. i \in Nat
    OBVIOUS
  <2> QED
    BY ONLY <2>1, k \in HashKeys, v \in HashValues DEF EntryRecs
<1>6. e.index = i /\ e.key = k /\ e.value = v
  BY <1>5
<1>7. PICK r : r = <<e>> \o c /\ Fronted(r, e, c)
  BY FrontIs
<1>8. r \in Chains /\ r # <<>>
  BY <1>7 DEF Fronted, Chains
<1>9. PICK t2 : t2 = [t EXCEPT ![i] = r] /\ Rebucketed(t2, t, L, i, r) /\ t2 \in Buckets
  BY <1>1, <1>8, RebucketedIs
<1>10. ChainOf(r, i, L, m2)
  <2>1. e.key \notin DOMAIN m /\ e.index = i /\ hash_fn[e.key] % L = i /\ Puts(m2, m, e.key, e.value)
    BY <1>2, <1>6
  <2> QED
    BY <1>4, <1>7, <2>1, FrontOf
<1>11. SameElsewhere(m, m2, i, L)
  <2>1. DOMAIN m \subseteq HashKeys
    BY <1>3 DEF Table
  <2> QED
    BY <1>2, <2>1 DEF SameElsewhere, Puts
<1>12. Table(t2, L, m2)
  BY <1>1, <1>3, <1>9, <1>10, <1>11, OtherBucket
<1>13. ~ hash_has(h, k)
  <2>1. Table(h.entries, limit(h), m)
    BY <1>1, <1>3
  <2> QED
    BY <1>1, <1>2, <2>1, Found
<1>14. PICK C \in Nat : C = Cardinality(UsedOf(t)) /\ h.used_indexes_size = (C - hid) % HashWord
  <2>1. DOMAIN t = 0 .. L - 1
    OBVIOUS
  <2>2. Cardinality(UsedOf(t)) \in Nat
    BY <1>1, <2>1, UsedFinite
  <2> QED
    BY <1>3, <2>2 DEF Sound
<1>15. hid \in Nat /\ h \in Hashes /\ h.length \in Nat /\ h.used_indexes_size \in Nat
  BY DEF Sound, Hashes
<1>16. PICK u : u = IF c = <<>> THEN (h.used_indexes_size + 1) % HashWord ELSE h.used_indexes_size
  OBVIOUS
<1>17. u = (Cardinality(UsedOf(t2)) - hid) % HashWord /\ u \in Nat
  <2>1. DOMAIN t = 0 .. L - 1
    OBVIOUS
  <2>6. /\ r # <<>> /\ t[i] = <<>> => Cardinality(UsedOf(t2)) = Cardinality(UsedOf(t)) + 1
        /\ (r = <<>> <=> t[i] = <<>>) => Cardinality(UsedOf(t2)) = Cardinality(UsedOf(t))
    BY <1>9, <2>1, UsedWith
  <2>2. c = <<>> => Cardinality(UsedOf(t2)) = C + 1
    BY <1>4, <1>8, <1>14, <2>6
  <2>3. c # <<>> => Cardinality(UsedOf(t2)) = C
    BY <1>4, <1>8, <1>14, <2>6
  <2>4. CASE c = <<>>
    <3>1. C - hid \in Int /\ (C - hid) + 1 = (C + 1) - hid /\ (C - hid) + 1 \in Int
      BY <1>15
    <3>2. u = (((C - hid) % HashWord) + 1) % HashWord
      BY <1>14, <1>16, <2>4
    <3>3. (((C - hid) % HashWord) + 1) % HashWord = ((C - hid) + 1) % HashWord
      BY <1>1, <3>1, ModShift
    <3>4. ((C - hid) + 1) % HashWord \in 0 .. HashWord - 1
      BY <1>1, <3>1, ModIs
    <3> QED
      BY <1>1, <2>2, <2>4, <3>1, <3>2, <3>3, <3>4
  <2>5. CASE c # <<>>
    BY <1>14, <1>15, <1>16, <2>3, <2>5
  <2> QED
    BY <2>4, <2>5
<1>18. h2 = [h EXCEPT !.entries = t2, !.used_indexes_size = u, !.length = h.length + 1]
  <2>1. h2 = [h EXCEPT !.entries[i] = <<[index |-> i, key |-> k, value |-> v]>> \o @,
                       !.used_indexes_size = IF h.entries[i] = <<>> THEN (@ + 1) % HashWord ELSE @,
                       !.length = @ + 1]
    BY <1>2, <1>13 DEF hash_set_entry_if_not_exists
  <2>2. t2 = [h.entries EXCEPT ![i] = <<[index |-> i, key |-> k, value |-> v]>> \o @]
    BY <1>3, <1>4, <1>5, <1>7, <1>9
  <2>3. u = IF h.entries[i] = <<>> THEN (h.used_indexes_size + 1) % HashWord ELSE h.used_indexes_size
    BY <1>3, <1>4, <1>16
  <2> QED
    BY ONLY <1>15, <2>1, <2>2, <2>3 DEF Hashes
<1>19. Fills(h2, h, t2, u, h.length + 1)
  <2>1. h.length + 1 \in Nat
    BY <1>15
  <2>2. Fills([h EXCEPT !.entries = t2, !.used_indexes_size = u, !.length = h.length + 1], h, t2, u, h.length + 1)
    BY <1>9, <1>15, <1>17, <2>1, Filled
  <2> QED
    BY ONLY <1>18, <2>2
<1>20. IsFiniteSet(DOMAIN m2) /\ Cardinality(DOMAIN m2) = h.length + 1
  <2>1. IsFiniteSet(DOMAIN m) /\ h.length = Cardinality(DOMAIN m)
    BY DEF Sound
  <2>2. DOMAIN m2 = DOMAIN m \union {k}
    BY DEF Puts
  <2> QED
    BY <2>1, <2>2, FS_AddElement
<1>21. Sound(h2, m2, hid)
  <2>1. Table(t2, limit(h), m2) /\ h.length + 1 <= Room(limit(h)) /\ hid \in Nat
    BY <1>1, <1>12, <1>15
  <2>2. h.length + 1 = Cardinality(DOMAIN m2)
    BY <1>20
  <2> QED
    BY <1>17, <1>19, <1>20, <2>1, <2>2, Refilled
<1>22. Placed(h2, h, i, r)
  BY <1>1, <1>3, <1>9, <1>19 DEF Placed, Fills
<1>23. Inserts(h2, h, k)
  <2>1. i \in 0 .. limit(h) - 1 /\ i = hash_fn[k] % limit(h) /\ Fronted(r, e, h.entries[i])
    BY <1>1, <1>2, <1>3, <1>4, <1>7
  <2> QED
    BY <1>6, <1>8, <1>22, <2>1 DEF Inserts
<1> QED
  BY <1>21, <1>23

\* c2 has the keys of c.
SameKeys(c2, c) == DOMAIN c2 = DOMAIN c /\ \A l \in DOMAIN c : c2[l].key = c[l].key
\* h2 is h with other values in a chain.
Replaces(h2, h) ==
  \E i \in 0 .. limit(h) - 1, c \in Chains : SameKeys(c, h.entries[i]) /\ Placed(h2, h, i, c)

\* What hash_put makes of a table that has the entry e.
Puttings(h2, h, i, e, v) ==
  h2 = [h EXCEPT !.entries[i] = [j \in DOMAIN @ |-> IF @[j] = e THEN [e EXCEPT !.value = v] ELSE @[j]]]

\* A replacement of a value.
LEMMA ReplaceSound ==
  ASSUME NEW h, NEW m, NEW hid, Sound(h, m, hid), NEW k \in HashKeys, k \in DOMAIN m, NEW v \in HashValues,
         NEW m2, Puts(m2, m, k, v), NEW i, i = hash_key_index(h, k), NEW e, e = hash_get_entry(h, k),
         NEW h2, Puttings(h2, h, i, e, v)
  PROVE  Sound(h2, m2, hid) /\ Replaces(h2, h)
<1>1. PICK L \in Nat \ {0} : L = limit(h) /\ Sized(L) /\ HashWord \in Nat \ {0}
  BY SoundAt DEF Sized
<1>2. i \in 0 .. L - 1 /\ i = hash_fn[k] % L
  BY <1>1, SoundAt
<1>3. PICK t \in [0 .. L - 1 -> Chains] : t = h.entries /\ Table(t, L, m)
  BY <1>1, SoundAt
<1>4. PICK c \in Chains : c = t[i] /\ ChainOf(c, i, L, m)
  BY <1>2, <1>3, BucketIs
<1>5. PICK j \in DOMAIN c : c[j].key = k
  BY <1>2, <1>4 DEF ChainOf
<1>6. e = c[j]
  <2>1. Table(h.entries, limit(h), m) /\ i \in 0 .. limit(h) - 1 /\ c = h.entries[i]
    BY <1>1, <1>2, <1>3, <1>4
  <2>2. FoundIn(h, k, c)
    BY <2>1, Found
  <2> QED
    BY <1>5, <2>2 DEF FoundIn
<1>7. PICK N \in Nat : N = Len(c) /\ DOMAIN c = 1 .. N /\ \A l \in 1 .. N : c[l] \in EntryRecs
  BY DEF Chains
<1>8. PICK e2 \in EntryRecs : /\ e2 = [e EXCEPT !.value = v]
                              /\ e2.key = e.key /\ e2.index = e.index /\ e2.value = v
  <2>1. e \in EntryRecs
    BY <1>5, <1>6, <1>7
  <2>2. /\ [e EXCEPT !.value = v] \in EntryRecs /\ [e EXCEPT !.value = v].key = e.key
        /\ [e EXCEPT !.value = v].index = e.index /\ [e EXCEPT !.value = v].value = v
    BY <2>1 DEF EntryRecs
  <2> QED
    BY <2>2
<1>9. PICK c2 : c2 = [l \in DOMAIN c |-> IF c[l] = e THEN e2 ELSE c[l]]
  OBVIOUS
<1>10. c2 \in Chains /\ DOMAIN c2 = DOMAIN c
  <2>1. c2 \in [1 .. N -> EntryRecs]
    BY <1>7, <1>9
  <2> QED
    BY <1>9, <2>1 DEF Chains
<1>11. Revalued(c2, c, j, v)
  <2>1. ASSUME NEW l \in DOMAIN c
        PROVE  c2[l].key = c[l].key /\ c2[l].index = c[l].index /\ c2[l].value = IF l = j THEN v ELSE c[l].value
    <3>1. CASE l = j
      BY <1>6, <1>8, <1>9, <3>1
    <3>2. CASE l # j
      <4>1. c[l].key # c[j].key
        BY <1>4, <1>5, <3>2 DEF ChainOf
      <4>2. c2[l] = c[l]
        BY <1>6, <1>9, <4>1
      <4> QED
        BY <3>2, <4>2
    <3> QED
      BY <3>1, <3>2
  <2> QED
    BY <1>10, <2>1 DEF Revalued
<1>12. ChainOf(c2, i, L, m2)
  <2>1. Puts(m2, m, c[j].key, v)
    BY <1>5
  <2> QED
    BY <1>4, <1>11, <2>1, RevaluedOf
<1>13. PICK t2 : t2 = [t EXCEPT ![i] = c2] /\ Rebucketed(t2, t, L, i, c2) /\ t2 \in Buckets
  BY <1>1, <1>2, <1>10, RebucketedIs
<1>14. SameElsewhere(m, m2, i, L)
  <2>1. DOMAIN m \subseteq HashKeys
    BY <1>3 DEF Table
  <2> QED
    BY <1>2, <2>1 DEF SameElsewhere, Puts
<1>15. Table(t2, L, m2)
  BY <1>1, <1>2, <1>3, <1>12, <1>13, <1>14, OtherBucket
<1>16. h \in Hashes /\ h.length \in Nat /\ h.used_indexes_size \in Nat /\ hid \in Nat
  BY DEF Sound, Hashes
<1>17. h2 = [h EXCEPT !.entries = t2, !.used_indexes_size = h.used_indexes_size, !.length = h.length]
  <2>1. t2 = [h.entries EXCEPT ![i] = [l \in DOMAIN @ |-> IF @[l] = e THEN [e EXCEPT !.value = v] ELSE @[l]]]
    BY <1>3, <1>4, <1>8, <1>9, <1>13
  <2> QED
    BY ONLY <1>16, <2>1, Puttings(h2, h, i, e, v) DEF Hashes, Puttings
<1>18. Fills(h2, h, t2, h.used_indexes_size, h.length)
  <2>1. Fills([h EXCEPT !.entries = t2, !.used_indexes_size = h.used_indexes_size, !.length = h.length],
              h, t2, h.used_indexes_size, h.length)
    BY <1>13, <1>16, Filled
  <2> QED
    BY ONLY <1>17, <2>1
<1>19. DOMAIN m2 = DOMAIN m
  BY DEF Puts
<1>20. Sound(h2, m2, hid)
  <2>1. c2 = <<>> <=> t[i] = <<>>
    BY <1>4, <1>7, <1>10
  <2>2. DOMAIN t = 0 .. L - 1
    OBVIOUS
  <2>3. Cardinality(UsedOf(t2)) = Cardinality(UsedOf(t))
    BY <1>2, <1>13, <2>1, <2>2, UsedWith
  <2>4. h.used_indexes_size = (Cardinality(UsedOf(t2)) - hid) % HashWord
    BY <1>3, <2>3 DEF Sound
  <2>5. IsFiniteSet(DOMAIN m2) /\ h.length = Cardinality(DOMAIN m2) /\ h.length <= Room(limit(h))
    BY <1>19 DEF Sound
  <2>6. Table(t2, limit(h), m2)
    BY <1>1, <1>15
  <2> QED
    BY <1>16, <1>18, <2>4, <2>5, <2>6, Refilled
<1>21. Placed(h2, h, i, c2)
  BY <1>1, <1>3, <1>13, <1>18 DEF Placed, Fills
<1>22. Replaces(h2, h)
  <2>1. SameKeys(c2, h.entries[i]) /\ i \in 0 .. limit(h) - 1
    BY <1>1, <1>2, <1>3, <1>4, <1>11 DEF SameKeys, Revalued
  <2> QED
    BY <1>10, <1>21, <2>1 DEF Replaces
<1> QED
  BY <1>20, <1>22

\* h2 is h without the entry of k.
Removes(h2, h, k) ==
  \E i \in 0 .. limit(h) - 1, c \in Chains : \E j \in DOMAIN h.entries[i] :
    h.entries[i][j].key = k /\ RemovedAt(c, h.entries[i], j) /\ Placed(h2, h, i, c)

\* What hash_delete works out.
Deletes(h2, hid2, h, hid, k, i, old, j, c) ==
  /\ i = hash_get_entry(h, k).index /\ old = h.entries[i]
  /\ j = CHOOSE z \in DOMAIN old : old[z].key = k
  /\ c = SubSeq(old, 1, j - 1) \o SubSeq(old, j + 1, Len(old))
  /\ hid2 = IF j = 1 /\ c # <<>> THEN hid + 1 ELSE hid
  /\ h2 = [h EXCEPT !.entries[i] = c, !.length = @ - 1,
                    !.used_indexes_size = IF j = 1 THEN (@ - 1) % HashWord ELSE @]

\* A deletion.
LEMMA DeleteSound ==
  ASSUME NEW h, NEW m, NEW hid, Sound(h, m, hid), NEW k \in HashKeys, k \in DOMAIN m,
         NEW m2, m2 = Without(m, {k}), NEW i, NEW old, NEW j, NEW c, NEW hid2, NEW h2,
         Deletes(h2, hid2, h, hid, k, i, old, j, c)
  PROVE  Sound(h2, m2, hid2) /\ Removes(h2, h, k)
<1>1. PICK L \in Nat \ {0} : L = limit(h) /\ Sized(L) /\ HashWord \in Nat \ {0}
  BY SoundAt DEF Sized
<1>2. PICK o \in 0 .. L - 1 : o = hash_key_index(h, k) /\ o = hash_fn[k] % L
  BY <1>1, SoundAt
<1>3. PICK t \in [0 .. L - 1 -> Chains] : t = h.entries /\ Table(t, L, m)
  BY <1>1, SoundAt
<1>4. PICK u \in Chains : u = t[o] /\ ChainOf(u, o, L, m)
  BY <1>2, <1>3, BucketIs
<1>5. PICK p \in DOMAIN u : u[p].key = k
  BY <1>2, <1>4 DEF ChainOf
<1>6. hash_get_entry(h, k) = u[p]
  <2>1. Table(h.entries, limit(h), m) /\ o \in 0 .. limit(h) - 1 /\ u = h.entries[o]
    BY <1>1, <1>2, <1>3, <1>4
  <2>2. FoundIn(h, k, u)
    BY <1>2, <2>1, Found
  <2> QED
    BY <1>5, <2>2 DEF FoundIn
<1>7. i = o /\ old = u
  <2>1. u[p].index = o
    BY <1>4 DEF ChainOf
  <2>2. i = hash_get_entry(h, k).index /\ old = h.entries[i]
    BY DEF Deletes
  <2> QED
    BY <1>3, <1>4, <1>6, <2>1, <2>2
<1>8. j = p /\ j \in DOMAIN old
  <2>1. \A l \in DOMAIN u : u[l].key = k => l = p
    BY <1>4, <1>5 DEF ChainOf
  <2>2. j = CHOOSE z \in DOMAIN u : u[z].key = k
    BY <1>7 DEF Deletes
  <2> QED
    BY <1>5, <1>7, <2>1, <2>2
<1>9. RemovedAt(c, old, j) /\ (c = <<>> => j = 1)
  <2>1. c = SubSeq(old, 1, j - 1) \o SubSeq(old, j + 1, Len(old))
    BY DEF Deletes
  <2> QED
    BY <1>4, <1>7, <1>8, <2>1, RemovedIs
<1>10. c \in Chains
  BY <1>9 DEF RemovedAt
<1>11. PICK t2 : t2 = [t EXCEPT ![i] = c] /\ Rebucketed(t2, t, L, i, c) /\ t2 \in Buckets
  BY <1>1, <1>7, <1>10, RebucketedIs
<1>12. DOMAIN m2 = DOMAIN m \ {k} /\ \A l \in DOMAIN m2 : m2[l] = m[l]
  BY DEF Without
<1>13. ChainOf(c, i, L, m2)
  <2>1. Takes(m2, m, u[p].key)
    BY <1>5, <1>12 DEF Takes
  <2>2. RemovedAt(c, u, p)
    BY <1>7, <1>8, <1>9
  <2>3. ChainOf(c, o, L, m2)
    BY <1>4, <2>1, <2>2, RemovedOf
  <2> QED
    BY <1>7, <2>3
<1>14. SameElsewhere(m, m2, i, L)
  <2>1. DOMAIN m \subseteq HashKeys
    BY <1>3 DEF Table
  <2> QED
    BY <1>2, <1>7, <1>12, <2>1 DEF SameElsewhere
<1>15. Table(t2, L, m2)
  BY <1>1, <1>3, <1>7, <1>11, <1>13, <1>14, OtherBucket
<1>16. IsFiniteSet(DOMAIN m) /\ h.length = Cardinality(DOMAIN m) /\ h.length <= Room(L) /\ hid \in Nat
       /\ h \in Hashes /\ h.length \in Nat /\ h.used_indexes_size \in Nat
  BY <1>1 DEF Sound, Hashes
<1>17. IsFiniteSet(DOMAIN m2) /\ h.length - 1 = Cardinality(DOMAIN m2) /\ h.length - 1 \in Nat
  <2>1. IsFiniteSet(DOMAIN m2) /\ Cardinality(DOMAIN m2) = Cardinality(DOMAIN m) - 1
    BY <1>12, <1>16, FS_RemoveElement
  <2>2. Cardinality(DOMAIN m2) \in Nat
    BY <2>1, FS_CardinalityType
  <2> QED
    BY <1>16, <2>1, <2>2
<1>18. PICK C \in Nat : C = Cardinality(UsedOf(t)) /\ h.used_indexes_size = (C - hid) % HashWord
  <2>1. DOMAIN t = 0 .. L - 1
    OBVIOUS
  <2>2. Cardinality(UsedOf(t)) \in Nat
    BY <1>1, <2>1, UsedFinite
  <2> QED
    BY <1>3, <2>2 DEF Sound
<1>19. PICK n : n = IF j = 1 THEN (h.used_indexes_size - 1) % HashWord ELSE h.used_indexes_size
  OBVIOUS
<1>20. hid2 \in Nat /\ hid2 = IF j = 1 /\ c # <<>> THEN hid + 1 ELSE hid
  <2>1. hid2 = IF j = 1 /\ c # <<>> THEN hid + 1 ELSE hid
    BY DEF Deletes
  <2>2. hid2 = hid \/ hid2 = hid + 1
    BY ONLY <2>1
  <2> QED
    BY <1>16, <2>1, <2>2
<1>21. n = (Cardinality(UsedOf(t2)) - hid2) % HashWord /\ n \in Nat
  <2>1. DOMAIN t = 0 .. L - 1
    OBVIOUS
  <2>2. t[i] # <<>>
    <3>1. p \in DOMAIN t[i]
      BY <1>4, <1>7
    <3> QED
      BY <3>1
  <2>3. i \in 0 .. L - 1
    BY <1>7
  <2>4. /\ c = <<>> /\ t[i] # <<>> => Cardinality(UsedOf(t2)) = Cardinality(UsedOf(t)) - 1
        /\ (c = <<>> <=> t[i] = <<>>) => Cardinality(UsedOf(t2)) = Cardinality(UsedOf(t))
    BY <1>11, <2>1, <2>3, UsedWith
  <2>5. PICK C2 \in Int : C2 = Cardinality(UsedOf(t2)) /\ C2 = IF c = <<>> THEN C - 1 ELSE C
    BY <1>18, <2>2, <2>4
  <2>6. CASE j = 1
    <3>1. PICK D \in Int : D = C - hid /\ C2 - hid2 = D + (-1)
      <4>1. C - hid \in Int /\ C2 - hid2 = (C - hid) + (-1)
        BY <1>16, <1>20, <2>5, <2>6
      <4> QED
        BY <4>1
    <3>2. n = ((D % HashWord) - 1) % HashWord
      BY <1>18, <1>19, <2>6, <3>1
    <3>3. -1 \in Int /\ D + (-1) \in Int
      OBVIOUS
    <3>4. ((D % HashWord) + (-1)) % HashWord = (D + (-1)) % HashWord
      BY <1>1, <3>3, ModShift
    <3>5. D % HashWord \in 0 .. HashWord - 1
      BY <1>1, ModIs
    <3>6. (D % HashWord) - 1 = (D % HashWord) + (-1)
      BY ONLY <1>1, <3>5
    <3>7. (D + (-1)) % HashWord \in 0 .. HashWord - 1
      BY <1>1, <3>3, ModIs
    <3>8. n = (C2 - hid2) % HashWord
      BY ONLY <3>1, <3>2, <3>4, <3>6
    <3> QED
      BY <1>1, <2>5, <3>1, <3>7, <3>8
  <2>7. CASE j # 1
    <3>1. c # <<>> /\ hid2 = hid
      BY <1>9, <1>20, <2>7
    <3> QED
      BY <1>16, <1>18, <1>19, <2>5, <2>7, <3>1
  <2> QED
    BY <2>6, <2>7
<1>22. h2 = [h EXCEPT !.entries = t2, !.used_indexes_size = n, !.length = h.length - 1]
  <2>1. t2 = [h.entries EXCEPT ![i] = c]
    BY <1>3, <1>11
  <2>2. h2 = [h EXCEPT !.entries[i] = c, !.length = @ - 1,
                       !.used_indexes_size = IF j = 1 THEN (@ - 1) % HashWord ELSE @]
    BY DEF Deletes
  <2> QED
    BY ONLY <1>16, <1>19, <2>1, <2>2 DEF Hashes
<1>23. Fills(h2, h, t2, n, h.length - 1)
  <2>1. Fills([h EXCEPT !.entries = t2, !.used_indexes_size = n, !.length = h.length - 1], h, t2, n, h.length - 1)
    BY <1>11, <1>16, <1>17, <1>21, Filled
  <2> QED
    BY ONLY <1>22, <2>1
<1>24. Sound(h2, m2, hid2)
  <2>1. Table(t2, limit(h), m2)
    BY <1>1, <1>15
  <2>2. h.length - 1 <= Room(limit(h))
    <3>1. Room(L) \in Int
      BY DEF Room
    <3> QED
      BY <1>1, <1>16, <3>1
  <2> QED
    BY <1>17, <1>20, <1>21, <1>23, <2>1, <2>2, Refilled
<1>25. Placed(h2, h, i, c)
  BY <1>1, <1>3, <1>11, <1>23 DEF Placed, Fills
<1>26. Removes(h2, h, k)
  <2>1. i \in 0 .. limit(h) - 1 /\ j \in DOMAIN h.entries[i] /\ h.entries[i][j].key = k
        /\ RemovedAt(c, h.entries[i], j)
    BY <1>1, <1>3, <1>4, <1>5, <1>7, <1>8, <1>9
  <2> QED
    BY <1>10, <1>25, <2>1 DEF Removes
<1> QED
  BY <1>24, <1>26

----------------------------------------------------------------------------
(* A walk, and what changes the table under it. *)

\* The entry of q comes before that of e in the chain c; the chain has q.
Ahead(c, q, e) == \E j, l \in DOMAIN c : j < l /\ c[j].key = q /\ c[l].key = e
HasKey(c, q) == \E j \in DOMAIN c : c[j].key = q

\* The cursor at entry e of bucket i is past k of bucket n.
PassedIn(t, i, e, n, k) ==
  \/ n < i
  \/ n = i /\ (e = NULL \/ Ahead(t[i], k, e))
Passed(t, i, e, L, k) == PassedIn(t, i, e, hash_fn[k] % L, k)

\* The walk has answered those of kept that it is past.
Underway(t, i, e, L, m, kept, seen) ==
  /\ kept \subseteq DOMAIN m /\ seen \subseteq kept
  /\ i \in 0 .. L - 1 /\ (e # NULL => HasKey(t[i], e))
  /\ \A k \in kept : k \in seen <=> Passed(t, i, e, L, k)

\* The chains agree on the order of the keys K.
OrderKept(c2, c, K) ==
  /\ \A q, e \in K : Ahead(c, q, e) <=> Ahead(c2, q, e)
  /\ \A q \in K : HasKey(c, q) <=> HasKey(c2, q)

\* A walk goes on when a chain keeps its order.
LEMMA WalkKept ==
  ASSUME NEW L \in Nat, NEW t, NEW m, Table(t, L, m), NEW i, NEW e, NEW kept, NEW seen,
         Underway(t, i, e, L, m, kept, seen), NEW t2, NEW o \in 0 .. L - 1, NEW c, Rebucketed(t2, t, L, o, c),
         NEW K, OrderKept(c, t[o], K), NEW m2, NEW kept2, kept2 \subseteq kept, kept2 \subseteq K,
         kept2 \subseteq DOMAIN m2, e \in K \union {NULL}
  PROVE  Underway(t2, i, e, L, m2, kept2, seen \intersect kept2)
<1>1. i \in 0 .. L - 1 /\ (e # NULL => HasKey(t[i], e))
  BY DEF Underway
<1>2. i = o => t2[i] = c
  BY DEF Rebucketed
<1>3. i # o => t2[i] = t[i]
  BY <1>1 DEF Rebucketed
<1>4. e # NULL => HasKey(t2[i], e)
  <2>1. CASE i = o
    BY <1>1, <1>2, <2>1 DEF OrderKept
  <2>2. CASE i # o
    BY <1>1, <1>3, <2>2
  <2> QED
    BY <2>1, <2>2
<1>5. ASSUME NEW k \in kept2 PROVE Passed(t, i, e, L, k) <=> Passed(t2, i, e, L, k)
  <2>1. CASE e = NULL
    BY <2>1 DEF Passed, PassedIn
  <2>2. CASE e # NULL
    <3>1. Ahead(t[i], k, e) <=> Ahead(t2[i], k, e)
      <4>1. CASE i = o
        BY <1>2, <2>2, <4>1 DEF OrderKept
      <4>2. CASE i # o
        BY <1>3, <4>2
      <4> QED
        BY <4>1, <4>2
    <3> QED
      BY <3>1 DEF Passed, PassedIn
  <2> QED
    BY <2>1, <2>2
<1>6. \A k \in kept2 : k \in seen <=> Passed(t, i, e, L, k)
  BY DEF Underway
<1> QED
  BY <1>1, <1>4, <1>5, <1>6 DEF Underway

\* The entry that comes next is in the map.
LEMMA CursorIs ==
  ASSUME NEW L, NEW t, NEW m, Table(t, L, m), NEW i, NEW e, NEW kept, NEW seen,
         Underway(t, i, e, L, m, kept, seen)
  PROVE  e \in DOMAIN m \union {NULL}
BY DEF Table, Underway, HasKey

\* An insertion keeps the order.
LEMMA FrontOrder ==
  ASSUME NEW r, NEW c \in Chains, NEW e, Fronted(r, e, c), NEW K, e.key \notin K
  PROVE  OrderKept(r, c, K)
<1>1. /\ \A a \in DOMAIN r : (r[a] = e /\ a = 1) \/ \E b \in DOMAIN c : a = 1 + b /\ r[a] = c[b]
      /\ \A b \in DOMAIN c : 1 + b \in DOMAIN r /\ r[1 + b] = c[b]
      /\ \A b \in DOMAIN c : b \in Nat
  BY DEF Fronted, Chains
<1>2. ASSUME NEW q \in K, NEW z \in K, Ahead(c, q, z) PROVE Ahead(r, q, z)
  <2>1. PICK j \in DOMAIN c, l \in DOMAIN c : j < l /\ c[j].key = q /\ c[l].key = z
    BY <1>2 DEF Ahead
  <2>2. 1 + j < 1 + l
    BY <1>1, <2>1
  <2> QED
    BY <1>1, <2>1, <2>2 DEF Ahead
<1>3. ASSUME NEW q \in K, NEW z \in K, Ahead(r, q, z) PROVE Ahead(c, q, z)
  <2>1. PICK j \in DOMAIN r, l \in DOMAIN r : j < l /\ r[j].key = q /\ r[l].key = z
    BY <1>3 DEF Ahead
  <2>2. PICK a \in DOMAIN c : j = 1 + a /\ r[j] = c[a]
    BY <1>1, <2>1
  <2>3. PICK b \in DOMAIN c : l = 1 + b /\ r[l] = c[b]
    BY <1>1, <2>1
  <2>4. a < b
    BY <1>1, <2>1, <2>2, <2>3
  <2> QED
    BY <2>1, <2>2, <2>3, <2>4 DEF Ahead
<1>4. ASSUME NEW q \in K PROVE HasKey(c, q) <=> HasKey(r, q)
  BY <1>1 DEF HasKey
<1> QED
  BY <1>2, <1>3, <1>4 DEF OrderKept

\* So does a deletion.
LEMMA RemovalOrder ==
  ASSUME NEW c2, NEW c \in Chains, NEW p \in DOMAIN c, RemovedAt(c2, c, p), NEW K, c[p].key \notin K
  PROVE  OrderKept(c2, c, K)
<1>1. p \in Nat /\ (\A a \in DOMAIN c : a \in Nat) /\ \A a \in DOMAIN c2 : a \in Nat
  BY DEF RemovedAt, Chains
<1>2. ASSUME NEW a \in DOMAIN c2
      PROVE  \E b \in DOMAIN c : c2[a] = c[b] /\ b = IF a < p THEN a ELSE a + 1
  <2>1. \/ a < p /\ a \in DOMAIN c /\ c2[a] = c[a]
        \/ a >= p /\ a + 1 \in DOMAIN c /\ c2[a] = c[a + 1]
    BY DEF RemovedAt
  <2> QED
    BY <1>1, <2>1
<1>3. ASSUME NEW b \in DOMAIN c, b # p
      PROVE  \E a \in DOMAIN c2 : c2[a] = c[b] /\ a = IF b < p THEN b ELSE b - 1
  <2>1. \/ b < p /\ b \in DOMAIN c2 /\ c2[b] = c[b]
        \/ b > p /\ b - 1 \in DOMAIN c2 /\ c2[b - 1] = c[b]
    BY <1>3 DEF RemovedAt
  <2> QED
    BY <1>1, <2>1
<1>4. ASSUME NEW q \in K, NEW z \in K, Ahead(c, q, z) PROVE Ahead(c2, q, z)
  <2>1. PICK j \in DOMAIN c, l \in DOMAIN c : j < l /\ c[j].key = q /\ c[l].key = z
    BY <1>4 DEF Ahead
  <2>2. j # p /\ l # p
    BY <2>1
  <2>3. PICK a \in DOMAIN c2 : c2[a] = c[j] /\ a = IF j < p THEN j ELSE j - 1
    BY <1>3, <2>2
  <2>4. PICK b \in DOMAIN c2 : c2[b] = c[l] /\ b = IF l < p THEN l ELSE l - 1
    BY <1>3, <2>2
  <2>5. a < b
    BY <1>1, <2>1, <2>2, <2>3, <2>4
  <2> QED
    BY <2>1, <2>3, <2>4, <2>5 DEF Ahead
<1>5. ASSUME NEW q \in K, NEW z \in K, Ahead(c2, q, z) PROVE Ahead(c, q, z)
  <2>1. PICK j \in DOMAIN c2, l \in DOMAIN c2 : j < l /\ c2[j].key = q /\ c2[l].key = z
    BY <1>5 DEF Ahead
  <2>2. PICK a \in DOMAIN c : c2[j] = c[a] /\ a = IF j < p THEN j ELSE j + 1
    BY <1>2
  <2>3. PICK b \in DOMAIN c : c2[l] = c[b] /\ b = IF l < p THEN l ELSE l + 1
    BY <1>2
  <2>4. a < b
    BY <1>1, <2>1, <2>2, <2>3
  <2> QED
    BY <2>1, <2>2, <2>3, <2>4 DEF Ahead
<1>6. ASSUME NEW q \in K PROVE HasKey(c, q) <=> HasKey(c2, q)
  <2>1. ASSUME HasKey(c, q) PROVE HasKey(c2, q)
    <3>1. PICK b \in DOMAIN c : c[b].key = q
      BY <2>1 DEF HasKey
    <3>2. b # p
      BY <3>1
    <3> QED
      BY <1>3, <3>1, <3>2 DEF HasKey
  <2>2. ASSUME HasKey(c2, q) PROVE HasKey(c, q)
    BY <1>2, <2>2 DEF HasKey
  <2> QED
    BY <2>1, <2>2
<1> QED
  BY <1>4, <1>5, <1>6 DEF OrderKept

\* And other values do.
LEMMA SameOrder ==
  ASSUME NEW c2, NEW c, SameKeys(c2, c), NEW K
  PROVE  OrderKept(c2, c, K)
BY DEF SameKeys, OrderKept, Ahead, HasKey

----------------------------------------------------------------------------
(* Walking. *)

\* e is the key of the entry after place p of the chain c.
FollowsAt(e, c, p) == e = IF p < Len(c) THEN c[p + 1].key ELSE NULL

\* After answers it.
LEMMA AfterIs ==
  ASSUME NEW h, NEW i, NEW c, c = h.entries[i], NEW L, NEW m, ChainOf(c, i, L, m),
         NEW p \in DOMAIN c, NEW k, k = c[p].key
  PROVE  FollowsAt(After(h, i, k), c, p)
<1>1. \A l \in DOMAIN c : c[l].key = k <=> l = p
  BY DEF ChainOf
<1>2. (CHOOSE j \in DOMAIN h.entries[i] : h.entries[i][j].key = k) = p
  <2>1. (CHOOSE j \in DOMAIN c : c[j].key = k) = p
    BY <1>1
  <2> QED
    BY <2>1
<1>3. After(h, i, k) = IF p < Len(c) THEN c[p + 1].key ELSE NULL
  BY <1>2 DEF After
<1> QED
  BY <1>3 DEF FollowsAt

\* Past the entry of k are those before it, and k.
LEMMA PastEntry ==
  ASSUME NEW c, NEW i, NEW L, NEW m, ChainOf(c, i, L, m), NEW p \in DOMAIN c, NEW e, FollowsAt(e, c, p),
         NEW q \in DOMAIN m, hash_fn[q] % L = i
  PROVE  (e = NULL \/ Ahead(c, q, e)) <=> (q = c[p].key \/ Ahead(c, q, c[p].key))
<1>1. PICK N \in Nat : N = Len(c) /\ DOMAIN c = 1 .. N /\ \A l \in 1 .. N : c[l].key \in HashKeys
  <2>1. c \in Seq(EntryRecs)
    BY DEF ChainOf, Chains
  <2>2. Len(c) \in Nat /\ DOMAIN c = 1 .. Len(c) /\ \A l \in 1 .. Len(c) : c[l] \in EntryRecs
    BY <2>1
  <2> QED
    BY <2>2 DEF EntryRecs
<1>2. \A x, y \in 1 .. N : c[x].key = c[y].key => x = y
  BY <1>1 DEF ChainOf
<1>3. PICK j \in 1 .. N : c[j].key = q
  BY <1>1 DEF ChainOf
<1>4. p \in 1 .. N /\ NULL \notin HashKeys
  BY <1>1, HashAssumption
<1>5. \A x \in 1 .. N : Ahead(c, q, c[x].key) <=> j < x
  <2> SUFFICES ASSUME NEW x \in 1 .. N PROVE Ahead(c, q, c[x].key) <=> j < x
    OBVIOUS
  <2>1. j < x => Ahead(c, q, c[x].key)
    BY <1>1, <1>3 DEF Ahead
  <2>2. ASSUME Ahead(c, q, c[x].key) PROVE j < x
    <3>1. PICK y \in 1 .. N, z \in 1 .. N : y < z /\ c[y].key = q /\ c[z].key = c[x].key
      BY <1>1, <2>2 DEF Ahead
    <3> QED
      BY <1>2, <1>3, <3>1
  <2> QED
    BY <2>1, <2>2
<1>6. q = c[p].key <=> j = p
  BY <1>2, <1>3, <1>4
<1>7. CASE p < N
  <2>1. p + 1 \in 1 .. N /\ e = c[p + 1].key
    BY <1>1, <1>4, <1>7 DEF FollowsAt
  <2>2. e # NULL
    BY <1>1, <1>4, <2>1
  <2>3. Ahead(c, q, e) <=> j < p + 1
    BY <1>5, <2>1
  <2>4. j < p + 1 <=> j = p \/ j < p
    BY <1>4
  <2> QED
    BY <1>4, <1>5, <1>6, <2>2, <2>3, <2>4
<1>8. CASE ~ (p < N)
  <2>1. e = NULL
    BY <1>1, <1>8 DEF FollowsAt
  <2>2. j = p \/ j < p
    BY <1>4, <1>8
  <2> QED
    BY <1>4, <1>5, <1>6, <2>1, <2>2
<1> QED
  BY <1>7, <1>8

\* The step from entry e of bucket i to e2 of bucket i2 answers k.
StepIs(t, L, i, e, k, i2, e2) ==
  \/ e # NULL /\ i2 = i /\ k = e /\ \E p \in DOMAIN t[i] : t[i][p].key = k /\ FollowsAt(e2, t[i], p)
  \/ /\ e = NULL /\ \A o \in i + 1 .. L - 1 : t[o] = <<>>
     /\ i2 = L - 1 /\ k = NULL /\ e2 = NULL
  \/ /\ e = NULL /\ i2 \in i + 1 .. L - 1 /\ \A o \in i + 1 .. i2 - 1 : t[o] = <<>>
     /\ \E p \in DOMAIN t[i2] : p = 1 /\ t[i2][p].key = k /\ FollowsAt(e2, t[i2], p)

\* A step keeps what a walk is, and answers no entry again.
LEMMA StepKeeps ==
  ASSUME NEW L \in Nat \ {0}, Sized(L), NEW t, NEW m, Table(t, L, m), NEW i, NEW e, NEW kept, NEW seen,
         Underway(t, i, e, L, m, kept, seen), NEW k, NEW i2, NEW e2, StepIs(t, L, i, e, k, i2, e2)
  PROVE  Underway(t, i2, e2, L, m, kept, seen \union ({k} \intersect kept)) /\ k \notin seen
<1>1. /\ kept \subseteq DOMAIN m /\ seen \subseteq kept /\ i \in 0 .. L - 1
      /\ \A q \in kept : q \in seen <=> Passed(t, i, e, L, q)
  BY DEF Underway
<1>2. DOMAIN m \subseteq HashKeys /\ NULL \notin HashKeys
  BY HashAssumption DEF Table
<1>3. ASSUME NEW q \in kept
      PROVE  /\ hash_fn[q] % L \in 0 .. L - 1
             /\ HasKey(t[hash_fn[q] % L], q) /\ t[hash_fn[q] % L] # <<>>
  <2>1. hash_fn[q] % L \in 0 .. L - 1
    BY <1>1, <1>2 DEF Sized
  <2>2. HasKey(t[hash_fn[q] % L], q)
    BY <1>1 DEF Table, HasKey
  <2> QED
    BY <2>1, <2>2 DEF HasKey
<1>4. ASSUME NEW o \in 0 .. L - 1, NEW p \in DOMAIN t[o], t[o][p].key = k, i2 = o, FollowsAt(e2, t[o], p)
      PROVE  /\ i2 \in 0 .. L - 1 /\ (e2 # NULL => HasKey(t[i2], e2)) /\ k \in DOMAIN m /\ hash_fn[k] % L = o
             /\ \A q \in kept : Passed(t, i2, e2, L, q) <=> q = k \/ Passed(t, o, k, L, q)
  <2>1. PICK c : c = t[o] /\ ChainOf(c, o, L, m)
    BY BucketIs
  <2>2. k \in DOMAIN m /\ hash_fn[k] % L = o
    BY <1>4, <2>1 DEF ChainOf
  <2>3. k # NULL
    BY <1>2, <2>2
  <2>4. e2 # NULL => HasKey(t[i2], e2)
    <3>1. c \in Seq(EntryRecs) /\ FollowsAt(e2, c, p) /\ p \in DOMAIN c
      BY <1>4, <2>1 DEF ChainOf, Chains
    <3>2. p < Len(c) => p + 1 \in DOMAIN c
      BY <3>1
    <3> QED
      BY <1>4, <2>1, <3>1, <3>2 DEF FollowsAt, HasKey
  <2>5. ASSUME NEW q \in kept PROVE Passed(t, i2, e2, L, q) <=> q = k \/ Passed(t, o, k, L, q)
    <3>1. CASE hash_fn[q] % L = o
      <4>1. (e2 = NULL \/ Ahead(c, q, e2)) <=> (q = k \/ Ahead(c, q, k))
        <5>1. q \in DOMAIN m /\ FollowsAt(e2, c, p) /\ p \in DOMAIN c /\ c[p].key = k
          BY <1>1, <1>4, <2>1
        <5>2. (e2 = NULL \/ Ahead(c, q, e2)) <=> (q = c[p].key \/ Ahead(c, q, c[p].key))
          BY <2>1, <3>1, <5>1, PastEntry
        <5> QED
          BY <5>1, <5>2
      <4> QED
        BY <1>4, <2>1, <2>3, <3>1, <4>1 DEF Passed, PassedIn
    <3>2. CASE hash_fn[q] % L # o
      <4>1. q # k
        BY <2>2, <3>2
      <4>2. PICK n : n = hash_fn[q] % L
        OBVIOUS
      <4>3. n # o
        BY <3>2, <4>2
      <4>4. PassedIn(t, o, e2, n, q) <=> PassedIn(t, o, k, n, q)
        BY ONLY <4>3 DEF PassedIn
      <4> QED
        BY <1>4, <4>1, <4>2, <4>4 DEF Passed
    <3> QED
      BY <3>1, <3>2
  <2> QED
    BY <1>4, <2>2, <2>4, <2>5
<1>5. ASSUME NEW o \in 0 .. L - 1, NEW p \in DOMAIN t[o], t[o][p].key = k, i2 = o, FollowsAt(e2, t[o], p),
             \A q \in kept : Passed(t, o, k, L, q) <=> Passed(t, i, e, L, q),
             ~ Passed(t, o, k, L, k)
      PROVE  Underway(t, i2, e2, L, m, kept, seen \union ({k} \intersect kept)) /\ k \notin seen
  <2>1. k \notin seen
    BY <1>1, <1>5
  <2>2. \A q \in kept : q \in seen \union ({k} \intersect kept) <=> Passed(t, i2, e2, L, q)
    BY <1>1, <1>4, <1>5
  <2>3. i2 \in 0 .. L - 1 /\ (e2 # NULL => HasKey(t[i2], e2))
    BY <1>4, <1>5
  <2>4. seen \union ({k} \intersect kept) \subseteq kept
    BY <1>1
  <2>5. Underway(t, i2, e2, L, m, kept, seen \union ({k} \intersect kept))
    BY <1>1, <2>2, <2>3, <2>4 DEF Underway
  <2> QED
    BY <2>1, <2>5
<1>6. ASSUME NEW o \in 0 .. L - 1, NEW p \in DOMAIN t[o], t[o][p].key = k PROVE ~ Ahead(t[o], k, k)
  <2>1. PICK c : c = t[o] /\ ChainOf(c, o, L, m)
    BY BucketIs
  <2>2. \A x, y \in DOMAIN c : c[x].key = c[y].key => x = y
    BY <2>1 DEF ChainOf
  <2>3. \A x \in DOMAIN c : ~ (x < x)
    <3>1. \A x \in DOMAIN c : x \in Nat
      BY <2>1 DEF ChainOf, Chains
    <3> QED
      BY <3>1
  <2> QED
    BY <2>1, <2>2, <2>3 DEF Ahead
<1>7. CASE e # NULL /\ i2 = i /\ k = e /\ \E p \in DOMAIN t[i] : t[i][p].key = k /\ FollowsAt(e2, t[i], p)
  <2>1. PICK p \in DOMAIN t[i] : t[i][p].key = k /\ FollowsAt(e2, t[i], p)
    BY <1>7
  <2>2. hash_fn[k] % L = i
    BY <1>1, <1>4, <1>7, <2>1
  <2>3. ~ Passed(t, i, k, L, k)
    <3>1. ~ Ahead(t[i], k, k)
      BY <1>1, <1>6, <2>1
    <3> QED
      BY <1>1, <1>7, <2>2, <3>1 DEF Passed, PassedIn
  <2> QED
    BY <1>1, <1>5, <1>7, <2>1, <2>3
<1>8. CASE /\ e = NULL /\ \A o \in i + 1 .. L - 1 : t[o] = <<>>
           /\ i2 = L - 1 /\ k = NULL /\ e2 = NULL
  <2>1. ASSUME NEW q \in kept PROVE q \in seen /\ Passed(t, i2, e2, L, q)
    <3>1. hash_fn[q] % L \in 0 .. L - 1 /\ hash_fn[q] % L \notin i + 1 .. L - 1
      BY <1>3, <1>8
    <3>2. hash_fn[q] % L < i \/ hash_fn[q] % L = i
      BY <1>1, <3>1
    <3>3. hash_fn[q] % L < L - 1 \/ hash_fn[q] % L = L - 1
      BY <3>1
    <3> QED
      BY <1>1, <1>8, <3>2, <3>3 DEF Passed, PassedIn
  <2>2. k \notin kept
    BY <1>1, <1>2, <1>8
  <2>3. i2 \in 0 .. L - 1
    BY <1>8
  <2> QED
    BY <1>1, <1>8, <2>1, <2>2, <2>3 DEF Underway
<1>9. CASE /\ e = NULL /\ i2 \in i + 1 .. L - 1 /\ \A o \in i + 1 .. i2 - 1 : t[o] = <<>>
           /\ \E p \in DOMAIN t[i2] : p = 1 /\ t[i2][p].key = k /\ FollowsAt(e2, t[i2], p)
  <2>1. PICK p \in DOMAIN t[i2] : p = 1 /\ t[i2][p].key = k /\ FollowsAt(e2, t[i2], p)
    BY <1>9
  <2>2. i2 \in 0 .. L - 1 /\ i < i2
    BY <1>1, <1>9
  <2>3. k \in DOMAIN m /\ hash_fn[k] % L = i2 /\ k # NULL
    BY <1>2, <1>4, <2>1, <2>2
  <2>4. ASSUME NEW q PROVE ~ Ahead(t[i2], q, k)
    <3>1. PICK c : c = t[i2] /\ ChainOf(c, i2, L, m)
      BY <2>2, BucketIs
    <3>2. \A x, y \in DOMAIN c : c[x].key = c[y].key => x = y
      BY <3>1 DEF ChainOf
    <3>3. \A x \in DOMAIN c : x \in Nat /\ ~ (x < 1)
      BY <3>1 DEF ChainOf, Chains
    <3> QED
      BY <2>1, <3>1, <3>2, <3>3 DEF Ahead
  <2>5. ASSUME NEW q \in kept PROVE Passed(t, i2, k, L, q) <=> Passed(t, i, e, L, q)
    <3>1. PICK n \in 0 .. L - 1 : n = hash_fn[q] % L /\ n \notin i + 1 .. i2 - 1
      BY <1>3, <1>9
    <3>2. n < i2 <=> n < i \/ n = i
      BY <1>1, <2>2, <3>1
    <3>3. PassedIn(t, i2, k, n, q) <=> n < i2
      BY <2>3, <2>4 DEF PassedIn
    <3>4. PassedIn(t, i, e, n, q) <=> n < i \/ n = i
      BY <1>9 DEF PassedIn
    <3> QED
      BY <3>1, <3>2, <3>3, <3>4 DEF Passed
  <2>6. ~ Passed(t, i2, k, L, k)
    BY <2>2, <2>3, <2>4 DEF Passed, PassedIn
  <2> QED
    BY <1>5, <2>1, <2>2, <2>5, <2>6
<1> QED
  BY <1>7, <1>8, <1>9 DEF StepIs

\* h2 is h with the cursor at entry e of bucket i.
Moves(h2, h, i, e) ==
  /\ h2 \in Hashes
  /\ h2.prime_index = h.prime_index /\ h2.entries = h.entries /\ h2.length = h.length
  /\ h2.used_indexes_size = h.used_indexes_size
  /\ h2.cursor_index = i /\ h2.cursor_entry = e

\* hash_first and hash_next write these two fields.
LEMMA Moving ==
  ASSUME NEW h \in Hashes, NEW i \in Nat, NEW e \in HashKeys \union {NULL}
  PROVE  Moves([h EXCEPT !.cursor_index = i, !.cursor_entry = e], h, i, e)
BY DEF Hashes, Moves

\* A sound table with the cursor elsewhere.
LEMMA MovedSound ==
  ASSUME NEW h, NEW m, NEW hid, Sound(h, m, hid), NEW h2, NEW i, NEW e, Moves(h2, h, i, e)
  PROVE  Sound(h2, m, hid) /\ limit(h2) = limit(h)
BY DEF Sound, Moves, limit

\* Advance makes a step.
Advances(h, t, L, i, e) ==
  \E k, i2, e2 : /\ StepIs(t, L, i, e, k, i2, e2)
                 /\ Advance(h) = [answer |-> k,
                                  hash |-> [h EXCEPT !.cursor_index = i2, !.cursor_entry = e2]]

\* Where the cursor goes.
LEMMA AdvanceIs ==
  ASSUME NEW h, NEW L \in Nat \ {0}, L = limit(h), NEW t \in [0 .. L - 1 -> Chains], t = h.entries,
         NEW m, Table(t, L, m), NEW i \in 0 .. L - 1, i = h.cursor_index, NEW e, e = h.cursor_entry,
         e # NULL => HasKey(t[i], e)
  PROVE  Advances(h, t, L, i, e)
<1>1. PICK later : later = {o \in i + 1 .. L - 1 : t[o] # <<>>}
  OBVIOUS
<1> DEFINE next == CHOOSE o \in later : \A j \in later : o <= j
           at == IF e # NULL THEN i ELSE IF later = {} THEN L - 1 ELSE next
<1>2. PICK i2 : i2 = at
  <2> HIDE DEF at
  <2> QED
    OBVIOUS
<1>3. PICK k : k = IF e # NULL THEN e ELSE IF later = {} THEN NULL ELSE Head1(t[i2])
  OBVIOUS
<1>4. PICK e2 : e2 = IF k = NULL THEN NULL ELSE After(h, i2, k)
  OBVIOUS
<1>5. Advance(h) = [answer |-> k, hash |-> [h EXCEPT !.cursor_index = i2, !.cursor_entry = e2]]
  BY <1>1, <1>2, <1>3, <1>4 DEF Advance
<1>6. NULL \notin HashKeys /\ DOMAIN m \subseteq HashKeys
  BY HashAssumption DEF Table
<1>7. ASSUME NEW o \in 0 .. L - 1, NEW p \in DOMAIN t[o], t[o][p].key = k, i2 = o
      PROVE  FollowsAt(e2, t[o], p)
  <2>1. PICK c : c = t[o] /\ ChainOf(c, o, L, m)
    BY BucketIs
  <2>2. k # NULL
    BY <1>6, <1>7, <2>1 DEF ChainOf
  <2>3. e2 = After(h, o, k)
    BY <1>4, <1>7, <2>2
  <2>4. FollowsAt(After(h, o, k), c, p)
    <3>1. c = h.entries[o] /\ p \in DOMAIN c /\ k = c[p].key
      BY <1>7, <2>1
    <3> QED
      BY <2>1, <3>1, AfterIs
  <2> QED
    BY <2>1, <2>3, <2>4
<1>8. CASE e # NULL
  <2>1. i2 = i /\ k = e
    BY <1>2, <1>3, <1>8
  <2>2. PICK p \in DOMAIN t[i] : t[i][p].key = e
    BY <1>8 DEF HasKey
  <2>3. FollowsAt(e2, t[i], p)
    BY <1>7, <2>1, <2>2
  <2>4. StepIs(t, L, i, e, k, i2, e2)
    BY <1>8, <2>1, <2>2, <2>3 DEF StepIs
  <2> QED
    BY <1>5, <2>4 DEF Advances
<1>9. CASE e = NULL /\ later = {}
  <2>1. i2 = L - 1 /\ k = NULL
    BY <1>2, <1>3, <1>9
  <2>2. e2 = NULL
    BY <1>4, <2>1
  <2>3. \A o \in i + 1 .. L - 1 : t[o] = <<>>
    BY <1>1, <1>9
  <2>4. StepIs(t, L, i, e, k, i2, e2)
    BY <1>9, <2>1, <2>2, <2>3 DEF StepIs
  <2> QED
    BY <1>5, <2>4 DEF Advances
<1>10. CASE e = NULL /\ later # {}
  <2>1. later \subseteq Nat
    BY <1>1
  <2>2. \E o \in later : \A j \in later : o <= j
    BY <1>10, <2>1, LeastElement
  <2>3. i2 \in later /\ \A j \in later : i2 <= j
    BY <1>2, <1>10, <2>2
  <2>4. i2 \in i + 1 .. L - 1 /\ t[i2] # <<>> /\ i2 \in 0 .. L - 1
    BY <1>1, <2>3
  <2>5. ASSUME NEW o \in i + 1 .. i2 - 1 PROVE t[o] = <<>>
    <3>1. o \in i + 1 .. L - 1 /\ ~ (i2 <= o)
      BY <2>4
    <3>2. o \notin later
      BY <2>3, <3>1
    <3> QED
      BY <1>1, <3>1, <3>2
  <2>6. PICK p \in DOMAIN t[i2] : p = 1 /\ t[i2][p].key = k
    <3>1. PICK c \in Chains : c = t[i2]
      BY <2>4
    <3>2. 1 \in DOMAIN c
      <4>1. c # <<>> /\ c \in Seq(EntryRecs)
        BY <2>4, <3>1 DEF Chains
      <4> QED
        BY <4>1
    <3>3. k = Head1(c)
      BY <1>3, <1>10, <3>1
    <3>4. k = c[1].key
      BY <2>4, <3>1, <3>3 DEF Head1
    <3> QED
      BY <3>1, <3>2, <3>4
  <2>7. FollowsAt(e2, t[i2], p)
    BY <1>7, <2>4, <2>6
  <2>8. StepIs(t, L, i, e, k, i2, e2)
    BY <1>10, <2>4, <2>5, <2>6, <2>7 DEF StepIs
  <2> QED
    BY <1>5, <2>8 DEF Advances
<1> QED
  BY <1>8, <1>9, <1>10

\* What a walk is of a table.
UnderwayOn(h, m, kept, seen) == Underway(h.entries, h.cursor_index, h.cursor_entry, limit(h), m, kept, seen)

\* Walking on.
LEMMA WalkSound ==
  ASSUME NEW h, NEW m, NEW hid, Sound(h, m, hid), NEW kept, NEW seen, UnderwayOn(h, m, kept, seen),
         NEW a, a = Advance(h)
  PROVE  /\ Sound(a.hash, m, hid)
         /\ UnderwayOn(a.hash, m, kept, seen \union ({a.answer} \intersect kept))
         /\ a.answer \notin seen
<1>1. PICK L \in Nat \ {0} : L = limit(h) /\ Sized(L)
  <2>1. Sized(limit(h))
    BY LimitSized DEF Sound
  <2> QED
    BY <2>1 DEF Sized
<1>2. PICK t \in [0 .. L - 1 -> Chains] : t = h.entries /\ Table(t, L, m)
  BY <1>1 DEF Sound, Table
<1>3. PICK i : i = h.cursor_index
  OBVIOUS
<1>4. PICK e : e = h.cursor_entry
  OBVIOUS
<1>5. Underway(t, i, e, L, m, kept, seen)
  BY <1>1, <1>2, <1>3, <1>4 DEF UnderwayOn
<1>6. i \in 0 .. L - 1 /\ (e # NULL => HasKey(t[i], e))
  BY <1>5 DEF Underway
<1>7. PICK k, i2, e2 : /\ StepIs(t, L, i, e, k, i2, e2)
                       /\ Advance(h) = [answer |-> k,
                                        hash |-> [h EXCEPT !.cursor_index = i2, !.cursor_entry = e2]]
  <2>1. Advances(h, t, L, i, e)
    BY <1>1, <1>2, <1>3, <1>4, <1>6, AdvanceIs
  <2> QED
    BY ONLY <2>1 DEF Advances
<1>8. Underway(t, i2, e2, L, m, kept, seen \union ({k} \intersect kept)) /\ k \notin seen
  BY <1>1, <1>2, <1>5, <1>7, StepKeeps
<1>9. i2 \in Nat /\ e2 \in HashKeys \union {NULL}
  <2>1. e2 \in DOMAIN m \union {NULL}
    BY <1>2, <1>8, CursorIs
  <2>2. i2 \in 0 .. L - 1 /\ DOMAIN m \subseteq HashKeys
    BY <1>2, <1>8 DEF Underway, Table
  <2> QED
    BY <2>1, <2>2
<1>10. PICK h2 : h2 = [h EXCEPT !.cursor_index = i2, !.cursor_entry = e2]
  OBVIOUS
<1>11. Moves(h2, h, i2, e2)
  <2>1. h \in Hashes
    BY DEF Sound
  <2>2. Moves([h EXCEPT !.cursor_index = i2, !.cursor_entry = e2], h, i2, e2)
    BY <1>9, <2>1, Moving
  <2> QED
    BY <1>10, <2>2
<1>12. a.answer = k /\ a.hash = h2
  BY <1>7, <1>10
<1>13. Sound(h2, m, hid) /\ limit(h2) = limit(h)
  BY <1>11, MovedSound
<1>14. UnderwayOn(h2, m, kept, seen \union ({k} \intersect kept))
  <2>1. h2.entries = t /\ h2.cursor_index = i2 /\ h2.cursor_entry = e2 /\ limit(h2) = L
    BY <1>1, <1>2, <1>11, <1>13 DEF Moves
  <2> QED
    BY <1>8, <2>1 DEF UnderwayOn
<1> QED
  BY <1>8, <1>12, <1>13, <1>14

\* An insertion leaves a walk what it is.
LEMMA WalkInserts ==
  ASSUME NEW h, NEW m, NEW hid, Sound(h, m, hid), NEW kept, NEW seen, UnderwayOn(h, m, kept, seen),
         NEW k, k \notin DOMAIN m, NEW h2, Inserts(h2, h, k), NEW v, NEW m2, Puts(m2, m, k, v)
  PROVE  UnderwayOn(h2, m2, kept, seen)
<1>1. PICK i \in 0 .. limit(h) - 1, e \in EntryRecs, c \in Chains :
        i = hash_fn[k] % limit(h) /\ e.key = k /\ Fronted(c, e, h.entries[i]) /\ Placed(h2, h, i, c)
  BY DEF Inserts
<1>2. PICK L \in Nat \ {0} : L = limit(h)
  <2>1. Sized(limit(h))
    BY LimitSized DEF Sound
  <2> QED
    BY ONLY <2>1 DEF Sized
<1>3. PICK t \in [0 .. L - 1 -> Chains] : t = h.entries /\ Table(t, L, m)
  BY <1>2 DEF Sound, Table
<1>4. PICK t2 : t2 = h2.entries /\ Rebucketed(t2, t, L, i, c)
  BY <1>1, <1>2, <1>3 DEF Placed
<1>5. Underway(t, h.cursor_index, h.cursor_entry, L, m, kept, seen)
  BY <1>2, <1>3 DEF UnderwayOn
<1>6. kept \subseteq DOMAIN m /\ seen \subseteq kept /\ kept \subseteq DOMAIN m2
  BY <1>5 DEF Underway, Puts
<1>7. h.cursor_entry \in DOMAIN m \union {NULL}
  BY <1>3, <1>5, CursorIs
<1>8. OrderKept(c, t[i], DOMAIN m)
  <2>1. t[i] \in Chains /\ e.key \notin DOMAIN m /\ Fronted(c, e, t[i])
    BY <1>1, <1>2, <1>3
  <2> QED
    BY <2>1, FrontOrder
<1>9. Underway(t2, h.cursor_index, h.cursor_entry, L, m2, kept, seen \intersect kept)
  <2>1. i \in 0 .. L - 1
    BY <1>2
  <2> QED
    BY <1>3, <1>4, <1>5, <1>6, <1>7, <1>8, <2>1, WalkKept
<1>10. seen \intersect kept = seen
  BY <1>6
<1>11. limit(h2) = L /\ h2.cursor_index = h.cursor_index /\ h2.cursor_entry = h.cursor_entry
  BY <1>1, <1>2 DEF Placed, limit
<1> QED
  BY <1>4, <1>9, <1>10, <1>11 DEF UnderwayOn

\* A replacement does.
LEMMA WalkReplaces ==
  ASSUME NEW h, NEW m, NEW hid, Sound(h, m, hid), NEW kept, NEW seen, UnderwayOn(h, m, kept, seen),
         NEW h2, Replaces(h2, h), NEW k, NEW v, NEW m2, Puts(m2, m, k, v)
  PROVE  UnderwayOn(h2, m2, kept, seen)
<1>1. PICK i \in 0 .. limit(h) - 1, c \in Chains : SameKeys(c, h.entries[i]) /\ Placed(h2, h, i, c)
  BY DEF Replaces
<1>2. PICK L \in Nat \ {0} : L = limit(h)
  <2>1. Sized(limit(h))
    BY LimitSized DEF Sound
  <2> QED
    BY ONLY <2>1 DEF Sized
<1>3. PICK t \in [0 .. L - 1 -> Chains] : t = h.entries /\ Table(t, L, m)
  BY <1>2 DEF Sound, Table
<1>4. PICK t2 : t2 = h2.entries /\ Rebucketed(t2, t, L, i, c)
  BY <1>1, <1>2, <1>3 DEF Placed
<1>5. Underway(t, h.cursor_index, h.cursor_entry, L, m, kept, seen)
  BY <1>2, <1>3 DEF UnderwayOn
<1>6. kept \subseteq DOMAIN m /\ seen \subseteq kept /\ kept \subseteq DOMAIN m2
  BY <1>5 DEF Underway, Puts
<1>7. h.cursor_entry \in DOMAIN m \union {NULL}
  BY <1>3, <1>5, CursorIs
<1>8. OrderKept(c, t[i], DOMAIN m)
  BY <1>1, <1>3, SameOrder
<1>9. Underway(t2, h.cursor_index, h.cursor_entry, L, m2, kept, seen \intersect kept)
  <2>1. i \in 0 .. L - 1
    BY <1>2
  <2> QED
    BY <1>3, <1>4, <1>5, <1>6, <1>7, <1>8, <2>1, WalkKept
<1>10. seen \intersect kept = seen
  BY <1>6
<1>11. limit(h2) = L /\ h2.cursor_index = h.cursor_index /\ h2.cursor_entry = h.cursor_entry
  BY <1>1, <1>2 DEF Placed, limit
<1> QED
  BY <1>4, <1>9, <1>10, <1>11 DEF UnderwayOn

\* A deletion takes its key out of it, when the entry does not come next.
LEMMA WalkRemoves ==
  ASSUME NEW h, NEW m, NEW hid, Sound(h, m, hid), NEW kept, NEW seen, UnderwayOn(h, m, kept, seen),
         NEW k, h.cursor_entry # k, NEW h2, Removes(h2, h, k), NEW m2, Takes(m2, m, k)
  PROVE  UnderwayOn(h2, m2, kept \ {k}, seen \ {k})
<1>1. PICK i \in 0 .. limit(h) - 1, c \in Chains : \E j \in DOMAIN h.entries[i] :
        h.entries[i][j].key = k /\ RemovedAt(c, h.entries[i], j) /\ Placed(h2, h, i, c)
  BY DEF Removes
<1>2. PICK j \in DOMAIN h.entries[i] :
        h.entries[i][j].key = k /\ RemovedAt(c, h.entries[i], j) /\ Placed(h2, h, i, c)
  BY <1>1
<1>3. PICK L \in Nat \ {0} : L = limit(h)
  <2>1. Sized(limit(h))
    BY LimitSized DEF Sound
  <2> QED
    BY ONLY <2>1 DEF Sized
<1>4. PICK t \in [0 .. L - 1 -> Chains] : t = h.entries /\ Table(t, L, m)
  BY <1>3 DEF Sound, Table
<1>5. PICK t2 : t2 = h2.entries /\ Rebucketed(t2, t, L, i, c)
  BY <1>2, <1>3, <1>4 DEF Placed
<1>6. Underway(t, h.cursor_index, h.cursor_entry, L, m, kept, seen)
  BY <1>3, <1>4 DEF UnderwayOn
<1>7. PICK K : K = DOMAIN m \ {k}
  OBVIOUS
<1>8. kept \ {k} \subseteq K /\ seen \subseteq kept /\ kept \ {k} \subseteq DOMAIN m2 /\ kept \ {k} \subseteq kept
  BY <1>6, <1>7 DEF Underway, Takes
<1>9. h.cursor_entry \in K \union {NULL}
  <2>1. h.cursor_entry \in DOMAIN m \union {NULL}
    BY <1>4, <1>6, CursorIs
  <2> QED
    BY <1>7, <2>1
<1>10. OrderKept(c, t[i], K)
  <2>1. t[i] \in Chains /\ j \in DOMAIN t[i] /\ RemovedAt(c, t[i], j) /\ t[i][j].key \notin K
    BY <1>2, <1>3, <1>4, <1>7
  <2> QED
    BY <2>1, RemovalOrder
<1>11. Underway(t2, h.cursor_index, h.cursor_entry, L, m2, kept \ {k}, seen \intersect (kept \ {k}))
  <2>1. i \in 0 .. L - 1
    BY <1>3
  <2> QED
    BY <1>4, <1>5, <1>6, <1>8, <1>9, <1>10, <2>1, WalkKept
<1>12. seen \intersect (kept \ {k}) = seen \ {k}
  BY <1>8
<1>13. limit(h2) = L /\ h2.cursor_index = h.cursor_index /\ h2.cursor_entry = h.cursor_entry
  BY <1>2, <1>3 DEF Placed, limit
<1> QED
  BY <1>5, <1>11, <1>12, <1>13 DEF UnderwayOn

----------------------------------------------------------------------------
(* The inductive invariant. *)

Walks == [on : BOOLEAN, seen : SUBSET HashKeys, kept : SUBSET HashKeys, again : BOOLEAN]

\* The table is that of the map, and a walk has answered what it is past.
HashInv ==
  /\ Sound(hash, map, hidden)
  /\ hash_walk \in Walks
  /\ hash_walk.on => ~ hash_walk.again /\ UnderwayOn(hash, map, hash_walk.kept, hash_walk.seen)

\* No walk is one.
LEMMA NotWalking == NoHashWalk \in Walks /\ ~ NoHashWalk.on
BY DEF NoHashWalk, Walks

\* The empty table.
LEMMA InitSound ==
  ASSUME NEW m, m = <<>>
  PROVE  Sound(hash_init, m, 0)
<1>1. Len(hash_primes) \in Nat /\ 1 \in 1 .. Len(hash_primes) /\ 0 \in 0 .. Len(hash_primes) - 1
  <2>1. hash_primes \in Seq(1 .. HashWord - 1) /\ hash_primes # <<>>
    BY HashAssumption
  <2>2. Len(hash_primes) \in Nat /\ Len(hash_primes) # 0
    BY <2>1
  <2> QED
    BY <2>2
<1>2. PICK L \in Nat \ {0} : L = hash_primes[1] /\ Sized(L) /\ HashWord \in Nat \ {0}
  <2>1. Sized(hash_primes[1])
    BY <1>1, PrimesSized
  <2> QED
    BY <2>1 DEF Sized
<1>3. PICK t : t = [i \in 0 .. L - 1 |-> <<>>]
  OBVIOUS
<1>4. t \in [0 .. L - 1 -> Chains] /\ \A i \in 0 .. L - 1 : DOMAIN t[i] = {}
  <2>1. <<>> \in Chains /\ DOMAIN <<>> = {}
    BY DEF Chains
  <2> QED
    BY <1>3, <2>1
<1>5. DOMAIN m = {}
  OBVIOUS
<1>6. Table(t, L, m)
  BY <1>4, <1>5 DEF Table
<1>7. hash_init = [prime_index |-> 0, used_indexes_size |-> 0, length |-> 0, entries |-> t,
                   cursor_index |-> 0, cursor_entry |-> NULL]
  BY <1>2, <1>3 DEF hash_init
<1>8. PICK h : h = hash_init
  OBVIOUS
<1>9. /\ h \in Hashes /\ h.prime_index = 0 /\ h.used_indexes_size = 0 /\ h.length = 0 /\ h.entries = t
  <2>1. t \in Buckets
    BY <1>2, <1>4, BucketsIs
  <2> QED
    BY <1>7, <1>8, <2>1 DEF Hashes
<1>10. limit(h) = L
  <2>1. 0 + 1 = 1
    OBVIOUS
  <2> QED
    BY <1>2, <1>9, <2>1 DEF limit
<1>11. UsedOf(t) = {}
  BY <1>3 DEF UsedOf
<1>12. Cardinality(UsedOf(t)) = 0 /\ Cardinality(DOMAIN m) = 0 /\ IsFiniteSet(DOMAIN m)
  BY <1>5, <1>11, FS_EmptySet
<1>13. 0 <= Room(L) /\ 0 = (0 - 0) % HashWord
  BY <1>2 DEF Room
<1>14. Sound(h, m, 0)
  BY <1>1, <1>6, <1>9, <1>10, <1>12, <1>13 DEF Sound
<1> QED
  BY <1>8, <1>14

\* The table starts with it.
LEMMA HashInitInv == HashInit => HashInv
<1> SUFFICES ASSUME HashInit PROVE HashInv
  OBVIOUS
<1>1. Sound(hash_init, map, 0)
  BY InitSound DEF HashInit
<1> QED
  BY <1>1, NotWalking DEF HashInit, HashInv

\* A map with another key.
LEMMA StoredPuts ==
  ASSUME NEW k, NEW v, NEW m2, m2 = Stored(k, v)
  PROVE  Puts(m2, map, k, v)
BY DEF Stored, Puts

\* An insertion keeps it, also one that makes the table grow.
LEMMA SetStep ==
  ASSUME HashInv, NEW k \in HashKeys, NEW v \in HashValues, hash_set(k, v)
  PROVE  HashInv'
<1>1. Sound(hash, map, hidden)
  BY DEF HashInv
<1>2. PICK h : h = IF hash_is_overload(hash) THEN hash_rehash(hash) ELSE hash
  OBVIOUS
<1>3. /\ CanGrow /\ hash' = hash_set_entry_if_not_exists(h, k, v)
      /\ map' = IF k \in DOMAIN map THEN map ELSE Stored(k, v)
      /\ Growing
  BY <1>2 DEF hash_set
<1>4. Sound(h, map, hidden') /\ h.length + 1 <= Room(limit(h))
  <2>1. CASE hash_is_overload(hash)
    <3>1. hash.prime_index + 1 < Len(hash_primes) /\ hidden' = 0 /\ h = hash_rehash(hash)
      BY <1>2, <1>3, <2>1 DEF CanGrow, Growing
    <3>2. Sound(h, map, 0) /\ h.length + 1 <= Room(limit(h))
      BY <1>1, <3>1, RehashSound
    <3> QED
      BY <3>1, <3>2
  <2>2. CASE ~ hash_is_overload(hash)
    <3>1. h = hash /\ hidden' = hidden
      BY <1>2, <1>3, <2>2 DEF Growing
    <3>2. ~ (hash.length >= Room(limit(hash)))
      BY <2>2 DEF hash_is_overload, Room
    <3>3. hash.length \in Nat /\ Room(limit(hash)) \in Int
      <4>1. limit(hash) \in Nat
        BY <1>1, LimitSized DEF Sound, Sized
      <4> QED
        BY <1>1, <4>1 DEF Sound, Hashes, Room
    <3> QED
      BY <1>1, <3>1, <3>2, <3>3
  <2> QED
    BY <2>1, <2>2
<1>5. hash_is_overload(hash) => hash_walk' = NoHashWalk
  BY <1>3 DEF Growing
<1>6. ~ hash_is_overload(hash) => hash_walk' = hash_walk /\ h = hash /\ hidden' = hidden
  BY <1>2, <1>3 DEF Growing
<1>7. hash_has(h, k) <=> k \in DOMAIN map
  <2>1. Table(h.entries, limit(h), map) /\ hash_key_index(h, k) \in 0 .. limit(h) - 1
    BY <1>4, SoundAt
  <2>2. PICK i, c : i \in 0 .. limit(h) - 1 /\ i = hash_key_index(h, k) /\ c = h.entries[i]
    BY <2>1
  <2> QED
    BY <2>1, <2>2, Found
<1>8. CASE k \in DOMAIN map
  <2>1. hash' = h /\ map' = map
    BY <1>3, <1>7, <1>8 DEF hash_set_entry_if_not_exists
  <2>2. Sound(hash', map', hidden')
    BY <1>4, <2>1
  <2>3. hash_walk' \in Walks /\ (hash_walk'.on => ~ hash_walk'.again /\ UnderwayOn(hash', map', hash_walk'.kept, hash_walk'.seen))
    BY <1>5, <1>6, <2>1, NotWalking DEF HashInv
  <2> QED
    BY <2>2, <2>3 DEF HashInv
<1>9. CASE k \notin DOMAIN map
  <2>1. Puts(map', map, k, v)
    BY <1>3, <1>9, StoredPuts
  <2>2. Sound(hash', map', hidden') /\ Inserts(hash', h, k)
    BY <1>3, <1>4, <1>9, <2>1, InsertSound
  <2>3. CASE hash_is_overload(hash)
    BY <1>5, <2>2, <2>3, NotWalking DEF HashInv
  <2>4. CASE ~ hash_is_overload(hash)
    <3>1. hash_walk' = hash_walk /\ h = hash
      BY <1>6, <2>4
    <3>2. ASSUME hash_walk.on PROVE UnderwayOn(hash', map', hash_walk.kept, hash_walk.seen)
      <4>1. UnderwayOn(hash, map, hash_walk.kept, hash_walk.seen)
        BY <3>2 DEF HashInv
      <4>2. Inserts(hash', hash, k)
        BY <2>2, <3>1
      <4> QED
        BY <1>1, <1>9, <2>1, <4>1, <4>2, WalkInserts
    <3> QED
      BY <2>2, <3>1, <3>2 DEF HashInv
  <2> QED
    BY <2>3, <2>4
<1> QED
  BY <1>8, <1>9

\* So does an assignment.
LEMMA PutStep ==
  ASSUME HashInv, NEW k \in HashKeys, NEW v \in HashValues, hash_put(k, v)
  PROVE  HashInv'
<1>1. Sound(hash, map, hidden)
  BY DEF HashInv
<1>2. CASE ~ hash_has(hash, k) /\ hash_set(k, v)
  BY <1>2, SetStep
<1>3. CASE /\ hash_has(hash, k)
           /\ LET i == hash_key_index(hash, k)
                  e == hash_get_entry(hash, k)
              IN  hash' = [hash EXCEPT !.entries[i] =
                             [j \in DOMAIN @ |-> IF @[j] = e THEN [e EXCEPT !.value = v] ELSE @[j]]]
           /\ map' = Stored(k, v)
           /\ UNCHANGED <<hidden, hash_walk>>
  <2>1. PICK i, e : i = hash_key_index(hash, k) /\ e = hash_get_entry(hash, k)
    OBVIOUS
  <2>2. Puttings(hash', hash, i, e, v)
    BY <1>3, <2>1 DEF Puttings
  <2>3. Puts(map', map, k, v)
    BY <1>3, StoredPuts
  <2>4. k \in DOMAIN map
    <3>1. Table(hash.entries, limit(hash), map) /\ hash_key_index(hash, k) \in 0 .. limit(hash) - 1
      BY <1>1, SoundAt
    <3>2. PICK c : c = hash.entries[i]
      OBVIOUS
    <3> QED
      BY <1>3, <2>1, <3>1, <3>2, Found
  <2>5. Sound(hash', map', hidden) /\ Replaces(hash', hash)
    <3>1. PICK h2, m2 : h2 = hash' /\ m2 = map'
      OBVIOUS
    <3> QED
      BY <1>1, <2>1, <2>2, <2>3, <2>4, ReplaceSound
  <2>6. hidden' = hidden /\ hash_walk' = hash_walk
    BY <1>3
  <2>7. ASSUME hash_walk.on PROVE UnderwayOn(hash', map', hash_walk.kept, hash_walk.seen)
    <3>1. UnderwayOn(hash, map, hash_walk.kept, hash_walk.seen)
      BY <2>7 DEF HashInv
    <3> QED
      BY <1>1, <2>3, <2>5, <3>1, WalkReplaces
  <2> QED
    BY <2>5, <2>6, <2>7 DEF HashInv
<1> QED
  BY <1>2, <1>3 DEF hash_put

\* And a deletion.
LEMMA DeleteStep ==
  ASSUME HashInv, NEW k \in HashKeys, hash_delete(k)
  PROVE  HashInv'
<1>1. Sound(hash, map, hidden)
  BY DEF HashInv
<1>2. PICK i, old : i = hash_get_entry(hash, k).index /\ old = hash.entries[i]
  OBVIOUS
<1> DEFINE place == CHOOSE j \in DOMAIN old : old[j].key = k
<1>3. PICK j : j = place
  <2> HIDE DEF place
  <2> QED
    OBVIOUS
<1>4. PICK c : c = SubSeq(old, 1, j - 1) \o SubSeq(old, j + 1, Len(old))
  OBVIOUS
<1>5. /\ hash' = [hash EXCEPT !.entries[i] = c, !.length = @ - 1,
                    !.used_indexes_size = IF j = 1 THEN (@ - 1) % HashWord ELSE @]
      /\ hidden' = IF j = 1 /\ c # <<>> THEN hidden + 1 ELSE hidden
  BY <1>2, <1>3, <1>4 DEF hash_delete
<1>6. Deletes(hash', hidden', hash, hidden, k, i, old, j, c)
  BY <1>2, <1>3, <1>4, <1>5 DEF Deletes
<1>7. /\ hash_has(hash, k) /\ map' = Without(map, {k})
      /\ hash_walk' = IF hash.cursor_entry = k THEN NoHashWalk
                      ELSE [hash_walk EXCEPT !.kept = @ \ {k}, !.seen = @ \ {k}]
  BY DEF hash_delete
<1> HIDE DEF place
<1>8. k \in DOMAIN map
  <2>1. Table(hash.entries, limit(hash), map) /\ hash_key_index(hash, k) \in 0 .. limit(hash) - 1
    BY <1>1, SoundAt
  <2>2. PICK o, u : o \in 0 .. limit(hash) - 1 /\ o = hash_key_index(hash, k) /\ u = hash.entries[o]
    BY <2>1
  <2> QED
    BY <1>7, <2>1, <2>2, Found
<1>9. Sound(hash', map', hidden') /\ Removes(hash', hash, k)
  BY <1>1, <1>6, <1>7, <1>8, DeleteSound
<1>10. CASE hash.cursor_entry = k
  BY <1>7, <1>9, <1>10, NotWalking DEF HashInv
<1>11. CASE hash.cursor_entry # k
  <2>1. hash_walk \in Walks
    BY DEF HashInv
  <2>2. hash_walk' = [hash_walk EXCEPT !.kept = @ \ {k}, !.seen = @ \ {k}]
    BY <1>7, <1>11
  <2>3. /\ hash_walk' \in Walks /\ hash_walk'.on = hash_walk.on /\ hash_walk'.again = hash_walk.again
        /\ hash_walk'.kept = hash_walk.kept \ {k} /\ hash_walk'.seen = hash_walk.seen \ {k}
    BY ONLY <2>1, <2>2 DEF Walks
  <2>4. Takes(map', map, k)
    BY <1>7 DEF Takes, Without
  <2>5. ASSUME hash_walk.on PROVE UnderwayOn(hash', map', hash_walk.kept \ {k}, hash_walk.seen \ {k})
    <3>1. UnderwayOn(hash, map, hash_walk.kept, hash_walk.seen)
      BY <2>5 DEF HashInv
    <3> QED
      BY <1>1, <1>9, <1>11, <2>4, <3>1, WalkRemoves
  <2>6. hash_walk.on => ~ hash_walk.again
    BY DEF HashInv
  <2> QED
    BY <1>9, <2>3, <2>5, <2>6 DEF HashInv
<1> QED
  BY <1>10, <1>11

\* And a purge.
LEMMA PurgeStep ==
  ASSUME HashInv, hash_purge
  PROVE  HashInv'
<1>1. hash' = hash_init /\ map' = <<>> /\ hidden' = 0 /\ hash_walk' = NoHashWalk
  BY DEF hash_purge
<1>2. Sound(hash', map', 0)
  BY <1>1, InitSound
<1> QED
  BY <1>1, <1>2, NotWalking DEF HashInv

\* Walking on keeps it.
LEMMA WalkStep ==
  ASSUME HashInv, NEW kept, NEW seen, NEW h, Sound(h, map, hidden), UnderwayOn(h, map, kept, seen),
         Walk(kept, seen, h)
  PROVE  HashInv'
<1>1. PICK a : a = Advance(h)
  OBVIOUS
<1>2. /\ hash' = a.hash
      /\ hash_walk' = [on |-> TRUE, kept |-> kept, seen |-> seen \union ({a.answer} \intersect kept),
                       again |-> a.answer \in seen]
      /\ map' = map /\ hidden' = hidden
  BY <1>1 DEF Walk
<1>3. Sound(a.hash, map, hidden)
  BY <1>1, WalkSound
<1>4. UnderwayOn(a.hash, map, kept, seen \union ({a.answer} \intersect kept)) /\ a.answer \notin seen
  BY <1>1, WalkSound
<1>5. PICK seen2 : seen2 = seen \union ({a.answer} \intersect kept)
  OBVIOUS
<1>6. kept \in SUBSET HashKeys /\ seen2 \in SUBSET HashKeys
  <2>1. kept \subseteq DOMAIN map /\ seen2 \subseteq kept
    BY <1>4, <1>5 DEF UnderwayOn, Underway
  <2>2. DOMAIN map \subseteq HashKeys
    BY <1>3 DEF Sound, Table
  <2> QED
    BY <2>1, <2>2
<1>7. hash_walk' = [on |-> TRUE, kept |-> kept, seen |-> seen2, again |-> FALSE]
  <2>1. (a.answer \in seen) = FALSE
    BY <1>4
  <2> QED
    BY <1>2, <1>5, <2>1
<1>8. /\ hash_walk' \in Walks /\ hash_walk'.again = FALSE /\ hash_walk'.kept = kept /\ hash_walk'.seen = seen2
  BY ONLY <1>6, <1>7 DEF Walks
<1> QED
  BY <1>2, <1>3, <1>4, <1>5, <1>8 DEF HashInv

\* A walk starts with none of the entries answered.
LEMMA FirstStep ==
  ASSUME HashInv, hash_first
  PROVE  HashInv'
<1>1. Sound(hash, map, hidden)
  BY DEF HashInv
<1>2. PICK L \in Nat \ {0} : L = limit(hash) /\ Sized(L)
  <2>1. Sized(limit(hash))
    BY <1>1, LimitSized DEF Sound
  <2> QED
    BY <2>1 DEF Sized
<1>3. PICK t \in [0 .. L - 1 -> Chains] : t = hash.entries /\ Table(t, L, map)
  BY <1>1, <1>2 DEF Sound, Table
<1>4. PICK c \in Chains : c = t[0] /\ ChainOf(c, 0, L, map)
  <2>1. 0 \in 0 .. L - 1
    OBVIOUS
  <2> QED
    BY <1>3, <2>1, BucketIs
<1>5. PICK e : e = Head1(c)
  OBVIOUS
<1>6. DOMAIN map \subseteq HashKeys /\ NULL \notin HashKeys
  BY <1>3, HashAssumption DEF Table
<1>7. \/ c = <<>> /\ e = NULL
      \/ 1 \in DOMAIN c /\ e = c[1].key /\ e \in DOMAIN map
  <2>1. CASE c = <<>>
    BY <1>5, <2>1 DEF Head1
  <2>2. CASE c # <<>>
    <3>1. 1 \in DOMAIN c
      <4>1. c \in Seq(EntryRecs)
        BY DEF Chains
      <4> QED
        BY <2>2, <4>1
    <3>2. e = c[1].key
      BY <1>5, <2>2 DEF Head1
    <3> QED
      BY <1>4, <3>1, <3>2 DEF ChainOf
  <2> QED
    BY <2>1, <2>2
<1>8. PICK h : h = [hash EXCEPT !.cursor_index = 0, !.cursor_entry = e]
  OBVIOUS
<1>9. Moves(h, hash, 0, e)
  <2>1. hash \in Hashes /\ 0 \in Nat /\ e \in HashKeys \union {NULL}
    BY <1>1, <1>6, <1>7 DEF Sound
  <2>2. Moves([hash EXCEPT !.cursor_index = 0, !.cursor_entry = e], hash, 0, e)
    BY <2>1, Moving
  <2> QED
    BY <1>8, <2>2
<1>10. Sound(h, map, hidden) /\ limit(h) = L
  BY <1>1, <1>2, <1>9, MovedSound
<1>11. ASSUME NEW k \in DOMAIN map PROVE ~ Passed(t, 0, e, L, k)
  <2>1. PICK n \in 0 .. L - 1 : n = hash_fn[k] % L
    BY <1>2, <1>6 DEF Sized
  <2>2. ~ (n < 0)
    OBVIOUS
  <2>3. ASSUME n = 0 PROVE e # NULL /\ ~ Ahead(c, k, e)
    <3>1. PICK p \in DOMAIN c : c[p].key = k
      BY <1>4, <2>1, <2>3 DEF ChainOf
    <3>2. 1 \in DOMAIN c /\ e = c[1].key /\ e \in DOMAIN map
      BY <1>7, <3>1
    <3>3. \A x \in DOMAIN c : (c[x].key = e => x = 1) /\ x \in Nat /\ ~ (x < 1)
      <4>1. \A x \in DOMAIN c : c[x].key = c[1].key => x = 1
        BY <1>4, <3>2 DEF ChainOf
      <4>2. \A x \in DOMAIN c : x \in Nat /\ ~ (x < 1)
        BY DEF Chains
      <4> QED
        BY <3>2, <4>1, <4>2
    <3> QED
      BY <1>6, <3>2, <3>3 DEF Ahead
  <2>4. ~ PassedIn(t, 0, e, n, k)
    BY <1>4, <2>2, <2>3 DEF PassedIn
  <2> QED
    BY <2>1, <2>4 DEF Passed
<1>12. UnderwayOn(h, map, DOMAIN map, {})
  <2>1. e # NULL => HasKey(t[0], e)
    BY <1>4, <1>7 DEF HasKey
  <2>2. 0 \in 0 .. L - 1
    OBVIOUS
  <2>3. Underway(t, 0, e, L, map, DOMAIN map, {})
    BY <1>11, <2>1, <2>2 DEF Underway
  <2>4. h.entries = t /\ h.cursor_index = 0 /\ h.cursor_entry = e
    BY <1>3, <1>9 DEF Moves
  <2> QED
    BY <1>10, <2>3, <2>4 DEF UnderwayOn
<1>13. Walk(DOMAIN map, {}, h)
  <2>1. Head1(hash.entries[0]) = e
    BY <1>3, <1>4, <1>5
  <2> QED
    BY <1>8, <2>1 DEF hash_first
<1> QED
  BY <1>10, <1>12, <1>13, WalkStep

\* And goes on from where it is.
LEMMA NextStep ==
  ASSUME HashInv, hash_next
  PROVE  HashInv'
<1>1. Sound(hash, map, hidden) /\ UnderwayOn(hash, map, hash_walk.kept, hash_walk.seen)
  BY DEF HashInv, hash_next
<1>2. PICK kept, seen : kept = hash_walk.kept /\ seen = hash_walk.seen
  OBVIOUS
<1>3. Walk(kept, seen, hash)
  BY <1>2 DEF hash_next
<1> QED
  BY <1>1, <1>2, <1>3, WalkStep

\* Every call keeps it.
LEMMA HashNextInv == HashInv /\ [HashNext]_hashVars => HashInv'
<1> SUFFICES ASSUME HashInv, [HashNext]_hashVars PROVE HashInv'
  OBVIOUS
<1>1. CASE \E k \in HashKeys : \/ \E v \in HashValues : hash_set(k, v) \/ hash_put(k, v)
                               \/ hash_delete(k)
  <2>1. PICK k \in HashKeys : \/ \E v \in HashValues : hash_set(k, v) \/ hash_put(k, v)
                              \/ hash_delete(k)
    BY <1>1
  <2>2. CASE \E v \in HashValues : hash_set(k, v) \/ hash_put(k, v)
    <3>1. PICK v \in HashValues : hash_set(k, v) \/ hash_put(k, v)
      BY <2>2
    <3> QED
      BY <3>1, SetStep, PutStep
  <2>3. CASE hash_delete(k)
    BY <2>3, DeleteStep
  <2> QED
    BY <2>1, <2>2, <2>3
<1>2. CASE hash_purge
  BY <1>2, PurgeStep
<1>3. CASE hash_first
  BY <1>3, FirstStep
<1>4. CASE hash_next
  BY <1>4, NextStep
<1>5. CASE UNCHANGED hashVars
  BY <1>5 DEF HashInv, hashVars
<1> QED
  BY <1>1, <1>2, <1>3, <1>4, <1>5 DEF HashNext

\* What is found in a table is what its map has.
LEMMA InvRepresents == HashInv => Represents
<1> SUFFICES ASSUME HashInv PROVE Represents
  OBVIOUS
<1>1. Sound(hash, map, hidden)
  BY DEF HashInv
<1>2. PICK L \in Nat \ {0} : L = limit(hash) /\ Sized(L)
  <2>1. Sized(limit(hash))
    BY <1>1, LimitSized DEF Sound
  <2> QED
    BY <2>1 DEF Sized
<1>3. PICK t \in [0 .. L - 1 -> Chains] : t = hash.entries /\ Table(t, L, map)
  BY <1>1, <1>2 DEF Sound, Table
<1>4. LoadBound
  BY <1>1, <1>2, <1>3 DEF Sound, LoadBound, Room
<1>5. UsedCount
  BY <1>1 DEF Sound, UsedCount, Used, UsedOf
<1>6. ASSUME NEW k \in HashKeys PROVE hash_get(hash, k) = IF k \in DOMAIN map THEN map[k] ELSE NULL
  <2>1. Table(hash.entries, limit(hash), map) /\ hash_key_index(hash, k) \in 0 .. limit(hash) - 1
        /\ hash_key_index(hash, k) = hash_fn[k] % limit(hash)
    BY <1>1, SoundAt
  <2>2. PICK i, c : i \in 0 .. limit(hash) - 1 /\ i = hash_key_index(hash, k) /\ c = hash.entries[i]
    BY <2>1
  <2>3. (hash_has(hash, k) <=> k \in DOMAIN map) /\ FoundIn(hash, k, c)
    BY <2>1, <2>2, Found
  <2>4. ChainOf(c, i, limit(hash), map)
    BY <2>1, <2>2, BucketIs
  <2>5. ASSUME k \in DOMAIN map PROVE hash_get_entry(hash, k).value = map[k]
    <3>1. PICK j \in DOMAIN c : c[j].key = k
      BY <2>1, <2>2, <2>4, <2>5 DEF ChainOf
    <3>2. c[j].value = map[k]
      BY <2>4, <3>1 DEF ChainOf
    <3> QED
      BY <2>3, <3>1, <3>2 DEF FoundIn
  <2> QED
    BY <2>3, <2>5 DEF hash_get
<1>7. ASSUME NEW i \in DOMAIN hash.entries, NEW j \in DOMAIN hash.entries[i]
      PROVE  LET e == hash.entries[i][j] IN
               /\ e.index = i /\ hash_key_index(hash, e.key) = i
               /\ \A l \in DOMAIN hash.entries[i] : l # j => hash.entries[i][l].key # e.key
  <2>1. i \in 0 .. L - 1
    BY <1>3
  <2>2. PICK c : c = hash.entries[i] /\ ChainOf(c, i, L, map)
    BY <1>3, <2>1, BucketIs
  <2>3. /\ c[j].index = i /\ hash_fn[c[j].key] % L = i
        /\ \A l \in DOMAIN c : c[l].key = c[j].key => l = j
    BY <2>2 DEF ChainOf
  <2>4. hash_key_index(hash, c[j].key) = i
    BY <1>2, <2>3 DEF hash_key_index
  <2> QED
    BY <2>2, <2>3, <2>4
<1>8. hash.length = Cardinality(DOMAIN map)
  BY <1>1 DEF Sound
<1> QED
  BY <1>4, <1>5, <1>6, <1>7, <1>8 DEF Represents

\* A walk that is past all entries has answered them.
LEMMA InvWalk == HashInv => HashWalkComplete
<1> SUFFICES ASSUME HashInv, hash_walk.on
             PROVE  /\ ~ hash_walk.again
                    /\ \/ hash.cursor_entry # NULL \/ hash_walk.kept \subseteq hash_walk.seen
                       \/ \E i \in hash.cursor_index + 1 .. limit(hash) - 1 : i \in Used
  BY DEF HashWalkComplete
<1>1. /\ Sound(hash, map, hidden) /\ ~ hash_walk.again
      /\ UnderwayOn(hash, map, hash_walk.kept, hash_walk.seen)
  BY DEF HashInv
<1>2. PICK L \in Nat \ {0} : L = limit(hash) /\ Sized(L)
  <2>1. Sized(limit(hash))
    BY <1>1, LimitSized DEF Sound
  <2> QED
    BY <2>1 DEF Sized
<1>3. PICK t \in [0 .. L - 1 -> Chains] : t = hash.entries /\ Table(t, L, map)
  BY <1>1, <1>2 DEF Sound, Table
<1>4. PICK i : i = hash.cursor_index
  OBVIOUS
<1>5. Underway(t, i, hash.cursor_entry, L, map, hash_walk.kept, hash_walk.seen)
  BY <1>1, <1>2, <1>3, <1>4 DEF UnderwayOn
<1>6. ASSUME hash.cursor_entry = NULL, NEW k \in hash_walk.kept, k \notin hash_walk.seen
      PROVE  \E n \in i + 1 .. L - 1 : n \in Used
  <2>1. k \in DOMAIN map /\ i \in 0 .. L - 1 /\ ~ Passed(t, i, NULL, L, k)
    BY <1>5, <1>6 DEF Underway
  <2>2. k \in HashKeys
    BY <1>3, <2>1 DEF Table
  <2>3. PICK n \in 0 .. L - 1 : n = hash_fn[k] % L
    BY <1>2, <2>2 DEF Sized
  <2>4. ~ PassedIn(t, i, NULL, n, k)
    BY <2>1, <2>3 DEF Passed
  <2>5. ~ (n < i) /\ n # i
    BY <2>4 DEF PassedIn
  <2>6. n \in i + 1 .. L - 1
    BY <2>1, <2>5
  <2>7. t[n] # <<>>
    <3>1. \E j \in DOMAIN t[n] : t[n][j].key = k
      BY <1>3, <2>1, <2>3 DEF Table
    <3> QED
      BY <3>1
  <2>8. n \in Used
    BY <1>3, <2>7 DEF Used
  <2> QED
    BY <2>6, <2>8
<1> QED
  BY <1>1, <1>2, <1>4, <1>6

\* The table is always the map that the calls made it.
THEOREM TableIsTheMap == HashSpec => []Represents
<1>1. HashSpec => []HashInv
  BY HashInitInv, HashNextInv, PTL DEF HashSpec
<1> QED
  BY <1>1, InvRepresents, PTL

\* A walk answers each entry that stays exactly once.
THEOREM WalkIsComplete == HashSpec => []HashWalkComplete
<1>1. HashSpec => []HashInv
  BY HashInitInv, HashNextInv, PTL DEF HashSpec
<1> QED
  BY <1>1, InvWalk, PTL
=============================================================================
