---------------------------- MODULE LoaderProofs ----------------------------
(***************************************************************************)
(* Proofs about Loader.  The paths of the modules are absolute and normal; *)
(* what path.c makes of them on their texts is what the system makes of    *)
(* them on directories (JoinIs).  The activations of load_mod form a chain *)
(* of imports, and whatever was kept has all its imports kept, so that a   *)
(* file that imports itself is never kept and is the only one to overflow. *)
(***************************************************************************)
EXTENDS Loader, SequenceTheorems, FiniteSetTheorems, WellFoundedInduction, TLAPS

----------------------------------------------------------------------------
(* Numbers, recursion, sequences. *)

\* A set of naturals that is not empty has a least element.
LEMMA LeastElement ==
  ASSUME NEW R, R \subseteq Nat, R # {}
  PROVE  \E x \in R : \A y \in R : x <= y
<1> DEFINE Less == OpToRel(<, Nat)
<1>1. IsWellFoundedOn(Less, Nat)
  BY ONLY NatLessThanWellFounded, Zenon
<1>2. \A x, y \in Nat : <<x, y>> \in Less <=> x < y
  BY DEF OpToRel
<1> HIDE DEF Less
<1>3. PICK x \in R : \A y \in R : ~ (<<y, x>> \in Less)
  BY <1>1, WFMin
<1>4. \A y \in R : x \in Nat /\ y \in Nat /\ ~ (y < x)
  BY <1>2, <1>3
<1> QED
  BY <1>4

\* f starts at x0 and makes each of its values from the one before.
Runs(f, k, g, x0) == f[0] = x0 /\ \A i \in 1 .. k : f[i] = g[<<i, f[i - 1]>>]

\* What is defined step by step exists.
LEMMA Recursion ==
  ASSUME NEW S, NEW N \in Nat, NEW x0 \in S, NEW g \in [(1 .. N) \X S -> S]
  PROVE  \E f \in [0 .. N -> S] : Runs(f, N, g, x0)
<1> DEFINE R == {k \in 0 .. N : ~ \E f \in [0 .. k -> S] : Runs(f, k, g, x0)}
<1>1. SUFFICES R = {}
  <2>1. N \in 0 .. N
    OBVIOUS
  <2> QED
    BY <1>1, <2>1
<1>2. SUFFICES ASSUME R # {} PROVE FALSE
  OBVIOUS
<1>3. R \subseteq Nat
  OBVIOUS
<1>4. PICK k \in R : \A j \in R : k <= j
  <2> HIDE DEF R
  <2> QED
    BY <1>2, <1>3, LeastElement
<1>5. k \in 0 .. N /\ ~ \E f \in [0 .. k -> S] : Runs(f, k, g, x0)
  BY <1>4
<1>6. k # 0
  <2> DEFINE f == [i \in 0 .. 0 |-> x0]
  <2>1. f \in [0 .. 0 -> S] /\ f[0] = x0 /\ 1 .. 0 = {}
    OBVIOUS
  <2> HIDE DEF f
  <2>2. Runs(f, 0, g, x0)
    BY <2>1 DEF Runs
  <2> QED
    BY <1>5, <2>1, <2>2
<1>7. k - 1 \in 0 .. N /\ k - 1 \notin R
  <2> HIDE DEF R
  <2>1. ~ (k <= k - 1)
    BY <1>5
  <2> QED
    BY <1>4, <1>5, <1>6, <2>1
<1>8. PICK h \in [0 .. k - 1 -> S] : Runs(h, k - 1, g, x0)
  BY <1>7
<1> DEFINE f == [i \in 0 .. k |-> IF i = k THEN g[<<k, h[k - 1]>>] ELSE h[i]]
<1>9. k - 1 \in 0 .. k - 1 /\ k \in 1 .. N /\ 0 .. k = 0 .. k - 1 \union {k}
  BY <1>5, <1>6
<1>10. h[k - 1] \in S /\ g[<<k, h[k - 1]>>] \in S
  <2>1. h[k - 1] \in S
    BY <1>9
  <2>2. <<k, h[k - 1]>> \in (1 .. N) \X S
    BY <1>9, <2>1
  <2> QED
    BY <2>1, <2>2
<1>11. f \in [0 .. k -> S]
  BY <1>9, <1>10
<1>12. f[k] = g[<<k, h[k - 1]>>] /\ \A i \in 0 .. k - 1 : f[i] = h[i]
  BY <1>5, <1>9
<1> HIDE DEF f, R
<1>13. f[0] = x0
  BY <1>5, <1>6, <1>8, <1>12 DEF Runs
<1>14. ASSUME NEW i \in 1 .. k PROVE f[i] = g[<<i, f[i - 1]>>]
  <2>1. i - 1 \in 0 .. k - 1
    BY <1>5
  <2>2. CASE i = k
    BY <1>12, <2>1, <2>2
  <2>3. CASE i # k
    <3>1. i \in 1 .. k - 1 /\ i \in 0 .. k - 1
      BY <1>5, <2>3
    <3> QED
      BY <1>8, <1>12, <2>1, <3>1 DEF Runs
  <2> QED
    BY <2>2, <2>3
<1> QED
  BY <1>5, <1>11, <1>13, <1>14 DEF Runs

Alike(f, h, N) == f[0] = h[0] /\ \A i \in 1 .. N : f[i - 1] = h[i - 1] => f[i] = h[i]

\* What starts alike and goes on alike is alike.
LEMMA SameTrace ==
  ASSUME NEW N \in Nat, NEW f, NEW h, Alike(f, h, N)
  PROVE  \A i \in 0 .. N : f[i] = h[i]
<1> USE DEF Alike
<1> DEFINE R == {i \in 0 .. N : f[i] # h[i]}
<1>1. SUFFICES ASSUME R # {} PROVE FALSE
  OBVIOUS
<1>2. R \subseteq Nat
  OBVIOUS
<1>3. PICK k \in R : \A j \in R : k <= j
  <2> HIDE DEF R
  <2> QED
    BY <1>1, <1>2, LeastElement
<1>4. k \in 0 .. N /\ f[k] # h[k] /\ k # 0
  BY <1>3
<1>5. k - 1 \in 0 .. N /\ k \in 1 .. N /\ ~ (k <= k - 1)
  BY <1>4
<1>6. k - 1 \notin R
  <2> HIDE DEF R
  <2> QED
    BY <1>3, <1>5
<1> QED
  BY <1>4, <1>5, <1>6

\* What holds of the empty sequence and is kept by appending holds of all.
LEMMA SeqInduction ==
  ASSUME NEW S, NEW T, <<>> \in T,
         \A t \in Seq(S) : t \in T => \A a \in S : Append(t, a) \in T
  PROVE  \A s \in Seq(S) : s \in T
<1> DEFINE R == {n \in Nat : \E s \in Seq(S) : Len(s) = n /\ s \notin T}
<1>1. SUFFICES ASSUME NEW x \in Seq(S), x \notin T PROVE FALSE
  OBVIOUS
<1>2. Len(x) \in R
  BY <1>1
<1>3. R \subseteq Nat
  OBVIOUS
<1>4. PICK n \in R : \A j \in R : n <= j
  <2> HIDE DEF R
  <2> QED
    BY <1>2, <1>3, LeastElement
<1>5. n \in Nat
  BY <1>4
<1>6. PICK s \in Seq(S) : Len(s) = n /\ s \notin T
  BY <1>4
<1>7. s # <<>>
  BY <1>6
<1>8. PICK t \in Seq(S), a \in S : s = Append(t, a)
  BY <1>7, SequenceEmptyOrAppend
<1>9. Len(t) \in Nat /\ Len(s) = Len(t) + 1
  BY <1>8
<1>10. t \notin T
  BY <1>6, <1>8
<1>11. Len(t) \in R
  BY <1>9, <1>10
<1> HIDE DEF R
<1>12. n <= Len(t)
  BY <1>4, <1>11
<1> QED
  BY <1>5, <1>6, <1>9, <1>12

----------------------------------------------------------------------------
(* Walking along a text. *)

\* The provers do not know of a literal that it is a string.
Segment == STRING \union {"", ".."}
Text == Seq(Segment)

\* One segment for the system, see Place.
PlaceStep(place, segment) ==
  IF segment \in {"", "."} THEN place
  ELSE IF segment # ".." THEN Append(place, segment)
  ELSE IF place = <<>> THEN <<>> ELSE SubSeq(place, 1, Len(place) - 1)

\* Place, from another directory than the root.
PlaceFrom(place, string) ==
  LET at[i \in 0 .. Len(string)] ==
        IF i = 0 THEN place
        ELSE IF string[i] \in {"", "."} THEN at[i - 1]
        ELSE IF string[i] # ".." THEN Append(at[i - 1], string[i])
        ELSE IF at[i - 1] = <<>> THEN <<>> ELSE SubSeq(at[i - 1], 1, Len(at[i - 1]) - 1)
  IN  at[Len(string)]

\* The segments of path_join.
StackFrom(stack, string) ==
  LET done[i \in 0 .. Len(string)] ==
        IF i = 0 THEN stack ELSE path_execute(done[i - 1], string[i])
  IN  done[Len(string)]

\* What remains when the last segment is taken away is a text.
LEMMA FrontText ==
  ASSUME NEW x \in Text, x # <<>>
  PROVE  SubSeq(x, 1, Len(x) - 1) \in Text
<1>1. Len(x) \in Nat /\ Len(x) >= 1
  BY EmptySeq DEF Text
<1>2. 1 \in 1 .. Len(x) + 1 /\ Len(x) - 1 \in 1 - 1 .. Len(x)
  BY <1>1
<1> QED
  BY <1>2, SubSeqProperties DEF Text

\* What remains is what was there before the last segment was appended.
LEMMA FrontOfAppend ==
  ASSUME NEW x \in Text, NEW a \in Segment
  PROVE  /\ Append(x, a) \in Text /\ Append(x, a) # <<>>
         /\ Append(x, a)[Len(Append(x, a))] = a
         /\ SubSeq(Append(x, a), 1, Len(Append(x, a)) - 1) = x
<1>1. PICK y : y = Append(x, a)
  OBVIOUS
<1>2. y \in Seq(Segment) /\ y # <<>> /\ Len(y) = Len(x) + 1 /\ y[Len(x) + 1] = a
  BY <1>1, AppendProperties DEF Text
<1>3. SubSeq(y, 1, Len(y) - 1) = x
  BY <1>1, HeadTailAppend DEF Text
<1> QED
  BY <1>1, <1>2, <1>3 DEF Text

\* A text and one more segment.
LEMMA AppendText ==
  ASSUME NEW s \in Text, NEW a \in Segment
  PROVE  /\ Append(s, a) \in Text /\ Len(Append(s, a)) = Len(s) + 1
         /\ Append(s, a)[Len(s) + 1] = a
         /\ \A i \in 1 .. Len(s) : Append(s, a)[i] = s[i]
<1>1. PICK S : S = Segment
  OBVIOUS
<1>2. s \in Seq(S) /\ a \in S
  BY <1>1 DEF Text
<1>3. Append(s, a) \in Seq(S) /\ Len(Append(s, a)) = Len(s) + 1
  BY ONLY <1>2, AppendProperties
<1>4. Append(s, a)[Len(s) + 1] = a
  BY ONLY <1>2, AppendProperties
<1>5. \A i \in 1 .. Len(s) : Append(s, a)[i] = s[i]
  BY ONLY <1>2, AppendProperties
<1> QED
  BY <1>1, <1>3, <1>4, <1>5 DEF Text

\* Steps lead from texts to texts.
LEMMA StepTypes ==
  ASSUME NEW x \in Text, NEW a \in Segment
  PROVE  PlaceStep(x, a) \in Text /\ path_execute(x, a) \in Text
<1>1. <<>> \in Text /\ Append(x, a) \in Text
  BY EmptySeq, FrontOfAppend DEF Text
<1>2. x # <<>> => SubSeq(x, 1, Len(x) - 1) \in Text
  BY FrontText
<1> QED
  BY <1>1, <1>2 DEF PlaceStep, path_execute

\* A walk along a text passes through its places one after the other.
LEMMA PlaceTrace ==
  ASSUME NEW x \in Text, NEW s \in Text
  PROVE  \E f \in [0 .. Len(s) -> Text] :
           /\ f[0] = x /\ f[Len(s)] = PlaceFrom(x, s)
           /\ \A i \in 1 .. Len(s) : f[i] = PlaceStep(f[i - 1], s[i])
<1>1. PICK N \in Nat : N = Len(s) /\ \A i \in 1 .. N : s[i] \in Segment
  BY DEF Text
<1> DEFINE g == [z \in (1 .. N) \X Text |-> PlaceStep(z[2], s[z[1]])]
           D == 0 .. N
           body(h) == [i \in D |-> IF i = 0 THEN x
                                   ELSE IF s[i] \in {"", "."} THEN h[i - 1]
                                   ELSE IF s[i] # ".." THEN Append(h[i - 1], s[i])
                                   ELSE IF h[i - 1] = <<>> THEN <<>>
                                   ELSE SubSeq(h[i - 1], 1, Len(h[i - 1]) - 1)]
           at == CHOOSE h : h = body(h)
<1>2. g \in [(1 .. N) \X Text -> Text]
  BY <1>1, StepTypes
<1>3. \A i \in 1 .. N : \A y \in Text : g[<<i, y>>] = PlaceStep(y, s[i])
  OBVIOUS
<1> HIDE DEF g
<1>4. PICK f \in [0 .. N -> Text] : Runs(f, N, g, x)
  BY <1>2, Recursion
<1>5. f[0] = x /\ \A i \in 1 .. N : i - 1 \in D /\ f[i] = PlaceStep(f[i - 1], s[i])
  <2>1. \A i \in 1 .. N : i - 1 \in 0 .. N
    BY <1>1
  <2> QED
    BY <1>3, <1>4, <2>1 DEF Runs
<1>6. f = body(f)
  <2>1. \A i \in D : i = 0 \/ i \in 1 .. N
    BY <1>1
  <2>2. \A i \in D : f[i] = body(f)[i]
    BY <1>5, <2>1 DEF PlaceStep
  <2> QED
    BY <2>2
<1>7. at = body(at)
  <2> HIDE DEF body
  <2> QED
    BY <1>6
<1>8. PlaceFrom(x, s) = at[N]
  BY <1>1 DEF PlaceFrom
<1> HIDE DEF at
<1>9. at[0] = x /\ \A i \in 1 .. N : at[i] = PlaceStep(at[i - 1], s[i])
  <2>1. 0 \in D /\ \A i \in 1 .. N : i \in D /\ i # 0
    BY <1>1
  <2> QED
    BY <1>7, <2>1 DEF PlaceStep
<1>10. \A i \in 0 .. N : f[i] = at[i]
  <2> HIDE DEF body
  <2>1. PICK a : a = at
    OBVIOUS
  <2>2. \A i \in 1 .. N : f[i - 1] = a[i - 1] => f[i] = a[i]
    BY <1>5, <1>9, <2>1
  <2>3. f[0] = a[0]
    BY <1>5, <1>9, <2>1
  <2>4. Alike(f, a, N)
    BY <2>2, <2>3 DEF Alike
  <2>5. \A i \in 0 .. N : f[i] = a[i]
    BY <2>4, SameTrace
  <2> QED
    BY <2>1, <2>5
<1>11. f[N] = PlaceFrom(x, s)
  BY <1>1, <1>8, <1>10
<1> QED
  BY <1>1, <1>4, <1>5, <1>11

\* The place after a text, and after one more segment.
LEMMA PlaceIs ==
  ASSUME NEW x \in Text
  PROVE  /\ PlaceFrom(x, <<>>) = x
         /\ \A s \in Text : PlaceFrom(x, s) \in Text
         /\ \A s \in Text : \A a \in Segment :
              PlaceFrom(x, Append(s, a)) = PlaceStep(PlaceFrom(x, s), a)
<1>1. PlaceFrom(x, <<>>) = x
  <2>1. <<>> \in Text /\ Len(<<>>) = 0
    BY EmptySeq DEF Text
  <2> QED
    BY <2>1, PlaceTrace
<1>2. ASSUME NEW s \in Text PROVE PlaceFrom(x, s) \in Text
  <2>1. Len(s) \in 0 .. Len(s)
    BY DEF Text
  <2> QED
    BY <2>1, PlaceTrace
<1>3. ASSUME NEW s \in Text, NEW a \in Segment
      PROVE  PlaceFrom(x, Append(s, a)) = PlaceStep(PlaceFrom(x, s), a)
  <2>1. PICK N \in Nat : N = Len(s)
    BY DEF Text
  <2>2. PICK t : t = Append(s, a)
    OBVIOUS
  <2>3. t \in Text /\ Len(t) = N + 1 /\ t[N + 1] = a /\ \A i \in 1 .. N : t[i] = s[i]
    BY <2>1, <2>2, AppendText
  <2>4. PICK f \in [0 .. N -> Text] :
          /\ f[0] = x /\ f[N] = PlaceFrom(x, s)
          /\ \A i \in 1 .. N : f[i] = PlaceStep(f[i - 1], s[i])
    BY <2>1, PlaceTrace
  <2>5. PICK h \in [0 .. N + 1 -> Text] :
          /\ h[0] = x /\ h[N + 1] = PlaceFrom(x, t)
          /\ \A i \in 1 .. N + 1 : h[i] = PlaceStep(h[i - 1], t[i])
    <3>1. PICK M \in Nat : M = N + 1 /\ M = Len(t)
      BY <2>3
    <3>2. PICK h \in [0 .. M -> Text] :
            /\ h[0] = x /\ h[M] = PlaceFrom(x, t)
            /\ \A i \in 1 .. M : h[i] = PlaceStep(h[i - 1], t[i])
      BY <2>3, <3>1, PlaceTrace
    <3> QED
      BY <3>1, <3>2
  <2>6. \A i \in 1 .. N : f[i - 1] = h[i - 1] => f[i] = h[i]
    BY <2>3, <2>4, <2>5
  <2>7. Alike(f, h, N)
    BY <2>4, <2>5, <2>6 DEF Alike
  <2>8. \A i \in 0 .. N : f[i] = h[i]
    BY <2>7, SameTrace
  <2>9. N \in 0 .. N /\ N + 1 \in 1 .. N + 1 /\ (N + 1) - 1 = N
    OBVIOUS
  <2> QED
    BY <2>2, <2>3, <2>4, <2>5, <2>8, <2>9
<1> QED
  BY <1>1, <1>2, <1>3

\* path_join passes through its stacks one after the other.
LEMMA StackTrace ==
  ASSUME NEW x \in Text, NEW s \in Text
  PROVE  \E f \in [0 .. Len(s) -> Text] :
           /\ f[0] = x /\ f[Len(s)] = StackFrom(x, s)
           /\ \A i \in 1 .. Len(s) : f[i] = path_execute(f[i - 1], s[i])
<1>1. PICK N \in Nat : N = Len(s) /\ \A i \in 1 .. N : s[i] \in Segment
  BY DEF Text
<1> DEFINE g == [z \in (1 .. N) \X Text |-> path_execute(z[2], s[z[1]])]
           D == 0 .. N
           body(h) == [i \in D |-> IF i = 0 THEN x ELSE path_execute(h[i - 1], s[i])]
           done == CHOOSE h : h = body(h)
<1>2. g \in [(1 .. N) \X Text -> Text]
  BY <1>1, StepTypes
<1>3. \A i \in 1 .. N : \A y \in Text : g[<<i, y>>] = path_execute(y, s[i])
  OBVIOUS
<1> HIDE DEF g
<1>4. PICK f \in [0 .. N -> Text] : Runs(f, N, g, x)
  BY <1>2, Recursion
<1>5. f[0] = x /\ \A i \in 1 .. N : i - 1 \in D /\ f[i] = path_execute(f[i - 1], s[i])
  <2>1. \A i \in 1 .. N : i - 1 \in 0 .. N
    BY <1>1
  <2> QED
    BY <1>3, <1>4, <2>1 DEF Runs
<1>6. f = body(f)
  <2>1. \A i \in D : i = 0 \/ i \in 1 .. N
    BY <1>1
  <2>2. \A i \in D : f[i] = body(f)[i]
    BY <1>5, <2>1
  <2> QED
    BY <2>2
<1>7. done = body(done)
  <2> HIDE DEF body
  <2> QED
    BY <1>6
<1>8. StackFrom(x, s) = done[N]
  BY <1>1 DEF StackFrom
<1>9. PICK a : a = done
  OBVIOUS
<1> HIDE DEF done
<1>10. a[0] = x /\ \A i \in 1 .. N : a[i] = path_execute(a[i - 1], s[i])
  <2>1. 0 \in D /\ \A i \in 1 .. N : i \in D /\ i # 0
    BY <1>1
  <2> QED
    BY <1>7, <1>9, <2>1
<1>11. \A i \in 0 .. N : f[i] = a[i]
  <2> HIDE DEF body
  <2>1. \A i \in 1 .. N : f[i - 1] = a[i - 1] => f[i] = a[i]
    BY <1>5, <1>10
  <2>2. f[0] = a[0]
    BY <1>5, <1>10
  <2>3. Alike(f, a, N)
    BY <2>1, <2>2 DEF Alike
  <2> QED
    BY <2>3, SameTrace
<1>12. f[N] = StackFrom(x, s)
  BY <1>1, <1>8, <1>9, <1>11
<1> QED
  BY <1>1, <1>4, <1>5, <1>12

\* The stack after a text, and after one more segment.
LEMMA StackIs ==
  ASSUME NEW x \in Text
  PROVE  /\ StackFrom(x, <<>>) = x
         /\ \A s \in Text : StackFrom(x, s) \in Text
         /\ \A s \in Text : \A a \in Segment :
              StackFrom(x, Append(s, a)) = path_execute(StackFrom(x, s), a)
<1>1. StackFrom(x, <<>>) = x
  <2>1. <<>> \in Text /\ Len(<<>>) = 0
    BY EmptySeq DEF Text
  <2> QED
    BY <2>1, StackTrace
<1>2. ASSUME NEW s \in Text PROVE StackFrom(x, s) \in Text
  <2>1. Len(s) \in 0 .. Len(s)
    BY DEF Text
  <2> QED
    BY <2>1, StackTrace
<1>3. ASSUME NEW s \in Text, NEW a \in Segment
      PROVE  StackFrom(x, Append(s, a)) = path_execute(StackFrom(x, s), a)
  <2>1. PICK N \in Nat : N = Len(s)
    BY DEF Text
  <2>2. PICK t : t = Append(s, a)
    OBVIOUS
  <2>3. t \in Text /\ Len(t) = N + 1 /\ t[N + 1] = a /\ \A i \in 1 .. N : t[i] = s[i]
    BY <2>1, <2>2, AppendText
  <2>4. PICK f \in [0 .. N -> Text] :
          /\ f[0] = x /\ f[N] = StackFrom(x, s)
          /\ \A i \in 1 .. N : f[i] = path_execute(f[i - 1], s[i])
    BY <2>1, StackTrace
  <2>5. PICK h \in [0 .. N + 1 -> Text] :
          /\ h[0] = x /\ h[N + 1] = StackFrom(x, t)
          /\ \A i \in 1 .. N + 1 : h[i] = path_execute(h[i - 1], t[i])
    <3>1. PICK M \in Nat : M = N + 1 /\ M = Len(t)
      BY <2>3
    <3>2. PICK h \in [0 .. M -> Text] :
            /\ h[0] = x /\ h[M] = StackFrom(x, t)
            /\ \A i \in 1 .. M : h[i] = path_execute(h[i - 1], t[i])
      BY <2>3, <3>1, StackTrace
    <3> QED
      BY <3>1, <3>2
  <2>6. \A i \in 1 .. N : f[i - 1] = h[i - 1] => f[i] = h[i]
    BY <2>3, <2>4, <2>5
  <2>7. Alike(f, h, N)
    BY <2>4, <2>5, <2>6 DEF Alike
  <2>8. \A i \in 0 .. N : f[i] = h[i]
    BY <2>7, SameTrace
  <2>9. N \in 0 .. N /\ N + 1 \in 1 .. N + 1 /\ (N + 1) - 1 = N
    OBVIOUS
  <2> QED
    BY <2>2, <2>3, <2>4, <2>5, <2>8, <2>9
<1> QED
  BY <1>1, <1>2, <1>3

\* SeqInduction for texts.
LEMMA TextInduction ==
  ASSUME NEW T, <<>> \in T,
         \A t \in Text : t \in T => \A a \in Segment : Append(t, a) \in T
  PROVE  \A s \in Text : s \in T
<1>1. \A t \in Seq(Segment) : t \in T => \A a \in Segment : Append(t, a) \in T
  BY DEF Text
<1>2. \A s \in Seq(Segment) : s \in T
  BY ONLY <<>> \in T, <1>1, SeqInduction
<1> QED
  BY <1>2, Zenon DEF Text

\* Texts one after the other.
LEMMA ConcatText ==
  ASSUME NEW s \in Text
  PROVE  /\ s \o <<>> = s /\ <<>> \o s = s /\ <<>> \in Text
         /\ \A t \in Text : s \o t \in Text
         /\ \A t \in Text : \A a \in Segment : s \o Append(t, a) = Append(s \o t, a)
<1>1. s \o <<>> = s /\ <<>> \o s = s /\ <<>> \in Text
  BY ConcatEmptySeq, EmptySeq DEF Text
<1>2. ASSUME NEW t \in Text PROVE s \o t \in Text
  BY ConcatProperties DEF Text
<1>3. ASSUME NEW t \in Text, NEW a \in Segment PROVE s \o Append(t, a) = Append(s \o t, a)
  <2>1. s \o t \in Seq(Segment) /\ <<a>> \in Seq(Segment) /\ s \in Seq(Segment) /\ t \in Seq(Segment)
    BY <1>2 DEF Text
  <2>2. Append(t, a) = t \o <<a>> /\ Append(s \o t, a) = (s \o t) \o <<a>>
    BY <2>1, AppendIsConcat
  <2>3. (s \o t) \o <<a>> = s \o (t \o <<a>>)
    BY <2>1, ConcatAssociative
  <2> QED
    BY <2>2, <2>3
<1> QED
  BY <1>1, <1>2, <1>3

\* Two walks, one after the other.
LEMMA PlaceConcat ==
  ASSUME NEW x \in Text, NEW s \in Text, NEW t \in Text
  PROVE  PlaceFrom(x, s \o t) = PlaceFrom(PlaceFrom(x, s), t)
<1> DEFINE T == {u \in Text : PlaceFrom(x, s \o u) = PlaceFrom(PlaceFrom(x, s), u)}
<1>1. PlaceFrom(x, s) \in Text
  BY PlaceIs
<1>2. <<>> \in T
  BY <1>1, PlaceIs, ConcatText
<1>3. ASSUME NEW u \in Text, u \in T, NEW a \in Segment PROVE Append(u, a) \in T
  <2>1. PICK r \in Text : r = s \o u
    BY ConcatText
  <2>2. s \o Append(u, a) = Append(r, a) /\ PlaceFrom(x, Append(r, a)) = PlaceStep(PlaceFrom(x, r), a)
    <3>1. s \o Append(u, a) = Append(s \o u, a)
      BY ConcatText
    <3>2. PlaceFrom(x, Append(r, a)) = PlaceStep(PlaceFrom(x, r), a)
      BY PlaceIs
    <3> QED
      BY <2>1, <3>1, <3>2
  <2>3. PlaceFrom(PlaceFrom(x, s), Append(u, a)) = PlaceStep(PlaceFrom(PlaceFrom(x, s), u), a)
    BY <1>1, PlaceIs
  <2>4. Append(u, a) \in Text
    BY AppendText
  <2> QED
    BY <1>3, <2>1, <2>2, <2>3, <2>4
<1> HIDE DEF T
<1>4. \A u \in Text : u \in T
  BY <1>2, <1>3, TextInduction
<1> QED
  BY <1>4 DEF T

\* Two joins, one after the other.
LEMMA StackConcat ==
  ASSUME NEW x \in Text, NEW s \in Text, NEW t \in Text
  PROVE  StackFrom(x, s \o t) = StackFrom(StackFrom(x, s), t)
<1> DEFINE T == {u \in Text : StackFrom(x, s \o u) = StackFrom(StackFrom(x, s), u)}
<1>1. StackFrom(x, s) \in Text
  BY StackIs
<1>2. <<>> \in T
  BY <1>1, StackIs, ConcatText
<1>3. ASSUME NEW u \in Text, u \in T, NEW a \in Segment PROVE Append(u, a) \in T
  <2>1. PICK r \in Text : r = s \o u
    BY ConcatText
  <2>2. s \o Append(u, a) = Append(r, a) /\ StackFrom(x, Append(r, a)) = path_execute(StackFrom(x, r), a)
    <3>1. s \o Append(u, a) = Append(s \o u, a)
      BY ConcatText
    <3>2. StackFrom(x, Append(r, a)) = path_execute(StackFrom(x, r), a)
      BY StackIs
    <3> QED
      BY <2>1, <3>1, <3>2
  <2>3. StackFrom(StackFrom(x, s), Append(u, a)) = path_execute(StackFrom(StackFrom(x, s), u), a)
    BY <1>1, StackIs
  <2>4. Append(u, a) \in Text
    BY AppendText
  <2> QED
    BY <1>3, <2>1, <2>2, <2>3, <2>4
<1> HIDE DEF T
<1>4. \A u \in Text : u \in T
  BY <1>2, <1>3, TextInduction
<1> QED
  BY <1>4 DEF T

----------------------------------------------------------------------------
(* Normal stacks. *)

\* No segment is empty or a dot.
Clean(st) == \A i \in DOMAIN st : st[i] \notin {"", "."}
\* .. is only at the front.
Normal(st) ==
  /\ st \in Text /\ Clean(st)
  /\ \A i \in DOMAIN st : st[i] = ".." => i = 1 \/ st[i - 1] = ".."
\* .. is nowhere.
NoUp(st) == st \in Text /\ Clean(st) /\ \A i \in DOMAIN st : st[i] # ".."

\* A stack is empty or has a last segment.
LEMMA LastSegment ==
  ASSUME NEW x \in Text, x # <<>>
  PROVE  \E t \in Text, a \in Segment : /\ x = Append(t, a) /\ x[Len(x)] = a
                                      /\ SubSeq(x, 1, Len(x) - 1) = t
<1>1. PICK t \in Text, a \in Segment : x = Append(t, a)
  BY SequenceEmptyOrAppend DEF Text
<1> QED
  BY <1>1, FrontOfAppend

\* The stacks are built by their segments.
LEMMA NormalAppend ==
  ASSUME NEW t \in Text, NEW a \in Segment
  PROVE  /\ Clean(Append(t, a)) <=> Clean(t) /\ a \notin {"", "."}
         /\ Normal(Append(t, a)) <=>
              /\ Normal(t) /\ a \notin {"", "."}
              /\ a = ".." => t = <<>> \/ t[Len(t)] = ".."
         /\ NoUp(Append(t, a)) <=> NoUp(t) /\ a \notin {"", ".", ".."}
<1>1. PICK x : x = Append(t, a)
  OBVIOUS
<1>2. PICK N \in Nat : N = Len(t)
  BY DEF Text
<1>3. x \in Text /\ Len(x) = N + 1 /\ x[N + 1] = a /\ \A i \in 1 .. N : x[i] = t[i]
  BY <1>1, <1>2, AppendText
<1>4. DOMAIN t = 1 .. N /\ DOMAIN x = 1 .. N + 1
  BY <1>2, <1>3 DEF Text
<1>5. \A i : i \in DOMAIN x <=> i \in DOMAIN t \/ i = N + 1
  BY <1>4
<1>6. Clean(x) <=> Clean(t) /\ a \notin {"", "."}
  BY <1>3, <1>4, <1>5 DEF Clean
<1>7. NoUp(x) <=> NoUp(t) /\ a \notin {"", ".", ".."}
  BY <1>3, <1>4, <1>5, <1>6 DEF NoUp
<1>8. t = <<>> <=> N = 0
  BY <1>2 DEF Text
<1>9. \A i \in 1 .. N : i - 1 \in 1 .. N \/ i = 1
  OBVIOUS
<1>10. Normal(x) <=>
         /\ Normal(t) /\ a \notin {"", "."}
         /\ a = ".." => t = <<>> \/ t[Len(t)] = ".."
  <2>1. ASSUME NEW i \in 1 .. N
        PROVE  (x[i] = ".." => i = 1 \/ x[i - 1] = "..") <=> (t[i] = ".." => i = 1 \/ t[i - 1] = "..")
    BY <1>3, <1>9
  <2>2. (x[N + 1] = ".." => N + 1 = 1 \/ x[(N + 1) - 1] = "..")
          <=> (a = ".." => t = <<>> \/ t[Len(t)] = "..")
    <3>1. CASE N = 0
      BY <1>3, <1>8, <3>1
    <3>2. CASE N # 0
      <4>1. (N + 1) - 1 = N /\ N \in 1 .. N /\ N + 1 # 1
        BY <3>2
      <4> QED
        BY <1>2, <1>3, <1>8, <3>2, <4>1
    <3> QED
      BY <3>1, <3>2
  <2> QED
    BY <1>3, <1>4, <1>5, <1>6, <2>1, <2>2 DEF Normal
<1> QED
  BY <1>1, <1>6, <1>7, <1>10

\* The empty stack is normal.
LEMMA EmptyNormal == <<>> \in Text /\ Clean(<<>>) /\ Normal(<<>>) /\ NoUp(<<>>)
<1>1. <<>> \in Text /\ DOMAIN <<>> = {}
  BY EmptySeq DEF Text
<1> QED
  BY <1>1 DEF Clean, Normal, NoUp

\* path_execute keeps a stack normal.
LEMMA ExecuteNormal ==
  ASSUME NEW x, Normal(x), NEW a \in Segment
  PROVE  Normal(path_execute(x, a))
<1>1. x \in Text
  BY DEF Normal
<1>2. CASE a \in {"", "."}
  BY <1>2 DEF path_execute
<1>3. CASE a = ".." /\ x # <<>> /\ x[Len(x)] # ".."
  <2>1. PICK t \in Text, b \in Segment : x = Append(t, b) /\ SubSeq(x, 1, Len(x) - 1) = t
    BY <1>1, <1>3, LastSegment
  <2>2. path_execute(x, a) = t
    BY <1>3, <2>1 DEF path_execute
  <2> QED
    BY <2>1, <2>2, NormalAppend
<1>4. CASE a \notin {"", "."} /\ ~(a = ".." /\ x # <<>> /\ x[Len(x)] # "..")
  <2>1. path_execute(x, a) = Append(x, a)
    BY <1>4 DEF path_execute
  <2>2. Normal(x) /\ a \notin {"", "."} /\ (a = ".." => x = <<>> \/ x[Len(x)] = "..")
    BY <1>4
  <2>3. Normal(Append(x, a))
    BY <1>1, <2>2, NormalAppend
  <2> QED
    BY <2>1, <2>3
<1> QED
  BY <1>2, <1>3, <1>4

\* So does path_join.
LEMMA JoinNormal ==
  ASSUME NEW x, Normal(x), NEW s \in Text
  PROVE  Normal(StackFrom(x, s))
<1> DEFINE T == {u \in Text : Normal(StackFrom(x, u))}
<1>1. x \in Text
  BY DEF Normal
<1>2. <<>> \in T
  BY <1>1, EmptyNormal, StackIs
<1>3. ASSUME NEW u \in Text, u \in T, NEW a \in Segment PROVE Append(u, a) \in T
  <2>1. StackFrom(x, Append(u, a)) = path_execute(StackFrom(x, u), a)
    BY <1>1, StackIs
  <2>2. Normal(path_execute(StackFrom(x, u), a))
    BY <1>3, ExecuteNormal
  <2> QED
    BY <2>1, <2>2, AppendText
<1> HIDE DEF T
<1>4. \A u \in Text : u \in T
  BY <1>2, <1>3, TextInduction
<1> QED
  BY <1>4 DEF T

\* Without .. there is none in the result.
LEMMA JoinNoUp ==
  ASSUME NEW x, NoUp(x), NEW s \in Text, \A i \in DOMAIN s : s[i] # ".."
  PROVE  NoUp(StackFrom(x, s))
<1> DEFINE Down(u) == \A i \in DOMAIN u : u[i] # ".."
           T == {u \in Text : Down(u) => NoUp(StackFrom(x, u))}
<1>1. x \in Text
  BY DEF NoUp
<1>2. <<>> \in T
  BY <1>1, EmptyNormal, StackIs
<1>3. ASSUME NEW u \in Text, u \in T, NEW a \in Segment PROVE Append(u, a) \in T
  <2>1. StackFrom(x, Append(u, a)) = path_execute(StackFrom(x, u), a)
    BY <1>1, StackIs
  <2>2. ASSUME Down(Append(u, a)) PROVE Down(u) /\ a # ".."
    <3>1. PICK N \in Nat : N = Len(u) /\ DOMAIN u = 1 .. N
      BY DEF Text
    <3>2. PICK v : v = Append(u, a)
      OBVIOUS
    <3>3. v \in Text /\ Len(v) = N + 1 /\ v[N + 1] = a /\ \A i \in 1 .. N : v[i] = u[i]
      BY <3>1, <3>2, AppendText
    <3>4. DOMAIN v = 1 .. N + 1
      BY <3>3 DEF Text
    <3>5. \A i \in 1 .. N + 1 : v[i] # ".."
      BY <2>2, <3>2, <3>4
    <3> QED
      BY <3>1, <3>3, <3>5
  <2>3. ASSUME NoUp(StackFrom(x, u)), a # ".." PROVE NoUp(path_execute(StackFrom(x, u), a))
    BY <1>1, <2>3, StackIs, NormalAppend DEF path_execute
  <2> HIDE DEF Down
  <2> QED
    BY <1>3, <2>1, <2>2, <2>3, AppendText
<1> HIDE DEF T
<1>4. \A u \in Text : u \in T
  BY <1>2, <1>3, TextInduction
<1> QED
  BY <1>4 DEF T

\* A normal stack is made by its own text.
LEMMA StackSelf ==
  ASSUME NEW s, Normal(s)
  PROVE  StackFrom(<<>>, s) = s
<1> DEFINE T == {u \in Text : Normal(u) => StackFrom(<<>>, u) = u}
<1>1. <<>> \in Text /\ s \in Text
  BY EmptyNormal DEF Normal
<1>2. <<>> \in T
  BY <1>1, StackIs
<1>3. ASSUME NEW u \in Text, u \in T, NEW a \in Segment PROVE Append(u, a) \in T
  <2>1. StackFrom(<<>>, Append(u, a)) = path_execute(StackFrom(<<>>, u), a)
    BY <1>1, StackIs
  <2>2. ASSUME Normal(Append(u, a)) PROVE StackFrom(<<>>, u) = u /\ path_execute(u, a) = Append(u, a)
    <3>1. Normal(u) /\ a \notin {"", "."} /\ (a = ".." => u = <<>> \/ u[Len(u)] = "..")
      BY <2>2, NormalAppend
    <3> QED
      BY <1>3, <3>1 DEF path_execute
  <2> QED
    BY <2>1, <2>2, AppendText
<1> HIDE DEF T
<1>4. \A u \in Text : u \in T
  BY <1>2, <1>3, TextInduction
<1> QED
  BY <1>1, <1>4 DEF T

\* A place has no .. in it,
LEMMA PlaceNoUp ==
  ASSUME NEW x, NoUp(x), NEW s \in Text
  PROVE  NoUp(PlaceFrom(x, s))
<1> DEFINE T == {u \in Text : NoUp(PlaceFrom(x, u))}
<1>1. x \in Text
  BY DEF NoUp
<1>2. <<>> \in T
  BY <1>1, EmptyNormal, PlaceIs
<1>3. ASSUME NEW u \in Text, u \in T, NEW a \in Segment PROVE Append(u, a) \in T
  <2>1. PICK y : y = PlaceFrom(x, u)
    OBVIOUS
  <2>2. PlaceFrom(x, Append(u, a)) = PlaceStep(y, a) /\ NoUp(y) /\ y \in Text
    BY <1>1, <1>3, <2>1, PlaceIs
  <2>3. y # <<>> => NoUp(SubSeq(y, 1, Len(y) - 1))
    <3> SUFFICES ASSUME y # <<>> PROVE NoUp(SubSeq(y, 1, Len(y) - 1))
      OBVIOUS
    <3>1. PICK t \in Text, b \in Segment : y = Append(t, b) /\ SubSeq(y, 1, Len(y) - 1) = t
      BY <2>2, LastSegment
    <3>2. NoUp(Append(t, b))
      BY <2>2, <3>1
    <3>3. NoUp(t)
      BY <3>2, NormalAppend
    <3> QED
      BY <3>1, <3>3
  <2>4. NoUp(PlaceStep(y, a))
    BY <2>2, <2>3, NormalAppend, EmptyNormal DEF PlaceStep
  <2> QED
    BY <2>2, <2>4, AppendText
<1> HIDE DEF T
<1>4. \A u \in Text : u \in T
  BY <1>2, <1>3, TextInduction
<1> QED
  BY <1>4 DEF T

\* and then it is the place of its own text.
LEMMA PlaceSelf ==
  ASSUME NEW s, NoUp(s)
  PROVE  PlaceFrom(<<>>, s) = s
<1> DEFINE T == {u \in Text : NoUp(u) => PlaceFrom(<<>>, u) = u}
<1>1. <<>> \in Text /\ s \in Text
  BY EmptyNormal DEF NoUp
<1>2. <<>> \in T
  BY <1>1, PlaceIs
<1>3. ASSUME NEW u \in Text, u \in T, NEW a \in Segment PROVE Append(u, a) \in T
  <2>1. PlaceFrom(<<>>, Append(u, a)) = PlaceStep(PlaceFrom(<<>>, u), a)
    BY <1>1, PlaceIs
  <2>2. ASSUME NoUp(Append(u, a)) PROVE PlaceFrom(<<>>, u) = u /\ PlaceStep(u, a) = Append(u, a)
    BY <1>3, <2>2, NormalAppend DEF PlaceStep
  <2> QED
    BY <2>1, <2>2, AppendText
<1> HIDE DEF T
<1>4. \A u \in Text : u \in T
  BY <1>2, <1>3, TextInduction
<1> QED
  BY <1>1, <1>4 DEF T

\* One segment does to the stack what it does to the place.
LEMMA PlaceExecute ==
  ASSUME NEW x \in Text, NEW st \in Text, Clean(st), NEW a \in Segment
  PROVE  /\ PlaceFrom(x, path_execute(st, a)) = PlaceStep(PlaceFrom(x, st), a)
         /\ Clean(path_execute(st, a)) /\ path_execute(st, a) \in Text
<1>1. CASE a \in {"", "."}
  BY <1>1 DEF path_execute, PlaceStep
<1>2. CASE a = ".." /\ st # <<>> /\ st[Len(st)] # ".."
  <2>1. PICK t \in Text, b \in Segment : /\ st = Append(t, b) /\ st[Len(st)] = b
                                        /\ SubSeq(st, 1, Len(st) - 1) = t
    BY <1>2, LastSegment
  <2>2. path_execute(st, a) = t /\ b \notin {"", ".", ".."} /\ Clean(t)
    BY <1>2, <2>1, NormalAppend DEF path_execute
  <2>3. PICK y \in Text : y = PlaceFrom(x, t)
    BY PlaceIs
  <2>4. PlaceFrom(x, st) = Append(y, b)
    <3>1. PlaceFrom(x, Append(t, b)) = PlaceStep(PlaceFrom(x, t), b)
      BY PlaceIs
    <3>2. PlaceStep(y, b) = Append(y, b)
      BY <2>2 DEF PlaceStep
    <3> QED
      BY <2>1, <2>3, <3>1, <3>2
  <2>5. PlaceStep(Append(y, b), "..") = y
    BY FrontOfAppend DEF PlaceStep
  <2> QED
    BY <1>2, <2>2, <2>3, <2>4, <2>5
<1>3. CASE a \notin {"", "."} /\ ~(a = ".." /\ st # <<>> /\ st[Len(st)] # "..")
  <2>1. path_execute(st, a) = Append(st, a)
    BY <1>3 DEF path_execute
  <2>2. PlaceFrom(x, Append(st, a)) = PlaceStep(PlaceFrom(x, st), a)
    BY PlaceIs
  <2>3. Clean(Append(st, a))
    BY <1>3, NormalAppend
  <2> QED
    BY <2>1, <2>2, <2>3, AppendText
<1> QED
  BY <1>1, <1>2, <1>3

\* A whole text, too: .. is taken from the text as the system takes it.
LEMMA PlaceStack ==
  ASSUME NEW x \in Text, NEW st \in Text, Clean(st), NEW s \in Text
  PROVE  PlaceFrom(x, StackFrom(st, s)) = PlaceFrom(PlaceFrom(x, st), s)
<1> DEFINE Good(u) == /\ StackFrom(st, u) \in Text /\ Clean(StackFrom(st, u))
                      /\ PlaceFrom(x, StackFrom(st, u)) = PlaceFrom(PlaceFrom(x, st), u)
           T == {u \in Text : Good(u)}
<1>1. PlaceFrom(x, st) \in Text
  BY PlaceIs
<1>2. <<>> \in T
  BY <1>1, PlaceIs, StackIs, EmptyNormal
<1>3. ASSUME NEW u \in Text, u \in T, NEW a \in Segment PROVE Append(u, a) \in T
  <2>1. StackFrom(st, Append(u, a)) = path_execute(StackFrom(st, u), a)
    BY StackIs
  <2>2. PlaceFrom(PlaceFrom(x, st), Append(u, a)) = PlaceStep(PlaceFrom(PlaceFrom(x, st), u), a)
    BY <1>1, PlaceIs
  <2>3. PICK z : z = StackFrom(st, u)
    OBVIOUS
  <2>4. z \in Text /\ Clean(z) /\ PlaceFrom(x, z) = PlaceFrom(PlaceFrom(x, st), u)
    BY <1>3, <2>3
  <2>5. /\ PlaceFrom(x, path_execute(z, a)) = PlaceStep(PlaceFrom(x, z), a)
        /\ Clean(path_execute(z, a)) /\ path_execute(z, a) \in Text
    BY <2>4, PlaceExecute
  <2>6. Append(u, a) \in Text
    BY AppendText
  <2> QED
    BY <2>1, <2>2, <2>3, <2>4, <2>5, <2>6
<1> HIDE DEF T
<1>4. \A u \in Text : u \in T
  BY <1>2, <1>3, TextInduction
<1> QED
  BY <1>4 DEF T

----------------------------------------------------------------------------
(* Paths. *)

\* The paths of modules: absolute, with a normal stack.
AbsPath(st) == [is_absolute |-> TRUE, segment_stack |-> st]
NormalStacks == {st \in Text : Normal(st)}
AbsPaths == {AbsPath(st) : st \in NormalStacks}

\* The empty segment in front of the text of an absolute path.
Empty == ""
Rooted(st) == <<Empty>> \o st

\* The segments that the code writes itself.
LEMMA OwnSegments ==
  /\ Empty \in Segment /\ ".." \in Segment /\ <<Empty>> \in Text /\ <<"..">> \in Text
  /\ <<Empty>> = Append(<<>>, Empty) /\ <<"..">> = Append(<<>>, "..")
<1>1. Empty \in Segment /\ ".." \in Segment
  BY Zenon DEF Segment, Empty
<1>2. <<Empty>> = Append(<<>>, Empty) /\ <<"..">> = Append(<<>>, "..")
  OBVIOUS
<1>3. Append(<<>>, Empty) \in Text /\ Append(<<>>, "..") \in Text
  BY <1>1, AppendText, EmptyNormal
<1> QED
  BY <1>1, <1>2, <1>3

\* What the operators of Path do on records.
LEMMA JoinedPath ==
  ASSUME NEW b, NEW st, NEW s
  PROVE  path_join([is_absolute |-> b, segment_stack |-> st], s)
           = [is_absolute |-> b, segment_stack |-> StackFrom(st, s)]
BY DEF path_join, StackFrom

\* path_new reads a text from the empty stack.
LEMMA NewPath ==
  ASSUME NEW s
  PROVE  path_new(s) = [is_absolute |-> StartsWithSlash(s), segment_stack |-> StackFrom(<<>>, s)]
BY JoinedPath DEF path_new

\* The place of a text is where it leads from the root.
LEMMA PlaceFromRoot ==
  ASSUME NEW s
  PROVE  Place(s) = PlaceFrom(<<>>, s)
BY DEF Place, PlaceFrom

\* The empty segment in front changes nothing but that the path is absolute.
LEMMA RootedText ==
  ASSUME NEW st \in Text
  PROVE  /\ Rooted(st) \in Text /\ StartsWithSlash(Rooted(st))
         /\ StackFrom(<<>>, Rooted(st)) = StackFrom(<<>>, st)
         /\ \A x \in Text : PlaceFrom(x, Rooted(st)) = PlaceFrom(x, st)
         /\ \A x \in Text : StackFrom(x, Rooted(st)) = StackFrom(x, st)
<1>1. Rooted(st) \in Text
  BY OwnSegments, ConcatText DEF Rooted
<1>2. StartsWithSlash(Rooted(st))
  <2>1. Len(<<Empty>>) = 1 /\ <<Empty>>[1] = Empty /\ Len(st) \in Nat
    BY DEF Text
  <2>2. /\ Len(Rooted(st)) = Len(<<Empty>>) + Len(st)
        /\ \A i \in 1 .. Len(<<Empty>>) + Len(st) :
             Rooted(st)[i] = IF i <= Len(<<Empty>>) THEN <<Empty>>[i] ELSE st[i - Len(<<Empty>>)]
    BY OwnSegments, ConcatProperties DEF Rooted, Text
  <2>3. PICK M \in Nat : M = Len(st)
    BY <2>1
  <2>4. PICK u \in Text : u = Rooted(st)
    BY <1>1
  <2>5. Len(u) = 1 + M /\ \A i \in 1 .. 1 + M : u[i] = IF i <= 1 THEN <<Empty>>[i] ELSE st[i - 1]
    BY <2>1, <2>2, <2>3, <2>4
  <2>6. 1 \in 1 .. 1 + M /\ 1 + M # 0
    OBVIOUS
  <2>7. u[1] = Empty
    BY <2>1, <2>5, <2>6
  <2>8. u # <<>>
    BY <2>5
  <2> QED
    BY <2>4, <2>7, <2>8, Zenon DEF StartsWithSlash, Empty
<1>3. ASSUME NEW x \in Text PROVE PlaceFrom(x, Rooted(st)) = PlaceFrom(x, st)
  <2>1. PlaceFrom(x, <<Empty>>) = PlaceStep(PlaceFrom(x, <<>>), Empty)
    <3>1. <<>> \in Text /\ Empty \in Segment
      BY OwnSegments, EmptyNormal
    <3>2. PlaceFrom(x, Append(<<>>, Empty)) = PlaceStep(PlaceFrom(x, <<>>), Empty)
      BY <3>1, PlaceIs
    <3> QED
      BY <3>2, OwnSegments
  <2>2. PlaceFrom(x, <<Empty>>) = x
    BY <2>1, PlaceIs, Zenon DEF PlaceStep, Empty
  <2>3. PlaceFrom(x, Rooted(st)) = PlaceFrom(PlaceFrom(x, <<Empty>>), st)
    BY OwnSegments, PlaceConcat DEF Rooted
  <2> QED
    BY <2>2, <2>3
<1>4. ASSUME NEW x \in Text PROVE StackFrom(x, Rooted(st)) = StackFrom(x, st)
  <2>1. StackFrom(x, <<Empty>>) = path_execute(StackFrom(x, <<>>), Empty)
    <3>1. <<>> \in Text /\ Empty \in Segment
      BY OwnSegments, EmptyNormal
    <3>2. StackFrom(x, Append(<<>>, Empty)) = path_execute(StackFrom(x, <<>>), Empty)
      BY <3>1, StackIs
    <3> QED
      BY <3>2, OwnSegments
  <2>2. StackFrom(x, <<Empty>>) = x
    BY <2>1, StackIs, Zenon DEF path_execute, Empty
  <2>3. StackFrom(x, Rooted(st)) = StackFrom(StackFrom(x, <<Empty>>), st)
    BY OwnSegments, StackConcat DEF Rooted
  <2> QED
    BY <2>2, <2>3
<1> QED
  BY <1>1, <1>2, <1>3, <1>4, EmptyNormal

\* The text of an absolute path, and what is read back from it.
LEMMA TextOfPath ==
  ASSUME NEW st \in NormalStacks
  PROVE  /\ st \in Text /\ Normal(st) /\ Clean(st) /\ AbsPath(st) \in AbsPaths
         /\ path_string(AbsPath(st)) = Rooted(st)
         /\ path_copy(AbsPath(st)) = AbsPath(st)
         /\ Place(Rooted(st)) = PlaceFrom(<<>>, st)
<1>1. st \in Text /\ Normal(st) /\ Clean(st) /\ AbsPath(st) \in AbsPaths
  BY DEF NormalStacks, Normal, AbsPaths
<1>2. path_string(AbsPath(st)) = Rooted(st)
  BY Zenon DEF path_string, AbsPath, Rooted, Empty
<1>3. path_copy(AbsPath(st)) = AbsPath(st)
  <2>1. path_copy(AbsPath(st)) = path_new(Rooted(st))
    BY <1>2 DEF path_copy
  <2>2. StackFrom(<<>>, Rooted(st)) = st /\ StartsWithSlash(Rooted(st)) = TRUE
    BY <1>1, RootedText, StackSelf
  <2> QED
    BY <2>1, <2>2, NewPath DEF AbsPath
<1>4. Place(Rooted(st)) = PlaceFrom(<<>>, st)
  BY <1>1, RootedText, PlaceFromRoot, EmptyNormal
<1> QED
  BY <1>1, <1>2, <1>3, <1>4

\* Two absolute paths with the same text are the same.
LEMMA SameText ==
  ASSUME NEW p \in AbsPaths, NEW q \in AbsPaths, path_string(p) = path_string(q)
  PROVE  p = q
<1>1. PICK s \in NormalStacks : p = AbsPath(s)
  BY DEF AbsPaths
<1>2. PICK t \in NormalStacks : q = AbsPath(t)
  BY DEF AbsPaths
<1>3. s \in Text /\ t \in Text /\ Rooted(s) = Rooted(t)
  BY <1>1, <1>2, TextOfPath
<1>4. Normal(s) /\ Normal(t)
  BY TextOfPath
<1>5. StackFrom(<<>>, Rooted(s)) = s /\ StackFrom(<<>>, Rooted(t)) = t
  BY <1>3, <1>4, RootedText, StackSelf
<1> QED
  BY <1>1, <1>2, <1>3, <1>5

\* The place of a path is a place.
LEMMA PlaceOfPath ==
  ASSUME NEW p \in AbsPaths
  PROVE  /\ path_string(p) \in Text /\ Place(path_string(p)) \in Text
         /\ Place(Place(path_string(p))) = Place(path_string(p))
         /\ ".." \notin Elements(p.segment_stack) => p.segment_stack = Place(path_string(p))
<1>1. PICK s \in NormalStacks : p = AbsPath(s)
  BY DEF AbsPaths
<1>2. s \in Text /\ Normal(s) /\ Place(path_string(p)) = PlaceFrom(<<>>, s) /\ path_string(p) = Rooted(s)
  BY <1>1, TextOfPath
<1>3. Rooted(s) \in Text /\ PlaceFrom(<<>>, s) \in Text
  BY <1>2, RootedText, PlaceIs, EmptyNormal
<1>4. NoUp(PlaceFrom(<<>>, s))
  BY <1>2, PlaceNoUp, EmptyNormal
<1>5. Place(PlaceFrom(<<>>, s)) = PlaceFrom(<<>>, s)
  BY <1>4, PlaceSelf, PlaceFromRoot
<1>6. p.segment_stack = s
  BY <1>1 DEF AbsPath
<1>7. ASSUME ".." \notin Elements(s) PROVE s = PlaceFrom(<<>>, s)
  <2>1. NoUp(s)
    BY <1>2, <1>7 DEF NoUp, Normal, Elements
  <2> QED
    BY <2>1, PlaceSelf
<1> QED
  BY <1>2, <1>3, <1>5, <1>6, <1>7

\* ImportPath, of the path of the module.
JoinPath(p, string) ==
  path_join(path_join(path_copy(p), <<"..">>), path_string(path_new(string)))

\* The text of a path that was read leads where the text leads that it was read from.
LEMMA ReadText ==
  ASSUME NEW s \in Text
  PROVE  /\ path_string(path_new(s)) \in Text
         /\ \A x \in Text : PlaceFrom(x, path_string(path_new(s))) = PlaceFrom(x, s)
<1>1. PICK st \in Text : st = StackFrom(<<>>, s) /\ Clean(st)
  <2>1. Normal(StackFrom(<<>>, s))
    BY JoinNormal, EmptyNormal
  <2> QED
    BY <2>1 DEF Normal
<1>2. path_string(path_new(s)) = (IF StartsWithSlash(s) THEN <<"">> ELSE <<>>) \o st
  BY <1>1, NewPath, Zenon DEF path_string
<1>3. path_string(path_new(s)) \in {Rooted(st), st}
  <2>1. <<>> \o st = st
    BY ConcatText
  <2>2. <<"">> = <<Empty>>
    BY Zenon DEF Empty
  <2>3. CASE StartsWithSlash(s)
    BY <1>2, <2>2, <2>3, Zenon DEF Rooted
  <2>4. CASE ~StartsWithSlash(s)
    BY <1>2, <2>1, <2>4, Zenon
  <2> QED
    BY <2>3, <2>4
<1>4. ASSUME NEW x \in Text PROVE PlaceFrom(x, Rooted(st)) = PlaceFrom(x, s) /\ PlaceFrom(x, st) = PlaceFrom(x, s)
  <2>1. <<>> \in Text /\ Clean(<<>>)
    BY EmptyNormal
  <2>2. PlaceFrom(x, StackFrom(<<>>, s)) = PlaceFrom(PlaceFrom(x, <<>>), s)
    BY <2>1, PlaceStack
  <2> QED
    BY <1>1, <2>2, PlaceIs, RootedText
<1>5. Rooted(st) \in Text
  BY RootedText
<1> QED
  BY <1>1, <1>3, <1>4, <1>5

\* An import looks where it means, although .. is taken from the text.
LEMMA JoinIs ==
  ASSUME NEW p \in AbsPaths, NEW s \in Text
  PROVE  /\ JoinPath(p, s) \in AbsPaths
         /\ Place(path_string(JoinPath(p, s))) = Place(path_string(p) \o <<"..">> \o s)
         /\ Place(path_string(JoinPath(p, s))) = Place(Place(path_string(p)) \o <<"..">> \o s)
<1>1. PICK st \in NormalStacks : p = AbsPath(st)
  BY DEF AbsPaths
<1>2. /\ st \in Text /\ Normal(st) /\ path_string(p) = Rooted(st) /\ path_copy(p) = AbsPath(st)
      /\ Place(path_string(p)) = PlaceFrom(<<>>, st) /\ Rooted(st) \in Text
  BY <1>1, TextOfPath, RootedText
<1>3. PICK up \in Text : up = <<"..">>
  BY OwnSegments
<1>4. PICK t \in Text : /\ t = path_string(path_new(s))
                        /\ \A x \in Text : PlaceFrom(x, t) = PlaceFrom(x, s)
  BY ReadText
<1>5. PICK above : above = StackFrom(st, up)
  OBVIOUS
<1>6. PICK found : found = StackFrom(above, t)
  OBVIOUS
<1>7. Normal(above) /\ above \in Text /\ Clean(above) /\ Normal(found) /\ found \in Text /\ Clean(st)
  <2>1. Normal(above)
    BY <1>2, <1>5, JoinNormal
  <2>2. Normal(found)
    BY <1>6, <2>1, JoinNormal
  <2> QED
    BY <1>2, <2>1, <2>2 DEF Normal
<1>8. JoinPath(p, s) = AbsPath(found)
  <2>1. path_join(AbsPath(st), up) = AbsPath(above)
    BY <1>5, JoinedPath DEF AbsPath
  <2>2. path_join(AbsPath(above), t) = AbsPath(found)
    BY <1>6, JoinedPath DEF AbsPath
  <2> QED
    BY <1>2, <1>3, <1>4, <2>1, <2>2 DEF JoinPath
<1>9. found \in NormalStacks
  BY <1>7 DEF NormalStacks
<1>10. JoinPath(p, s) \in AbsPaths /\ Place(path_string(JoinPath(p, s))) = PlaceFrom(<<>>, found)
  BY <1>8, <1>9, TextOfPath
<1>11. PICK x \in Text : x = PlaceFrom(<<>>, st)
  BY <1>2, PlaceIs, EmptyNormal
<1>12. PlaceFrom(<<>>, found) = PlaceFrom(PlaceFrom(x, up), s)
  <2>1. PlaceFrom(<<>>, StackFrom(above, t)) = PlaceFrom(PlaceFrom(<<>>, above), t)
    BY <1>7, PlaceStack, EmptyNormal
  <2>2. PlaceFrom(<<>>, StackFrom(st, up)) = PlaceFrom(x, up)
    BY <1>2, <1>7, <1>11, PlaceStack, EmptyNormal
  <2>3. PlaceFrom(x, up) \in Text
    BY PlaceIs
  <2> QED
    BY <1>4, <1>5, <1>6, <2>1, <2>2, <2>3
<1>13. ASSUME NEW y \in Text, PlaceFrom(<<>>, y) = x
       PROVE  Place(y \o up \o s) = PlaceFrom(PlaceFrom(x, up), s)
  <2>1. PICK z \in Text : z = y \o up
    BY ConcatText
  <2>2. PlaceFrom(<<>>, z) = PlaceFrom(x, up)
    BY <1>13, <2>1, PlaceConcat, EmptyNormal
  <2>3. PlaceFrom(<<>>, z \o s) = PlaceFrom(PlaceFrom(<<>>, z), s)
    BY PlaceConcat, EmptyNormal
  <2> QED
    BY <2>1, <2>2, <2>3, PlaceFromRoot
<1>14. Place(Rooted(st) \o up \o s) = PlaceFrom(PlaceFrom(x, up), s)
  <2>1. PlaceFrom(<<>>, Rooted(st)) = x
    BY <1>2, <1>11, RootedText, EmptyNormal
  <2> QED
    BY <1>2, <1>13, <2>1
<1>15. Place(x \o up \o s) = PlaceFrom(PlaceFrom(x, up), s)
  <2>1. NoUp(x)
    BY <1>2, <1>11, PlaceNoUp, EmptyNormal
  <2>2. PlaceFrom(<<>>, x) = x
    BY <2>1, PlaceSelf
  <2> QED
    BY <1>13, <2>2
<1> QED
  BY <1>2, <1>3, <1>10, <1>11, <1>12, <1>14, <1>15

\* The working directory.
LEMMA CwdIs ==
  /\ Cwd \in Text /\ \E st : /\ NoUp(st) /\ st = StackFrom(<<>>, Cwd) /\ path_new(Cwd) = AbsPath(st)
<1>1. Cwd \in Text
  <2>1. STRING \subseteq Segment
    BY DEF Segment
  <2> QED
    BY <2>1, FilesAssumption, SeqMonotonic DEF Text
<1>2. \A i \in DOMAIN Cwd : Cwd[i] # ".."
  BY FilesAssumption
<1>3. NoUp(StackFrom(<<>>, Cwd))
  BY <1>1, <1>2, JoinNoUp, EmptyNormal
<1>4. StartsWithSlash(Cwd) = TRUE
  BY LoaderAssumption DEF StartsWithSlash
<1>5. path_new(Cwd) = AbsPath(StackFrom(<<>>, Cwd))
  BY <1>4, NewPath DEF AbsPath
<1> QED
  BY <1>1, <1>3, <1>5

\* An argument of the command line leads where it leads from the working directory.
LEMMA ResolveIs ==
  ASSUME NEW s \in Text
  PROVE  /\ path_resolve(path_new(Cwd), s) \in AbsPaths
         /\ Place(path_string(path_resolve(path_new(Cwd), s)))
              = Place(IF StartsWithSlash(s) THEN s ELSE Cwd \o s)
<1>1. PICK st : NoUp(st) /\ st = StackFrom(<<>>, Cwd) /\ path_new(Cwd) = AbsPath(st)
  BY CwdIs
<1>2. st \in Text /\ Clean(st) /\ Normal(st) /\ Cwd \in Text
  BY <1>1, CwdIs DEF NoUp, Normal
<1>3. ASSUME NEW x, Normal(x)
      PROVE  /\ path_join(AbsPath(x), s) \in AbsPaths
             /\ Place(path_string(path_join(AbsPath(x), s))) = PlaceFrom(PlaceFrom(<<>>, x), s)
  <2>1. PICK y : y = StackFrom(x, s)
    OBVIOUS
  <2>2. path_join(AbsPath(x), s) = AbsPath(y)
    BY <2>1, JoinedPath DEF AbsPath
  <2>3. Normal(y)
    BY <1>3, <2>1, JoinNormal
  <2>4. y \in NormalStacks
    BY <2>3 DEF NormalStacks, Normal
  <2>5. path_join(AbsPath(x), s) \in AbsPaths /\ Place(path_string(path_join(AbsPath(x), s))) = PlaceFrom(<<>>, y)
    BY <2>2, <2>4, TextOfPath
  <2>6. PlaceFrom(<<>>, y) = PlaceFrom(PlaceFrom(<<>>, x), s)
    BY <1>3, <2>1, PlaceStack, EmptyNormal DEF Normal
  <2> QED
    BY <2>5, <2>6
<1>4. CASE StartsWithSlash(s)
  <2>1. path_resolve(path_new(Cwd), s) = path_join(AbsPath(<<>>), s)
    BY <1>4 DEF path_resolve, AbsPath
  <2>2. PlaceFrom(PlaceFrom(<<>>, <<>>), s) = Place(s)
    BY PlaceIs, EmptyNormal, PlaceFromRoot
  <2> QED
    BY <1>3, <1>4, <2>1, <2>2, EmptyNormal
<1>5. CASE ~StartsWithSlash(s)
  <2>1. path_resolve(path_new(Cwd), s) = path_join(AbsPath(st), s)
    BY <1>1, <1>5 DEF path_resolve
  <2>2. PlaceFrom(<<>>, st) = PlaceFrom(<<>>, Cwd)
    <3>1. PlaceFrom(<<>>, StackFrom(<<>>, Cwd)) = PlaceFrom(PlaceFrom(<<>>, <<>>), Cwd)
      BY <1>2, PlaceStack, EmptyNormal
    <3> QED
      BY <1>1, <3>1, PlaceIs, EmptyNormal
  <2>3. Place(Cwd \o s) = PlaceFrom(PlaceFrom(<<>>, Cwd), s)
    BY <1>2, PlaceConcat, EmptyNormal, PlaceFromRoot
  <2> QED
    BY <1>2, <1>3, <1>5, <2>1, <2>2, <2>3
<1> QED
  BY <1>4, <1>5

\* The front of a text.
LEMMA FrontIs ==
  ASSUME NEW x \in Text, NEW m \in Nat, m <= Len(x)
  PROVE  /\ SubSeq(x, 1, m) \in Text /\ Len(SubSeq(x, 1, m)) = m
         /\ \A i \in 1 .. m : SubSeq(x, 1, m)[i] = x[i]
<1>1. PICK N \in Nat : N = Len(x) /\ \A i \in 1 .. N : x[i] \in Segment
  BY DEF Text
<1>2. \A i \in 1 .. m : x[i] \in Segment
  BY <1>1
<1>3. /\ SubSeq(x, 1, m) \in Seq(Segment) /\ Len(SubSeq(x, 1, m)) = IF 1 <= m THEN m - 1 + 1 ELSE 0
      /\ \A i \in 1 .. m - 1 + 1 : SubSeq(x, 1, m)[i] = x[1 + i - 1]
  BY <1>2, SubSeqProperties
<1>4. m - 1 + 1 = m /\ (IF 1 <= m THEN m - 1 + 1 ELSE 0) = m /\ \A i \in 1 .. m : 1 + i - 1 = i
  OBVIOUS
<1> QED
  BY <1>3, <1>4 DEF Text

\* Texts with the same segments are the same.
LEMMA SameSegments ==
  ASSUME NEW x \in Text, NEW y \in Text, NEW m \in Nat, Len(x) = m, Len(y) = m,
         \A i \in 1 .. m : x[i] = y[i]
  PROVE  x = y
BY SeqEqual DEF Text

\* So many .. one after the other.
Ups(k) == [i \in 1 .. k |-> ".."]

\* .. and once more.
LEMMA MoreUps ==
  ASSUME NEW k \in Nat
  PROVE  /\ Ups(k) \in Text /\ Ups(0) = <<>> /\ Ups(k + 1) = Append(Ups(k), "..")
<1>1. ASSUME NEW j \in Nat PROVE Ups(j) \in Text /\ Len(Ups(j)) = j /\ \A i \in 1 .. j : Ups(j)[i] = ".."
  <2>1. Ups(j) \in [1 .. j -> Segment]
    BY OwnSegments DEF Ups
  <2> QED
    BY <2>1 DEF Ups, Text
<1>2. Ups(0) = <<>>
  BY <1>1 DEF Text
<1>3. PICK u \in Text : u = Ups(k) /\ Len(u) = k /\ \A i \in 1 .. k : u[i] = ".."
  BY <1>1
<1>4. PICK v \in Text : v = Ups(k + 1) /\ Len(v) = k + 1 /\ \A i \in 1 .. k + 1 : v[i] = ".."
  <2>1. k + 1 \in Nat
    OBVIOUS
  <2> QED
    BY <1>1, <2>1
<1>5. PICK w \in Text : /\ w = Append(u, "..") /\ Len(w) = k + 1 /\ w[k + 1] = ".."
                        /\ \A i \in 1 .. k : w[i] = u[i]
  <2>1. /\ Append(u, "..") \in Text /\ Len(Append(u, "..")) = Len(u) + 1
        /\ Append(u, "..")[Len(u) + 1] = ".."
        /\ \A i \in 1 .. Len(u) : Append(u, "..")[i] = u[i]
    BY AppendText, OwnSegments
  <2>2. Len(u) = k
    BY <1>3
  <2> QED
    BY ONLY <2>1, <2>2
<1>6. ASSUME NEW i \in 1 .. k + 1 PROVE v[i] = w[i]
  <2>1. i \in 1 .. k \/ i = k + 1
    OBVIOUS
  <2> QED
    BY <1>3, <1>4, <1>5, <2>1
<1>7. k + 1 \in Nat
  OBVIOUS
<1>8. v = w
  BY <1>4, <1>5, <1>6, <1>7, SameSegments
<1> QED
  BY <1>2, <1>3, <1>4, <1>5, <1>8

\* Each .. takes a segment away, as long as there are segments.
LEMMA PopUps ==
  ASSUME NEW c, NoUp(c), NEW N \in Nat, N = Len(c)
  PROVE  \A k \in 0 .. N : StackFrom(c, Ups(k)) = SubSeq(c, 1, N - k)
<1> DEFINE R == {k \in 0 .. N : StackFrom(c, Ups(k)) # SubSeq(c, 1, N - k)}
<1>1. SUFFICES ASSUME R # {} PROVE FALSE
  OBVIOUS
<1>2. R \subseteq Nat
  OBVIOUS
<1>3. PICK k \in R : \A j \in R : k <= j
  <2> HIDE DEF R
  <2> QED
    BY <1>1, <1>2, LeastElement
<1>4. k \in 0 .. N /\ StackFrom(c, Ups(k)) # SubSeq(c, 1, N - k)
  BY <1>3
<1>5. c \in Text
  BY DEF NoUp
<1>6. k # 0
  <2>1. SubSeq(c, 1, N) = c
    BY <1>5, SubSeqFull DEF Text
  <2>2. N - 0 = N /\ 0 \in Nat
    OBVIOUS
  <2>3. Ups(0) = <<>>
    BY <2>2, MoreUps
  <2>4. StackFrom(c, Ups(0)) = c
    BY <1>5, <2>3, StackIs
  <2> QED
    BY <1>4, <2>1, <2>2, <2>4
<1>7. PICK j \in Nat : k = j + 1 /\ j \in 0 .. N
  <2>1. k - 1 \in Nat /\ k = (k - 1) + 1 /\ k - 1 \in 0 .. N
    BY <1>4, <1>6
  <2> QED
    BY <2>1
<1>8. j \notin R
  <2> HIDE DEF R
  <2>1. ~ (k <= j)
    BY <1>7
  <2> QED
    BY <1>3, <2>1
<1>9. PICK m \in Nat : m = N - j /\ m >= 1 /\ m <= N /\ m - 1 = N - k
  <2>1. N - j \in Nat /\ N - j >= 1 /\ N - j <= N /\ (N - j) - 1 = N - k
    BY <1>4, <1>7
  <2> QED
    BY <2>1
<1>10. StackFrom(c, Ups(j)) = SubSeq(c, 1, m)
  BY <1>7, <1>8, <1>9
<1>11. PICK x \in Text : x = SubSeq(c, 1, m) /\ Len(x) = m /\ \A i \in 1 .. m : x[i] = c[i]
  BY <1>5, <1>9, FrontIs
<1>12. StackFrom(c, Ups(k)) = path_execute(x, "..")
  <2>1. Ups(j) \in Text /\ Ups(k) = Append(Ups(j), "..")
    BY <1>7, MoreUps
  <2>2. StackFrom(c, Append(Ups(j), "..")) = path_execute(StackFrom(c, Ups(j)), "..")
    BY <1>5, <2>1, StackIs, OwnSegments
  <2> QED
    BY <1>10, <1>11, <2>1, <2>2
<1>13. x # <<>> /\ x[Len(x)] # ".."
  <2>1. m \in 1 .. m /\ m \in DOMAIN c
    BY <1>5, <1>9 DEF Text
  <2>2. c[m] # ".."
    BY <2>1 DEF NoUp
  <2>3. x[m] # ".." /\ Len(x) = m
    BY <1>11, <2>1, <2>2
  <2>4. x # <<>>
    BY <1>9, <2>3
  <2> QED
    BY <2>3, <2>4
<1>14. path_execute(x, "..") = SubSeq(x, 1, m - 1)
  BY <1>11, <1>13, Zenon DEF path_execute
<1>15. SubSeq(x, 1, m - 1) = SubSeq(c, 1, m - 1)
  <2>1. m - 1 \in Nat /\ m - 1 <= m /\ m - 1 <= N /\ \A i \in 1 .. m - 1 : i \in 1 .. m
    BY <1>9
  <2>2. PICK y \in Text : y = SubSeq(x, 1, m - 1) /\ Len(y) = m - 1 /\ \A i \in 1 .. m - 1 : y[i] = x[i]
    BY <1>11, <2>1, FrontIs
  <2>3. PICK z \in Text : z = SubSeq(c, 1, m - 1) /\ Len(z) = m - 1 /\ \A i \in 1 .. m - 1 : z[i] = c[i]
    BY <1>5, <2>1, FrontIs
  <2>4. \A i \in 1 .. m - 1 : y[i] = z[i]
    BY <1>11, <2>1, <2>2, <2>3
  <2>5. y = z
    BY <2>1, <2>2, <2>3, <2>4, SameSegments
  <2> QED
    BY <2>2, <2>3, <2>5
<1> QED
  BY <1>4, <1>9, <1>12, <1>14, <1>15

\* The front that two stacks have in common.
LEMMA CommonFront ==
  ASSUME NEW c \in Text, NEW t \in Text
  PROVE  LET n == find_relative_index(AbsPath(c), AbsPath(t))
         IN  n \in 0 .. Len(c) /\ n <= Len(t) /\ \A j \in 1 .. n : c[j] = t[j]
<1> DEFINE same == {i \in 0 .. Len(c) : i <= Len(t) /\ \A j \in 1 .. i : c[j] = t[j]}
           n == CHOOSE i \in same : \A j \in same : j <= i
<1>1. PICK N \in Nat : N = Len(c)
  BY DEF Text
<1>2. Len(t) \in Nat
  BY DEF Text
<1>3. 0 \in same
  BY <1>1, <1>2
<1>4. same \subseteq 0 .. N
  BY <1>1
<1> DEFINE R == {N - i : i \in same}
<1> HIDE DEF same
<1>5. R \subseteq Nat /\ R # {}
  BY <1>3, <1>4
<1>6. PICK k \in R : \A j \in R : k <= j
  <2> HIDE DEF R
  <2> QED
    BY <1>5, LeastElement
<1>7. PICK i \in same : k = N - i
  BY <1>6
<1>8. \A j \in same : j <= i
  <2> SUFFICES ASSUME NEW j \in same PROVE j <= i
    OBVIOUS
  <2>1. N - j \in R
    OBVIOUS
  <2>2. N - i <= N - j
    <3> HIDE DEF R
    <3> QED
      BY <1>6, <1>7, <2>1
  <2>3. i \in 0 .. N /\ j \in 0 .. N
    BY <1>4
  <2> QED
    BY <1>1, <2>2, <2>3
<1>9. n \in same
  BY <1>7, <1>8
<1>10. find_relative_index(AbsPath(c), AbsPath(t)) = n
  BY DEF find_relative_index, AbsPath, same
<1> HIDE DEF n
<1> QED
  BY <1>9, <1>10 DEF same

\* The relative path leads to the file.
LEMMA RelativeIs ==
  ASSUME NEW p \in AbsPaths
  PROVE  path_join(path_new(Cwd), path_string(path_relative(path_new(Cwd), p))) = p
<1>1. PICK c : NoUp(c) /\ path_new(Cwd) = AbsPath(c)
  BY CwdIs
<1>2. PICK t \in NormalStacks : p = AbsPath(t)
  BY DEF AbsPaths
<1>3. c \in Text /\ t \in Text /\ Normal(t)
  BY <1>1, TextOfPath DEF NoUp
<1>4. PICK N \in Nat, M \in Nat : N = Len(c) /\ M = Len(t)
  BY <1>3 DEF Text
<1>5. PICK n \in Nat : /\ n = find_relative_index(AbsPath(c), AbsPath(t)) /\ n <= N /\ n <= M
                       /\ \A j \in 1 .. n : c[j] = t[j]
  BY <1>3, <1>4, CommonFront
<1>6. PICK rest \in Text : rest = SubSeq(t, n + 1, M)
  <2>1. n + 1 \in Int /\ M \in Int /\ \A i \in n + 1 .. M : i \in 1 .. M
    BY <1>5
  <2>2. \A i \in n + 1 .. M : t[i] \in Segment
    BY <1>3, <1>4, <2>1 DEF Text
  <2> QED
    BY <2>1, <2>2, SubSeqProperties DEF Text
<1>7. N - n \in Nat /\ N - n \in 0 .. N /\ N - (N - n) = n
  BY <1>5
<1>8. PICK ups \in Text : ups = Ups(N - n)
  BY <1>7, MoreUps
<1>9. path_string(path_relative(path_new(Cwd), p)) = ups \o rest
  <2>1. path_relative(AbsPath(c), AbsPath(t)).is_absolute = FALSE
    BY DEF path_relative
  <2>2. path_relative(AbsPath(c), AbsPath(t)).segment_stack = ups \o rest
    BY <1>4, <1>5, <1>6, <1>8 DEF path_relative, AbsPath, Ups
  <2>3. path_string(path_relative(AbsPath(c), AbsPath(t))) = <<>> \o (ups \o rest)
    BY <2>1, <2>2, Zenon DEF path_string
  <2>4. <<>> \o (ups \o rest) = ups \o rest
    BY ConcatText
  <2> QED
    BY <1>1, <1>2, <2>3, <2>4
<1>10. PICK front \in Text : front = SubSeq(t, 1, n) /\ Len(front) = n /\ \A i \in 1 .. n : front[i] = t[i]
  BY <1>3, <1>4, <1>5, FrontIs
<1>11. StackFrom(c, ups) = front
  <2>1. StackFrom(c, ups) = SubSeq(c, 1, n)
    <3>1. \A k \in 0 .. N : StackFrom(c, Ups(k)) = SubSeq(c, 1, N - k)
      BY <1>1, <1>4, PopUps
    <3> QED
      BY <1>7, <1>8, <3>1
  <2>2. PICK y \in Text : y = SubSeq(c, 1, n) /\ Len(y) = n /\ \A i \in 1 .. n : y[i] = c[i]
    BY <1>3, <1>4, <1>5, FrontIs
  <2>3. \A i \in 1 .. n : y[i] = front[i]
    BY <1>5, <1>10, <2>2
  <2>4. y = front
    BY <1>10, <2>2, <2>3, SameSegments
  <2> QED
    BY <2>1, <2>2, <2>4
<1>12. front \o rest = t
  <2>1. SubSeq(t, 1, n) \o SubSeq(t, n + 1, M) = SubSeq(t, 1, M)
    <3>1. 1 \in 1 .. M + 1 /\ n \in 1 - 1 .. M /\ M \in n .. M
      BY <1>5
    <3> QED
      BY <1>3, <1>4, <3>1, ConcatAdjacentSubSeq DEF Text
  <2>2. SubSeq(t, 1, M) = t
    BY <1>3, <1>4, SubSeqFull DEF Text
  <2> QED
    BY <1>6, <1>10, <2>1, <2>2
<1>13. Normal(front)
  <2>1. DOMAIN t = 1 .. M /\ DOMAIN front = 1 .. n
    BY <1>3, <1>4, <1>10 DEF Text
  <2>2. \A i \in 1 .. n : i \in 1 .. M /\ (i = 1 \/ i - 1 \in 1 .. n)
    BY <1>5
  <2> QED
    BY <1>3, <1>10, <2>1, <2>2 DEF Normal, Clean
<1>14. StackFrom(front, rest) = t
  <2>1. StackFrom(<<>>, front \o rest) = StackFrom(StackFrom(<<>>, front), rest)
    BY StackConcat, EmptyNormal
  <2>2. StackFrom(<<>>, front) = front /\ StackFrom(<<>>, t) = t
    BY <1>3, <1>13, StackSelf
  <2> QED
    BY <1>12, <2>1, <2>2
<1>15. StackFrom(c, ups \o rest) = t
  <2>1. StackFrom(c, ups \o rest) = StackFrom(StackFrom(c, ups), rest)
    BY <1>3, StackConcat
  <2> QED
    BY <1>11, <1>14, <2>1
<1> QED
  BY <1>1, <1>2, <1>9, <1>15, JoinedPath DEF AbsPath

----------------------------------------------------------------------------
(* Which files import which. *)

\* Imports and Needed, of the files d.
ImportsIn(d, place) ==
  {Place(place \o <<"..">> \o d[place][i].path) :
     i \in {j \in DOMAIN d[place] : d[place][j].kind = "import"}} \intersect DOMAIN d

NeededIn(d, place) ==
  LET f[i \in 0 .. Cardinality(DOMAIN d)] ==
        IF i = 0 THEN ImportsIn(d, place) ELSE f[i - 1] \union UNION {ImportsIn(d, q) : q \in f[i - 1]}
  IN  f[Cardinality(DOMAIN d)]

\* A set of files with all that they import.
Closed(d, S) == \A q \in S : ImportsIn(d, q) \subseteq S

\* They are those of the module.
LEMMA NeededOfProject ==
  ASSUME NEW place
  PROVE  Imports(place) = ImportsIn(project, place) /\ Needed(place) = NeededIn(project, place)
BY DEF Imports, ImportsIn, Needed, NeededIn

\* The rounds of Needed.
Rounds(d, place, N, f) ==
  /\ N = Cardinality(DOMAIN d) /\ f[0] = ImportsIn(d, place) /\ f[N] = NeededIn(d, place)
  /\ \A i \in 1 .. N : f[i] = f[i - 1] \union UNION {ImportsIn(d, q) : q \in f[i - 1]}

\* The files that a file needs are found in as many rounds as there are files.
LEMMA NeededTrace ==
  ASSUME NEW d, IsFiniteSet(DOMAIN d), NEW place
  PROVE  \E N \in Nat : \E f \in [0 .. N -> SUBSET DOMAIN d] : Rounds(d, place, N, f)
<1>1. PICK N \in Nat : N = Cardinality(DOMAIN d)
  BY FS_CardinalityType
<1> DEFINE S == SUBSET DOMAIN d
           more(X) == X \union UNION {ImportsIn(d, q) : q \in X}
           g == [z \in (1 .. N) \X S |-> more(z[2])]
           D == 0 .. N
           body(h) == [i \in D |-> IF i = 0 THEN ImportsIn(d, place) ELSE more(h[i - 1])]
           found == CHOOSE h : h = body(h)
<1>2. \A q : ImportsIn(d, q) \in S
  BY DEF ImportsIn
<1>3. \A X \in S : more(X) \in S
  BY <1>2
<1>4. NeededIn(d, place) = found[N]
  BY <1>1 DEF NeededIn
<1> HIDE DEF S, more
<1>5. g \in [(1 .. N) \X S -> S]
  BY <1>3
<1>6. \A i \in 1 .. N : \A y \in S : g[<<i, y>>] = more(y)
  OBVIOUS
<1> HIDE DEF g
<1>7. PICK f \in [0 .. N -> S] : Runs(f, N, g, ImportsIn(d, place))
  BY <1>2, <1>5, Recursion
<1>8. f[0] = ImportsIn(d, place) /\ \A i \in 1 .. N : i - 1 \in D /\ f[i] = more(f[i - 1])
  <2>1. \A i \in 1 .. N : i - 1 \in 0 .. N
    BY <1>1
  <2> QED
    BY <1>6, <1>7, <2>1 DEF Runs
<1>9. f = body(f)
  <2>1. \A i \in D : i = 0 \/ i \in 1 .. N
    BY <1>1
  <2>2. \A i \in D : f[i] = body(f)[i]
    BY <1>8, <2>1
  <2> QED
    BY <2>2
<1>10. found = body(found)
  <2> HIDE DEF body
  <2> QED
    BY <1>9
<1>11. PICK a : a = found
  OBVIOUS
<1> HIDE DEF found
<1>12. a[0] = ImportsIn(d, place) /\ \A i \in 1 .. N : a[i] = more(a[i - 1])
  <2>1. 0 \in D /\ \A i \in 1 .. N : i \in D /\ i # 0
    BY <1>1
  <2> QED
    BY <1>10, <1>11, <2>1
<1>13. \A i \in 0 .. N : f[i] = a[i]
  <2> HIDE DEF body
  <2>1. \A i \in 1 .. N : f[i - 1] = a[i - 1] => f[i] = a[i]
    BY <1>8, <1>12
  <2>2. Alike(f, a, N)
    BY <1>8, <1>12, <2>1 DEF Alike
  <2> QED
    BY <2>2, SameTrace
<1>14. f[N] = NeededIn(d, place)
  BY <1>1, <1>4, <1>11, <1>13
<1>15. Rounds(d, place, N, f)
  BY <1>1, <1>8, <1>14 DEF more, Rounds
<1>16. f \in [0 .. N -> SUBSET DOMAIN d]
  BY <1>7 DEF S
<1> QED
  BY <1>15, <1>16

\* It needs what it imports, and what these need; and nothing else.
LEMMA NeededIs ==
  ASSUME NEW d, IsFiniteSet(DOMAIN d), NEW place
  PROVE  /\ ImportsIn(d, place) \subseteq NeededIn(d, place)
         /\ Closed(d, NeededIn(d, place))
         /\ \A C : ImportsIn(d, place) \subseteq C /\ Closed(d, C) => NeededIn(d, place) \subseteq C
<1>0. PICK N \in Nat : \E f \in [0 .. N -> SUBSET DOMAIN d] : Rounds(d, place, N, f)
  BY NeededTrace, Zenon
<1>1. PICK f \in [0 .. N -> SUBSET DOMAIN d] :
        /\ N = Cardinality(DOMAIN d) /\ f[0] = ImportsIn(d, place) /\ f[N] = NeededIn(d, place)
        /\ \A i \in 1 .. N : f[i] = f[i - 1] \union UNION {ImportsIn(d, q) : q \in f[i - 1]}
  BY <1>0 DEF Rounds
<1>2. \A i \in 1 .. N : /\ i - 1 \in 0 .. N /\ f[i - 1] \subseteq f[i]
                        /\ \A q \in f[i - 1] : ImportsIn(d, q) \subseteq f[i]
                        /\ Closed(d, f[i - 1]) => f[i] = f[i - 1]
  <2>1. \A i \in 1 .. N : i - 1 \in 0 .. N
    OBVIOUS
  <2> TAKE i \in 1 .. N
  <2>2. f[i] = f[i - 1] \union UNION {ImportsIn(d, q) : q \in f[i - 1]}
    BY <1>1
  <2>3. Closed(d, f[i - 1]) => f[i] = f[i - 1]
    BY <2>2 DEF Closed
  <2> QED
    BY <2>1, <2>2, <2>3
<1>3. \A i \in 0 .. N : /\ f[i] \subseteq DOMAIN d /\ IsFiniteSet(f[i]) /\ Cardinality(f[i]) \in Nat
                        /\ Cardinality(f[i]) <= N
  <2> TAKE i \in 0 .. N
  <2>1. f[i] \subseteq DOMAIN d
    BY <1>1
  <2> QED
    BY <1>1, <2>1, FS_Subset, FS_CardinalityType
<1> DEFINE Good(i) == /\ ImportsIn(d, place) \subseteq f[i]
                      /\ Closed(d, f[i]) \/ Cardinality(f[i]) >= i + 1
                      /\ \A C : ImportsIn(d, place) \subseteq C /\ Closed(d, C) => f[i] \subseteq C
           R == {i \in 0 .. N : ~Good(i)}
<1>4. R = {}
  <2> SUFFICES ASSUME R # {} PROVE FALSE
    OBVIOUS
  <2>1. R \subseteq Nat
    OBVIOUS
  <2>2. PICK k \in R : \A j \in R : k <= j
    <3> HIDE DEF R
    <3> QED
      BY <2>1, LeastElement
  <2>3. k \in 0 .. N /\ ~Good(k)
    BY <2>2
  <2>4. k # 0
    <3> SUFFICES ASSUME k = 0 PROVE Good(0)
      BY <2>3
    <3>1. 0 \in 0 .. N /\ 0 + 1 = 1
      OBVIOUS
    <3>2. ASSUME f[0] = {} PROVE Closed(d, f[0])
      BY <3>2 DEF Closed
    <3>3. ASSUME f[0] # {} PROVE Cardinality(f[0]) >= 1
      <4>1. Cardinality(f[0]) # 0
        BY <1>3, <3>1, <3>3, FS_EmptySet
      <4> QED
        BY <1>3, <3>1, <4>1
    <3> QED
      BY <1>1, <3>1, <3>2, <3>3
  <2>5. k - 1 \in 0 .. N /\ k \in 1 .. N /\ ~ (k <= k - 1) /\ (k - 1) + 1 = k
    BY <2>3, <2>4
  <2>6. Good(k - 1)
    <3>1. k - 1 \notin R
      <4> HIDE DEF R
      <4> QED
        BY <2>2, <2>5
    <3> QED
      BY <2>5, <3>1
  <2>7. ImportsIn(d, place) \subseteq f[k]
    BY <1>2, <2>5, <2>6
  <2>8. \A C : ImportsIn(d, place) \subseteq C /\ Closed(d, C) => f[k] \subseteq C
    <3> SUFFICES ASSUME NEW C, ImportsIn(d, place) \subseteq C, Closed(d, C) PROVE f[k] \subseteq C
      OBVIOUS
    <3>1. f[k - 1] \subseteq C
      BY <2>6
    <3>2. f[k] = f[k - 1] \union UNION {ImportsIn(d, q) : q \in f[k - 1]}
      BY <1>1, <2>5
    <3> QED
      BY <3>1, <3>2 DEF Closed
  <2>9. Closed(d, f[k]) \/ Cardinality(f[k]) >= k + 1
    <3>1. CASE f[k] = f[k - 1]
      <4>1. Closed(d, f[k - 1])
        BY <1>2, <2>5, <3>1 DEF Closed
      <4> QED
        BY <3>1, <4>1
    <3>2. CASE f[k] # f[k - 1]
      <4>1. Cardinality(f[k - 1]) >= k
        BY <1>2, <2>5, <2>6, <3>2
      <4>2. Cardinality(f[k - 1]) < Cardinality(f[k])
        <5>1. f[k - 1] \subseteq f[k] /\ IsFiniteSet(f[k])
          BY <1>2, <1>3, <2>3, <2>5
        <5>2. Cardinality(f[k - 1]) <= Cardinality(f[k]) /\ Cardinality(f[k - 1]) # Cardinality(f[k])
          BY <3>2, <5>1, FS_Subset
        <5> QED
          BY <1>3, <2>3, <2>5, <5>2
      <4> QED
        BY <1>3, <2>3, <2>5, <4>1, <4>2
    <3> QED
      BY <3>1, <3>2
  <2> QED
    BY <2>3, <2>7, <2>8, <2>9
<1>5. N \in 0 .. N /\ N \notin R
  BY <1>4
<1>6. Good(N)
  <2> HIDE DEF Good
  <2> QED
    BY <1>5
<1>7. Closed(d, f[N])
  BY <1>3, <1>5, <1>6
<1> QED
  BY <1>1, <1>6, <1>7

\* A file that needs itself.
CyclicIn(d, place) == place \in NeededIn(d, place)

\* A file in a circle imports a file in a circle.
LEMMA CyclicImport ==
  ASSUME NEW d, IsFiniteSet(DOMAIN d), NEW place, CyclicIn(d, place)
  PROVE  \E q \in ImportsIn(d, place) : CyclicIn(d, q)
<1> DEFINE C == {x \in DOMAIN d : \E q \in ImportsIn(d, place) : x = q \/ x \in NeededIn(d, q)}
<1>1. ImportsIn(d, place) \subseteq C
  BY DEF ImportsIn
<1>2. Closed(d, C)
  <2> SUFFICES ASSUME NEW x \in C, NEW y \in ImportsIn(d, x) PROVE y \in C
    BY DEF Closed
  <2>1. PICK q \in ImportsIn(d, place) : x = q \/ x \in NeededIn(d, q)
    OBVIOUS
  <2>2. y \in NeededIn(d, q)
    BY <2>1, NeededIs DEF Closed
  <2>3. y \in DOMAIN d
    BY DEF ImportsIn
  <2> QED
    BY <2>1, <2>2, <2>3
<1>3. place \in C
  <2> HIDE DEF C
  <2> QED
    BY <1>1, <1>2, NeededIs DEF CyclicIn
<1>4. PICK q \in ImportsIn(d, place) : place = q \/ place \in NeededIn(d, q)
  BY <1>3
<1>5. CASE place = q
  BY <1>4, <1>5
<1>6. CASE place \in NeededIn(d, q)
  <2>1. q \in NeededIn(d, q)
    BY <1>4, <1>6, NeededIs DEF Closed
  <2> QED
    BY <1>4, <2>1 DEF CyclicIn
<1> QED
  BY <1>4, <1>5, <1>6

\* The last file of a chain of imports is needed by those before it.
LEMMA ChainNeeded ==
  ASSUME NEW d, IsFiniteSet(DOMAIN d), NEW N \in Nat, NEW f,
         \A i \in 1 .. N - 1 : f[i + 1] \in ImportsIn(d, f[i]),
         NEW i \in 1 .. N, NEW j \in 1 .. N, i < j
  PROVE  f[j] \in NeededIn(d, f[i])
<1> DEFINE R == {k \in 1 .. N : i < k /\ f[k] \notin NeededIn(d, f[i])}
<1>1. SUFFICES ASSUME R # {} PROVE FALSE
  OBVIOUS
<1>2. R \subseteq Nat
  OBVIOUS
<1>3. PICK k \in R : \A l \in R : k <= l
  <2> HIDE DEF R
  <2> QED
    BY <1>1, <1>2, LeastElement
<1>4. k \in 1 .. N /\ i < k /\ f[k] \notin NeededIn(d, f[i])
  BY <1>3
<1>5. PICK l \in 1 .. N - 1 : k = l + 1 /\ l \in 1 .. N /\ ~ (k <= l) /\ (i = l \/ i < l)
  <2>1. k - 1 \in 1 .. N - 1 /\ k = (k - 1) + 1 /\ k - 1 \in 1 .. N /\ ~ (k <= k - 1) /\ (i = k - 1 \/ i < k - 1)
    BY <1>4
  <2> QED
    BY <2>1
<1>6. f[k] \in ImportsIn(d, f[l])
  BY <1>5
<1>7. l \notin R
  <2> HIDE DEF R
  <2> QED
    BY <1>3, <1>5
<1>8. CASE i = l
  BY <1>4, <1>6, <1>8, NeededIs
<1>9. CASE i < l
  <2>1. f[l] \in NeededIn(d, f[i])
    BY <1>5, <1>7, <1>9
  <2> QED
    BY <1>4, <1>6, <2>1, NeededIs DEF Closed
<1> QED
  BY <1>5, <1>8, <1>9
----------------------------------------------------------------------------
(* The invariant: of the files d, the calls c, the modules m and the cache g. *)

\* The place of a module, its statements, its key in the cache.
PlaceIn(m, k) == Place(path_string(m[k].path))
CodeIn(d, m, k) == d[PlaceIn(m, k)]
KeyIn(m, k) == path_string(m[k].path)
\* The path that an import statement of a module looks for, and its key.
PathOf(m, k, s) == JoinPath(m[k].path, s.path)
ImportKey(m, k, s) == path_string(PathOf(m, k, s))
IsImport(d, m, k, n) == n \in DOMAIN CodeIn(d, m, k) /\ CodeIn(d, m, k)[n].kind = "import"

\* An import of a module was executed: it has the values of the names.
HasName(m, k, l, name) ==
  /\ name \in DOMAIN m[k].value_hash /\ name \in DOMAIN m[l].value_hash
  /\ m[k].value_hash[name] = m[l].value_hash[name]
Taken(m, g, k, s) ==
  /\ ImportKey(m, k, s) \in DOMAIN g
  /\ \A j \in DOMAIN s.names : HasName(m, k, g[ImportKey(m, k, s)], s.names[j])
\* All imports of a module before its statement n were executed.
Done(d, m, g, k, n) == \A i \in 1 .. n - 1 : IsImport(d, m, k, i) => Taken(m, g, k, CodeIn(d, m, k)[i])

\* Each call but the last is at the import that made the next.
Chained(d, c, m) ==
  \A i \in DOMAIN c : i + 1 \in DOMAIN c =>
    /\ IsImport(d, m, c[i].mod, c[i].at)
    /\ PathOf(m, c[i].mod, CodeIn(d, m, c[i].mod)[c[i].at]) = m[c[i + 1].mod].path
\* What is being loaded is not kept.
NotKept(c, m, g) == \A i \in DOMAIN c : KeyIn(m, c[i].mod) \notin DOMAIN g
\* Each call has done what is before its statement.
CallsDone(d, c, m, g) == \A i \in DOMAIN c : Done(d, m, g, c[i].mod, c[i].at)
\* The cache has modules that are complete, under their keys, and in no circle.
CacheGood(d, m, g) ==
  \A key \in DOMAIN g :
    /\ g[key] \in DOMAIN m /\ KeyIn(m, g[key]) = key
    /\ Done(d, m, g, g[key], Len(CodeIn(d, m, g[key])) + 1)
    /\ ~CyclicIn(d, PlaceIn(m, g[key]))
\* A module is kept or is being loaded.
AllThere(c, m, g) == \A k \in DOMAIN m : KeyIn(m, k) \in DOMAIN g \/ \E i \in DOMAIN c : c[i].mod = k
\* Two modules from one place.
Once(d, m) ==
  \A k, l \in DOMAIN m :
    PlaceIn(m, k) = PlaceIn(m, l) /\ k # l =>
      \/ CyclicIn(d, PlaceIn(m, k))
      \/ ".." \in Elements(m[k].path.segment_stack) \/ ".." \in Elements(m[l].path.segment_stack)

\* Types: modules, calls, and where they are.
Names == STRING
NameValues == Nat \X Names
Tables == UNION {[S -> NameValues] : S \in SUBSET Names}
ModuleRecs == [path : AbsPaths, place : Text, value_hash : Tables]
CallRecs == [mod : Nat, at : Nat]
TypesGood(d, c, m) ==
  /\ m \in Seq(ModuleRecs) /\ c \in Seq(CallRecs)
  /\ \A k \in DOMAIN m : PlaceIn(m, k) \in DOMAIN d /\ PlaceIn(m, k) = m[k].place
  /\ \A i \in DOMAIN c : /\ c[i].mod \in DOMAIN m
                         /\ c[i].at \in 1 .. Len(CodeIn(d, m, c[i].mod)) + 1

Good(d, c, m, g) ==
  /\ d \in Projects /\ TypesGood(d, c, m) /\ Chained(d, c, m) /\ NotKept(c, m, g)
  /\ CallsDone(d, c, m, g) /\ CacheGood(d, m, g) /\ AllThere(c, m, g) /\ Once(d, m)

\* A module of m is in m2, with the names it has.
Grown(m, m2) ==
  \A k \in DOMAIN m :
    /\ k \in DOMAIN m2 /\ m2[k].path = m[k].path /\ m2[k].place = m[k].place
    /\ \A x \in DOMAIN m[k].value_hash : /\ x \in DOMAIN m2[k].value_hash
                                         /\ m2[k].value_hash[x] = m[k].value_hash[x]
\* The cache g2 has what g has.
Cached(g, g2) == \A key \in DOMAIN g : key \in DOMAIN g2 /\ g2[key] = g[key]

\* A module keeps its place and its key.
LEMMA GrownPlace ==
  ASSUME NEW m, NEW m2, Grown(m, m2), NEW k \in DOMAIN m
  PROVE  PlaceIn(m2, k) = PlaceIn(m, k) /\ KeyIn(m2, k) = KeyIn(m, k)
BY DEF Grown, PlaceIn, KeyIn

\* A module keeps its statements.
LEMMA GrownCode ==
  ASSUME NEW d, NEW m, NEW m2, Grown(m, m2), NEW k \in DOMAIN m
  PROVE  CodeIn(d, m2, k) = CodeIn(d, m, k)
BY GrownPlace DEF CodeIn

\* A module keeps what its imports look for.
LEMMA GrownPath ==
  ASSUME NEW m, NEW m2, Grown(m, m2), NEW k \in DOMAIN m, NEW s
  PROVE  PathOf(m2, k, s) = PathOf(m, k, s) /\ ImportKey(m2, k, s) = ImportKey(m, k, s)
BY DEF Grown, PathOf, ImportKey

\* The statement n of the module k is an import that looks for p.
Link(d, m, k, n, p) == IsImport(d, m, k, n) /\ PathOf(m, k, CodeIn(d, m, k)[n]) = p

\* A module keeps its imports.
LEMMA LinkStays ==
  ASSUME NEW d, NEW m, NEW m2, Grown(m, m2), NEW k \in DOMAIN m, NEW n, NEW p, Link(d, m, k, n, p)
  PROVE  Link(d, m2, k, n, p)
<1>1. CodeIn(d, m2, k) = CodeIn(d, m, k)
  BY GrownCode
<1>2. PathOf(m2, k, CodeIn(d, m, k)[n]) = PathOf(m, k, CodeIn(d, m, k)[n])
  BY GrownPath
<1> QED
  BY <1>1, <1>2 DEF Link, IsImport

\* What was done stays done.
LEMMA DoneStays ==
  ASSUME NEW d, NEW m, NEW m2, NEW g, NEW g2, Grown(m, m2), Cached(g, g2),
         \A key \in DOMAIN g : g[key] \in DOMAIN m,
         NEW k \in DOMAIN m, NEW n, Done(d, m, g, k, n)
  PROVE  Done(d, m2, g2, k, n)
<1> SUFFICES ASSUME NEW i \in 1 .. n - 1, IsImport(d, m2, k, i)
             PROVE  Taken(m2, g2, k, CodeIn(d, m2, k)[i])
  BY DEF Done
<1>1. CodeIn(d, m2, k) = CodeIn(d, m, k) /\ IsImport(d, m, k, i)
  BY GrownCode DEF IsImport
<1>2. PICK s : s = CodeIn(d, m, k)[i]
  OBVIOUS
<1>3. Taken(m, g, k, s)
  BY <1>1, <1>2 DEF Done
<1>4. ImportKey(m2, k, s) = ImportKey(m, k, s)
  BY GrownPath
<1>5. PICK key \in DOMAIN g : key = ImportKey(m, k, s)
  BY <1>3 DEF Taken
<1>6. PICK l \in DOMAIN m : l = g[key] /\ l = g2[key] /\ key \in DOMAIN g2
  BY DEF Cached
<1>7. ASSUME NEW j \in DOMAIN s.names PROVE HasName(m2, k, l, s.names[j])
  <2>1. HasName(m, k, l, s.names[j])
    BY <1>3, <1>5, <1>6 DEF Taken
  <2> QED
    BY <2>1 DEF HasName, Grown
<1>8. Taken(m2, g2, k, s)
  BY <1>4, <1>5, <1>6, <1>7 DEF Taken
<1> QED
  BY <1>1, <1>2, <1>8

\* The files.
LEMMA FilesAre ==
  ASSUME NEW d \in Projects
  PROVE  /\ IsFiniteSet(DOMAIN d) /\ Cardinality(DOMAIN d) \in Nat /\ Cardinality(DOMAIN d) <= MaxDepth
         /\ \A p \in DOMAIN d : Len(d[p]) \in Nat /\ DOMAIN d[p] = 1 .. Len(d[p])
         /\ \A p \in DOMAIN d : \A i \in DOMAIN d[p] :
              /\ d[p][i].kind = "import" => d[p][i].path \in Text /\ d[p][i].names \in Seq(Names)
              /\ d[p][i].kind = "define" => d[p][i].name \in Names
<1>1. d \in [DOMAIN d -> Seq(FileStatements)] /\ IsFiniteSet(DOMAIN d) /\ Cardinality(DOMAIN d) <= MaxDepth
  BY FilesAssumption
<1>2. Cardinality(DOMAIN d) \in Nat
  BY <1>1, FS_CardinalityType
<1>3. \A p \in DOMAIN d : d[p] \in Seq(FileStatements)
  BY <1>1
<1>4. \A p \in DOMAIN d : Len(d[p]) \in Nat /\ DOMAIN d[p] = 1 .. Len(d[p])
  BY <1>3
<1>5. ASSUME NEW p \in DOMAIN d, NEW i \in DOMAIN d[p]
      PROVE  /\ d[p][i].kind = "import" => d[p][i].path \in Text /\ d[p][i].names \in Seq(Names)
             /\ d[p][i].kind = "define" => d[p][i].name \in Names
  <2>1. d[p][i] \in FileStatements
    BY <1>3, <1>4
  <2>2. PICK s \in FileStatements : s = d[p][i]
    BY <2>1
  <2>3. CASE s \in [kind : {"define"}, name : STRING]
    BY <2>2, <2>3 DEF Names
  <2>4. CASE s \in [kind : {"import"}, names : Seq(STRING), path : Seq(STRING)]
    <3>1. s.kind = "import" /\ s.names \in Seq(STRING) /\ s.path \in Seq(STRING)
      BY <2>4
    <3>2. STRING \subseteq Segment
      BY DEF Segment
    <3>3. s.path \in Text
      BY <3>1, <3>2, SeqMonotonic DEF Text
    <3> QED
      BY <2>2, <3>1, <3>3 DEF Names
  <2> QED
    BY <2>3, <2>4 DEF FileStatements
<1> QED
  BY <1>1, <1>2, <1>4, <1>5

\* An import leads to a file that the module imports, if there is one.
LEMMA ImportLeads ==
  ASSUME NEW d \in Projects, NEW c, NEW m, TypesGood(d, c, m), NEW k \in DOMAIN m, NEW n, IsImport(d, m, k, n)
  PROVE  LET s == CodeIn(d, m, k)[n]
             q == Place(path_string(PathOf(m, k, s)))
         IN  /\ PathOf(m, k, s) \in AbsPaths
             /\ q = Place(path_string(m[k].path) \o <<"..">> \o s.path)
             /\ q \in DOMAIN d => q \in ImportsIn(d, PlaceIn(m, k))
<1>1. PICK p \in AbsPaths : p = m[k].path
  <2>1. m[k] \in ModuleRecs
    BY DEF TypesGood
  <2> QED
    BY <2>1 DEF ModuleRecs
<1>2. PICK o \in DOMAIN d : o = PlaceIn(m, k) /\ o = Place(path_string(p))
  BY <1>1 DEF TypesGood, PlaceIn
<1>3. n \in DOMAIN d[o] /\ d[o][n].kind = "import" /\ CodeIn(d, m, k) = d[o]
  BY <1>2 DEF IsImport, CodeIn
<1>4. PICK s : s = d[o][n]
  OBVIOUS
<1>5. s.path \in Text
  BY <1>3, <1>4, FilesAre
<1>6. /\ JoinPath(p, s.path) \in AbsPaths
      /\ Place(path_string(JoinPath(p, s.path))) = Place(path_string(p) \o <<"..">> \o s.path)
      /\ Place(path_string(JoinPath(p, s.path))) = Place(Place(path_string(p)) \o <<"..">> \o s.path)
  BY <1>5, JoinIs
<1>7. PathOf(m, k, s) = JoinPath(p, s.path)
  BY <1>1 DEF PathOf
<1>8. PICK q : q = Place(path_string(PathOf(m, k, s)))
  OBVIOUS
<1>9. ASSUME q \in DOMAIN d PROVE q \in ImportsIn(d, o)
  <2>1. q = Place(o \o <<"..">> \o d[o][n].path)
    BY <1>2, <1>4, <1>6, <1>7, <1>8
  <2> QED
    BY <1>3, <1>9, <2>1 DEF ImportsIn
<1> QED
  BY <1>1, <1>2, <1>3, <1>4, <1>6, <1>7, <1>8, <1>9

\* All that a file imports is where one of its imports leads.
LEMMA ImportedBy ==
  ASSUME NEW d \in Projects, NEW c, NEW m, TypesGood(d, c, m), NEW k \in DOMAIN m,
         NEW q \in ImportsIn(d, PlaceIn(m, k))
  PROVE  \E n : IsImport(d, m, k, n) /\ q = Place(path_string(PathOf(m, k, CodeIn(d, m, k)[n])))
<1>1. PICK p \in AbsPaths : p = m[k].path
  <2>1. m[k] \in ModuleRecs
    BY DEF TypesGood
  <2> QED
    BY <2>1 DEF ModuleRecs
<1>2. PICK o \in DOMAIN d : o = PlaceIn(m, k) /\ o = Place(path_string(p)) /\ CodeIn(d, m, k) = d[o]
  BY <1>1 DEF TypesGood, PlaceIn, CodeIn
<1>3. PICK n \in DOMAIN d[o] : d[o][n].kind = "import" /\ q = Place(o \o <<"..">> \o d[o][n].path)
  BY <1>2 DEF ImportsIn
<1>4. d[o][n].path \in Text
  BY <1>3, FilesAre
<1>5. Place(path_string(JoinPath(p, d[o][n].path))) = Place(Place(path_string(p)) \o <<"..">> \o d[o][n].path)
  BY <1>4, JoinIs
<1>6. IsImport(d, m, k, n)
  BY <1>2, <1>3 DEF IsImport
<1>7. PathOf(m, k, CodeIn(d, m, k)[n]) = JoinPath(p, d[o][n].path)
  BY <1>1, <1>2 DEF PathOf
<1> QED
  BY <1>2, <1>3, <1>5, <1>6, <1>7


\* Each call loads a file that the call before it imports.
LEMMA CallChain ==
  ASSUME NEW d \in Projects, NEW c, NEW m, TypesGood(d, c, m), Chained(d, c, m),
         NEW i \in DOMAIN c, i + 1 \in DOMAIN c
  PROVE  PlaceIn(m, c[i + 1].mod) \in ImportsIn(d, PlaceIn(m, c[i].mod))
<1>1. PICK k \in DOMAIN m : k = c[i].mod
  BY DEF TypesGood
<1>2. PICK l \in DOMAIN m : l = c[i + 1].mod
  BY DEF TypesGood
<1>3. PICK n : n = c[i].at
  OBVIOUS
<1>4. IsImport(d, m, k, n) /\ PathOf(m, k, CodeIn(d, m, k)[n]) = m[l].path
  BY <1>1, <1>2, <1>3 DEF Chained
<1>5. Place(path_string(PathOf(m, k, CodeIn(d, m, k)[n]))) = PlaceIn(m, l) /\ PlaceIn(m, l) \in DOMAIN d
  BY <1>4 DEF TypesGood, PlaceIn
<1> QED
  BY <1>1, <1>2, <1>4, <1>5, ImportLeads

\* A file that is loaded while it is being loaded is in a circle; and so many
\* files at once, too.
LEMMA LoadCyclic ==
  ASSUME NEW d \in Projects, NEW c, NEW m, TypesGood(d, c, m), Chained(d, c, m),
         NEW N \in Nat, N = Len(c), NEW q \in DOMAIN d,
         N # 0 => q \in ImportsIn(d, PlaceIn(m, c[N].mod))
  PROVE  /\ \A i \in DOMAIN c : PlaceIn(m, c[i].mod) = q => CyclicIn(d, q)
         /\ N = MaxDepth => \E i \in DOMAIN c : CyclicIn(d, PlaceIn(m, c[i].mod))
<1>1. DOMAIN c = 1 .. N
  BY DEF TypesGood
<1> DEFINE f == [i \in 1 .. N + 1 |-> IF i = N + 1 THEN q ELSE PlaceIn(m, c[i].mod)]
<1>2. f[N + 1] = q /\ \A i \in 1 .. N : f[i] = PlaceIn(m, c[i].mod)
  OBVIOUS
<1>3. f \in [1 .. N + 1 -> DOMAIN d]
  <2>1. \A i \in 1 .. N + 1 : i = N + 1 \/ i \in DOMAIN c
    BY <1>1
  <2> QED
    BY <2>1 DEF TypesGood
<1> HIDE DEF f
<1>4. ASSUME NEW i \in 1 .. (N + 1) - 1 PROVE f[i + 1] \in ImportsIn(d, f[i])
  <2>1. i \in 1 .. N /\ (i = N \/ i + 1 \in 1 .. N) /\ (i = N => N # 0)
    OBVIOUS
  <2>2. CASE i = N
    BY <1>2, <2>1, <2>2
  <2>3. CASE i + 1 \in 1 .. N
    <3>1. PlaceIn(m, c[i + 1].mod) \in ImportsIn(d, PlaceIn(m, c[i].mod))
      BY <1>1, <2>1, <2>3, CallChain
    <3> QED
      BY <1>2, <2>1, <2>3, <3>1
  <2> QED
    BY <2>1, <2>2, <2>3
<1>5. IsFiniteSet(DOMAIN d) /\ Cardinality(DOMAIN d) \in Nat /\ Cardinality(DOMAIN d) <= MaxDepth
  BY FilesAre
<1>6. ASSUME NEW i \in 1 .. N + 1, NEW j \in 1 .. N + 1, i < j, f[i] = f[j]
      PROVE  CyclicIn(d, f[i]) /\ i \in 1 .. N
  <2>1. N + 1 \in Nat /\ i \in 1 .. N
    BY <1>6
  <2>2. f[j] \in NeededIn(d, f[i])
    BY <1>4, <1>5, <1>6, <2>1, ChainNeeded
  <2> QED
    BY <1>6, <2>1, <2>2 DEF CyclicIn
<1>7. ASSUME NEW i \in DOMAIN c, PlaceIn(m, c[i].mod) = q PROVE CyclicIn(d, q)
  <2>1. i \in 1 .. N + 1 /\ N + 1 \in 1 .. N + 1 /\ i < N + 1 /\ i \in 1 .. N
    BY <1>1
  <2> QED
    BY <1>2, <1>6, <1>7, <2>1
<1>8. ASSUME N = MaxDepth PROVE \E i \in DOMAIN c : CyclicIn(d, PlaceIn(m, c[i].mod))
  <2>1. IsFiniteSet(1 .. N + 1) /\ Cardinality(1 .. N + 1) = N + 1
    <3>1. 1 \in Int /\ N + 1 \in Int /\ 1 <= N + 1 /\ (N + 1) - 1 + 1 = N + 1
      OBVIOUS
    <3> QED
      BY <3>1, FS_Interval
  <2>2. Cardinality(DOMAIN d) < Cardinality(1 .. N + 1)
    BY <1>5, <1>8, <2>1
  <2>3. PICK i \in 1 .. N + 1, j \in 1 .. N + 1 : i # j /\ f[i] = f[j]
    BY <1>3, <1>5, <2>1, <2>2, FS_PigeonHole
  <2>4. i < j \/ j < i
    BY <2>3
  <2> QED
    BY <1>1, <1>2, <1>6, <2>3, <2>4
<1> QED
  BY <1>7, <1>8

----------------------------------------------------------------------------
(* The steps keep the invariant. *)

\* One more element.
LEMMA OneMore ==
  ASSUME NEW S, NEW s \in Seq(S), NEW a \in S, NEW N \in Nat, N = Len(s)
  PROVE  /\ Append(s, a) \in Seq(S) /\ Len(Append(s, a)) = N + 1 /\ DOMAIN Append(s, a) = 1 .. N + 1
         /\ Append(s, a)[N + 1] = a /\ DOMAIN s = 1 .. N
         /\ \A i \in 1 .. N : Append(s, a)[i] = s[i]
<1>1. Append(s, a) \in Seq(S) /\ Len(Append(s, a)) = N + 1
  BY AppendProperties
<1>2. Append(s, a)[N + 1] = a
  BY AppendProperties
<1>3. \A i \in 1 .. N : Append(s, a)[i] = s[i]
  BY AppendProperties
<1>4. DOMAIN Append(s, a) = 1 .. N + 1 /\ DOMAIN s = 1 .. N
  BY <1>1
<1> QED
  BY <1>1, <1>2, <1>3, <1>4

\* load_mod starts to load a file.
LEMMA LoadKeeps ==
  ASSUME NEW d, NEW c, NEW m, NEW g, Good(d, c, m, g),
         NEW p \in AbsPaths, path_string(p) \notin DOMAIN g, Place(path_string(p)) \in DOMAIN d,
         NEW h \in Tables, NEW N \in Nat, N = Len(c),
         N # 0 => /\ IsImport(d, m, c[N].mod, c[N].at)
                  /\ PathOf(m, c[N].mod, CodeIn(d, m, c[N].mod)[c[N].at]) = p,
         NEW m2, m2 = Append(m, [path |-> p, place |-> Place(path_string(p)), value_hash |-> h]),
         NEW c2, c2 = Append(c, [mod |-> Len(m) + 1, at |-> 1])
  PROVE  Good(d, c2, m2, g)
<1>1. d \in Projects /\ TypesGood(d, c, m) /\ m \in Seq(ModuleRecs) /\ c \in Seq(CallRecs)
  BY DEF Good, TypesGood
<1>2. PICK M \in Nat : M = Len(m)
  BY <1>1
<1>3. PICK r \in ModuleRecs : r = [path |-> p, place |-> Place(path_string(p)), value_hash |-> h]
  <2>1. Place(path_string(p)) \in Text
    BY PlaceOfPath
  <2> QED
    BY <2>1 DEF ModuleRecs
<1>4. PICK e \in CallRecs : e = [mod |-> M + 1, at |-> 1]
  <2>1. PICK k \in Nat, n \in Nat : k = M + 1 /\ n = 1
    OBVIOUS
  <2>2. [mod |-> k, at |-> n] \in CallRecs
    BY DEF CallRecs
  <2> QED
    BY <2>1, <2>2
<1>5. /\ m2 \in Seq(ModuleRecs) /\ DOMAIN m2 = 1 .. M + 1 /\ m2[M + 1] = r /\ DOMAIN m = 1 .. M
      /\ \A k \in 1 .. M : m2[k] = m[k]
  BY <1>1, <1>2, <1>3, OneMore
<1>6. /\ c2 \in Seq(CallRecs) /\ DOMAIN c2 = 1 .. N + 1 /\ c2[N + 1] = e /\ DOMAIN c = 1 .. N
      /\ \A i \in 1 .. N : c2[i] = c[i]
  BY <1>1, <1>2, <1>4, OneMore
<1>7. \A k : k \in DOMAIN m2 <=> k \in DOMAIN m \/ k = M + 1
  BY <1>5
<1>8. \A i : i \in DOMAIN c2 <=> i \in DOMAIN c \/ i = N + 1
  BY <1>6
<1>9. Grown(m, m2) /\ Cached(g, g)
  BY <1>5, <1>7 DEF Grown, Cached
<1>10. m2[M + 1].path = p /\ m2[M + 1].place = Place(path_string(p)) /\ e.mod = M + 1 /\ e.at = 1
  BY <1>3, <1>4, <1>5
<1>11. PlaceIn(m2, M + 1) = Place(path_string(p)) /\ KeyIn(m2, M + 1) = path_string(p)
  BY <1>10 DEF PlaceIn, KeyIn
<1>12. \A i \in DOMAIN c : c2[i] = c[i] /\ c[i].mod \in DOMAIN m
  BY <1>1, <1>6 DEF TypesGood
<1>13. \A key \in DOMAIN g : g[key] \in DOMAIN m
  BY DEF Good, CacheGood
<1>14. TypesGood(d, c2, m2)
  <2>1. ASSUME NEW k \in DOMAIN m2 PROVE PlaceIn(m2, k) \in DOMAIN d /\ PlaceIn(m2, k) = m2[k].place
    <3>1. CASE k \in DOMAIN m
      <4>1. PlaceIn(m2, k) = PlaceIn(m, k)
        BY <1>9, <3>1, GrownPlace
      <4>2. m2[k].place = m[k].place
        BY <1>9, <3>1 DEF Grown
      <4> QED
        BY <1>1, <3>1, <4>1, <4>2 DEF TypesGood
    <3>2. CASE k = M + 1
      BY <1>10, <1>11, <3>2
    <3> QED
      BY <1>7, <3>1, <3>2
  <2>2. ASSUME NEW i \in DOMAIN c2
        PROVE  c2[i].mod \in DOMAIN m2 /\ c2[i].at \in 1 .. Len(CodeIn(d, m2, c2[i].mod)) + 1
    <3>1. CASE i \in DOMAIN c
      <4>1. PICK k \in DOMAIN m : k = c[i].mod /\ c2[i] = c[i]
        BY <1>12, <3>1
      <4>2. CodeIn(d, m2, k) = CodeIn(d, m, k) /\ k \in DOMAIN m2
        BY <1>7, <1>9, GrownCode
      <4>3. c[i].at \in 1 .. Len(CodeIn(d, m, k)) + 1
        BY <1>1, <3>1, <4>1 DEF TypesGood
      <4> QED
        BY <4>1, <4>2, <4>3
    <3>2. CASE i = N + 1
      <4>1. c2[i].mod = M + 1 /\ c2[i].at = 1 /\ M + 1 \in DOMAIN m2
        BY <1>6, <1>7, <1>10, <3>2
      <4>2. PlaceIn(m2, M + 1) \in DOMAIN d
        BY <1>11
      <4>3. Len(CodeIn(d, m2, M + 1)) \in Nat
        BY <1>1, <4>2, FilesAre DEF CodeIn
      <4> QED
        BY <4>1, <4>3
    <3> QED
      BY <1>8, <3>1, <3>2
  <2> QED
    BY <1>5, <1>6, <2>1, <2>2 DEF TypesGood
<1>15. Chained(d, c2, m2)
  <2> SUFFICES ASSUME NEW i \in DOMAIN c2, i + 1 \in DOMAIN c2
               PROVE  Link(d, m2, c2[i].mod, c2[i].at, m2[c2[i + 1].mod].path)
    BY DEF Chained, Link
  <2>1. i \in DOMAIN c
    BY <1>6
  <2>2. PICK k \in DOMAIN m : k = c[i].mod /\ k = c2[i].mod
    BY <1>12, <2>1
  <2>3. PICK n : n = c[i].at /\ n = c2[i].at
    BY <1>12, <2>1
  <2>4. PICK q : q = m2[c2[i + 1].mod].path
    OBVIOUS
  <2>5. CASE i + 1 \in DOMAIN c
    <3>1. q = m[c[i + 1].mod].path
      BY <1>9, <1>12, <2>4, <2>5 DEF Grown
    <3>2. Link(d, m, k, n, q)
      BY <2>1, <2>2, <2>3, <2>5, <3>1 DEF Good, Chained, Link
    <3>3. Link(d, m2, k, n, q)
      BY <1>9, <3>2, LinkStays
    <3> QED
      BY <2>2, <2>3, <2>4, <3>3
  <2>6. CASE i = N
    <3>1. N # 0 /\ c2[i + 1] = e
      BY <1>6, <2>1, <2>6
    <3>2. q = p
      BY <1>10, <2>4, <3>1
    <3>3. Link(d, m, k, n, q)
      BY <2>2, <2>3, <2>6, <3>1, <3>2 DEF Link
    <3>4. Link(d, m2, k, n, q)
      BY <1>9, <3>3, LinkStays
    <3> QED
      BY <2>2, <2>3, <2>4, <3>4
  <2>7. i + 1 \in 1 .. N \/ i = N
    BY <1>6, <2>1
  <2> QED
    BY <1>6, <2>5, <2>6, <2>7
<1>16. NotKept(c2, m2, g)
  <2> SUFFICES ASSUME NEW i \in DOMAIN c2 PROVE KeyIn(m2, c2[i].mod) \notin DOMAIN g
    BY DEF NotKept
  <2>1. CASE i \in DOMAIN c
    <3>1. PICK l \in DOMAIN m : l = c[i].mod /\ l = c2[i].mod
      BY <1>12, <2>1
    <3>2. KeyIn(m, l) \notin DOMAIN g
      BY <2>1, <3>1 DEF Good, NotKept
    <3>3. KeyIn(m2, l) = KeyIn(m, l)
      BY <1>9, GrownPlace
    <3> QED
      BY <3>1, <3>2, <3>3
  <2>2. CASE i = N + 1
    BY <1>6, <1>10, <1>11, <2>2
  <2> QED
    BY <1>8, <2>1, <2>2
<1>17. CallsDone(d, c2, m2, g)
  <2> SUFFICES ASSUME NEW i \in DOMAIN c2 PROVE Done(d, m2, g, c2[i].mod, c2[i].at)
    BY DEF CallsDone
  <2>1. CASE i \in DOMAIN c
    <3>1. Done(d, m, g, c[i].mod, c[i].at)
      BY <2>1 DEF Good, CallsDone
    <3> QED
      BY <1>9, <1>12, <1>13, <2>1, <3>1, DoneStays
  <2>2. CASE i = N + 1
    <3>1. c2[i].at = 1 /\ 1 .. 1 - 1 = {}
      BY <1>6, <1>10, <2>2
    <3> QED
      BY <3>1 DEF Done
  <2> QED
    BY <1>8, <2>1, <2>2
<1>18. CacheGood(d, m2, g)
  <2> SUFFICES ASSUME NEW key \in DOMAIN g
               PROVE  /\ g[key] \in DOMAIN m2 /\ KeyIn(m2, g[key]) = key
                      /\ Done(d, m2, g, g[key], Len(CodeIn(d, m2, g[key])) + 1)
                      /\ ~CyclicIn(d, PlaceIn(m2, g[key]))
    BY DEF CacheGood
  <2>1. PICK k \in DOMAIN m : k = g[key]
    BY <1>13
  <2>2. KeyIn(m, k) = key /\ Done(d, m, g, k, Len(CodeIn(d, m, k)) + 1) /\ ~CyclicIn(d, PlaceIn(m, k))
    BY <2>1 DEF Good, CacheGood
  <2>3. Done(d, m2, g, k, Len(CodeIn(d, m, k)) + 1)
    BY <1>9, <1>13, <2>2, DoneStays
  <2>4. CodeIn(d, m2, k) = CodeIn(d, m, k) /\ KeyIn(m2, k) = KeyIn(m, k) /\ PlaceIn(m2, k) = PlaceIn(m, k)
    BY <1>9, GrownPlace, GrownCode
  <2> QED
    BY <1>7, <2>1, <2>2, <2>3, <2>4
<1>19. AllThere(c2, m2, g)
  <2> SUFFICES ASSUME NEW k \in DOMAIN m2
               PROVE  KeyIn(m2, k) \in DOMAIN g \/ \E i \in DOMAIN c2 : c2[i].mod = k
    BY DEF AllThere
  <2>1. CASE k \in DOMAIN m
    <3>1. KeyIn(m, k) \in DOMAIN g \/ \E i \in DOMAIN c : c[i].mod = k
      BY <2>1 DEF Good, AllThere
    <3>2. KeyIn(m2, k) = KeyIn(m, k)
      BY <1>9, <2>1, GrownPlace
    <3> QED
      BY <1>8, <1>12, <3>1, <3>2
  <2>2. CASE k = M + 1
    BY <1>6, <1>8, <1>10, <2>2
  <2> QED
    BY <1>7, <2>1, <2>2
<1>20. ASSUME NEW k \in DOMAIN m, PlaceIn(m, k) = Place(path_string(p)),
              ".." \notin Elements(m[k].path.segment_stack), ".." \notin Elements(p.segment_stack)
       PROVE  CyclicIn(d, PlaceIn(m, k))
  <2>1. PICK o \in AbsPaths : o = m[k].path
    <3>1. m[k] \in ModuleRecs
      BY <1>1
    <3> QED
      BY <3>1 DEF ModuleRecs
  <2>2. o.segment_stack = p.segment_stack
    BY <1>20, <2>1, PlaceOfPath DEF PlaceIn
  <2>3. o = p
    <3>1. PICK s \in NormalStacks : o = AbsPath(s)
      BY DEF AbsPaths
    <3>2. PICK t \in NormalStacks : p = AbsPath(t)
      BY DEF AbsPaths
    <3>3. o.segment_stack = s /\ p.segment_stack = t
      BY <3>1, <3>2 DEF AbsPath
    <3> QED
      BY <2>2, <3>1, <3>2, <3>3
  <2>4. KeyIn(m, k) \notin DOMAIN g
    BY <2>1, <2>3 DEF KeyIn
  <2>5. PICK i \in DOMAIN c : c[i].mod = k
    BY <2>4 DEF Good, AllThere
  <2>6. PICK q \in DOMAIN d : q = Place(path_string(p))
    OBVIOUS
  <2>7. N # 0 => q \in ImportsIn(d, PlaceIn(m, c[N].mod))
    <3> SUFFICES ASSUME N # 0 PROVE q \in ImportsIn(d, PlaceIn(m, c[N].mod))
      OBVIOUS
    <3>1. PICK l \in DOMAIN m : l = c[N].mod
      <4>1. N \in DOMAIN c
        BY <1>6
      <4> QED
        BY <1>12, <4>1
    <3>2. PICK n : n = c[N].at
      OBVIOUS
    <3>3. IsImport(d, m, l, n) /\ PathOf(m, l, CodeIn(d, m, l)[n]) = p
      BY <3>1, <3>2
    <3>4. Place(path_string(PathOf(m, l, CodeIn(d, m, l)[n]))) \in DOMAIN d
      BY <2>6, <3>3
    <3> QED
      BY <1>1, <2>6, <3>1, <3>3, <3>4, ImportLeads
  <2>8. Chained(d, c, m)
    BY DEF Good
  <2>9. CyclicIn(d, q)
    BY <1>1, <1>20, <2>5, <2>6, <2>7, <2>8, LoadCyclic
  <2> QED
    BY <1>20, <2>6, <2>9
<1>21. Once(d, m2)
  <2> SUFFICES ASSUME NEW k \in DOMAIN m2, NEW l \in DOMAIN m2, PlaceIn(m2, k) = PlaceIn(m2, l), k # l,
                      ".." \notin Elements(m2[k].path.segment_stack),
                      ".." \notin Elements(m2[l].path.segment_stack)
               PROVE  CyclicIn(d, PlaceIn(m2, k))
    BY DEF Once
  <2>1. CASE k \in DOMAIN m /\ l \in DOMAIN m
    <3>1. m2[k].path = m[k].path /\ m2[l].path = m[l].path
      BY <1>9, <2>1 DEF Grown
    <3>2. PlaceIn(m2, k) = PlaceIn(m, k) /\ PlaceIn(m2, l) = PlaceIn(m, l)
      BY <1>9, <2>1, GrownPlace
    <3> QED
      BY <2>1, <3>1, <3>2 DEF Good, Once
  <2>2. CASE k \in DOMAIN m /\ l = M + 1
    <3>1. m2[k].path = m[k].path
      BY <1>9, <2>2 DEF Grown
    <3>2. PlaceIn(m2, k) = PlaceIn(m, k)
      BY <1>9, <2>2, GrownPlace
    <3> QED
      BY <1>10, <1>11, <1>20, <2>2, <3>1, <3>2
  <2>3. CASE l \in DOMAIN m /\ k = M + 1
    <3>1. m2[l].path = m[l].path
      BY <1>9, <2>3 DEF Grown
    <3>2. PlaceIn(m2, l) = PlaceIn(m, l)
      BY <1>9, <2>3, GrownPlace
    <3> QED
      BY <1>10, <1>11, <1>20, <2>3, <3>1, <3>2
  <2> QED
    BY <1>7, <2>1, <2>2, <2>3
<1> QED
  BY <1>1, <1>14, <1>15, <1>16, <1>17, <1>18, <1>19, <1>21 DEF Good

\* The modules m2 are the modules m, where k has the names h.
Redefined(m, m2, k, h) ==
  /\ m2 \in Seq(ModuleRecs) /\ DOMAIN m2 = DOMAIN m
  /\ m2[k].path = m[k].path /\ m2[k].place = m[k].place /\ m2[k].value_hash = h
  /\ \A l \in DOMAIN m : l # k => m2[l] = m[l]
\* The calls c2 are the calls c, where the last is at its next statement.
Advanced(c, c2) ==
  /\ c2 \in Seq(CallRecs) /\ DOMAIN c2 = DOMAIN c
  /\ c2[Len(c)].mod = c[Len(c)].mod /\ c2[Len(c)].at = c[Len(c)].at + 1
  /\ \A i \in DOMAIN c : i # Len(c) => c2[i] = c[i]
\* The names h are more than those of k.
MoreNames(m, k, h) == \A x \in DOMAIN m[k].value_hash : x \in DOMAIN h /\ h[x] = m[k].value_hash[x]
\* If the statement s is an import, h has the names that it takes.
TakesNames(m, g, k, s, h) ==
  s.kind = "import" =>
    /\ ImportKey(m, k, s) \in DOMAIN g
    /\ \A j \in DOMAIN s.names :
         /\ s.names[j] \in DOMAIN h /\ s.names[j] \in DOMAIN m[g[ImportKey(m, k, s)]].value_hash
         /\ h[s.names[j]] = m[g[ImportKey(m, k, s)]].value_hash[s.names[j]]

\* What define makes of the modules.
LEMMA RedefinedIs ==
  ASSUME NEW m \in Seq(ModuleRecs), NEW k \in DOMAIN m, NEW h \in Tables
  PROVE  Redefined(m, [m EXCEPT ![k].value_hash = h], k, h)
<1>1. m[k] \in ModuleRecs
  OBVIOUS
<1>2. /\ [m[k] EXCEPT !.value_hash = h] \in ModuleRecs
      /\ [m[k] EXCEPT !.value_hash = h].path = m[k].path
      /\ [m[k] EXCEPT !.value_hash = h].place = m[k].place
      /\ [m[k] EXCEPT !.value_hash = h].value_hash = h
  BY <1>1 DEF ModuleRecs
<1>3. PICK r \in ModuleRecs : /\ r = [m[k] EXCEPT !.value_hash = h]
                              /\ r.path = m[k].path /\ r.place = m[k].place /\ r.value_hash = h
  BY <1>2
<1>4. PICK M \in Nat : M = Len(m) /\ DOMAIN m = 1 .. M
  OBVIOUS
<1>5. PICK m2 : m2 = [m EXCEPT ![k] = r]
  OBVIOUS
<1>6. m2 \in Seq(ModuleRecs) /\ Len(m2) = M
  BY <1>4, <1>5, ExceptSeq
<1>7. DOMAIN m2 = 1 .. M
  BY <1>6
<1>8. m2[k] = r /\ \A l \in DOMAIN m : l # k => m2[l] = m[l]
  BY <1>5
<1>9. Redefined(m, m2, k, h)
  BY <1>3, <1>4, <1>6, <1>7, <1>8 DEF Redefined
<1>10. [m EXCEPT ![k].value_hash = h] = m2
  BY <1>3, <1>5
<1> QED
  BY <1>9, <1>10

\* What define makes of the calls.
LEMMA AdvancedIs ==
  ASSUME NEW c \in Seq(CallRecs), c # <<>>
  PROVE  Advanced(c, [c EXCEPT ![Len(c)].at = @ + 1])
<1>1. PICK N \in Nat : N = Len(c) /\ DOMAIN c = 1 .. N /\ N \in DOMAIN c
  OBVIOUS
<1>2. c[N] \in CallRecs
  BY <1>1
<1>3. PICK j \in Nat : j = c[N].at + 1
  BY <1>2 DEF CallRecs
<1>4. /\ [c[N] EXCEPT !.at = j] \in CallRecs /\ [c[N] EXCEPT !.at = j].mod = c[N].mod
      /\ [c[N] EXCEPT !.at = j].at = j
  BY <1>2 DEF CallRecs
<1>5. PICK e \in CallRecs : e = [c[N] EXCEPT !.at = j] /\ e.mod = c[N].mod /\ e.at = j
  BY <1>4
<1>6. PICK c2 : c2 = [c EXCEPT ![N] = e]
  OBVIOUS
<1>7. c2 \in Seq(CallRecs) /\ Len(c2) = N
  BY <1>1, <1>6, ExceptSeq
<1>8. DOMAIN c2 = 1 .. N
  BY <1>7
<1>9. c2[N] = e /\ \A i \in DOMAIN c : i # N => c2[i] = c[i]
  BY <1>1, <1>6
<1>10. Advanced(c, c2)
  BY <1>1, <1>3, <1>5, <1>7, <1>8, <1>9 DEF Advanced
<1>11. [c EXCEPT ![Len(c)].at = @ + 1] = c2
  BY <1>1, <1>3, <1>5, <1>6
<1> QED
  BY <1>10, <1>11

\* A statement defines names.
LEMMA DefineKeeps ==
  ASSUME NEW d, NEW c, NEW m, NEW g, Good(d, c, m, g),
         NEW N \in Nat, N = Len(c), N # 0, NEW k, k = c[N].mod, NEW n, n = c[N].at,
         n \in DOMAIN CodeIn(d, m, k), NEW h \in Tables, MoreNames(m, k, h),
         TakesNames(m, g, k, CodeIn(d, m, k)[n], h),
         NEW m2, Redefined(m, m2, k, h), NEW c2, Advanced(c, c2)
  PROVE  Good(d, c2, m2, g)
<1>1. d \in Projects /\ TypesGood(d, c, m) /\ m \in Seq(ModuleRecs) /\ c \in Seq(CallRecs)
  BY DEF Good, TypesGood
<1>2. DOMAIN c = 1 .. N /\ N \in DOMAIN c
  BY <1>1
<1>3. k \in DOMAIN m
  BY <1>1, <1>2 DEF TypesGood
<1>4. c[N] \in CallRecs
  BY <1>1, <1>2
<1>8. /\ m2 \in Seq(ModuleRecs) /\ DOMAIN m2 = DOMAIN m
      /\ m2[k].path = m[k].path /\ m2[k].place = m[k].place /\ m2[k].value_hash = h
      /\ \A l \in DOMAIN m : l # k => m2[l] = m[l]
  BY DEF Redefined
<1>9. n \in Nat
  BY <1>4 DEF CallRecs
<1>11. /\ c2 \in Seq(CallRecs) /\ DOMAIN c2 = 1 .. N /\ c2[N].mod = k /\ c2[N].at = n + 1
       /\ \A i \in 1 .. N : i # N => c2[i] = c[i]
  BY <1>2 DEF Advanced
<1>5. PICK s : s = CodeIn(d, m, k)[n]
  OBVIOUS
<1>12. Grown(m, m2) /\ Cached(g, g)
  <2>1. ASSUME NEW l \in DOMAIN m
        PROVE  /\ l \in DOMAIN m2 /\ m2[l].path = m[l].path /\ m2[l].place = m[l].place
               /\ \A x \in DOMAIN m[l].value_hash : /\ x \in DOMAIN m2[l].value_hash
                                                    /\ m2[l].value_hash[x] = m[l].value_hash[x]
    <3>1. CASE l = k
      BY <1>8, <3>1 DEF MoreNames
    <3>2. CASE l # k
      BY <1>8, <3>2
    <3> QED
      BY <3>1, <3>2
  <2> QED
    BY <2>1 DEF Grown, Cached
<1>13. \A key \in DOMAIN g : g[key] \in DOMAIN m /\ KeyIn(m, g[key]) = key
  BY DEF Good, CacheGood
<1>14. \A i \in 1 .. N : c[i].mod \in DOMAIN m /\ c2[i].mod = c[i].mod
  <2>1. \A i \in 1 .. N : c[i].mod \in DOMAIN m
    BY <1>1, <1>2 DEF TypesGood
  <2>2. ASSUME NEW i \in 1 .. N PROVE c2[i].mod = c[i].mod
    <3>1. CASE i = N
      BY <1>11, <3>1
    <3>2. CASE i # N
      BY <1>11, <3>2
    <3> QED
      BY <3>1, <3>2
  <2> QED
    BY <2>1, <2>2
<1>15. TypesGood(d, c2, m2)
  <2>1. ASSUME NEW l \in DOMAIN m2 PROVE PlaceIn(m2, l) \in DOMAIN d /\ PlaceIn(m2, l) = m2[l].place
    <3>1. PlaceIn(m2, l) = PlaceIn(m, l)
      BY <1>8, <1>12, GrownPlace
    <3>2. m2[l].place = m[l].place
      BY <1>8, <1>12 DEF Grown
    <3> QED
      BY <1>1, <1>8, <3>1, <3>2 DEF TypesGood
  <2>2. ASSUME NEW i \in DOMAIN c2
        PROVE  c2[i].mod \in DOMAIN m2 /\ c2[i].at \in 1 .. Len(CodeIn(d, m2, c2[i].mod)) + 1
    <3>1. PICK l \in DOMAIN m : l = c[i].mod /\ c2[i].mod = l /\ i \in DOMAIN c
      BY <1>2, <1>11, <1>14
    <3>2. CodeIn(d, m2, l) = CodeIn(d, m, l)
      BY <1>12, GrownCode
    <3>3. CASE i = N
      <4>1. l = k /\ c2[i].at = n + 1
        BY <1>11, <3>1, <3>3
      <4>2. PICK L \in Nat : L = Len(CodeIn(d, m, k)) /\ DOMAIN CodeIn(d, m, k) = 1 .. L
        <5>1. PlaceIn(m, k) \in DOMAIN d
          BY <1>1, <1>3 DEF TypesGood
        <5> QED
          BY <1>1, <5>1, FilesAre DEF CodeIn
      <4>3. n \in 1 .. L /\ n + 1 \in 1 .. L + 1
        BY <1>9, <4>2
      <4> QED
        BY <1>8, <3>1, <3>2, <4>1, <4>2, <4>3
    <3>4. CASE i # N
      <4>1. c2[i] = c[i]
        BY <1>11, <3>4
      <4> QED
        BY <1>1, <1>8, <3>1, <3>2, <4>1 DEF TypesGood
    <3> QED
      BY <3>3, <3>4
  <2> QED
    BY <1>8, <1>11, <2>1, <2>2 DEF TypesGood
<1>16. Chained(d, c2, m2)
  <2> SUFFICES ASSUME NEW i \in DOMAIN c2, i + 1 \in DOMAIN c2
               PROVE  Link(d, m2, c2[i].mod, c2[i].at, m2[c2[i + 1].mod].path)
    BY DEF Chained, Link
  <2>1. i \in DOMAIN c /\ i + 1 \in DOMAIN c /\ i # N
    BY <1>2, <1>11
  <2>2. PICK l \in DOMAIN m : l = c[i].mod /\ c2[i] = c[i]
    BY <1>2, <1>11, <1>14, <2>1
  <2>3. PICK q : q = m2[c2[i + 1].mod].path
    OBVIOUS
  <2>4. c2[i + 1].mod = c[i + 1].mod /\ c[i + 1].mod \in DOMAIN m
    BY <1>2, <1>14, <2>1
  <2>5. q = m[c[i + 1].mod].path
    BY <1>12, <2>3, <2>4 DEF Grown
  <2>6. Link(d, m, l, c[i].at, q)
    BY <2>1, <2>2, <2>5 DEF Good, Chained, Link
  <2>7. Link(d, m2, l, c[i].at, q)
    BY <1>12, <2>6, LinkStays
  <2> QED
    BY <2>2, <2>3, <2>7
<1>17. NotKept(c2, m2, g)
  <2> SUFFICES ASSUME NEW i \in DOMAIN c2 PROVE KeyIn(m2, c2[i].mod) \notin DOMAIN g
    BY DEF NotKept
  <2>1. i \in DOMAIN c /\ c2[i].mod = c[i].mod /\ c[i].mod \in DOMAIN m
    BY <1>2, <1>11, <1>14
  <2>2. KeyIn(m2, c[i].mod) = KeyIn(m, c[i].mod)
    BY <1>12, <2>1, GrownPlace
  <2> QED
    BY <2>1, <2>2 DEF Good, NotKept
<1>18. Done(d, m2, g, k, n + 1)
  <2> SUFFICES ASSUME NEW i \in 1 .. (n + 1) - 1, IsImport(d, m2, k, i)
               PROVE  Taken(m2, g, k, CodeIn(d, m2, k)[i])
    BY DEF Done
  <2>1. i \in 1 .. n - 1 \/ i = n
    BY <1>9
  <2>2. CASE i \in 1 .. n - 1
    <3>1. Done(d, m, g, k, n)
      BY <1>2 DEF Good, CallsDone
    <3>2. Done(d, m2, g, k, n)
      BY <1>3, <1>12, <1>13, <3>1, DoneStays
    <3> QED
      BY <2>2, <3>2 DEF Done
  <2>3. CASE i = n
    <3>1. IsImport(d, m, k, n) /\ CodeIn(d, m2, k)[n] = s /\ ImportKey(m2, k, s) = ImportKey(m, k, s)
      <4>1. CodeIn(d, m2, k) = CodeIn(d, m, k) /\ (IsImport(d, m2, k, n) <=> IsImport(d, m, k, n))
        BY <1>3, <1>12, GrownCode DEF IsImport
      <4>2. ImportKey(m2, k, s) = ImportKey(m, k, s)
        BY <1>3, <1>12, GrownPath
      <4> QED
        BY <1>5, <2>3, <4>1, <4>2
    <3>0. s.kind = "import" /\ TakesNames(m, g, k, s, h)
      BY <1>5, <3>1 DEF IsImport
    <3>2. PICK key \in DOMAIN g : key = ImportKey(m, k, s)
      BY <3>0 DEF TakesNames
    <3>3. PICK l \in DOMAIN m : l = g[key] /\ KeyIn(m, l) = key
      BY <1>13
    <3>4. l # k
      BY <1>2, <3>3 DEF Good, NotKept
    <3>5. m2[l] = m[l]
      BY <1>8, <3>4
    <3>6. ASSUME NEW j \in DOMAIN s.names PROVE HasName(m2, k, l, s.names[j])
      <4>1. /\ s.names[j] \in DOMAIN h /\ s.names[j] \in DOMAIN m[l].value_hash
            /\ h[s.names[j]] = m[l].value_hash[s.names[j]]
        BY <3>0, <3>2, <3>3 DEF TakesNames
      <4> QED
        BY <1>8, <3>5, <4>1 DEF HasName
    <3> QED
      BY <2>3, <3>1, <3>2, <3>3, <3>6 DEF Taken
  <2> QED
    BY <2>1, <2>2, <2>3
<1>19. CallsDone(d, c2, m2, g)
  <2> SUFFICES ASSUME NEW i \in DOMAIN c2 PROVE Done(d, m2, g, c2[i].mod, c2[i].at)
    BY DEF CallsDone
  <2>1. CASE i = N
    BY <1>11, <1>18, <2>1
  <2>2. CASE i # N
    <3>1. c2[i] = c[i] /\ i \in DOMAIN c /\ c[i].mod \in DOMAIN m
      BY <1>2, <1>11, <1>14, <2>2
    <3>2. Done(d, m, g, c[i].mod, c[i].at)
      BY <3>1 DEF Good, CallsDone
    <3> QED
      BY <1>12, <1>13, <3>1, <3>2, DoneStays
  <2> QED
    BY <2>1, <2>2
<1>20. CacheGood(d, m2, g)
  <2> SUFFICES ASSUME NEW key \in DOMAIN g
               PROVE  /\ g[key] \in DOMAIN m2 /\ KeyIn(m2, g[key]) = key
                      /\ Done(d, m2, g, g[key], Len(CodeIn(d, m2, g[key])) + 1)
                      /\ ~CyclicIn(d, PlaceIn(m2, g[key]))
    BY DEF CacheGood
  <2>1. PICK l \in DOMAIN m : l = g[key]
    BY <1>13
  <2>2. KeyIn(m, l) = key /\ Done(d, m, g, l, Len(CodeIn(d, m, l)) + 1) /\ ~CyclicIn(d, PlaceIn(m, l))
    BY <2>1 DEF Good, CacheGood
  <2>3. Done(d, m2, g, l, Len(CodeIn(d, m, l)) + 1)
    BY <1>12, <1>13, <2>2, DoneStays
  <2>4. CodeIn(d, m2, l) = CodeIn(d, m, l) /\ KeyIn(m2, l) = KeyIn(m, l) /\ PlaceIn(m2, l) = PlaceIn(m, l)
    <3>1. CodeIn(d, m2, l) = CodeIn(d, m, l)
      BY <1>12, GrownCode
    <3>2. KeyIn(m2, l) = KeyIn(m, l) /\ PlaceIn(m2, l) = PlaceIn(m, l)
      BY <1>12, GrownPlace
    <3> QED
      BY <3>1, <3>2
  <2> QED
    BY <1>8, <2>1, <2>2, <2>3, <2>4
<1>21. AllThere(c2, m2, g)
  <2> SUFFICES ASSUME NEW l \in DOMAIN m2
               PROVE  KeyIn(m2, l) \in DOMAIN g \/ \E i \in DOMAIN c2 : c2[i].mod = l
    BY DEF AllThere
  <2>1. KeyIn(m, l) \in DOMAIN g \/ \E i \in DOMAIN c : c[i].mod = l
    BY <1>8 DEF Good, AllThere
  <2>2. KeyIn(m2, l) = KeyIn(m, l)
    BY <1>8, <1>12, GrownPlace
  <2> QED
    BY <1>2, <1>11, <1>14, <2>1, <2>2
<1>22. Once(d, m2)
  <2>1. \A l \in DOMAIN m : PlaceIn(m2, l) = PlaceIn(m, l)
    BY <1>12, GrownPlace
  <2>2. \A l \in DOMAIN m : m2[l].path = m[l].path
    BY <1>12 DEF Grown
  <2> QED
    BY <1>8, <2>1, <2>2 DEF Good, Once
<1> QED
  BY <1>1, <1>15, <1>16, <1>17, <1>19, <1>20, <1>21, <1>22 DEF Good

\* The cache g2 is the cache g, and under the key the module k.
KeptIs(g, g2, key, k) ==
  /\ DOMAIN g2 = DOMAIN g \union {key} /\ g2[key] = k
  /\ \A x \in DOMAIN g : x # key => g2[x] = g[x]

\* A file is at its end: its module is kept.
LEMMA EndKeeps ==
  ASSUME NEW d, NEW c, NEW m, NEW g, Good(d, c, m, g),
         NEW N \in Nat, N = Len(c), N # 0, NEW k, k = c[N].mod,
         c[N].at > Len(CodeIn(d, m, k)),
         NEW c2, c2 \in Seq(CallRecs), DOMAIN c2 = 1 .. N - 1, \A i \in 1 .. N - 1 : c2[i] = c[i],
         NEW g2, KeptIs(g, g2, KeyIn(m, k), k)
  PROVE  Good(d, c2, m, g2)
<1>1. d \in Projects /\ TypesGood(d, c, m) /\ m \in Seq(ModuleRecs) /\ c \in Seq(CallRecs)
  BY DEF Good, TypesGood
<1>2. DOMAIN c = 1 .. N /\ N \in DOMAIN c
  BY <1>1
<1>3. k \in DOMAIN m
  BY <1>1, <1>2 DEF TypesGood
<1>4. PICK key : key = KeyIn(m, k)
  OBVIOUS
<1>5. key \notin DOMAIN g
  BY <1>2, <1>4 DEF Good, NotKept
<1>6. /\ DOMAIN g2 = DOMAIN g \union {key} /\ g2[key] = k
      /\ \A x \in DOMAIN g : g2[x] = g[x]
  BY <1>4, <1>5 DEF KeptIs
<1>7. Grown(m, m) /\ Cached(g, g2)
  BY <1>6 DEF Grown, Cached
<1>8. \A x \in DOMAIN g : g[x] \in DOMAIN m /\ KeyIn(m, g[x]) = x
  BY DEF Good, CacheGood
<1>9. \A i \in 1 .. N - 1 : i \in DOMAIN c /\ c[i].mod \in DOMAIN m
  BY <1>1, <1>2 DEF TypesGood
<1>10. PICK L \in Nat : L = Len(CodeIn(d, m, k)) /\ c[N].at = L + 1
  <2>1. PICK L \in Nat : L = Len(CodeIn(d, m, k))
    <3>1. PlaceIn(m, k) \in DOMAIN d
      BY <1>1, <1>3 DEF TypesGood
    <3> QED
      BY <1>1, <3>1, FilesAre DEF CodeIn
  <2>2. c[N].at \in 1 .. L + 1
    BY <1>1, <1>2, <2>1 DEF TypesGood
  <2>3. c[N].at = L + 1
    BY <2>1, <2>2
  <2> QED
    BY <2>1, <2>3
<1>11. Done(d, m, g, k, L + 1)
  BY <1>2, <1>10 DEF Good, CallsDone
<1>12. TypesGood(d, c2, m)
  BY <1>1, <1>2, <1>9 DEF TypesGood
<1>13. Chained(d, c2, m)
  <2> SUFFICES ASSUME NEW i \in DOMAIN c2, i + 1 \in DOMAIN c2
               PROVE  /\ IsImport(d, m, c2[i].mod, c2[i].at)
                      /\ PathOf(m, c2[i].mod, CodeIn(d, m, c2[i].mod)[c2[i].at]) = m[c2[i + 1].mod].path
    BY DEF Chained
  <2>1. i \in DOMAIN c /\ i + 1 \in DOMAIN c /\ c2[i] = c[i] /\ c2[i + 1] = c[i + 1]
    BY <1>9
  <2> QED
    BY <2>1 DEF Good, Chained
<1>14. ASSUME NEW i \in 1 .. N - 1 PROVE KeyIn(m, c[i].mod) # key
  <2>1. SUFFICES ASSUME KeyIn(m, c[i].mod) = key PROVE FALSE
    OBVIOUS
  <2>2. i \in DOMAIN c /\ i + 1 \in DOMAIN c
    BY <1>2
  <2>3. PICK l \in DOMAIN m : l = c[i].mod
    BY <1>9
  <2>4. PICK p \in AbsPaths : p = m[l].path
    <3>1. m[l] \in ModuleRecs
      BY <1>1
    <3> QED
      BY <3>1 DEF ModuleRecs
  <2>5. PICK o \in AbsPaths : o = m[k].path
    <3>1. m[k] \in ModuleRecs
      BY <1>1, <1>3
    <3> QED
      BY <3>1 DEF ModuleRecs
  <2>6. p = o
    <3>1. path_string(p) = path_string(o)
      BY <1>4, <2>1, <2>3, <2>4, <2>5 DEF KeyIn
    <3> QED
      BY <3>1, SameText
  <2>7. PICK n : n = c[i].at
    OBVIOUS
  <2>8. IsImport(d, m, l, n) /\ PathOf(m, l, CodeIn(d, m, l)[n]) = m[c[i + 1].mod].path
    BY <2>2, <2>3, <2>7 DEF Good, Chained
  <2>9. CodeIn(d, m, l) = CodeIn(d, m, k) /\ IsImport(d, m, k, n)
    BY <2>4, <2>5, <2>6, <2>8 DEF CodeIn, PlaceIn, IsImport
  <2>10. PathOf(m, k, CodeIn(d, m, k)[n]) = m[c[i + 1].mod].path
    BY <2>4, <2>5, <2>6, <2>8, <2>9 DEF PathOf
  <2>11. n \in 1 .. (L + 1) - 1
    <3>1. PlaceIn(m, k) \in DOMAIN d
      BY <1>1, <1>3 DEF TypesGood
    <3>2. DOMAIN CodeIn(d, m, k) = 1 .. L
      BY <1>1, <1>10, <3>1, FilesAre DEF CodeIn
    <3>3. n \in 1 .. L
      BY <2>9, <3>2 DEF IsImport
    <3> QED
      BY <3>3
  <2>12. Taken(m, g, k, CodeIn(d, m, k)[n])
    BY <1>11, <2>9, <2>11 DEF Done
  <2>13. KeyIn(m, c[i + 1].mod) \in DOMAIN g
    BY <2>10, <2>12 DEF Taken, ImportKey, KeyIn
  <2> QED
    BY <2>2, <2>13 DEF Good, NotKept
<1>15. NotKept(c2, m, g2)
  <2> SUFFICES ASSUME NEW i \in DOMAIN c2 PROVE KeyIn(m, c2[i].mod) \notin DOMAIN g2
    BY DEF NotKept
  <2>1. c2[i] = c[i] /\ i \in DOMAIN c
    BY <1>9
  <2>2. KeyIn(m, c[i].mod) \notin DOMAIN g
    BY <2>1 DEF Good, NotKept
  <2> QED
    BY <1>6, <1>14, <2>1, <2>2
<1>16. ASSUME NEW l \in DOMAIN m, NEW n, Done(d, m, g, l, n) PROVE Done(d, m, g2, l, n)
  BY <1>7, <1>8, <1>16, DoneStays
<1>17. CallsDone(d, c2, m, g2)
  <2> SUFFICES ASSUME NEW i \in DOMAIN c2 PROVE Done(d, m, g2, c2[i].mod, c2[i].at)
    BY DEF CallsDone
  <2>1. c2[i] = c[i] /\ i \in DOMAIN c /\ c[i].mod \in DOMAIN m
    BY <1>9
  <2>2. Done(d, m, g, c[i].mod, c[i].at)
    BY <2>1 DEF Good, CallsDone
  <2> QED
    BY <1>16, <2>1, <2>2
<1>18. ~CyclicIn(d, PlaceIn(m, k))
  <2> SUFFICES ASSUME CyclicIn(d, PlaceIn(m, k)) PROVE FALSE
    OBVIOUS
  <2>1. IsFiniteSet(DOMAIN d)
    BY <1>1, FilesAre
  <2>2. PICK q \in ImportsIn(d, PlaceIn(m, k)) : CyclicIn(d, q)
    BY <2>1, CyclicImport
  <2>3. PICK n : IsImport(d, m, k, n) /\ q = Place(path_string(PathOf(m, k, CodeIn(d, m, k)[n])))
    BY <1>1, <1>3, ImportedBy
  <2>4. n \in 1 .. (L + 1) - 1
    <3>1. PlaceIn(m, k) \in DOMAIN d
      BY <1>1, <1>3 DEF TypesGood
    <3>2. DOMAIN CodeIn(d, m, k) = 1 .. L
      BY <1>1, <1>10, <3>1, FilesAre DEF CodeIn
    <3>3. n \in 1 .. L
      BY <2>3, <3>2 DEF IsImport
    <3> QED
      BY <3>3
  <2>5. Taken(m, g, k, CodeIn(d, m, k)[n])
    BY <1>11, <2>3, <2>4 DEF Done
  <2>6. PICK x \in DOMAIN g : x = path_string(PathOf(m, k, CodeIn(d, m, k)[n]))
    BY <2>5 DEF Taken, ImportKey
  <2>7. q = PlaceIn(m, g[x]) /\ ~CyclicIn(d, PlaceIn(m, g[x]))
    BY <1>8, <2>3, <2>6 DEF Good, CacheGood, PlaceIn, KeyIn
  <2> QED
    BY <2>2, <2>7
<1>19. CacheGood(d, m, g2)
  <2> SUFFICES ASSUME NEW x \in DOMAIN g2
               PROVE  /\ g2[x] \in DOMAIN m /\ KeyIn(m, g2[x]) = x
                      /\ Done(d, m, g2, g2[x], Len(CodeIn(d, m, g2[x])) + 1)
                      /\ ~CyclicIn(d, PlaceIn(m, g2[x]))
    BY DEF CacheGood
  <2>1. CASE x = key
    BY <1>3, <1>4, <1>6, <1>10, <1>11, <1>16, <1>18, <2>1
  <2>2. CASE x \in DOMAIN g
    <3>1. PICK l \in DOMAIN m : l = g[x] /\ g2[x] = l
      BY <1>6, <1>8, <2>2
    <3>2. KeyIn(m, l) = x /\ Done(d, m, g, l, Len(CodeIn(d, m, l)) + 1) /\ ~CyclicIn(d, PlaceIn(m, l))
      BY <2>2, <3>1 DEF Good, CacheGood
    <3> QED
      BY <1>16, <3>1, <3>2
  <2> QED
    BY <1>6, <2>1, <2>2
<1>20. AllThere(c2, m, g2)
  <2> SUFFICES ASSUME NEW l \in DOMAIN m
               PROVE  KeyIn(m, l) \in DOMAIN g2 \/ \E i \in DOMAIN c2 : c2[i].mod = l
    BY DEF AllThere
  <2>1. CASE KeyIn(m, l) \in DOMAIN g
    BY <1>6, <2>1
  <2>2. CASE KeyIn(m, l) \notin DOMAIN g
    <3>1. PICK i \in DOMAIN c : c[i].mod = l
      BY <2>2 DEF Good, AllThere
    <3>2. CASE i = N
      BY <1>4, <1>6, <3>1, <3>2
    <3>3. CASE i # N
      <4>1. i \in 1 .. N - 1
        BY <1>2, <3>3
      <4> QED
        BY <3>1, <4>1
    <3> QED
      BY <3>2, <3>3
  <2> QED
    BY <2>1, <2>2
<1> QED
  BY <1>1, <1>12, <1>13, <1>15, <1>17, <1>19, <1>20 DEF Good

----------------------------------------------------------------------------
(* The invariant of the state. *)

Import == CodeIn(project, mods, Top.mod)[Top.at]

\* What load_mod has returned is the module that the last call has asked for.
Returned ==
  loaded # NULL =>
    /\ loaded \in Kept
    /\ calls # <<>> => /\ IsImport(project, mods, Top.mod, Top.at)
                       /\ ImportKey(mods, Top.mod, Import) \in DOMAIN global_mod_cache
                       /\ loaded = global_mod_cache[ImportKey(mods, Top.mod, Import)]

\* How loading ended.
Ended ==
  /\ fate # "kept twice"
  /\ fate = "missing" /\ calls # <<>> => MeantPlace \notin DOMAIN project
  /\ fate = "overflow" => \E i \in DOMAIN calls : CyclicIn(project, PlaceIn(mods, calls[i].mod))

LInv ==
  /\ arguments \in Seq(Text)
  /\ Good(project, calls, mods, global_mod_cache)
  /\ Returned
  /\ Ended

\* The operators of the state are those of the files, the modules and the calls.
LEMMA StateIs ==
  /\ \A k : PlaceOf(k) = PlaceIn(mods, k) /\ Code(k) = CodeIn(project, mods, k)
  /\ \A k, s : ImportPath(k, s) = JoinPath(mods[k].path, s)
BY DEF PlaceOf, PlaceIn, Code, CodeIn, ImportPath, JoinPath

\* The last call.
LEMMA TopIs ==
  ASSUME LInv, calls # <<>>
  PROVE  /\ Len(calls) \in Nat /\ Len(calls) # 0 /\ Top = calls[Len(calls)] /\ Len(calls) \in DOMAIN calls
         /\ Top.mod \in DOMAIN mods /\ mods[Top.mod] \in ModuleRecs
         /\ Top.at \in 1 .. Len(Code(Top.mod)) + 1
         /\ Len(Code(Top.mod)) \in Nat /\ DOMAIN Code(Top.mod) = 1 .. Len(Code(Top.mod))
<1>1. TypesGood(project, calls, mods) /\ project \in Projects /\ calls \in Seq(CallRecs)
      /\ mods \in Seq(ModuleRecs)
  BY DEF LInv, Good, TypesGood
<1>2. Len(calls) \in Nat /\ Len(calls) # 0 /\ Len(calls) \in DOMAIN calls
  BY <1>1
<1>3. Top = calls[Len(calls)]
  BY DEF Top
<1>4. PICK k : k = Top.mod
  OBVIOUS
<1>5. k \in DOMAIN mods /\ Top.at \in 1 .. Len(Code(k)) + 1
  BY <1>1, <1>2, <1>3, <1>4, StateIs DEF TypesGood
<1>6. mods[k] \in ModuleRecs
  BY <1>1, <1>5
<1>7. PlaceIn(mods, k) \in DOMAIN project
  BY <1>1, <1>5 DEF TypesGood
<1>8. Len(Code(k)) \in Nat /\ DOMAIN Code(k) = 1 .. Len(Code(k))
  BY <1>1, <1>7, StateIs, FilesAre DEF CodeIn
<1> QED
  BY <1>2, <1>3, <1>4, <1>5, <1>6, <1>8

\* The import of the last call.
LEMMA ImportIs ==
  ASSUME LInv, AtStatement("import")
  PROVE  /\ IsImport(project, mods, Top.mod, Top.at) /\ Import = Statement
         /\ PathOf(mods, Top.mod, Import) = ImportPath(Top.mod, Statement.path)
         /\ ImportPath(Top.mod, Statement.path) \in AbsPaths
         /\ Place(path_string(ImportPath(Top.mod, Statement.path))) = MeantPlace
         /\ Statement.names \in Seq(Names)
<1>1. calls # <<>> /\ ~AtEnd /\ Statement.kind = "import"
  BY DEF AtStatement
<1>2. PICK k : k = Top.mod
  OBVIOUS
<1>3. PICK n : n = Top.at
  OBVIOUS
<1>4. k \in DOMAIN mods /\ n \in DOMAIN Code(k)
  BY <1>1, <1>2, <1>3, TopIs DEF AtEnd
<1>5. Statement = Code(k)[n] /\ Import = Statement /\ Code(k) = CodeIn(project, mods, k)
  BY <1>2, <1>3, StateIs DEF Statement, Import
<1>6. IsImport(project, mods, k, n)
  BY <1>1, <1>4, <1>5 DEF IsImport
<1>7. PICK s : s = Statement
  OBVIOUS
<1>8. PathOf(mods, k, s) = ImportPath(k, s.path)
  BY StateIs DEF PathOf
<1>9. project \in Projects /\ TypesGood(project, calls, mods)
  BY DEF LInv, Good
<1>10. /\ PathOf(mods, k, s) \in AbsPaths
       /\ Place(path_string(PathOf(mods, k, s))) = Place(path_string(mods[k].path) \o <<"..">> \o s.path)
  BY <1>4, <1>5, <1>6, <1>7, <1>9, ImportLeads
<1>11. MeantPlace = Place(path_string(mods[k].path) \o <<"..">> \o s.path)
  BY <1>2, <1>7 DEF MeantPlace
<1>12. s.names \in Seq(Names)
  <2>1. PlaceIn(mods, k) \in DOMAIN project
    BY <1>4, <1>9 DEF TypesGood
  <2> QED
    BY <1>1, <1>4, <1>5, <1>7, <1>9, <2>1, FilesAre DEF CodeIn
<1> QED
  BY <1>2, <1>3, <1>5, <1>6, <1>7, <1>8, <1>10, <1>11, <1>12

\* The initial states.
LEMMA InitGood ==
  ASSUME LoaderInit
  PROVE  LInv
<1>1. /\ project \in Projects /\ arguments \in Arguments /\ calls = <<>> /\ mods = <<>>
      /\ global_mod_cache = <<>> /\ loaded = NULL /\ fate = "run"
  BY DEF LoaderInit
<1>2. arguments \in Seq(Text)
  <2>1. STRING \subseteq Segment
    BY DEF Segment
  <2>2. Seq(STRING) \subseteq Text
    BY <2>1, SeqMonotonic DEF Text
  <2>3. Seq(Seq(STRING)) \subseteq Seq(Text)
    BY <2>2, SeqMonotonic
  <2> QED
    BY <1>1, <2>3, FilesAssumption
<1>3. DOMAIN calls = {} /\ DOMAIN mods = {} /\ DOMAIN global_mod_cache = {}
  BY <1>1
<1>4. calls \in Seq(CallRecs) /\ mods \in Seq(ModuleRecs)
  BY <1>1
<1>5. TypesGood(project, calls, mods)
  BY <1>3, <1>4 DEF TypesGood
<1>6. Chained(project, calls, mods) /\ NotKept(calls, mods, global_mod_cache)
      /\ CallsDone(project, calls, mods, global_mod_cache)
  BY <1>3 DEF Chained, NotKept, CallsDone
<1>7. CacheGood(project, mods, global_mod_cache) /\ AllThere(calls, mods, global_mod_cache)
      /\ Once(project, mods)
  BY <1>3 DEF CacheGood, AllThere, Once
<1>8. Good(project, calls, mods, global_mod_cache)
  BY <1>1, <1>5, <1>6, <1>7 DEF Good
<1>9. Returned /\ Ended
  BY <1>1 DEF Returned, Ended
<1> QED
  BY <1>2, <1>8, <1>9 DEF LInv

\* The program ends in a way that says nothing of the files.
LEMMA EndStep ==
  ASSUME LInv, NEW how, how \notin {"kept twice", "missing", "overflow"}, End(how),
         UNCHANGED project, arguments' \in Seq(Text)
  PROVE  LInv'
<1>1. UNCHANGED <<project, calls, mods, global_mod_cache, loaded>> /\ fate' = how
  BY DEF End
<1>2. Good(project, calls, mods, global_mod_cache)'
  BY <1>1 DEF LInv
<1>3. Returned'
  BY <1>1 DEF LInv, Returned, Kept, Top, Import
<1>4. Ended'
  BY <1>1 DEF Ended
<1> QED
  BY <1>2, <1>3, <1>4 DEF LInv

\* A module that is made has the names of the prelude.
LEMMA PreludeIs == [n \in PreludeNames |-> <<0, n>>] \in Tables
<1> DEFINE h == [n \in PreludeNames |-> <<0, n>>]
<1>1. PreludeNames \in SUBSET Names
  BY FilesAssumption DEF Names
<1>2. \A n \in PreludeNames : <<0, n>> \in NameValues
  BY <1>1 DEF NameValues
<1>3. h \in [PreludeNames -> NameValues]
  BY <1>2
<1> HIDE DEF h
<1>4. h \in Tables
  BY <1>1, <1>3, Zenon DEF Tables
<1> QED
  BY <1>4 DEF h

\* load_mod, as run and execute_import call it.
LEMMA LoadStep ==
  ASSUME LInv, fate = "run", NEW p \in AbsPaths, NEW q, q = Place(path_string(p)),
         calls # <<>> => /\ IsImport(project, mods, Top.mod, Top.at)
                         /\ PathOf(mods, Top.mod, Import) = p /\ q = MeantPlace,
         load_mod(p, q), UNCHANGED project, arguments' \in Seq(Text)
  PROVE  LInv'
<1>1. Good(project, calls, mods, global_mod_cache) /\ TypesGood(project, calls, mods) /\ project \in Projects
  BY DEF LInv, Good
<1>2. PICK key : key = path_string(p)
  OBVIOUS
<1>3. CASE IsKept(p)
  <2>1. /\ key \in DOMAIN global_mod_cache /\ loaded' = global_mod_cache[key]
        /\ UNCHANGED <<project, calls, mods, global_mod_cache, fate>>
    BY <1>2, <1>3 DEF load_mod, IsKept
  <2>2. Good(project, calls, mods, global_mod_cache)'
    BY <1>1, <2>1
  <2>3. Ended'
    BY <2>1 DEF LInv, Ended, MeantPlace, Top, Statement, Code, PlaceOf
  <2>4. loaded' \in Kept'
    BY <2>1 DEF Kept, Elements
  <2>5. ASSUME calls # <<>>
        PROVE  /\ IsImport(project, mods, Top.mod, Top.at)
               /\ ImportKey(mods, Top.mod, Import) \in DOMAIN global_mod_cache
               /\ loaded' = global_mod_cache[ImportKey(mods, Top.mod, Import)]
    BY <1>2, <2>1, <2>5 DEF ImportKey
  <2>6. Top' = Top /\ Import' = Import
    BY <2>1 DEF Top, Import
  <2>7. Returned'
    BY <2>1, <2>4, <2>5, <2>6 DEF Returned
  <2> QED
    BY <2>2, <2>3, <2>7 DEF LInv
<1>4. CASE ~IsKept(p) /\ Place(path_string(p)) \notin DOMAIN project
  <2>1. UNCHANGED <<project, calls, mods, global_mod_cache, loaded>> /\ fate' = "missing"
    BY <1>4 DEF load_mod, End
  <2>2. Good(project, calls, mods, global_mod_cache)'
    BY <1>1, <2>1
  <2>3. Returned'
    BY <2>1 DEF LInv, Returned, Kept, Top, Import
  <2>4. MeantPlace' = MeantPlace
    BY <2>1 DEF MeantPlace, Top, Statement, Code, PlaceOf
  <2>5. Ended'
    BY <1>4, <2>1, <2>4 DEF Ended
  <2> QED
    BY <2>2, <2>3, <2>5 DEF LInv
<1>5. CASE ~IsKept(p) /\ Place(path_string(p)) \in DOMAIN project /\ Len(calls) = MaxDepth
  <2>1. UNCHANGED <<project, calls, mods, global_mod_cache, loaded>> /\ fate' = "overflow"
    BY <1>5 DEF load_mod, End
  <2>2. Good(project, calls, mods, global_mod_cache)'
    BY <1>1, <2>1
  <2>3. Returned'
    BY <2>1 DEF LInv, Returned, Kept, Top, Import
  <2>4. PICK N \in Nat : N = Len(calls) /\ (N # 0 => calls # <<>>)
    BY <1>1 DEF TypesGood
  <2>5. ASSUME N # 0 PROVE q \in ImportsIn(project, PlaceIn(mods, calls[N].mod))
    <3>1. PICK k \in DOMAIN mods : k = Top.mod /\ k = calls[N].mod
      BY <2>4, <2>5, TopIs
    <3>2. PICK n : n = Top.at
      OBVIOUS
    <3>3. IsImport(project, mods, k, n) /\ PathOf(mods, k, CodeIn(project, mods, k)[n]) = p
      BY <2>4, <2>5, <3>1, <3>2 DEF Import
    <3>4. Place(path_string(PathOf(mods, k, CodeIn(project, mods, k)[n]))) \in DOMAIN project
      BY <1>5, <3>3
    <3>5. Place(path_string(PathOf(mods, k, CodeIn(project, mods, k)[n]))) \in ImportsIn(project, PlaceIn(mods, k))
      BY <1>1, <3>3, <3>4, ImportLeads
    <3> QED
      BY <3>1, <3>3, <3>5
  <2>6. Chained(project, calls, mods) /\ q \in DOMAIN project /\ N = MaxDepth
    BY <1>1, <1>5, <2>4 DEF Good
  <2>7. \E i \in DOMAIN calls : CyclicIn(project, PlaceIn(mods, calls[i].mod))
    BY <1>1, <2>4, <2>5, <2>6, LoadCyclic
  <2>8. Ended'
    BY <2>1, <2>7 DEF Ended
  <2> QED
    BY <2>2, <2>3, <2>8 DEF LInv
<1>6. CASE ~IsKept(p) /\ Place(path_string(p)) \in DOMAIN project /\ Len(calls) # MaxDepth
  <2>1. PICK h \in Tables : h = [n \in PreludeNames |-> <<0, n>>]
    BY PreludeIs
  <2>2. /\ mods' = Append(mods, [path |-> p, place |-> Place(path_string(p)), value_hash |-> h])
        /\ calls' = Append(calls, [mod |-> Len(mods) + 1, at |-> 1])
        /\ loaded' = NULL /\ UNCHANGED <<project, global_mod_cache, fate>>
    BY <1>6, <2>1 DEF load_mod
  <2>3. PICK N \in Nat : N = Len(calls) /\ (N # 0 => calls # <<>>)
    BY <1>1 DEF TypesGood
  <2>4. N # 0 => /\ IsImport(project, mods, calls[N].mod, calls[N].at)
                 /\ PathOf(mods, calls[N].mod, CodeIn(project, mods, calls[N].mod)[calls[N].at]) = p
    BY <2>3 DEF Top, Import
  <2>5. path_string(p) \notin DOMAIN global_mod_cache
    BY <1>6 DEF IsKept
  <2>6. Good(project, calls', mods', global_mod_cache)
    BY <1>1, <1>6, <2>1, <2>2, <2>3, <2>4, <2>5, LoadKeeps
  <2>7. Good(project, calls, mods, global_mod_cache)'
    BY <2>2, <2>6
  <2>8. Returned' /\ Ended'
    BY <2>2 DEF Returned, Ended
  <2> QED
    BY <2>7, <2>8 DEF LInv
<1> QED
  BY <1>3, <1>4, <1>5, <1>6

\* The directory of the command line, and what an argument means.
LEMMA RunStep ==
  ASSUME LInv, run
  PROVE  LInv'
<1>1. /\ fate = "run" /\ calls = <<>> /\ arguments # <<>> /\ arguments' = Tail(arguments)
      /\ UNCHANGED project /\ arguments \in Seq(Text)
  BY DEF run, LInv
<1>2. arguments[1] \in Text /\ arguments' \in Seq(Text)
  BY <1>1
<1>3. PICK s \in Text : s = arguments[1]
  BY <1>2
<1>4. PICK p \in AbsPaths : /\ p = path_resolve(path_new(Cwd), s)
                            /\ Place(path_string(p)) = Place(IF StartsWithSlash(s) THEN s ELSE Cwd \o s)
  BY ResolveIs
<1>5. PICK q : q = Place(IF StartsWithSlash(s) THEN s ELSE Cwd \o s) /\ q = Place(path_string(p))
  BY <1>4
<1>6. load_mod(p, q)
  BY <1>3, <1>4, <1>5 DEF run
<1> QED
  BY <1>1, <1>2, <1>5, <1>6, LoadStep

\* STMT_IMPORT, up to the return of load_mod.
LEMMA ImportStep ==
  ASSUME LInv, execute_import
  PROVE  LInv'
<1>1. AtStatement("import") /\ UNCHANGED <<project, arguments>> /\ arguments \in Seq(Text)
  BY DEF execute_import, LInv
<1>2. fate = "run"
  BY <1>1 DEF AtStatement
<1>3. PICK p \in AbsPaths : p = ImportPath(Top.mod, Statement.path)
  BY <1>1, ImportIs
<1>4. PICK q : q = MeantPlace
  OBVIOUS
<1>5. load_mod(p, q)
  BY <1>3, <1>4 DEF execute_import
<1>6. /\ IsImport(project, mods, Top.mod, Top.at) /\ PathOf(mods, Top.mod, Import) = p
      /\ q = Place(path_string(p))
  BY <1>1, <1>3, <1>4, ImportIs
<1> QED
  BY <1>1, <1>2, <1>4, <1>5, <1>6, LoadStep

\* What define adds to the names of a module.
LEMMA NamesAdded ==
  ASSUME NEW t \in Tables, NEW names \in Seq(Names), NEW value,
         \A i \in DOMAIN names : value[names[i]] \in NameValues
  PROVE  [n \in DOMAIN t \union Elements(names) |-> IF n \in DOMAIN t THEN t[n] ELSE value[n]] \in Tables
<1> DEFINE S == DOMAIN t \union Elements(names)
           h == [n \in S |-> IF n \in DOMAIN t THEN t[n] ELSE value[n]]
<1>1. PICK D \in SUBSET Names : t \in [D -> NameValues]
  BY DEF Tables
<1>2. D = DOMAIN t
  BY <1>1
<1>3. S \in SUBSET Names
  BY <1>1, <1>2 DEF Elements
<1>4. \A n \in S : (IF n \in DOMAIN t THEN t[n] ELSE value[n]) \in NameValues
  BY <1>1, <1>2 DEF Elements
<1>5. h \in [S -> NameValues]
  BY <1>4
<1> HIDE DEF h, S
<1>6. h \in Tables
  BY <1>3, <1>5, Zenon DEF Tables
<1> QED
  BY <1>6 DEF h, S

\* define, for a definition and for the names of an import: when it is an
\* import, the values are those of the module that load_mod returned.
LEMMA DefineStep ==
  ASSUME LInv, fate = "run", calls # <<>>, ~AtEnd, NEW names \in Seq(Names), NEW value,
         \A i \in DOMAIN names : value[names[i]] \in NameValues,
         Statement.kind = "import" =>
           /\ loaded # NULL /\ names = Statement.names
           /\ \A i \in DOMAIN names : /\ names[i] \in DOMAIN mods[loaded].value_hash
                                      /\ value[names[i]] = mods[loaded].value_hash[names[i]],
         define(names, value), UNCHANGED <<project, arguments>>
  PROVE  LInv'
<1>1. Good(project, calls, mods, global_mod_cache) /\ TypesGood(project, calls, mods)
      /\ calls \in Seq(CallRecs) /\ mods \in Seq(ModuleRecs) /\ arguments \in Seq(Text)
  BY DEF LInv, Good, TypesGood
<1>2. PICK N \in Nat : N = Len(calls) /\ N # 0
  BY TopIs
<1>3. PICK k \in DOMAIN mods : k = Top.mod /\ k = calls[N].mod
  BY <1>2, TopIs
<1>4. PICK n : n = Top.at /\ n = calls[N].at
  BY <1>2, TopIs
<1>5. n \in DOMAIN CodeIn(project, mods, k) /\ Statement = CodeIn(project, mods, k)[n]
  BY <1>3, <1>4, TopIs, StateIs DEF AtEnd, Statement
<1>6. PICK s : s = Statement
  OBVIOUS
<1>7. PICK t \in Tables : t = mods[k].value_hash
  <2>1. mods[k] \in ModuleRecs
    BY <1>1
  <2> QED
    BY <2>1 DEF ModuleRecs
<1> DEFINE taken == \E i \in DOMAIN names :
                      mod_find(Top.mod, names[i]) # NULL \/ \E j \in 1 .. i - 1 : names[i] = names[j]
<1>8. CASE taken
  <2>1. End("redefined")
    BY <1>8 DEF define
  <2>2. "redefined" \notin {"kept twice", "missing", "overflow"}
    OBVIOUS
  <2> QED
    BY <1>1, <2>1, <2>2, EndStep
<1>9. CASE ~taken
  <2>1. \A i \in DOMAIN names : names[i] \notin DOMAIN t
    <3> SUFFICES ASSUME NEW i \in DOMAIN names, names[i] \in DOMAIN t PROVE FALSE
      OBVIOUS
    <3>1. mod_find(Top.mod, names[i]) = t[names[i]]
      BY <1>3, <1>7 DEF mod_find
    <3>2. t[names[i]] \in NameValues
      BY DEF Tables
    <3>3. t[names[i]] # NULL
      BY <3>2, FilesAssumption DEF NameValues, Names
    <3> QED
      BY <1>9, <3>1, <3>3
  <2>2. PICK h : h = [x \in DOMAIN t \union Elements(names) |-> IF x \in DOMAIN t THEN t[x] ELSE value[x]]
    OBVIOUS
  <2>3. h \in Tables
    BY <2>2, NamesAdded
  <2>4. /\ mods' = [mods EXCEPT ![k].value_hash = h]
        /\ calls' = [calls EXCEPT ![Len(calls)].at = @ + 1]
        /\ loaded' = NULL /\ UNCHANGED <<project, global_mod_cache, fate>>
    BY <1>3, <1>7, <1>9, <2>2 DEF define
  <2>5. PICK m2 : m2 = mods' /\ Redefined(mods, m2, k, h)
    BY <1>1, <1>3, <2>3, <2>4, RedefinedIs
  <2>6. PICK c2 : c2 = calls' /\ Advanced(calls, c2)
    BY <1>1, <2>4, AdvancedIs
  <2>7. MoreNames(mods, k, h)
    BY <1>7, <2>2 DEF MoreNames
  <2>8. ASSUME s.kind = "import"
        PROVE  /\ ImportKey(mods, k, s) \in DOMAIN global_mod_cache
               /\ \A j \in DOMAIN s.names :
                    /\ s.names[j] \in DOMAIN h
                    /\ s.names[j] \in DOMAIN mods[global_mod_cache[ImportKey(mods, k, s)]].value_hash
                    /\ h[s.names[j]] = mods[global_mod_cache[ImportKey(mods, k, s)]].value_hash[s.names[j]]
    <3>1. names = s.names /\ loaded # NULL
      BY <1>6, <2>8
    <3>2. /\ ImportKey(mods, k, s) \in DOMAIN global_mod_cache
          /\ loaded = global_mod_cache[ImportKey(mods, k, s)]
      <4>1. Import = s
        BY <1>3, <1>4, <1>5, <1>6 DEF Import
      <4> QED
        BY <1>3, <3>1, <4>1 DEF LInv, Returned
    <3>3. ASSUME NEW j \in DOMAIN names
          PROVE  /\ names[j] \in DOMAIN h /\ names[j] \in DOMAIN mods[loaded].value_hash
                 /\ h[names[j]] = mods[loaded].value_hash[names[j]]
      <4>1. names[j] \in Elements(names)
        BY DEF Elements
      <4>2. names[j] \in DOMAIN h /\ h[names[j]] = value[names[j]]
        BY <2>1, <2>2, <4>1
      <4> QED
        BY <1>6, <2>8, <4>2
    <3> QED
      BY <3>1, <3>2, <3>3
  <2>9. TakesNames(mods, global_mod_cache, k, CodeIn(project, mods, k)[n], h)
    BY <1>5, <1>6, <2>8 DEF TakesNames
  <2>10. Good(project, c2, m2, global_mod_cache)
    BY <1>1, <1>2, <1>3, <1>4, <1>5, <2>3, <2>5, <2>6, <2>7, <2>9, DefineKeeps
  <2>11. Good(project, calls, mods, global_mod_cache)'
    BY <2>4, <2>5, <2>6, <2>10
  <2>12. Returned' /\ Ended'
    BY <2>4 DEF Returned, Ended
  <2> QED
    BY <1>1, <2>11, <2>12 DEF LInv
<1> QED
  BY <1>8, <1>9

\* STMT_DEFINE.
LEMMA ExecuteDefineStep ==
  ASSUME LInv, execute_define
  PROVE  LInv'
<1>1. /\ AtStatement("define") /\ UNCHANGED <<project, arguments>>
      /\ define(<<Statement.name>>, [n \in {Statement.name} |-> <<Top.mod, n>>])
  BY DEF execute_define
<1>2. fate = "run" /\ calls # <<>> /\ ~AtEnd /\ Statement.kind = "define"
  BY <1>1 DEF AtStatement
<1>3. PICK k \in DOMAIN mods : k = Top.mod
  BY <1>2, TopIs
<1>4. k \in Nat
  <2>1. mods \in Seq(ModuleRecs)
    BY DEF LInv, Good, TypesGood
  <2> QED
    BY <2>1
<1>5. Statement.name \in Names
  <2>1. project \in Projects /\ PlaceIn(mods, k) \in DOMAIN project
    BY DEF LInv, Good, TypesGood
  <2>2. Top.at \in DOMAIN Code(k) /\ Statement = Code(k)[Top.at]
    BY <1>2, <1>3, TopIs DEF AtEnd, Statement
  <2> QED
    BY <1>2, <2>1, <2>2, StateIs, FilesAre DEF CodeIn
<1>6. PICK x \in Names : x = Statement.name
  BY <1>5
<1>7. PICK names \in Seq(Names) : names = <<x>> /\ DOMAIN names = {1} /\ names[1] = x
  <2>1. <<x>> \in Seq(Names) /\ DOMAIN <<x>> = {1} /\ <<x>>[1] = x
    OBVIOUS
  <2> QED
    BY <2>1
<1>8. PICK value : value = [n \in {x} |-> <<k, n>>] /\ value[x] \in NameValues
  <2>1. <<k, x>> \in NameValues
    BY <1>4 DEF NameValues
  <2>2. [n \in {x} |-> <<k, n>>][x] = <<k, x>>
    OBVIOUS
  <2> QED
    BY <2>1, <2>2
<1>9. define(names, value)
  BY <1>1, <1>3, <1>6, <1>7, <1>8
<1>10. \A i \in DOMAIN names : value[names[i]] \in NameValues
  BY <1>7, <1>8
<1> QED
  BY <1>1, <1>2, <1>9, <1>10, DefineStep

\* The rest of STMT_IMPORT.
LEMMA ImportNamesStep ==
  ASSUME LInv, import_names
  PROVE  LInv'
<1>1. AtStatement("import") /\ loaded # NULL /\ UNCHANGED <<project, arguments>>
  BY DEF import_names
<1>2. fate = "run" /\ calls # <<>> /\ ~AtEnd /\ Statement.kind = "import"
  BY <1>1 DEF AtStatement
<1>3. arguments' \in Seq(Text)
  BY <1>1 DEF LInv
<1>4. CASE \E i \in DOMAIN Statement.names : mod_find(loaded, Statement.names[i]) = NULL
  <2>1. End("unknown") /\ "unknown" \notin {"kept twice", "missing", "overflow"}
    BY <1>4 DEF import_names
  <2> QED
    BY <1>1, <1>3, <2>1, EndStep
<1>5. CASE ~\E i \in DOMAIN Statement.names : mod_find(loaded, Statement.names[i]) = NULL
  <2>1. PICK names \in Seq(Names) : names = Statement.names
    BY <1>1, ImportIs
  <2>2. PICK value : value = [n \in Elements(names) |-> mod_find(loaded, n)]
    OBVIOUS
  <2>3. define(names, value)
    BY <1>5, <2>1, <2>2 DEF import_names
  <2>4. PICK t \in Tables : t = mods[loaded].value_hash
    <3>1. loaded \in Kept
      BY <1>1 DEF LInv, Returned
    <3>2. loaded \in DOMAIN mods /\ mods \in Seq(ModuleRecs)
      BY <3>1 DEF Kept, Elements, LInv, Good, CacheGood, TypesGood
    <3>3. mods[loaded] \in ModuleRecs
      BY <3>2
    <3> QED
      BY <3>3 DEF ModuleRecs
  <2>5. ASSUME NEW i \in DOMAIN names
        PROVE  names[i] \in DOMAIN t /\ value[names[i]] = t[names[i]] /\ value[names[i]] \in NameValues
    <3>1. mod_find(loaded, names[i]) # NULL
      BY <1>5, <2>1
    <3>2. names[i] \in DOMAIN t /\ mod_find(loaded, names[i]) = t[names[i]]
      BY <2>4, <3>1 DEF mod_find
    <3>3. value[names[i]] = mod_find(loaded, names[i])
      BY <2>2 DEF Elements
    <3>4. t[names[i]] \in NameValues
      BY <3>2 DEF Tables
    <3> QED
      BY <3>2, <3>3, <3>4
  <2>6. \A i \in DOMAIN names : value[names[i]] \in NameValues
    BY <2>5
  <2>7. \A i \in DOMAIN names : /\ names[i] \in DOMAIN mods[loaded].value_hash
                                /\ value[names[i]] = mods[loaded].value_hash[names[i]]
    BY <2>4, <2>5
  <2> QED
    BY <1>1, <1>2, <2>1, <2>3, <2>6, <2>7, DefineStep
<1> QED
  BY <1>4, <1>5

\* The end of load_mod.
LEMMA LoadModEndStep ==
  ASSUME LInv, load_mod_end
  PROVE  LInv'
<1>1. /\ fate = "run" /\ calls # <<>> /\ AtEnd /\ UNCHANGED <<project, arguments>>
      /\ Good(project, calls, mods, global_mod_cache) /\ TypesGood(project, calls, mods)
      /\ calls \in Seq(CallRecs) /\ mods \in Seq(ModuleRecs) /\ arguments \in Seq(Text)
  BY DEF load_mod_end, LInv, Good, TypesGood
<1>2. PICK N \in Nat : N = Len(calls) /\ N # 0 /\ DOMAIN calls = 1 .. N
  BY <1>1, TopIs
<1>3. PICK k \in DOMAIN mods : k = Top.mod /\ k = calls[N].mod
  BY <1>1, <1>2, TopIs
<1>4. PICK key : key = KeyIn(mods, k) /\ key = path_string(mods[k].path)
  BY DEF KeyIn
<1>5. key \notin DOMAIN global_mod_cache
  <2>1. NotKept(calls, mods, global_mod_cache)
    BY <1>1 DEF Good
  <2>2. N \in DOMAIN calls
    BY <1>2
  <2> QED
    BY <1>3, <1>4, <2>1, <2>2 DEF NotKept
<1>6. ~IsKept(mods[Top.mod].path)
  BY <1>3, <1>4, <1>5 DEF IsKept
<1>7. /\ Keep(k, key) /\ calls' = SubSeq(calls, 1, N - 1)
      /\ loaded' = (IF N = 1 THEN NULL ELSE k) /\ UNCHANGED <<mods, fate, project, arguments>>
  BY <1>1, <1>2, <1>3, <1>4, <1>6 DEF load_mod_end
<1>8. PICK g2 : /\ g2 = global_mod_cache' /\ DOMAIN g2 = DOMAIN global_mod_cache \union {key}
                /\ g2[key] = k /\ \A x \in DOMAIN global_mod_cache : x # key => g2[x] = global_mod_cache[x]
  BY <1>7 DEF Keep
<1>9. KeptIs(global_mod_cache, g2, KeyIn(mods, k), k)
  BY <1>4, <1>8 DEF KeptIs
<1>10. PICK c2 \in Seq(CallRecs) : /\ c2 = calls' /\ Len(c2) = N - 1 /\ DOMAIN c2 = 1 .. N - 1
                                   /\ \A i \in 1 .. N - 1 : c2[i] = calls[i]
  <2>1. PICK c2 : c2 = SubSeq(calls, 1, N - 1)
    OBVIOUS
  <2>2. c2 \in Seq(CallRecs) /\ Len(c2) = N - 1 /\ \A i \in 1 .. N - 1 : c2[i] = calls[i]
    <3>1. \A i \in 1 .. N - 1 : calls[i] \in CallRecs
      BY <1>1, <1>2
    <3>2. Len(SubSeq(calls, 1, N - 1)) = N - 1
      BY <1>1, <1>2
    <3>3. c2 \in Seq(CallRecs)
      BY <1>1, <1>2, <2>1, <3>1
    <3>4. \A i \in 1 .. N - 1 : c2[i] = calls[i]
      BY <1>1, <1>2, <2>1
    <3> QED
      BY <2>1, <3>2, <3>3, <3>4
  <2>3. DOMAIN c2 = 1 .. N - 1
    BY <1>2, <2>2
  <2> QED
    BY <1>7, <2>1, <2>2, <2>3
<1>11. calls[N].at > Len(CodeIn(project, mods, k))
  BY <1>1, <1>2, <1>3, StateIs DEF AtEnd, Top
<1>12. Good(project, c2, mods, g2)
  BY <1>1, <1>2, <1>3, <1>9, <1>10, <1>11, EndKeeps
<1>13. Good(project, calls, mods, global_mod_cache)'
  BY <1>7, <1>8, <1>10, <1>12
<1>14. Ended'
  BY <1>1, <1>7 DEF Ended
<1>15. Returned'
  <2> SUFFICES ASSUME loaded' # NULL
               PROVE  /\ loaded' \in Kept'
                      /\ calls' # <<>> =>
                           /\ IsImport(project', mods', Top'.mod, Top'.at)
                           /\ ImportKey(mods', Top'.mod, Import') \in DOMAIN global_mod_cache'
                           /\ loaded' = global_mod_cache'[ImportKey(mods', Top'.mod, Import')]
    BY DEF Returned
  <2>1. N # 1 /\ loaded' = k
    BY <1>7
  <2>2. k \in Kept'
    BY <1>8 DEF Kept, Elements
  <2>3. PICK j \in 1 .. N - 1 : j = N - 1 /\ j + 1 = N /\ j \in DOMAIN calls /\ j + 1 \in DOMAIN calls
    <3>1. N - 1 \in 1 .. N - 1 /\ (N - 1) + 1 = N /\ N - 1 \in 1 .. N /\ N \in 1 .. N
      BY <1>2, <2>1
    <3> QED
      BY <1>2, <3>1
  <2>4. Len(c2) = N - 1
    BY <1>10
  <2>5. Top' = calls[j]
    BY <1>10, <2>3, <2>4 DEF Top
  <2>6. PICK l : l = calls[j].mod
    OBVIOUS
  <2>7. PICK n : n = calls[j].at
    OBVIOUS
  <2>8. /\ IsImport(project, mods, l, n)
        /\ PathOf(mods, l, CodeIn(project, mods, l)[n]) = mods[k].path
    BY <1>1, <1>3, <2>3, <2>6, <2>7 DEF Good, Chained
  <2>9. ImportKey(mods, l, CodeIn(project, mods, l)[n]) = key
    BY <1>4, <2>8 DEF ImportKey
  <2>10. Import' = CodeIn(project, mods, l)[n]
    BY <1>7, <2>5, <2>6, <2>7 DEF Import
  <2> QED
    BY <1>7, <1>8, <2>1, <2>2, <2>5, <2>6, <2>7, <2>8, <2>9, <2>10
<1> QED
  BY <1>1, <1>7, <1>13, <1>14, <1>15 DEF LInv

\* Every step keeps the invariant.
LEMMA StepKeeps ==
  ASSUME LInv, [LoaderNext]_loaderVars
  PROVE  LInv'
<1>1. CASE run
  BY <1>1, RunStep
<1>2. CASE finish
  <2>1. End("done") /\ UNCHANGED project /\ arguments' \in Seq(Text)
    BY <1>2 DEF finish, LInv
  <2>2. "done" \notin {"kept twice", "missing", "overflow"}
    OBVIOUS
  <2> QED
    BY <2>1, <2>2, EndStep
<1>3. CASE execute_define
  BY <1>3, ExecuteDefineStep
<1>4. CASE execute_import
  BY <1>4, ImportStep
<1>5. CASE import_names
  BY <1>5, ImportNamesStep
<1>6. CASE load_mod_end
  BY <1>6, LoadModEndStep
<1>7. CASE UNCHANGED loaderVars
  <2>1. UNCHANGED <<project, arguments, calls, mods, global_mod_cache, loaded, fate>>
    BY <1>7 DEF loaderVars
  <2>2. Good(project, calls, mods, global_mod_cache)'
    BY <2>1 DEF LInv
  <2>3. Returned'
    BY <2>1 DEF LInv, Returned, Kept, Top, Import
  <2>4. Ended'
    BY <2>1 DEF LInv, Ended, MeantPlace, Top, Statement, Code, PlaceOf
  <2> QED
    BY <2>1, <2>2, <2>3, <2>4 DEF LInv
<1> QED
  BY <1>1, <1>2, <1>3, <1>4, <1>5, <1>6, <1>7 DEF LoaderNext

----------------------------------------------------------------------------
(* The theorems. *)

\* The modules are at the places that were meant; the calls are a chain of
\* imports of files that are not kept; what is kept has taken all its imports
\* from what is kept, and is in no circle.
THEOREM LoaderInvariant == LoaderSpec => []LInv
<1>1. LoaderInit => LInv
  BY InitGood
<1>2. LInv /\ [LoaderNext]_loaderVars => LInv'
  BY StepKeeps
<1> QED
  BY <1>1, <1>2, PTL DEF LoaderSpec

\* A module has a path and is at a place.
LEMMA ModuleIs ==
  ASSUME LInv, NEW m \in DOMAIN mods
  PROVE  /\ mods[m].path \in AbsPaths /\ PlaceOf(m) = mods[m].place /\ PlaceOf(m) \in DOMAIN project
<1>1. mods \in Seq(ModuleRecs) /\ PlaceIn(mods, m) \in DOMAIN project /\ PlaceIn(mods, m) = mods[m].place
  BY DEF LInv, Good, TypesGood
<1>2. mods[m] \in ModuleRecs
  BY <1>1
<1>3. mods[m].path \in AbsPaths
  BY <1>2 DEF ModuleRecs
<1> QED
  BY <1>1, <1>3, StateIs

\* A module that is kept.
LEMMA KeptModule ==
  ASSUME LInv, NEW m \in Kept
  PROVE  /\ m \in DOMAIN mods /\ KeyIn(mods, m) \in DOMAIN global_mod_cache
         /\ Done(project, mods, global_mod_cache, m, Len(Code(m)) + 1)
         /\ ~Cyclic(PlaceOf(m))
<1>1. PICK key \in DOMAIN global_mod_cache : m = global_mod_cache[key]
  BY DEF Kept, Elements
<1>2. /\ m \in DOMAIN mods /\ KeyIn(mods, m) = key
      /\ Done(project, mods, global_mod_cache, m, Len(CodeIn(project, mods, m)) + 1)
      /\ ~CyclicIn(project, PlaceIn(mods, m))
  BY <1>1 DEF LInv, Good, CacheGood
<1> QED
  BY <1>2, StateIs, NeededOfProject DEF Cyclic, CyclicIn

\* Names are taken from modules that have all of theirs.
LEMMA KeptLoaded ==
  ASSUME LInv
  PROVE  KeptWhenLoaded
<1>1. fate # "kept twice"
  BY DEF LInv, Ended
<1>2. ASSUME NEW i \in DOMAIN calls PROVE calls[i].mod \notin Kept
  <2>1. KeyIn(mods, calls[i].mod) \notin DOMAIN global_mod_cache
    BY DEF LInv, Good, NotKept
  <2> QED
    BY <2>1, KeptModule
<1>3. loaded # NULL => loaded \in Kept
  BY DEF LInv, Returned
<1> QED
  BY <1>1, <1>2, <1>3 DEF KeptWhenLoaded

\* An imported name means what it means where it was taken from.
LEMMA SameValues ==
  ASSUME LInv
  PROVE  SameValue
<1> SUFFICES ASSUME NEW m \in Kept, NEW i \in DOMAIN Code(m), NEW s, s = Code(m)[i], s.kind = "import",
                    NEW from, from = global_mod_cache[path_string(ImportPath(m, s.path))],
                    NEW j \in DOMAIN s.names
             PROVE  mod_find(m, s.names[j]) = mod_find(from, s.names[j])
  BY DEF SameValue
<1>1. m \in DOMAIN mods /\ Done(project, mods, global_mod_cache, m, Len(Code(m)) + 1)
  BY KeptModule
<1>2. Code(m) = CodeIn(project, mods, m)
  BY StateIs
<1>3. IsImport(project, mods, m, i)
  BY <1>2 DEF IsImport
<1>4. PICK L \in Nat : L = Len(Code(m)) /\ DOMAIN Code(m) = 1 .. L
  <2>1. project \in Projects /\ PlaceOf(m) \in DOMAIN project
    BY <1>1, ModuleIs DEF LInv, Good
  <2> QED
    BY <2>1, FilesAre DEF Code
<1>5. i \in 1 .. (L + 1) - 1
  BY <1>4
<1>6. Taken(mods, global_mod_cache, m, s)
  BY <1>1, <1>2, <1>3, <1>4, <1>5 DEF Done
<1>7. ImportKey(mods, m, s) = path_string(ImportPath(m, s.path))
  BY StateIs DEF ImportKey, PathOf
<1>8. HasName(mods, m, from, s.names[j])
  BY <1>6, <1>7 DEF Taken
<1> QED
  BY <1>8 DEF HasName, mod_find

\* A file is loaded once, however its imports spell its path, unless it
\* imports itself or its path leads above the root: execute_import of
\* lang/execute.c with load_mod and its cache.
THEOREM EachLoadedOnce == LoaderSpec => []LoadedOnce
<1>1. LInv => LoadedOnce
  <2> SUFFICES ASSUME LInv PROVE LoadedOnce
    OBVIOUS
  <2>1. ASSUME NEW m \in DOMAIN mods, NEW n \in DOMAIN mods, PlaceOf(m) = PlaceOf(n), m # n
        PROVE  Cyclic(PlaceOf(m)) \/ AboveRoot(m) \/ AboveRoot(n)
    <3>1. PlaceIn(mods, m) = PlaceOf(m) /\ PlaceIn(mods, n) = PlaceOf(n)
      BY StateIs
    <3>2. \/ CyclicIn(project, PlaceIn(mods, m))
          \/ ".." \in Elements(mods[m].path.segment_stack) \/ ".." \in Elements(mods[n].path.segment_stack)
      BY <2>1, <3>1 DEF LInv, Good, Once
    <3> QED
      BY <3>1, <3>2, NeededOfProject DEF Cyclic, CyclicIn, AboveRoot
  <2> QED
    BY <2>1, KeptLoaded, SameValues DEF LoadedOnce
<1> QED
  BY <1>1, LoaderInvariant, PTL

\* The file that is loaded is the one that was meant, an import that finds no
\* file has none to find, and the paths in messages lead to their files:
\* path_join, path_relative and load_mod.
THEOREM PlaceIsMeant == LoaderSpec => []PlaceMeant
<1>1. LInv => PlaceMeant
  <2> SUFFICES ASSUME LInv PROVE PlaceMeant
    OBVIOUS
  <2>1. RelativeLeads
    BY ModuleIs, RelativeIs DEF RelativeLeads
  <2>2. \A m \in DOMAIN mods : PlaceOf(m) = mods[m].place
    BY ModuleIs
  <2>3. fate = "missing" /\ calls # <<>> => MeantPlace \notin DOMAIN project
    BY DEF LInv, Ended
  <2> QED
    BY <2>1, <2>2, <2>3 DEF PlaceMeant
<1> QED
  BY <1>1, LoaderInvariant, PTL

\* Loading fills the C stack only when a file that is being loaded imports
\* itself, and such a file is never kept: load_mod keeps a module after its
\* last statement only.
THEOREM OverflowIsExact == LoaderSpec => []OverflowExact
<1>1. LInv => OverflowExact
  <2> SUFFICES ASSUME LInv PROVE OverflowExact
    OBVIOUS
  <2>1. ASSUME fate = "overflow" PROVE \E i \in DOMAIN calls : Cyclic(PlaceOf(calls[i].mod))
    <3>1. PICK i \in DOMAIN calls : CyclicIn(project, PlaceIn(mods, calls[i].mod))
      BY <2>1 DEF LInv, Ended
    <3> QED
      BY <3>1, StateIs, NeededOfProject DEF Cyclic, CyclicIn
  <2>2. \A m \in Kept : ~Cyclic(PlaceOf(m))
    BY KeptModule
  <2> QED
    BY <2>1, <2>2 DEF OverflowExact
<1> QED
  BY <1>1, LoaderInvariant, PTL
=============================================================================
