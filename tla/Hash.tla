-------------------------------- MODULE Hash --------------------------------
(***************************************************************************)
(* The hash table: packages/std/hash/hash.c.  Definitions, loaded modules, *)
(* sets of nodes and neighbourhoods are kept in such tables.               *)
(*                                                                         *)
(* A bucket is a chain of entries, the newest first.  An entry stands for  *)
(* its address: no two have the same key.  `map' is what the callers       *)
(* believe to be in the table.                                             *)
(***************************************************************************)
EXTENDS Memory

CONSTANTS
  HashKeys, HashValues,
  hash_fn,      \* key -> number
  hash_primes,  \* the sizes of a table as it grows
  HashWord      \* a size_t is a number below HashWord

\* Each size has room for more entries than the one before it.
ASSUME HashAssumption ==
  /\ hash_fn \in [HashKeys -> Nat]
  /\ HashWord \in Nat \ {0}
  /\ hash_primes \in Seq(1 .. HashWord - 1) /\ hash_primes # <<>>
  /\ \A i \in 1 .. Len(hash_primes) - 1 :
       (hash_primes[i] * 75) \div 100 < (hash_primes[i + 1] * 75) \div 100
  /\ NULL \notin HashKeys \union HashValues

VARIABLES
  hash,       \* [prime_index, used_indexes_size, length, entries,
              \*  cursor_index, cursor_entry (the key of the entry)]
  map,        \* history: key -> value
  hidden,     \* history: heads of chains that were deleted since the last
              \* rehash although their bucket was not empty afterwards
  hash_walk   \* history: the keys there since hash_first, and those answered

hashVars == <<hash, map, hidden, hash_walk>>

NoHashWalk == [on |-> FALSE, seen |-> {}, kept |-> {}, again |-> FALSE]

limit(h) == hash_primes[h.prime_index + 1]

hash_key_index(h, k) == hash_fn[k] % limit(h)

hash_init ==
  [prime_index |-> 0, used_indexes_size |-> 0, length |-> 0,
   entries |-> [i \in 0 .. hash_primes[1] - 1 |-> <<>>],
   cursor_index |-> 0, cursor_entry |-> NULL]

HashInit ==
  /\ hash = hash_init
  /\ map = <<>> /\ hidden = 0 /\ hash_walk = NoHashWalk

\* The entries in the order of the buckets.
AllEntries(h) ==
  LET flat[j \in 0 .. limit(h)] == IF j = 0 THEN <<>> ELSE flat[j - 1] \o h.entries[j - 1]
  IN  flat[limit(h)]

\* Mutant: the entries keep the index of their old bucket.
Rehashed_index(h, i) ==
  LET old == AllEntries(h)
      chain[j \in 0 .. Len(old)] ==
        IF j = 0 THEN <<>>
        ELSE IF hash_fn[old[j].key] % hash_primes[h.prime_index + 2] # i THEN chain[j - 1]
        ELSE <<old[j]>> \o chain[j - 1]
  IN  chain[Len(old)]

\* A rehash goes through the buckets in order and puts each entry in front of
\* its new chain.
Rehashed(h, i) ==
  LET old == AllEntries(h)
      chain[j \in 0 .. Len(old)] ==
        IF j = 0 THEN <<>>
        ELSE IF hash_fn[old[j].key] % hash_primes[h.prime_index + 2] # i THEN chain[j - 1]
        ELSE <<[old[j] EXCEPT !.index = i]>> \o chain[j - 1]
  IN  chain[Len(old)]

hash_rehash(h) ==
  LET entries == [i \in 0 .. hash_primes[h.prime_index + 2] - 1 |-> Rehashed(h, i)]
  IN  [h EXCEPT !.prime_index = @ + 1, !.entries = entries,
                !.used_indexes_size = Cardinality({i \in DOMAIN entries : entries[i] # <<>>})]

\* The place of a key in its chain; none if it is not in the table.
Places(h, k) ==
  LET chain == h.entries[hash_key_index(h, k)] IN {j \in DOMAIN chain : chain[j].key = k}

hash_has(h, k) == Places(h, k) # {}

\* The entry that a search along the chain stops at.
hash_get_entry(h, k) ==
  h.entries[hash_key_index(h, k)][CHOOSE j \in Places(h, k) : \A l \in Places(h, k) : j <= l]

hash_get(h, k) == IF hash_has(h, k) THEN hash_get_entry(h, k).value ELSE NULL

hash_set_entry_if_not_exists(h, k, v) ==
  LET i == hash_key_index(h, k) IN
    IF hash_has(h, k) THEN h
    ELSE [h EXCEPT !.entries[i] = <<[index |-> i, key |-> k, value |-> v]>> \o @,
                   !.used_indexes_size = IF h.entries[i] = <<>> THEN (@ + 1) % HashWord ELSE @,
                   !.length = @ + 1]

hash_is_overload(h) ==
  \/ h.length >= (limit(h) * 75) \div 100
  \/ h.used_indexes_size >= (limit(h) * 50) \div 100

\* Bound: the last size there is.
CanGrow == hash_is_overload(hash) => hash.prime_index + 1 < Len(hash_primes)

Stored(k, v) == [l \in DOMAIN map \union {k} |-> IF l = k THEN v ELSE map[l]]

\* The histories of a rehash: a walk cannot go on.
Growing ==
  IF hash_is_overload(hash) THEN hidden' = 0 /\ hash_walk' = NoHashWalk
  ELSE UNCHANGED <<hidden, hash_walk>>

\* A key that is there already keeps its value, and the table grows first.
hash_set(k, v) ==
  LET h == IF hash_is_overload(hash) THEN hash_rehash(hash) ELSE hash IN
    /\ CanGrow
    /\ hash' = hash_set_entry_if_not_exists(h, k, v)
    /\ map' = IF k \in DOMAIN map THEN map ELSE Stored(k, v)
    /\ Growing

\* The value of a key that is there is replaced in place.
hash_put(k, v) ==
  \/ ~hash_has(hash, k) /\ hash_set(k, v)
  \/ /\ hash_has(hash, k)
     /\ LET i == hash_key_index(hash, k)
            e == hash_get_entry(hash, k)
        IN  hash' = [hash EXCEPT !.entries[i] =
                       [j \in DOMAIN @ |-> IF @[j] = e THEN [e EXCEPT !.value = v] ELSE @[j]]]
     /\ map' = Stored(k, v)
     /\ UNCHANGED <<hidden, hash_walk>>

\* The head of a chain takes its bucket out of the count, also when there is
\* more in the chain: the count may pass below zero.
hash_delete(k) ==
  /\ hash_has(hash, k)
  /\ LET i == hash_get_entry(hash, k).index
         old == hash.entries[i]
         j == CHOOSE l \in DOMAIN old : old[l].key = k
         chain == SubSeq(old, 1, j - 1) \o SubSeq(old, j + 1, Len(old))
         head == j = 1
     IN  /\ hash' = [hash EXCEPT !.entries[i] = chain, !.length = @ - 1,
                       !.used_indexes_size = IF head THEN (@ - 1) % HashWord ELSE @]
         /\ hidden' = IF head /\ chain # <<>> THEN hidden + 1 ELSE hidden
  /\ map' = Without(map, {k})
  /\ hash_walk' = IF hash.cursor_entry = k THEN NoHashWalk
                  ELSE [hash_walk EXCEPT !.kept = @ \ {k}, !.seen = @ \ {k}]

hash_purge ==
  /\ hash' = hash_init
  /\ map' = <<>> /\ hidden' = 0 /\ hash_walk' = NoHashWalk

----------------------------------------------------------------------------
(* Walking. *)

Head1(chain) == IF chain = <<>> THEN NULL ELSE chain[1].key

\* The entry after that of k in the chain of bucket i.
After(h, i, k) ==
  LET chain == h.entries[i]
      j == CHOOSE j \in DOMAIN chain : chain[j].key = k
  IN  IF j < Len(chain) THEN chain[j + 1].key ELSE NULL

\* Mutant: goes on to the next bucket after the head of a chain.
Advance_heads(h) ==
  LET later == {i \in h.cursor_index + 1 .. limit(h) - 1 : h.entries[i] # <<>>}
      i == IF h.cursor_entry # NULL THEN h.cursor_index
           ELSE IF later = {} THEN limit(h) - 1
           ELSE CHOOSE i \in later : \A j \in later : i <= j
      k == IF h.cursor_entry # NULL THEN h.cursor_entry
           ELSE IF later = {} THEN NULL ELSE Head1(h.entries[i])
  IN  [answer |-> k, hash |-> [h EXCEPT !.cursor_index = i, !.cursor_entry = NULL]]

\* Scans forward for an entry, answers it and goes past it.
Advance(h) ==
  LET later == {i \in h.cursor_index + 1 .. limit(h) - 1 : h.entries[i] # <<>>}
      i == IF h.cursor_entry # NULL THEN h.cursor_index
           ELSE IF later = {} THEN limit(h) - 1
           ELSE CHOOSE i \in later : \A j \in later : i <= j
      k == IF h.cursor_entry # NULL THEN h.cursor_entry
           ELSE IF later = {} THEN NULL ELSE Head1(h.entries[i])
  IN  [answer |-> k,
       hash |-> [h EXCEPT !.cursor_index = i,
                          !.cursor_entry = IF k = NULL THEN NULL ELSE After(h, i, k)]]

Walk(kept, seen, h) ==
  LET a == Advance(h) IN
    /\ hash' = a.hash
    /\ hash_walk' = [on |-> TRUE, kept |-> kept, seen |-> seen \union ({a.answer} \intersect kept),
                     again |-> a.answer \in seen]
    /\ UNCHANGED <<map, hidden>>

hash_first ==
  Walk(DOMAIN map, {},
       [hash EXCEPT !.cursor_index = 0, !.cursor_entry = Head1(hash.entries[0])])

\* Callers go on as long as the table did not grow and the entry that comes
\* next was not deleted.
hash_next ==
  /\ hash_walk.on
  /\ Walk(hash_walk.kept, hash_walk.seen, hash)

HashNext ==
  \/ \E k \in HashKeys :
       \/ \E v \in HashValues : hash_set(k, v) \/ hash_put(k, v)
       \/ hash_delete(k)
  \/ hash_purge \/ hash_first \/ hash_next

HashSpec == HashInit /\ [][HashNext]_hashVars

----------------------------------------------------------------------------
(* Properties. *)

Used == {i \in DOMAIN hash.entries : hash.entries[i] # <<>>}

\* The table is never more than three quarters full, although the length is
\* looked at before an insertion.
LoadBound ==
  /\ DOMAIN hash.entries = 0 .. limit(hash) - 1
  /\ hash.length <= (limit(hash) * 75) \div 100

\* The count of used buckets is short by exactly the deleted heads of chains
\* that went on: with none of them it is exact, with more of them than used
\* buckets it has wrapped around, and the next insertion makes the table grow.
UsedCount == hash.used_indexes_size = (Cardinality(Used) - hidden) % HashWord

\* The table is the map that the calls made it: every key is found with its
\* value and no other is, each entry is once in the bucket of its key, which it
\* has noted, also after the entries were moved to a larger table.
\* It grows in time, and its count of used buckets is off by what is known.
Represents ==
  /\ LoadBound /\ UsedCount
  /\ \A k \in HashKeys : hash_get(hash, k) = IF k \in DOMAIN map THEN map[k] ELSE NULL
  /\ \A i \in DOMAIN hash.entries : \A j \in DOMAIN hash.entries[i] :
       LET e == hash.entries[i][j] IN
         /\ e.index = i /\ hash_key_index(hash, e.key) = i
         /\ \A l \in DOMAIN hash.entries[i] : l # j => hash.entries[i][l].key # e.key
  /\ hash.length = Cardinality(DOMAIN map)

\* A walk has answered each entry that was there all the time exactly once when
\* it comes to the end, although others were inserted, replaced and deleted.
HashWalkComplete ==
  hash_walk.on =>
    /\ ~hash_walk.again
    /\ hash.cursor_entry # NULL \/ hash_walk.kept \subseteq hash_walk.seen
       \/ \E i \in hash.cursor_index + 1 .. limit(hash) - 1 : i \in Used
=============================================================================
