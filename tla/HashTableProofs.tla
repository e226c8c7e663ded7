--------------------------- MODULE HashTableProofs ---------------------------
(***************************************************************************)
(* Proofs about HashTable, for any number of items, paths and keys: what   *)
(* the table frees, when it counts as full, and that a walk without a lock *)
(* sees an atomic list.                                                    *)
(*                                                                         *)
(* The invariant is a picture of the table in the midst of an insertion:   *)
(* `entries` are the items that `node` has reached, `previous` leads from  *)
(* each to the one before it, and the buckets hold these and, once its     *)
(* first store is done, the item that is being inserted.                   *)
(***************************************************************************)
EXTENDS HashTable, FiniteSetTheorems, SequenceTheorems, TLAPS

\* The stores before `node` reaches the new item, and those after its bucket has.
Unlinked == {"bucket", "next", "previous", "node"}
InBucket == {"next", "previous", "node"}

\* No item is in the list twice, `node` is its end and `previous` its order.
ChainOK ==
  /\ \A p, q \in 1..Len(entries) : entries[p] = entries[q] => p = q
  /\ node = IF entries = <<>> THEN NULL ELSE entries[Len(entries)]
  /\ \A p \in 1..Len(entries) :
       previous[entries[p]] = IF p = 1 THEN NULL ELSE entries[p - 1]

\* The new item is apart from the list until `node` reaches it, and knows its
\* predecessor by then.
WriterOK ==
  /\ writer = "idle" <=> item = NULL
  /\ writer \in Unlinked => item \notin Entries /\ item \in live /\ key[item] > 1
  /\ writer = "bucket" => table[key[item]] = NULL /\ previous[item] = NULL
  /\ writer \in {"next", "previous"} => node # NULL
  /\ writer = "node" => previous[item] = node
  /\ writer = "count" => item \in Entries
  /\ status = "freed" => writer = "idle"

\* Each bucket holds the one item with its key.
TableOK ==
  /\ \A k \in Buckets : table[k] # NULL =>
       /\ key[table[k]] = k
       /\ table[k] \in Entries \cup (IF writer \in InBucket THEN {item} ELSE {})
  /\ \A e \in Entries : table[key[e]] = e /\ key[e] > 1
  /\ writer \in InBucket => table[key[item]] = item

\* The walk is at an item of the list; these items are allocated until the table is freed.
WalkOK ==
  /\ hi \in Entries \cup {NULL}
  /\ walk # "on" => hi = NULL
  /\ status = "freed" => walk # "on"
  /\ IF status = "open" THEN Entries \subseteq live ELSE Entries \cap live = {}

\* `count` is what it began with and one for each item, but for the one whose insertion
\* is not over.
CountOK == count = found + Len(entries) - (IF writer = "count" THEN 1 ELSE 0)

IInv == TypeOK /\ ChainOK /\ WriterOK /\ TableOK /\ WalkOK /\ CountOK

-----------------------------------------------------------------------------
\* Entries in terms of indices.
LEMMA EntriesIndexed ==
  ASSUME TypeOK
  PROVE  /\ Len(entries) \in Nat
         /\ DOMAIN entries = 1..Len(entries)
         /\ Entries = {entries[p] : p \in 1..Len(entries)}
         /\ Entries \subseteq Items
         /\ \A p \in 1..Len(entries) : entries[p] \in Items
         /\ entries = <<>> <=> Len(entries) = 0
<1>1. Len(entries) \in Nat /\ DOMAIN entries = 1..Len(entries)
  BY LenProperties DEF TypeOK
<1>2. \A p \in 1..Len(entries) : entries[p] \in Items
  BY ElementOfSeq DEF TypeOK
<1>3. entries = <<>> <=> Len(entries) = 0
  BY EmptySeq DEF TypeOK
<1>4. QED
  BY <1>1, <1>2, <1>3 DEF Entries

\* hash_table_create
LEMMA InitIInv == Init => IInv
<1>. SUFFICES ASSUME Init PROVE IInv
  OBVIOUS
<1>. USE ConstantsAssumption DEF Init
<1>1. found \in Int
  OBVIOUS
<1>2. 0 \in Buckets
  BY DEF Buckets
<1>3. TypeOK
  BY <1>1, <1>2 DEF TypeOK
<1>4. Len(entries) = 0 /\ Entries = {}
  BY DEF Entries
<1>5. ChainOK
  BY <1>4 DEF ChainOK
<1>6. WriterOK
  BY DEF WriterOK, Unlinked
<1>7. TableOK
  BY <1>4 DEF TableOK, InBucket
<1>8. WalkOK /\ CountOK
  BY <1>1, <1>4 DEF WalkOK, CountOK
<1>9. QED
  BY <1>3, <1>5, <1>6, <1>7, <1>8 DEF IInv

\* An insertion up to its first store.
LEMMA InsertIInv ==
  ASSUME IInv, UNCHANGED found, NEW v \in Values, Insert(v)
  PROVE  IInv'
<1>. USE ConstantsAssumption
<1>1. PICK i \in Items \ live :
        /\ live' = live \cup {i}
        /\ value' = [value EXCEPT ![i] = Copy(v)]
        /\ key' = [key EXCEPT ![i] = Key[v]]
        /\ previous' = [previous EXCEPT ![i] = NULL]
        /\ next' = [next EXCEPT ![i] = NULL]
        /\ IF RefusedLate(v)
           THEN UNCHANGED <<writer, item>>
           ELSE writer' = "bucket" /\ item' = i
  BY DEF Insert
<1>2. /\ status = "open" /\ writer = "idle" /\ item = NULL
      /\ UNCHANGED <<status, table, node, count, hi, walk, entries, found>>
  BY DEF Insert, readerVars, IInv, WriterOK
<1>3. TypeOK
  BY DEF IInv
<1>4. Key[v] \in Buckets /\ Copy(v) \in Values \cup {Garbled}
  BY DEF Buckets, Copy
<1>5. TypeOK'
  <2>1. value' \in [Items -> Values \cup {Garbled, Nothing}]
    BY <1>1, <1>3, <1>4 DEF TypeOK
  <2>2. key' \in [Items -> Buckets]
    BY <1>1, <1>3, <1>4 DEF TypeOK
  <2>3. previous' \in [Items -> Items \cup {NULL}] /\ next' \in [Items -> Items \cup {NULL}]
    BY <1>1, <1>3 DEF TypeOK
  <2>4. writer' \in Stores \cup {"idle"} /\ item' \in Items \cup {NULL} /\ live' \subseteq Items
    BY <1>1, <1>3 DEF TypeOK, Stores
  <2>5. QED
    BY <1>2, <1>3, <2>1, <2>2, <2>3, <2>4 DEF TypeOK
<1>6. /\ Entries' = Entries /\ Entries \subseteq live /\ Entries \subseteq Items
      /\ i \notin Entries
      /\ \A e \in Entries : previous'[e] = previous[e] /\ key'[e] = key[e]
      /\ key'[i] = Key[v] /\ previous'[i] = NULL
  BY <1>1, <1>2, <1>3, <1>4, EntriesIndexed DEF Entries, IInv, WalkOK, TypeOK
<1>7. ChainOK'
  <2>1. \A p \in 1..Len(entries) : entries[p] \in Entries
    BY <1>3, EntriesIndexed
  <2>2. QED
    BY <1>2, <1>6, <2>1 DEF IInv, ChainOK
<1>8. WriterOK'
  <2>1. CASE RefusedLate(v)
    BY <1>1, <1>2, <2>1 DEF WriterOK, Unlinked
  <2>2. CASE ~RefusedLate(v)
    <3>1. writer' = "bucket" /\ item' = i /\ i # NULL
      BY <1>1, <2>2
    <3>2. key'[i] > 1 /\ table'[key'[i]] = NULL
      BY <1>2, <1>4, <1>6, <2>2 DEF RefusedLate, BucketFree, Buckets
    <3>3. QED
      BY <1>1, <1>2, <1>6, <3>1, <3>2 DEF WriterOK, Unlinked
  <2>3. QED
    BY <2>1, <2>2
<1>9. TableOK'
  <2>1. writer' \in {"idle", "bucket"}
    BY <1>1, <1>2
  <2>2. \A k \in Buckets : table[k] # NULL => key[table[k]] = k /\ table[k] \in Entries
    BY <1>2 DEF IInv, TableOK, InBucket
  <2>3. \A e \in Entries : table[key[e]] = e /\ key[e] > 1
    BY DEF IInv, TableOK
  <2>4. QED
    BY <1>2, <1>6, <2>1, <2>2, <2>3 DEF TableOK, InBucket
<1>10. WalkOK' /\ CountOK'
  BY <1>1, <1>2, <1>6 DEF IInv, WalkOK, CountOK
<1>11. QED
  BY <1>5, <1>7, <1>8, <1>9, <1>10 DEF IInv

\* The store to the bucket.
LEMMA StoreBucketIInv ==
  ASSUME IInv, UNCHANGED found, StoreBucket
  PROVE  IInv'
<1>. USE ConstantsAssumption
<1>1. /\ writer = "bucket"
      /\ table' = [table EXCEPT ![key[item]] = item]
      /\ writer' = IF node = NULL THEN "node" ELSE "next"
      /\ UNCHANGED <<status, node, count, value, key, previous, next, live, item, hi, walk,
                     entries, found>>
  BY DEF StoreBucket, readerVars, itemVars
<1>2. TypeOK
  BY DEF IInv
<1>3. /\ item \in Items /\ key[item] \in Buckets /\ item \notin Entries /\ item # NULL
      /\ table[key[item]] = NULL /\ previous[item] = NULL /\ item \in live /\ key[item] > 1
  BY <1>1, <1>2 DEF IInv, WriterOK, Unlinked, TypeOK
<1>4. /\ table'[key[item]] = item
      /\ \A k \in Buckets : k # key[item] => table'[k] = table[k]
  BY <1>1, <1>2, <1>3 DEF TypeOK
<1>5. TypeOK'
  <2>1. table' \in [Buckets -> Items \cup {NULL}]
    BY <1>1, <1>2, <1>3 DEF TypeOK
  <2>2. QED
    BY <1>1, <1>2, <2>1 DEF TypeOK, Stores
<1>6. Entries' = Entries
  BY <1>1 DEF Entries
<1>7. ChainOK'
  BY <1>1 DEF IInv, ChainOK
<1>8. WriterOK'
  BY <1>1, <1>3, <1>6 DEF IInv, WriterOK, Unlinked
<1>9. TableOK'
  <2>1. writer' \in InBucket /\ writer \notin InBucket
    BY <1>1 DEF InBucket
  <2>2. \A e \in Entries : key[e] # key[item] /\ key[e] \in Buckets
    <3>1. \A e \in Entries : table[key[e]] = e /\ e \in Items
      BY <1>2, EntriesIndexed DEF IInv, TableOK
    <3>2. QED
      BY <1>2, <1>3, <3>1 DEF TypeOK
  <2>3. \A e \in Entries : table'[key[e]] = e /\ key[e] > 1
    BY <1>4, <2>2 DEF IInv, TableOK
  <2>4. \A k \in Buckets : table'[k] # NULL =>
          key[table'[k]] = k /\ table'[k] \in Entries \cup {item}
    BY <1>4, <2>1 DEF IInv, TableOK
  <2>5. QED
    BY <1>1, <1>4, <1>6, <2>1, <2>3, <2>4 DEF TableOK
<1>10. WalkOK' /\ CountOK'
  BY <1>1, <1>6 DEF IInv, WalkOK, CountOK
<1>11. QED
  BY <1>5, <1>7, <1>8, <1>9, <1>10 DEF IInv

\* The stores that link the item and its predecessor.
LEMMA StoreNextIInv ==
  ASSUME IInv, UNCHANGED found, StoreNext
  PROVE  IInv'
<1>. USE ConstantsAssumption
<1>1. /\ writer = "next" /\ writer' = "previous"
      /\ next' = [next EXCEPT ![node] = item]
      /\ UNCHANGED <<status, table, node, count, value, key, previous, live, item, hi, walk,
                     entries, found>>
  BY DEF StoreNext, After, readerVars
<1>2. TypeOK'
  <2>1. TypeOK /\ item \in Items \cup {NULL}
    BY DEF IInv, TypeOK
  <2>2. next' \in [Items -> Items \cup {NULL}]
    BY <1>1, <2>1 DEF TypeOK
  <2>3. QED
    BY <1>1, <2>1, <2>2 DEF TypeOK, Stores
<1>3. Entries' = Entries
  BY <1>1 DEF Entries
<1>4. ChainOK' /\ WalkOK' /\ CountOK'
  BY <1>1, <1>3 DEF IInv, ChainOK, WalkOK, CountOK
<1>5. WriterOK'
  BY <1>1, <1>3 DEF IInv, WriterOK, Unlinked
<1>6. TableOK'
  BY <1>1, <1>3 DEF IInv, TableOK, InBucket
<1>7. QED
  BY <1>2, <1>4, <1>5, <1>6 DEF IInv

LEMMA StorePreviousIInv ==
  ASSUME IInv, UNCHANGED found, StorePrevious
  PROVE  IInv'
<1>. USE ConstantsAssumption
<1>1. /\ writer = "previous" /\ writer' = "node"
      /\ previous' = [previous EXCEPT ![item] = node]
      /\ UNCHANGED <<status, table, node, count, value, key, next, live, item, hi, walk,
                     entries, found>>
  BY DEF StorePrevious, After, readerVars
<1>2. TypeOK
  BY DEF IInv
<1>3. item \in Items /\ item \notin Entries
  BY <1>1, <1>2 DEF IInv, WriterOK, Unlinked, TypeOK
<1>4. TypeOK'
  <2>1. previous' \in [Items -> Items \cup {NULL}]
    BY <1>1, <1>2 DEF TypeOK
  <2>2. QED
    BY <1>1, <1>2, <2>1 DEF TypeOK, Stores
<1>5. Entries' = Entries
  BY <1>1 DEF Entries
<1>6. ChainOK'
  <2>1. \A p \in 1..Len(entries) : previous'[entries[p]] = previous[entries[p]]
    BY <1>1, <1>2, <1>3, EntriesIndexed DEF TypeOK
  <2>2. QED
    BY <1>1, <2>1 DEF IInv, ChainOK
<1>7. WriterOK'
  <2>1. previous'[item] = node
    BY <1>1, <1>2, <1>3 DEF TypeOK
  <2>2. QED
    BY <1>1, <1>5, <2>1 DEF IInv, WriterOK, Unlinked
<1>8. TableOK'
  BY <1>1, <1>5 DEF IInv, TableOK, InBucket
<1>9. WalkOK' /\ CountOK'
  BY <1>1, <1>5 DEF IInv, WalkOK, CountOK
<1>10. QED
  BY <1>4, <1>6, <1>7, <1>8, <1>9 DEF IInv

\* The store with which the walk can reach the item.
LEMMA StoreNodeIInv ==
  ASSUME IInv, UNCHANGED found, StoreNode
  PROVE  IInv'
<1>. USE ConstantsAssumption
<1>. DEFINE n == Len(entries)
<1>1. /\ writer = "node" /\ writer' = "count" /\ node' = item
      /\ entries' = Append(entries, item)
      /\ UNCHANGED <<status, table, count, value, key, previous, next, live, item, hi, walk,
                     found>>
  BY DEF StoreNode, After, readerVars, itemVars
<1>2. TypeOK
  BY DEF IInv
<1>3. /\ item \in Items /\ item # NULL /\ item \notin Entries /\ item \in live
      /\ previous[item] = node /\ key[item] > 1
  BY <1>1, <1>2 DEF IInv, WriterOK, Unlinked, TypeOK
<1>4. /\ n \in Nat /\ \A p \in 1..n : entries[p] \in Items
      /\ Entries = {entries[p] : p \in 1..n}
      /\ entries = <<>> <=> n = 0
  BY <1>2, EntriesIndexed
<1>5. /\ entries' \in Seq(Items) /\ Len(entries') = n + 1 /\ entries' # <<>>
      /\ \A p \in 1..n : entries'[p] = entries[p]
      /\ entries'[n + 1] = item
  BY <1>1, <1>2, <1>3, AppendProperties DEF TypeOK
<1>6. TypeOK'
  BY <1>1, <1>2, <1>3, <1>5 DEF TypeOK, Stores
<1>7. Entries' = Entries \cup {item}
  <2>1. Entries' = {entries'[p] : p \in 1..(n + 1)}
    BY <1>5, <1>6, LenProperties DEF Entries
  <2>2. 1..(n + 1) = 1..n \cup {n + 1}
    BY <1>4
  <2>3. QED
    BY <1>4, <1>5, <2>1, <2>2
<1>8. ChainOK'
  <2>1. \A p \in 1..n : entries[p] # item
    BY <1>3, <1>4
  <2>2. \A p, q \in 1..(n + 1) : entries'[p] = entries'[q] => p = q
    <3>1. \A p \in 1..(n + 1) : p \in 1..n \/ p = n + 1
      BY <1>4
    <3>2. \A p, q \in 1..n : entries[p] = entries[q] => p = q
      BY DEF IInv, ChainOK
    <3>3. QED
      BY <1>5, <2>1, <3>1, <3>2
  <2>3. \A p \in 1..n : previous[entries'[p]] = IF p = 1 THEN NULL ELSE entries'[p - 1]
    <3>1. ASSUME NEW p \in 1..n
          PROVE  previous[entries[p]] = IF p = 1 THEN NULL ELSE entries[p - 1]
      BY DEF IInv, ChainOK
    <3>2. \A p \in 1..n : p = 1 \/ p - 1 \in 1..n
      BY <1>4
    <3>3. QED
      BY <1>5, <3>1, <3>2
  <2>4. previous[entries'[n + 1]] = IF n + 1 = 1 THEN NULL ELSE entries'[n]
    <3>1. node = IF entries = <<>> THEN NULL ELSE entries[n]
      BY DEF IInv, ChainOK
    <3>2. n = 0 \/ n \in 1..n
      BY <1>4
    <3>3. QED
      BY <1>3, <1>4, <1>5, <3>1, <3>2
  <2>5. \A p \in 1..(n + 1) :
          previous'[entries'[p]] = IF p = 1 THEN NULL ELSE entries'[p - 1]
    <3>1. \A p \in 1..(n + 1) : p \in 1..n \/ (p = n + 1 /\ p - 1 = n)
      BY <1>4
    <3>2. QED
      BY <1>1, <2>3, <2>4, <3>1
  <2>6. node' = entries'[n + 1]
    BY <1>1, <1>5
  <2>7. QED
    BY <1>5, <2>2, <2>5, <2>6 DEF ChainOK
<1>9. WriterOK'
  <2>1. status # "freed"
    BY <1>1 DEF IInv, WriterOK
  <2>2. QED
    BY <1>1, <1>3, <1>7, <2>1 DEF WriterOK, Unlinked
<1>10. TableOK'
  <2>1. table[key[item]] = item
    BY <1>1 DEF IInv, TableOK, InBucket
  <2>2. \A k \in Buckets : table[k] # NULL =>
          key[table[k]] = k /\ table[k] \in Entries \cup {item}
    BY <1>1 DEF IInv, TableOK, InBucket
  <2>3. \A e \in Entries : table[key[e]] = e /\ key[e] > 1
    BY DEF IInv, TableOK
  <2>4. QED
    BY <1>1, <1>3, <1>7, <2>1, <2>2, <2>3 DEF TableOK, InBucket
<1>11. WalkOK'
  <2>1. status = "open"
    BY <1>1, <1>2 DEF IInv, WriterOK, TypeOK
  <2>2. QED
    BY <1>1, <1>3, <1>7, <2>1 DEF IInv, WalkOK
<1>12. CountOK'
  BY <1>1, <1>2, <1>4, <1>5 DEF IInv, CountOK, TypeOK
<1>13. QED
  BY <1>6, <1>8, <1>9, <1>10, <1>11, <1>12 DEF IInv

LEMMA StoreCountIInv ==
  ASSUME IInv, UNCHANGED found, StoreCount
  PROVE  IInv'
<1>. USE ConstantsAssumption
<1>1. /\ writer = "count" /\ writer' = "idle" /\ item' = NULL /\ count' = count + 1
      /\ UNCHANGED <<status, table, node, value, key, previous, next, live, hi, walk,
                     entries, found>>
  BY DEF StoreCount, Counted, readerVars, itemVars
<1>2. TypeOK
  BY DEF IInv
<1>3. TypeOK'
  BY <1>1, <1>2 DEF TypeOK
<1>4. Entries' = Entries
  BY <1>1 DEF Entries
<1>5. ChainOK' /\ WalkOK'
  BY <1>1, <1>4 DEF IInv, ChainOK, WalkOK
<1>6. WriterOK'
  BY <1>1 DEF WriterOK, Unlinked
<1>7. TableOK'
  BY <1>1, <1>4 DEF IInv, TableOK, InBucket
<1>8. CountOK'
  BY <1>1, <1>2, EntriesIndexed DEF IInv, CountOK, TypeOK
<1>9. QED
  BY <1>3, <1>5, <1>6, <1>7, <1>8 DEF IInv

\* The steps of the walk.
LEMMA WalkIInv ==
  ASSUME IInv, UNCHANGED found, BeginWalk \/ StepWalk \/ EndWalk \/ LeaveWalk
  PROVE  IInv'
<1>. USE ConstantsAssumption
<1>1. UNCHANGED <<status, table, node, count, value, key, previous, next, live, writer,
                  item, entries, found>>
  BY DEF BeginWalk, StepWalk, EndWalk, LeaveWalk, WalkTo, itemVars
<1>2. TypeOK
  BY DEF IInv
<1>3. node \in Entries \cup {NULL}
  <2>1. node = IF entries = <<>> THEN NULL ELSE entries[Len(entries)]
    BY DEF IInv, ChainOK
  <2>2. Len(entries) # 0 => Len(entries) \in 1..Len(entries)
    BY <1>2, EntriesIndexed
  <2>3. QED
    BY <1>2, <2>1, <2>2, EntriesIndexed
<1>4. hi \in Entries => previous[hi] \in Entries \cup {NULL}
  <2>1. SUFFICES ASSUME hi \in Entries PROVE previous[hi] \in Entries \cup {NULL}
    OBVIOUS
  <2>2. PICK p \in 1..Len(entries) : hi = entries[p]
    BY <1>2, <2>1, EntriesIndexed
  <2>3. previous[hi] = IF p = 1 THEN NULL ELSE entries[p - 1]
    BY <2>2 DEF IInv, ChainOK
  <2>4. p = 1 \/ p - 1 \in 1..Len(entries)
    BY <1>2, EntriesIndexed
  <2>5. QED
    BY <1>2, <2>3, <2>4, EntriesIndexed
<1>5. /\ hi' \in Entries \cup {NULL}
      /\ walk' \in {"on", "through", "left"}
      /\ walk' # "on" => hi' = NULL
      /\ status = "freed" => walk' # "on"
  BY <1>3, <1>4 DEF IInv, WalkOK, BeginWalk, StepWalk, EndWalk, LeaveWalk, WalkTo
<1>6. Entries' = Entries /\ Entries \subseteq Items
  BY <1>1, <1>2, EntriesIndexed DEF Entries
<1>7. TypeOK'
  BY <1>1, <1>2, <1>5, <1>6 DEF TypeOK
<1>8. ChainOK' /\ WriterOK' /\ TableOK' /\ CountOK'
  BY <1>1, <1>6 DEF IInv, ChainOK, WriterOK, TableOK, CountOK
<1>9. WalkOK'
  BY <1>1, <1>5, <1>6 DEF IInv, WalkOK
<1>10. QED
  BY <1>7, <1>8, <1>9 DEF IInv

\* hash_table_free
LEMMA FreeIInv ==
  ASSUME IInv, UNCHANGED found, Free
  PROVE  IInv'
<1>. USE ConstantsAssumption
<1>1. /\ status = "open" /\ status' = "freed" /\ writer = "idle" /\ walk # "on"
      /\ live' = live \ {table[k] : k \in Buckets}
      /\ UNCHANGED <<table, node, count, value, key, previous, next, writer, item, hi, walk,
                     entries, found>>
  BY DEF Free, readerVars
<1>2. TypeOK
  BY DEF IInv
<1>3. Entries' = Entries /\ Entries \subseteq Items
  BY <1>1, <1>2, EntriesIndexed DEF Entries
<1>4. TypeOK'
  BY <1>1, <1>2 DEF TypeOK
<1>5. \A e \in Entries : e \in {table[k] : k \in Buckets}
  <2>1. \A e \in Entries : table[key[e]] = e /\ key[e] \in Buckets
    BY <1>2, <1>3 DEF IInv, TableOK, TypeOK
  <2>2. QED
    BY <2>1
<1>6. Entries \cap live' = {}
  BY <1>1, <1>5
<1>7. ChainOK' /\ TableOK' /\ CountOK'
  BY <1>1, <1>3 DEF IInv, ChainOK, TableOK, CountOK
<1>8. WriterOK'
  BY <1>1 DEF IInv, WriterOK, Unlinked
<1>9. WalkOK'
  BY <1>1, <1>3, <1>6 DEF IInv, WalkOK
<1>10. QED
  BY <1>4, <1>7, <1>8, <1>9 DEF IInv

\* The invariant holds in every state.
LEMMA IInvariant == Spec => []IInv
<1>1. IInv /\ [Next]_vars => IInv'
  <2>1. ASSUME IInv, UNCHANGED vars PROVE IInv'
    BY <2>1 DEF vars, IInv, TypeOK, ChainOK, WriterOK, TableOK, WalkOK, CountOK, Entries
  <2>2. QED
    BY <2>1, InsertIInv, StoreBucketIInv, StoreNextIInv, StorePreviousIInv, StoreNodeIInv,
       StoreCountIInv, WalkIInv, FreeIInv DEF Next, InsertItem
<1>2. QED
  BY <1>1, InitIInv, PTL DEF Spec

-----------------------------------------------------------------------------
\* The items of the list have different keys between 2 and Size - 1.
LEMMA FewEntries == ASSUME IInv PROVE Len(entries) < Size
<1>. USE ConstantsAssumption
<1>. DEFINE n == Len(entries)
            f == [p \in 1..n |-> key[entries[p]]]
<1>1. TypeOK
  BY DEF IInv
<1>2. n \in Nat /\ \A p \in 1..n : entries[p] \in Items /\ entries[p] \in Entries
  BY <1>1, EntriesIndexed
<1>3. \A p \in 1..n : key[entries[p]] \in 2..(Size - 1)
  <2>1. \A p \in 1..n : key[entries[p]] \in 0..(Size - 1) /\ key[entries[p]] > 1
    BY <1>1, <1>2 DEF IInv, TableOK, TypeOK, Buckets
  <2>2. QED
    BY <2>1
<1>4. \A p, q \in 1..n : key[entries[p]] = key[entries[q]] => p = q
  <2>1. \A p \in 1..n : table[key[entries[p]]] = entries[p]
    BY <1>2 DEF IInv, TableOK
  <2>2. \A p, q \in 1..n : entries[p] = entries[q] => p = q
    BY DEF IInv, ChainOK
  <2>3. QED
    BY <2>1, <2>2
<1>5. f \in Injection(1..n, 2..(Size - 1))
  BY <1>3, <1>4 DEF Injection, IsInjective
<1>6. /\ IsFiniteSet(2..(Size - 1))
      /\ Cardinality(2..(Size - 1)) = IF 2 > Size - 1 THEN 0 ELSE (Size - 1) - 2 + 1
      /\ Cardinality(1..n) = IF 1 > n THEN 0 ELSE n - 1 + 1
  <2>1. 1 \in Int /\ 2 \in Int /\ n \in Int /\ Size - 1 \in Int
    BY <1>2
  <2>2. /\ IsFiniteSet(2..(Size - 1))
        /\ Cardinality(2..(Size - 1)) = IF 2 > Size - 1 THEN 0 ELSE (Size - 1) - 2 + 1
    BY <2>1, FS_Interval, Zenon
  <2>3. Cardinality(1..n) = IF 1 > n THEN 0 ELSE n - 1 + 1
    BY <2>1, FS_Interval, Zenon
  <2>4. QED
    BY <2>2, <2>3
<1>7. Cardinality(1..n) <= Cardinality(2..(Size - 1))
  BY <1>5, <1>6, FS_Injection
<1>8. QED
  BY <1>2, <1>6, <1>7

\* Type correctness of the table, the insertion and the walk.
THEOREM TypeCorrect == Spec => []TypeOK
<1>1. IInv => TypeOK
  BY DEF IInv
<1>2. QED
  BY <1>1, IInvariant, PTL

\* Buckets and list hold the same items between two insertions, so that what
\* hash_table_search_item finds and hash_table_free frees is what handle_event walks.
THEOREM BucketsAgree == Spec => []BucketsMatchWalk
<1>1. ASSUME IInv PROVE BucketsMatchWalk
  <2>1. SUFFICES ASSUME writer = "idle"
                 PROVE  /\ Entries = {table[k] : k \in Buckets} \ {NULL}
                        /\ \A k \in Buckets : table[k] # NULL => key[table[k]] = k
    BY DEF BucketsMatchWalk
  <2>2. \A k \in Buckets : table[k] # NULL => key[table[k]] = k /\ table[k] \in Entries
    BY <1>1, <2>1 DEF IInv, TableOK, InBucket
  <2>3. \A e \in Entries : table[key[e]] = e /\ key[e] \in Buckets /\ e # NULL
    BY <1>1, EntriesIndexed, ConstantsAssumption DEF IInv, TableOK, TypeOK
  <2>4. QED
    BY <2>2, <2>3
<1>2. QED
  BY <1>1, IInvariant, PTL

\* hash_table_free frees every item that was linked, each of them once.
THEOREM LinkedAreFreed == Spec => []LinkedItemsAreFreed
<1>1. ASSUME IInv PROVE LinkedItemsAreFreed
  <2>1. status = "freed" => Entries \cap live = {}
    BY <1>1 DEF IInv, WalkOK
  <2>2. \A p, q \in DOMAIN entries : entries[p] = entries[q] => p = q
    BY <1>1, EntriesIndexed DEF IInv, ChainOK
  <2>3. QED
    BY <2>1, <2>2 DEF LinkedItemsAreFreed
<1>2. QED
  BY <1>1, IInvariant, PTL

\* If `count` begins with 0, no insertion is refused because the table is full.
THEOREM NeverFull == Spec => []FullNeedsGarbage
<1>1. ASSUME IInv PROVE FullNeedsGarbage
  <2>1. SUFFICES ASSUME found = 0 PROVE count < Size
    BY DEF FullNeedsGarbage
  <2>2. Len(entries) \in Nat /\ Len(entries) < Size
    BY <1>1, FewEntries, EntriesIndexed DEF IInv
  <2>3. count = Len(entries) - (IF writer = "count" THEN 1 ELSE 0)
    BY <1>1, <2>1, <2>2 DEF IInv, CountOK
  <2>4. QED
    BY <2>2, <2>3, ConstantsAssumption
<1>2. QED
  BY <1>1, IInvariant, PTL

-----------------------------------------------------------------------------
\* The list as its users see it.
ListPaths == [p \in DOMAIN entries |-> value[entries[p]]]

\* The walk's place in the list.
PositionRight ==
  /\ hi = NULL => Position = 0
  /\ \A p \in 1..Len(entries) : hi = entries[p] => Position = p /\ hi # NULL

LEMMA PositionKnown == IInv => PositionRight
<1>. SUFFICES ASSUME IInv PROVE PositionRight
  OBVIOUS
<1>1. hi = NULL => Position = 0
  BY DEF Position
<1>2. ASSUME NEW p \in 1..Len(entries), hi = entries[p]
      PROVE  Position = p /\ hi # NULL
  <2>1. hi # NULL
    BY <1>2, EntriesIndexed, ConstantsAssumption DEF IInv
  <2>2. \A q \in DOMAIN entries : entries[q] = hi <=> q = p
    BY <1>2, EntriesIndexed DEF IInv, ChainOK
  <2>3. p \in DOMAIN entries
    BY EntriesIndexed DEF IInv
  <2>4. QED
    BY <2>1, <2>2, <2>3 DEF Position
<1>3. QED
  BY <1>1, <1>2 DEF PositionRight

\* What the walk reads is what the list has at its place.
PathRight == PathOf(hi) = List!Read(Position)

LEMMA PathKnown == IInv => PathRight
<1>. SUFFICES ASSUME IInv PROVE PathOf(hi) = List!Read(Position)
  BY DEF PathRight
<1>1. CASE hi = NULL
  BY <1>1, PositionKnown DEF PositionRight, PathOf, List!Read
<1>2. CASE hi # NULL
  <2>1. PICK p \in 1..Len(entries) : hi = entries[p]
    BY <1>2, EntriesIndexed DEF IInv, WalkOK
  <2>2. Position = p /\ p # 0 /\ p \in DOMAIN entries
    BY <2>1, PositionKnown, EntriesIndexed DEF IInv, PositionRight
  <2>3. QED
    BY <1>2, <2>1, <2>2 DEF PathOf, List!Read
<1>3. QED
  BY <1>1, <1>2

\* Allocated items carry a path.
PathsRead == \A i \in live : value[i] \in Values \cup {Garbled}

LEMMA PathsReadInvariant == Spec => []PathsRead
<1>1. Init => PathsRead
  BY DEF Init, PathsRead
<1>2. IInv /\ PathsRead /\ [Next]_vars => PathsRead'
  <2>1. SUFFICES ASSUME IInv, PathsRead, [Next]_vars PROVE PathsRead'
    OBVIOUS
  <2>2. CASE \E v \in Values : Insert(v)
    <3>1. PICK v \in Values : Insert(v)
      BY <2>2
    <3>2. PICK i \in Items \ live : live' = live \cup {i} /\ value' = [value EXCEPT ![i] = Copy(v)]
      BY <3>1 DEF Insert
    <3>3. Copy(v) \in Values \cup {Garbled}
      BY DEF Copy
    <3>4. value \in [Items -> Values \cup {Garbled, Nothing}] /\ live \subseteq Items
      BY <2>1 DEF IInv, TypeOK
    <3>5. QED
      BY <2>1, <3>2, <3>3, <3>4 DEF PathsRead
  <2>3. CASE ~\E v \in Values : Insert(v)
    <3>1. live' \subseteq live /\ value' = value
      BY <2>1, <2>3 DEF Next, InsertItem, StoreBucket, StoreNext, StorePrevious, StoreNode,
         StoreCount, BeginWalk, StepWalk, EndWalk, LeaveWalk, WalkTo, Free, itemVars, vars
    <3>2. QED
      BY <2>1, <3>1 DEF PathsRead
  <2>4. QED
    BY <2>2, <2>3
<1>3. QED
  BY <1>1, <1>2, IInvariant, PTL DEF Spec

\* The initial table is the empty list.
LEMMA InitIsList == Init => List!Init
<1>. SUFFICES ASSUME Init PROVE List!Init
  OBVIOUS
<1>1. entries = <<>> /\ DOMAIN entries = {} /\ hi = NULL
  BY DEF Init
<1>2. Position = 0 /\ PathOf(hi) = Nothing
  BY <1>1 DEF Position, PathOf
<1>3. ListPaths = <<>>
  BY <1>1 DEF ListPaths
<1>4. QED
  BY <1>2, <1>3 DEF Init, List!Init, ListPaths

\* What the users of the list see depends on the list, its items' values and the walk.
LEMMA SeenUnchanged ==
  ASSUME IInv, UNCHANGED <<hi, walk, entries, status>>,
         \A e \in Entries : value'[e] = value[e]
  PROVE  UNCHANGED List!vars
<1>1. DOMAIN entries = 1..Len(entries) /\ \A p \in DOMAIN entries : entries[p] \in Entries
  BY EntriesIndexed DEF IInv
<1>2. ListPaths' = ListPaths
  BY <1>1 DEF ListPaths
<1>3. Position' = Position
  BY DEF Position
<1>4. PathOf(hi)' = PathOf(hi)
  BY DEF PathOf, IInv, WalkOK
<1>5. QED
  BY <1>2, <1>3, <1>4 DEF List!vars, ListPaths

\* The steps of an insertion but one are hidden.
LEMMA HiddenSteps ==
  ASSUME IInv,
         \/ \E v \in Values : Insert(v)
         \/ StoreBucket \/ StoreNext \/ StorePrevious \/ StoreCount
  PROVE  UNCHANGED List!vars
<1>1. UNCHANGED <<hi, walk, entries, status>>
  BY DEF Insert, StoreBucket, StoreNext, StorePrevious, StoreCount, itemVars, readerVars
<1>2. \A e \in Entries : value'[e] = value[e]
  <2>1. CASE \E v \in Values : Insert(v)
    <3>1. PICK v \in Values : Insert(v)
      BY <2>1
    <3>2. PICK i \in Items \ live : value' = [value EXCEPT ![i] = Copy(v)]
      BY <3>1 DEF Insert
    <3>3. i \notin Entries /\ Entries \subseteq Items
      BY <3>1, <3>2, EntriesIndexed DEF Insert, IInv, WalkOK
    <3>4. QED
      BY <3>2, <3>3 DEF IInv, TypeOK
  <2>2. CASE StoreBucket \/ StoreNext \/ StorePrevious \/ StoreCount
    BY <2>2 DEF StoreBucket, StoreNext, StorePrevious, StoreCount, itemVars
  <2>3. QED
    BY <2>1, <2>2
<1>3. QED
  BY <1>1, <1>2, SeenUnchanged

\* The store to `node` is where the insertion takes effect.
LEMMA StoreNodeAdds ==
  ASSUME IInv, IInv', PathsRead, StoreNode
  PROVE  List!Add
<1>. DEFINE n == Len(entries)
<1>1. /\ writer = "node" /\ entries' = Append(entries, item) /\ value' = value
      /\ UNCHANGED <<status, hi, walk>>
  BY DEF StoreNode, itemVars, readerVars
<1>2. status = "open" /\ item \in Items /\ value[item] \in Values \cup {Garbled}
  BY <1>1 DEF IInv, TypeOK, WriterOK, Unlinked, PathsRead
<1>3. /\ n \in Nat /\ DOMAIN entries = 1..n /\ Len(entries') = n + 1
      /\ DOMAIN entries' = 1..(n + 1)
      /\ \A p \in 1..n : entries'[p] = entries[p]
      /\ entries'[n + 1] = item
  <2>1. entries \in Seq(Items) /\ entries' \in Seq(Items)
    BY DEF IInv, TypeOK
  <2>2. QED
    BY <1>1, <1>2, <2>1, AppendProperties, LenProperties
<1>4. ListPaths' = Append(ListPaths, value[item])
  <2>1. ListPaths' = [p \in 1..(n + 1) |-> value[entries'[p]]]
    BY <1>1, <1>3 DEF ListPaths
  <2>2. ListPaths \in Seq(Values \cup {Garbled, Nothing}) /\ Len(ListPaths) = n
    <3>1. \A p \in 1..n : value[entries[p]] \in Values \cup {Garbled, Nothing}
      BY EntriesIndexed DEF IInv, TypeOK
    <3>2. ListPaths \in [1..n -> Values \cup {Garbled, Nothing}]
      BY <1>3, <3>1 DEF ListPaths
    <3>3. QED
      BY <1>3, <3>2, IsASeq, LenProperties
  <2>3. Append(ListPaths, value[item])
          = [p \in 1..(n + 1) |-> IF p \in 1..n THEN ListPaths[p] ELSE value[item]]
    <3>1. /\ Append(ListPaths, value[item]) \in Seq(Values \cup {Garbled, Nothing})
          /\ Len(Append(ListPaths, value[item])) = n + 1
          /\ \A p \in 1..n : Append(ListPaths, value[item])[p] = ListPaths[p]
          /\ Append(ListPaths, value[item])[n + 1] = value[item]
      BY <1>2, <2>2, AppendProperties
    <3>2. Append(ListPaths, value[item]) \in [1..(n + 1) -> Values \cup {Garbled, Nothing}]
      BY <3>1, LenProperties
    <3>3. \A p \in 1..(n + 1) : p \in 1..n \/ (p = n + 1 /\ p \notin 1..n)
      BY <1>3
    <3>4. QED
      BY <3>1, <3>2, <3>3
  <2>4. \A p \in 1..(n + 1) :
          value[entries'[p]] = IF p \in 1..n THEN ListPaths[p] ELSE value[item]
    <3>1. \A p \in 1..n : ListPaths[p] = value[entries'[p]]
      BY <1>3 DEF ListPaths
    <3>2. \A p \in 1..(n + 1) : p \in 1..n \/ (p = n + 1 /\ p \notin 1..n)
      BY <1>3
    <3>3. QED
      BY <1>3, <3>1, <3>2
  <2>5. QED
    BY <2>1, <2>3, <2>4
<1>5. Position' = Position
  <2>1. CASE hi = NULL
    <3>1. hi' = NULL
      BY <1>1, <2>1
    <3>2. QED
      BY <2>1, <3>1 DEF Position
  <2>2. CASE hi # NULL
    <3>1. PICK p \in 1..n : hi = entries[p]
      BY <2>2, EntriesIndexed DEF IInv, WalkOK
    <3>2. Position = p
      BY <3>1, PositionKnown DEF PositionRight
    <3>3. p \in 1..(n + 1) /\ hi' = entries'[p]
      BY <1>1, <1>3, <3>1
    <3>4. PositionRight'
      BY PositionKnown, PTL
    <3>5. Position' = p
      BY <1>3, <3>3, <3>4 DEF PositionRight
    <3>6. QED
      BY <3>2, <3>5
  <2>3. QED
    BY <2>1, <2>2
<1>6. PathOf(hi)' = PathOf(hi)
  BY <1>1 DEF PathOf
<1>7. QED
  BY <1>1, <1>2, <1>4, <1>5, <1>6 DEF List!Add, ListPaths

\* The steps of the walk are those of a walk through the list, and hash_table_free
\* closes it.
LEMMA WalkMaps ==
  ASSUME IInv, IInv',
         BeginWalk \/ StepWalk \/ EndWalk \/ LeaveWalk \/ Free
  PROVE  List!Next
<1>. DEFINE n == Len(entries)
<1>1. n \in Nat /\ DOMAIN entries = 1..n /\ \A p \in 1..n : entries[p] \in Items
  BY EntriesIndexed DEF IInv
<1>2. UNCHANGED <<entries, value>>
  BY DEF BeginWalk, StepWalk, EndWalk, LeaveWalk, WalkTo, Free, itemVars
<1>3. ListPaths' = ListPaths
  BY <1>2 DEF ListPaths
<1>4. PositionRight /\ PositionRight'
  BY PositionKnown, PTL
<1>5. PathOf(hi)' = List!Read(Position)'
  <2>1. PathRight'
    BY PathKnown, PTL
  <2>2. QED
    BY <2>1 DEF PathRight
<1>6. List!Read(Position)' = IF Position' = 0 THEN Nothing ELSE ListPaths[Position']
  BY <1>3 DEF List!Read, ListPaths
<1>7. DOMAIN ListPaths = 1..n /\ Len(ListPaths) = n
  BY <1>1, LenProperties DEF ListPaths
<1>8. CASE BeginWalk
  <2>1. Position' = n
    <3>1. hi' = IF entries = <<>> THEN NULL ELSE entries[n]
      BY <1>8 DEF BeginWalk, WalkTo, IInv, ChainOK
    <3>2. n = 0 <=> entries = <<>>
      BY EntriesIndexed DEF IInv
    <3>3. n # 0 => n \in 1..n
      BY <1>1
    <3>4. QED
      BY <1>2, <1>4, <3>1, <3>2, <3>3 DEF PositionRight
  <2>2. /\ status = "open" /\ walk # "on" /\ walk' = "on" /\ status' = status
    BY <1>8 DEF BeginWalk, WalkTo
  <2>3. List!Begin
    BY <1>3, <1>5, <1>6, <1>7, <2>1, <2>2 DEF List!Begin, List!MoveTo, List!Read, ListPaths
  <2>4. QED
    BY <2>3 DEF List!Next
<1>9. CASE StepWalk
  <2>1. PICK p \in 1..n : hi = entries[p]
    BY <1>9, EntriesIndexed DEF StepWalk, IInv, WalkOK
  <2>2. Position = p
    BY <1>4, <2>1 DEF PositionRight
  <2>3. Position' = p - 1
    <3>1. hi' = IF p = 1 THEN NULL ELSE entries[p - 1]
      BY <1>9, <2>1 DEF StepWalk, WalkTo, IInv, ChainOK
    <3>2. p = 1 \/ p - 1 \in 1..n
      BY <1>1
    <3>3. QED
      BY <1>2, <1>4, <3>1, <3>2 DEF PositionRight
  <2>4. walk = "on" /\ walk' = "on" /\ status' = status /\ p > 0
    BY <1>1, <1>9 DEF StepWalk, WalkTo
  <2>5. List!Step
    BY <1>3, <1>5, <1>6, <2>2, <2>3, <2>4 DEF List!Step, List!MoveTo, List!Read, ListPaths
  <2>6. QED
    BY <2>5 DEF List!Next
<1>10. CASE EndWalk
  <2>1. Position = 0 /\ Position' = 0
    BY <1>4, <1>10 DEF EndWalk, WalkTo, PositionRight
  <2>2. walk = "on" /\ walk' = "through" /\ status' = status
    BY <1>10 DEF EndWalk, WalkTo
  <2>3. List!End
    BY <1>3, <1>5, <1>6, <2>1, <2>2 DEF List!End, List!MoveTo, List!Read, ListPaths
  <2>4. QED
    BY <2>3 DEF List!Next
<1>11. CASE LeaveWalk
  <2>1. PICK p \in 1..n : hi = entries[p]
    BY <1>11, EntriesIndexed DEF LeaveWalk, IInv, WalkOK
  <2>2. Position = p /\ p > 0
    BY <1>1, <1>4, <2>1 DEF PositionRight
  <2>3. Position' = 0
    BY <1>4, <1>11 DEF LeaveWalk, WalkTo, PositionRight
  <2>4. walk = "on" /\ walk' = "left" /\ status' = status
    BY <1>11 DEF LeaveWalk, WalkTo
  <2>5. List!Leave
    BY <1>3, <1>5, <1>6, <2>2, <2>3, <2>4 DEF List!Leave, List!MoveTo, List!Read, ListPaths
  <2>6. QED
    BY <2>5 DEF List!Next
<1>12. CASE Free
  <2>1. status = "open" /\ status' # "open" /\ walk # "on" /\ UNCHANGED <<hi, walk>>
    BY <1>12 DEF Free, readerVars
  <2>2. Position' = Position /\ PathOf(hi)' = PathOf(hi)
    BY <1>2, <2>1 DEF Position, PathOf
  <2>3. List!Close
    BY <1>3, <2>1, <2>2 DEF List!Close, ListPaths
  <2>4. QED
    BY <2>3 DEF List!Next
<1>13. QED
  BY <1>8, <1>9, <1>10, <1>11, <1>12

\* The table with its unlocked insertions is, to general_loop, a list that grows
\* atomically: BackupService may use a sequence and an index for it.
THEOREM TableIsList == Spec => ImplementsPathList
<1>1. IInv /\ IInv' /\ PathsRead /\ [Next]_vars => [List!Next]_List!vars
  <2>1. SUFFICES ASSUME IInv, IInv', PathsRead, [Next]_vars
                 PROVE  [List!Next]_List!vars
    OBVIOUS
  <2>2. CASE UNCHANGED vars
    <3>1. UNCHANGED <<hi, walk, entries, status, value>>
      BY <2>2 DEF vars
    <3>2. QED
      BY <2>1, <3>1, SeenUnchanged
  <2>3. CASE Next
    <3>1. CASE \/ \E v \in Values : Insert(v)
               \/ StoreBucket \/ StoreNext \/ StorePrevious \/ StoreCount
      BY <2>1, <3>1, HiddenSteps
    <3>2. CASE StoreNode
      BY <2>1, <3>2, StoreNodeAdds DEF List!Next
    <3>3. CASE BeginWalk \/ StepWalk \/ EndWalk \/ LeaveWalk \/ Free
      BY <2>1, <3>3, WalkMaps
    <3>4. QED
      BY <2>3, <3>1, <3>2, <3>3 DEF Next, InsertItem
  <2>4. QED
    BY <2>1, <2>2, <2>3
<1>2. QED
  BY <1>1, InitIsList, IInvariant, PathsReadInvariant, PTL
     DEF Spec, ImplementsPathList, List!Spec
=============================================================================
