------------------------------- MODULE HashTable -------------------------------
(***************************************************************************)
(* The hash table of services/helpers/helpers_hash_table.c as the backup   *)
(* service uses the one of its thread argument: backup_loop inserts paths  *)
(* while general_loop (handle_event) walks the items by `previous`, and no *)
(* lock is taken.  An insertion is therefore one step per store to memory  *)
(* that the walk may read.  The stores are in program order, which gcc -O2 *)
(* keeps for this function and x86 keeps for stores.                       *)
(*                                                                         *)
(* BackupService uses a sequence, an atomic insertion and an index in      *)
(* place of the table.  That it may is what ImplementsPathList states.     *)
(***************************************************************************)
EXTENDS Integers, Sequences

CONSTANTS
  Items,         \* the addresses malloc() may return for an item
  Values,        \* the paths
  Key,           \* the hash key of each
  TooLong,       \* the paths longer than HASH_ITEM_MAX_SIZE_STR
  Unterminated,  \* the paths that fill the memory of their copy: no NUL follows it
  Garbled,       \* what is read of such a copy
  Size,          \* this->size, which is HASH_KEY_MAX_LEN
  InitialCounts, \* what malloc() may leave in this->count
  NULL,          \* the null pointer
  Nothing        \* what the walk reads when there is none

ASSUME ConstantsAssumption ==
  /\ Size \in Nat \ {0}
  /\ Key \in [Values -> 0..(Size - 1)]
  /\ TooLong \subseteq Values
  /\ Unterminated \subseteq Values
  /\ InitialCounts \subseteq Int
  /\ NULL \notin Items
  /\ Nothing \notin Values \cup {Garbled}

Buckets == 0..(Size - 1)

VARIABLES
  status,    \* "open" or "freed"
  table,     \* this->table
  node,      \* this->node
  count,     \* this->count
  value,     \* the value of each item
  key,       \* the key of each item
  previous,  \* the previous of each item
  next,      \* the next of each item
  live,      \* the items that are allocated
  writer,    \* the store that hash_table_insert_item is at, or "idle"
  item,      \* the item it inserts, or NULL
  hi,        \* the item that handle_event is at, or NULL
  walk,      \* "on", or how its last walk ended: "through" or "left"
  entries,   \* history: the items in the order in which `node` reached them
  found      \* history: what malloc() left in this->count

itemVars == <<value, key, previous, next, live>>
readerVars == <<hi, walk>>
vars == <<status, table, node, count, value, key, previous, next, live,
          writer, item, hi, walk, entries, found>>

\* __hash_item_create copies strlen(value) bytes into as many.
Copy(v) == IF v \in Unterminated THEN Garbled ELSE v

\* Mutant: an insertion overwrites the bucket.
AlwaysFree(k) == TRUE

BucketFree(k) == table[k] = NULL

\* hash_table_insert_item returns before it has allocated anything.
RefusedEarly(v) == count = Size \/ Key[v] = 0 \/ v \in TooLong

\* It returns without the item that it has allocated.
RefusedLate(v) == Key[v] <= 1 \/ ~BucketFree(Key[v])

\* hash_table_insert_item up to its first store to the table.
Insert(v) ==
  /\ status = "open" /\ writer = "idle"
  /\ ~RefusedEarly(v)
  /\ \E i \in Items \ live :
       /\ live' = live \cup {i}
       /\ value' = [value EXCEPT ![i] = Copy(v)]
       /\ key' = [key EXCEPT ![i] = Key[v]]
       /\ previous' = [previous EXCEPT ![i] = NULL]
       /\ next' = [next EXCEPT ![i] = NULL]
       /\ IF RefusedLate(v)
          THEN UNCHANGED <<writer, item>>
          ELSE writer' = "bucket" /\ item' = i
  /\ UNCHANGED <<status, table, node, count, readerVars, entries>>

\* Mutant: `node` moves to the item before the item knows its predecessor.
NodeFirst(store) == CASE store = "next" -> "node"
                      [] store = "node" -> "previous"
                      [] OTHER -> "count"

\* The order of the stores.
After(store) == CASE store = "next" -> "previous"
                  [] store = "previous" -> "node"
                  [] OTHER -> "count"

StoreBucket ==
  /\ writer = "bucket"
  /\ table' = [table EXCEPT ![key[item]] = item]
  /\ writer' = IF node = NULL THEN "node" ELSE "next"
  /\ UNCHANGED <<status, node, count, itemVars, item, readerVars, entries>>

StoreNext ==
  /\ writer = "next"
  /\ next' = [next EXCEPT ![node] = item]
  /\ writer' = After(writer)
  /\ UNCHANGED <<status, table, node, count, value, key, previous, live, item, readerVars,
                 entries>>

StorePrevious ==
  /\ writer = "previous"
  /\ previous' = [previous EXCEPT ![item] = node]
  /\ writer' = After(writer)
  /\ UNCHANGED <<status, table, node, count, value, key, next, live, item, readerVars,
                 entries>>

StoreNode ==
  /\ writer = "node"
  /\ node' = item
  /\ entries' = Append(entries, item)
  /\ writer' = After(writer)
  /\ UNCHANGED <<status, table, count, itemVars, item, readerVars>>

\* Mutant: an insertion counts twice.
CountTwice == count + 2

Counted == count + 1

StoreCount ==
  /\ writer = "count"
  /\ count' = Counted
  /\ writer' = "idle"
  /\ item' = NULL
  /\ UNCHANGED <<status, table, node, itemVars, readerVars, entries>>

InsertItem == \/ \E v \in Values : Insert(v)
              \/ StoreBucket \/ StoreNext \/ StorePrevious \/ StoreNode \/ StoreCount

\* handle_event: the walk begins at `node`, goes on to `previous` until there is none,
\* or breaks off.
WalkTo(i, w) ==
  /\ hi' = i
  /\ walk' = w
  /\ UNCHANGED <<status, table, node, count, itemVars, writer, item, entries>>

BeginWalk == status = "open" /\ walk # "on" /\ WalkTo(node, "on")
StepWalk  == walk = "on" /\ hi # NULL /\ WalkTo(previous[hi], "on")
EndWalk   == walk = "on" /\ hi = NULL /\ WalkTo(NULL, "through")
LeaveWalk == walk = "on" /\ hi # NULL /\ WalkTo(NULL, "left")

\* hash_table_free, after start() has joined both threads.
Free ==
  /\ status = "open" /\ writer = "idle" /\ walk # "on"
  /\ status' = "freed"
  /\ live' = live \ {table[k] : k \in Buckets}
  /\ UNCHANGED <<table, node, count, value, key, previous, next, writer, item, readerVars,
                 entries>>

\* hash_table_create; `count` is left as malloc() found it.
Init ==
  /\ status = "open"
  /\ table = [k \in Buckets |-> NULL]
  /\ node = NULL
  /\ found \in InitialCounts
  /\ count = found
  /\ value = [i \in Items |-> Nothing]
  /\ key = [i \in Items |-> 0]
  /\ previous = [i \in Items |-> NULL]
  /\ next = [i \in Items |-> NULL]
  /\ live = {}
  /\ writer = "idle" /\ item = NULL
  /\ hi = NULL /\ walk = "through"
  /\ entries = <<>>

Next == /\ InsertItem \/ BeginWalk \/ StepWalk \/ EndWalk \/ LeaveWalk \/ Free
        /\ UNCHANGED found

Spec == Init /\ [][Next]_vars

-----------------------------------------------------------------------------
Stores == {"bucket", "next", "previous", "node", "count"}

TypeOK ==
  /\ status \in {"open", "freed"}
  /\ table \in [Buckets -> Items \cup {NULL}]
  /\ node \in Items \cup {NULL}
  /\ count \in Int
  /\ value \in [Items -> Values \cup {Garbled, Nothing}]
  /\ key \in [Items -> Buckets]
  /\ previous \in [Items -> Items \cup {NULL}]
  /\ next \in [Items -> Items \cup {NULL}]
  /\ live \subseteq Items
  /\ writer \in Stores \cup {"idle"}
  /\ item \in Items \cup {NULL}
  /\ hi \in Items \cup {NULL}
  /\ walk \in {"on", "through", "left"}
  /\ entries \in Seq(Items)
  /\ found \in Int

Entries == {entries[i] : i \in DOMAIN entries}

\* Between two insertions the buckets, in which hash_table_search_item and
\* hash_table_free look, hold exactly the items that a walk from `node` meets, each
\* under the key of the path it was made for.
BucketsMatchWalk ==
  writer = "idle" =>
    /\ Entries = {table[k] : k \in Buckets} \ {NULL}
    /\ \A k \in Buckets : table[k] # NULL => key[table[k]] = k

\* hash_table_free releases every item that was ever linked, and no item is linked
\* twice: a refused insertion never takes the bucket of an item that it hides.
LinkedItemsAreFreed ==
  /\ status = "freed" => Entries \cap live = {}
  /\ \A i, j \in DOMAIN entries : entries[i] = entries[j] => i = j

\* The table never counts as full, because keys 0 and 1 are refused and there is one
\* item to a key; only what malloc() leaves in `count` can make it refuse a path.
FullNeedsGarbage == found = 0 => count < Size

\* The walk takes no lock, and yet it meets every path whose insertion ended before it
\* began, newest first, and nothing else, whatever stores of an insertion come between.
PathOf(i) == IF i = NULL THEN Nothing ELSE value[i]

Position == IF hi = NULL THEN 0 ELSE CHOOSE p \in DOMAIN entries : entries[p] = hi

List == INSTANCE PathList WITH Paths <- Values \cup {Garbled},
                               paths <- [p \in DOMAIN entries |-> value[entries[p]]],
                               at <- Position, path <- PathOf(hi), walk <- walk,
                               open <- (status = "open")

ImplementsPathList == List!Spec
=============================================================================
