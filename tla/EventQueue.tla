------------------------------ MODULE EventQueue ------------------------------
(***************************************************************************)
(* The event queue of services/helpers/helpers_event_queue.c: a singly     *)
(* linked list with a head and a tail pointer, in memory that its user     *)
(* (read_events and process_handle_events of helpers_backup_common.c)      *)
(* allocates and frees.  One thread uses the queue, so an operation is one *)
(* step, except that queue_destroy frees one entry per step.  Operations   *)
(* come in any order that the header allows, which is more than that       *)
(* thread does: it empties the queue before it reads or destroys.          *)
(*                                                                         *)
(* BackupService uses a sequence in place of this list.  That it may is    *)
(* what ImplementsFifo states.                                             *)
(***************************************************************************)
EXTENDS Integers, Sequences

CONSTANTS
  Cells,     \* the addresses malloc() may return
  Events,    \* what an entry carries
  NULL,      \* the null pointer
  Garbage,   \* what memory holds that nobody has written
  Nothing    \* no event is being handled

ASSUME ConstantsAssumption ==
  /\ NULL \notin Cells /\ Garbage \notin Cells /\ NULL # Garbage
  /\ Garbage \notin Events /\ Nothing \notin Events

VARIABLES
  status,    \* "open", "destroying" or "destroyed"
  head,      \* q->head
  tail,      \* q->tail
  next,      \* the next_ptr of each cell
  event,     \* the inot_ev of each cell
  live,      \* the cells that are allocated
  hand,      \* the entry that process_handle_events dequeued, or NULL
  contents   \* history: the entries of the queue in the order they were enqueued

vars == <<status, head, tail, next, event, live, hand, contents>>

\* Mutant: queue_enqueue does not set next_ptr.
NextUnset == Garbage

\* What queue_enqueue writes to the next_ptr of the new entry.
EndOfList == NULL

\* Mutant: queue_dequeue does not reset tail.
TailKept == tail

\* q->tail after queue_dequeue.
TailAfterDequeue == IF next[head] = NULL THEN NULL ELSE tail

\* Mutant: queue_destroy frees no entry.
NothingFreed(c) == live

Free(c) == live \ {c}

\* read_events: malloc, memmove and queue_enqueue.
Enqueue(d, e) ==
  /\ status = "open"
  /\ d \notin live
  /\ live' = live \cup {d}
  /\ event' = [event EXCEPT ![d] = e]
  /\ IF tail # NULL
     THEN /\ next' = [next EXCEPT ![d] = EndOfList, ![tail] = d]
          /\ UNCHANGED head
     ELSE /\ next' = [next EXCEPT ![d] = EndOfList]
          /\ head' = d
  /\ tail' = d
  /\ contents' = Append(contents, d)
  /\ UNCHANGED <<status, hand>>

\* process_handle_events: queue_empty and queue_dequeue.
Dequeue ==
  /\ status = "open"
  /\ hand = NULL
  /\ head # NULL
  /\ hand' = head
  /\ head' = next[head]
  /\ tail' = TailAfterDequeue
  /\ next' = [next EXCEPT ![head] = NULL]
  /\ contents' = Tail(contents)
  /\ UNCHANGED <<status, event, live>>

\* process_handle_events: handle_event is done and the entry is freed.
FreeEvent ==
  /\ hand # NULL
  /\ live' = Free(hand)
  /\ hand' = NULL
  /\ UNCHANGED <<status, head, tail, next, event, contents>>

\* queue_destroy is called between two events.
Destroy ==
  /\ status = "open"
  /\ hand = NULL
  /\ status' = "destroying"
  /\ UNCHANGED <<head, tail, next, event, live, hand, contents>>

DestroyEntry ==
  /\ status = "destroying"
  /\ head # NULL
  /\ head' = next[head]
  /\ next' = [next EXCEPT ![head] = NULL]
  /\ live' = Free(head)
  /\ contents' = Tail(contents)
  /\ UNCHANGED <<status, tail, event, hand>>

DestroyEnds ==
  /\ status = "destroying"
  /\ head = NULL
  /\ tail' = NULL
  /\ status' = "destroyed"
  /\ UNCHANGED <<head, next, event, live, hand, contents>>

\* queue_create
Init ==
  /\ status = "open"
  /\ head = NULL
  /\ tail = NULL
  /\ next = [c \in Cells |-> Garbage]
  /\ event = [c \in Cells |-> Garbage]
  /\ live = {}
  /\ hand = NULL
  /\ contents = <<>>

Next ==
  \/ \E d \in Cells, e \in Events : Enqueue(d, e)
  \/ Dequeue \/ FreeEvent
  \/ Destroy \/ DestroyEntry \/ DestroyEnds

Spec == Init /\ [][Next]_vars

-----------------------------------------------------------------------------
TypeOK ==
  /\ status \in {"open", "destroying", "destroyed"}
  /\ head \in Cells \cup {NULL}
  /\ tail \in Cells \cup {NULL}
  /\ next \in [Cells -> Cells \cup {NULL, Garbage}]
  /\ event \in [Cells -> Events \cup {Garbage}]
  /\ live \subseteq Cells
  /\ hand \in Cells \cup {NULL}
  /\ contents \in Seq(Cells)

\* No pointer the queue follows is wild: head and the next_ptr of every live entry, and
\* tail as long as it may be used, are null or point to allocated memory, whatever memory
\* malloc() hands out again (queue_enqueue and queue_dequeue set next_ptr and tail).
PointersValid ==
  /\ {head} \cup {next[c] : c \in live} \subseteq live \cup {NULL}
  /\ status = "open" => tail \in live \cup {NULL}

\* Every entry that read_events allocated has been freed when queue_destroy returns.
NoLeak == status = "destroyed" => live = {}

\* The list is a queue: what queue_dequeue returns is the oldest entry, with the event
\* it was enqueued with, and queue_empty tells whether all entries have been returned.
FifoItems == IF status = "open" THEN [i \in DOMAIN contents |-> event[contents[i]]] ELSE <<>>

FifoTaken == IF hand = NULL THEN Nothing ELSE event[hand]

FifoEmpty == status = "open" => head = NULL

Queue == INSTANCE Fifo WITH items <- FifoItems, taken <- FifoTaken,
                            open <- (status = "open"), empty <- FifoEmpty

ImplementsFifo == Queue!Spec
=============================================================================
