--------------------------------- MODULE Fifo ---------------------------------
(***************************************************************************)
(* What the users of helpers_event_queue.h rely on: events leave the queue *)
(* in the order they entered it, each of them once, and queue_empty tells  *)
(* the truth.                                                              *)
(***************************************************************************)
EXTENDS Sequences

CONSTANTS Events, Nothing

VARIABLES
  items,   \* the events in the queue
  taken,   \* the event that was dequeued and is being handled, or Nothing
  open,    \* has the queue not been destroyed?
  empty    \* what queue_empty answers

vars == <<items, taken, open, empty>>

Init == items = <<>> /\ taken = Nothing /\ open = TRUE /\ empty = TRUE

Put == /\ open
       /\ \E e \in Events : items' = Append(items, e)
       /\ empty' = FALSE
       /\ UNCHANGED <<taken, open>>

Take == /\ open
        /\ items # <<>>
        /\ taken = Nothing
        /\ taken' = Head(items)
        /\ items' = Tail(items)
        /\ empty' = (items' = <<>>)
        /\ UNCHANGED open

Done == /\ taken # Nothing
        /\ taken' = Nothing
        /\ UNCHANGED <<items, open, empty>>

Close == /\ open
         /\ taken = Nothing
         /\ open' = FALSE
         /\ items' = <<>>
         /\ empty' = TRUE
         /\ UNCHANGED taken

Next == Put \/ Take \/ Done \/ Close

Spec == Init /\ [][Next]_vars
=============================================================================
