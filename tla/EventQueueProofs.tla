--------------------------- MODULE EventQueueProofs ---------------------------
(***************************************************************************)
(* Proofs about EventQueue, for any number of cells: its pointers are      *)
(* valid, queue_destroy frees everything, and the list implements Fifo.    *)
(*                                                                         *)
(* All three follow from one picture of the memory (Linked): the entries   *)
(* form one list without repetition, which head begins, next_ptr threads   *)
(* and tail ends, and what is allocated is that list and the entry in hand.*)
(***************************************************************************)
EXTENDS EventQueue, SequenceTheorems, TLAPS

Entries == {contents[i] : i \in 1..Len(contents)}

\* No entry is in the list twice.
Distinct == \A i, j \in 1..Len(contents) : contents[i] = contents[j] => i = j

\* head and tail are the two ends; queue_destroy leaves tail alone until it is done.
EndsKnown ==
  /\ head = IF contents = <<>> THEN NULL ELSE contents[1]
  /\ status = "open" =>
       tail = IF contents = <<>> THEN NULL ELSE contents[Len(contents)]

\* next_ptr leads from each entry to the one enqueued after it.
Threaded ==
  \A i \in 1..Len(contents) :
    next[contents[i]] = IF i = Len(contents) THEN NULL ELSE contents[i + 1]

\* The entry in hand is no longer in the list.
HandApart ==
  hand # NULL => /\ status = "open"
                 /\ hand \notin Entries
                 /\ next[hand] = NULL

\* What is allocated, and that all of it has been written.
Memory ==
  /\ live = Entries \cup ({hand} \ {NULL})
  /\ \A c \in live : event[c] \in Events
  /\ status = "destroyed" => contents = <<>>

Linked == TypeOK /\ Distinct /\ EndsKnown /\ Threaded /\ HandApart /\ Memory

-----------------------------------------------------------------------------
\* What Append does to a sequence, index by index (queue_enqueue).
LEMMA AppendIndexed ==
  ASSUME NEW S, NEW s \in Seq(S), NEW x \in S
  PROVE  /\ Append(s, x) \in Seq(S)
         /\ Append(s, x) # <<>>
         /\ Len(s) \in Nat
         /\ Len(Append(s, x)) = Len(s) + 1
         /\ \A i \in 1..Len(s) : Append(s, x)[i] = s[i]
         /\ Append(s, x)[Len(s) + 1] = x
  BY AppendProperties

\* What Tail does to a sequence, index by index (queue_dequeue, queue_destroy).
LEMMA TailIndexed ==
  ASSUME NEW S, NEW s \in Seq(S), s # <<>>
  PROVE  /\ Tail(s) \in Seq(S)
         /\ Len(s) \in Nat \ {0}
         /\ Len(Tail(s)) = Len(s) - 1
         /\ \A i \in 1..(Len(s) - 1) : Tail(s)[i] = s[i + 1]
         /\ Tail(s) = <<>> <=> Len(s) = 1
         /\ s[1] \in S
<1>1. Len(s) \in Nat \ {0}
  BY EmptySeq
<1>2. Tail(s) \in Seq(S) /\ Len(Tail(s)) = Len(s) - 1
  BY HeadTailProperties
<1>3. \A i \in 1..(Len(s) - 1) : Tail(s)[i] = s[i + 1]
  BY <1>2, HeadTailProperties
<1>4. Tail(s) = <<>> <=> Len(s) = 1
  <2>1. Tail(s) # <<>> => Len(Tail(s)) # 0
    BY <1>2, EmptySeq
  <2>2. Tail(s) = <<>> => Len(Tail(s)) = 0
    BY EmptySeq
  <2>3. QED
    BY <1>1, <1>2, <2>1, <2>2
<1>5. s[1] \in S
  BY <1>1, ElementOfSeq
<1>6. QED
  BY <1>1, <1>2, <1>3, <1>4, <1>5

-----------------------------------------------------------------------------
\* queue_create
LEMMA InitLinked == Init => Linked
<1>. SUFFICES ASSUME Init PROVE Linked
  OBVIOUS
<1>. USE DEF Init
<1>1. TypeOK
  BY DEF TypeOK
<1>2. contents = <<>> /\ Len(contents) = 0
  OBVIOUS
<1>3. QED
  BY <1>1, <1>2 DEF Linked, Distinct, EndsKnown, Threaded, HandApart, Memory, Entries

\* queue_enqueue
LEMMA EnqueueLinked ==
  ASSUME Linked, NEW d \in Cells, NEW e \in Events, Enqueue(d, e)
  PROVE  Linked'
<1>. USE ConstantsAssumption DEF Enqueue, EndOfList, Linked
<1>. DEFINE n == Len(contents)
<1>1. /\ contents' \in Seq(Cells) /\ contents' # <<>>
      /\ n \in Nat /\ Len(contents') = n + 1
      /\ \A i \in 1..n : contents'[i] = contents[i]
      /\ contents'[n + 1] = d
      /\ contents = <<>> <=> n = 0
      /\ \A i \in 1..n : contents[i] \in Cells
  BY AppendIndexed, EmptySeq, ElementOfSeq DEF TypeOK
<1>2. d \notin Entries /\ d # hand /\ d # NULL
  BY DEF Memory
<1>3. Entries' = Entries \cup {d}
  BY <1>1 DEF Entries
<1>4. TypeOK'
  <2>1. next' \in [Cells -> Cells \cup {NULL, Garbage}]
    BY DEF TypeOK
  <2>2. event' \in [Cells -> Events \cup {Garbage}]
    BY DEF TypeOK
  <2>3. live' \subseteq Cells
    BY DEF TypeOK
  <2>4. QED
    BY <1>1, <2>1, <2>2, <2>3 DEF TypeOK
<1>5. Distinct'
  BY <1>1, <1>2 DEF Distinct, Entries
<1>6. EndsKnown'
  BY <1>1, <1>2 DEF EndsKnown
<1>7. Threaded'
  <2>1. next' = [next EXCEPT ![d] = NULL, ![tail] = d] \/ (n = 0 /\ next' = [next EXCEPT ![d] = NULL])
    BY <1>1 DEF EndsKnown
  <2>2. n # 0 => tail = contents[n] /\ tail \in Cells
    BY <1>1 DEF EndsKnown
  <2>3. ASSUME NEW i \in 1..n PROVE next'[contents[i]] = contents'[i + 1]
    <3>1. contents[i] # d
      BY <1>2 DEF Entries
    <3>2. CASE i = n
      BY <1>1, <2>1, <2>2, <3>1, <3>2 DEF TypeOK
    <3>3. CASE i # n
      <4>1. contents[i] # tail
        BY <1>1, <2>2, <3>3 DEF Distinct
      <4>2. next[contents[i]] = contents[i + 1] /\ i + 1 \in 1..n
        BY <1>1, <3>3 DEF Threaded
      <4>3. QED
        BY <1>1, <2>1, <3>1, <4>1, <4>2 DEF TypeOK
    <3>4. QED
      BY <3>2, <3>3
  <2>4. next'[d] = NULL
    <3>1. n # 0 => tail # d
      BY <1>1, <1>2, <2>2 DEF Entries
    <3>2. QED
      BY <1>1, <2>1, <2>2, <3>1 DEF TypeOK
  <2>5. QED
    BY <1>1, <2>3, <2>4 DEF Threaded
<1>8. HandApart'
  <2>1. hand # NULL => next'[hand] = next[hand]
    BY <1>1, <1>2 DEF HandApart, EndsKnown, TypeOK, Entries
  <2>2. QED
    BY <1>2, <1>3, <2>1 DEF HandApart
<1>9. Memory'
  BY <1>1, <1>2, <1>3 DEF Memory, TypeOK
<1>10. QED
  BY <1>4, <1>5, <1>6, <1>7, <1>8, <1>9

\* Dropping the first entry, as queue_dequeue and queue_destroy both do.
LEMMA FirstDropped ==
  ASSUME Linked, head # NULL,
         contents' = Tail(contents), head' = next[head], next' = [next EXCEPT ![head] = NULL]
  PROVE  /\ contents # <<>>
         /\ head = contents[1] /\ head \in Cells /\ head \in Entries
         /\ contents' \in Seq(Cells)
         /\ next' \in [Cells -> Cells \cup {NULL, Garbage}]
         /\ next'[head] = NULL
         /\ \A c \in Cells : next[c] = NULL => next'[c] = NULL
         /\ Entries' = Entries \ {head}
         /\ head' = (IF contents' = <<>> THEN NULL ELSE contents'[1])
         /\ head' \in Cells \cup {NULL}
         /\ Len(contents) \in Nat \ {0}
         /\ contents' = <<>> <=> Len(contents) = 1
         /\ contents' = <<>> <=> next[head] = NULL
         /\ contents' # <<>> => contents'[Len(contents')] = contents[Len(contents)]
         /\ Distinct'
         /\ Threaded'
<1>. USE ConstantsAssumption DEF Linked
<1>. DEFINE n == Len(contents)
<1>1. contents # <<>> /\ head = contents[1]
  BY DEF EndsKnown
<1>2. /\ contents' \in Seq(Cells)
      /\ n \in Nat \ {0} /\ Len(contents') = n - 1
      /\ \A i \in 1..(n - 1) : contents'[i] = contents[i + 1]
      /\ contents' = <<>> <=> n = 1
      /\ \A i \in 1..n : contents[i] \in Cells
  BY <1>1, TailIndexed, ElementOfSeq DEF TypeOK
<1>3. head \in Cells /\ head \in Entries
  BY <1>1, <1>2 DEF Entries
<1>4. /\ next' \in [Cells -> Cells \cup {NULL, Garbage}]
      /\ next'[head] = NULL
      /\ \A c \in Cells : next[c] = NULL => next'[c] = NULL
  BY <1>3 DEF TypeOK
<1>5. Entries' = Entries \ {head}
  <2>1. \A i \in 1..(n - 1) : contents'[i] \in Entries /\ contents'[i] # head
    BY <1>1, <1>2 DEF Distinct, Entries
  <2>2. \A i \in 1..n : contents[i] # head => i - 1 \in 1..(n - 1) /\ contents'[i - 1] = contents[i]
    BY <1>1, <1>2
  <2>3. Entries' = {contents'[i] : i \in 1..(n - 1)}
    BY <1>2 DEF Entries
  <2>4. Entries' \subseteq Entries \ {head}
    BY <2>1, <2>3
  <2>5. Entries \ {head} \subseteq Entries'
    BY <2>2, <2>3 DEF Entries
  <2>6. QED
    BY <2>4, <2>5
<1>6. /\ next[head] = IF n = 1 THEN NULL ELSE contents[2]
      /\ n # 1 => contents[2] \in Cells /\ contents'[1] = contents[2]
  <2>1. 1 \in 1..n /\ (n # 1 => 2 \in 1..n /\ 1 \in 1..(n - 1) /\ 1 + 1 = 2)
    BY <1>2
  <2>2. next[contents[1]] = IF 1 = n THEN NULL ELSE contents[1 + 1]
    BY <2>1 DEF Threaded
  <2>3. QED
    BY <1>1, <1>2, <2>1, <2>2
<1>7. n # 1 => contents'[n - 1] = contents[n]
  BY <1>2
<1>8. Distinct'
  BY <1>2 DEF Distinct
<1>9. Threaded'
  <2>1. ASSUME NEW i \in 1..(n - 1)
        PROVE  next'[contents'[i]] = IF i = n - 1 THEN NULL ELSE contents'[i + 1]
    <3>1. /\ contents'[i] = contents[i + 1] /\ i + 1 \in 1..n
          /\ contents[i + 1] \in Cells /\ contents[i + 1] # head
      BY <1>1, <1>2 DEF Distinct
    <3>2. next'[contents'[i]] = next[contents[i + 1]]
      BY <3>1 DEF TypeOK
    <3>3. next[contents[i + 1]] = IF i + 1 = n THEN NULL ELSE contents[(i + 1) + 1]
      BY <3>1 DEF Threaded
    <3>4. i # n - 1 => contents'[i + 1] = contents[(i + 1) + 1]
      <4>1. n \in Nat
        BY <1>2
      <4>2. i # n - 1 => i + 1 \in 1..(n - 1)
        <5>. HIDE DEF n
        <5>. QED
          BY <4>1
      <4>3. QED
        BY <1>2, <4>2
    <3>5. i = n - 1 <=> i + 1 = n
      BY <1>2
    <3>6. QED
      BY <3>2, <3>3, <3>4, <3>5
  <2>2. \A i \in 1..Len(contents') :
          next'[contents'[i]] = IF i = Len(contents') THEN NULL ELSE contents'[i + 1]
    <3>1. Len(contents') = n - 1
      BY <1>2
    <3>2. QED
      BY <2>1, <3>1
  <2>3. QED
    BY <2>2 DEF Threaded
<1>10. head' = (IF contents' = <<>> THEN NULL ELSE contents'[1]) /\ head' \in Cells \cup {NULL}
  BY <1>2, <1>6
<1>11. contents' = <<>> <=> next[head] = NULL
  BY <1>2, <1>6
<1>12. QED
  BY <1>1, <1>2, <1>3, <1>4, <1>5, <1>7, <1>8, <1>9, <1>10, <1>11

\* queue_dequeue
LEMMA DequeueLinked == ASSUME Linked, Dequeue PROVE Linked'
<1>. USE ConstantsAssumption DEF Dequeue, TailAfterDequeue, Linked
<1>1. PICK n \in Nat \ {0} : n = Len(contents)
  BY FirstDropped
<1>2. /\ head = contents[1] /\ head \in Cells /\ head \in Entries
      /\ contents' \in Seq(Cells)
      /\ next' \in [Cells -> Cells \cup {NULL, Garbage}]
      /\ next'[head] = NULL
      /\ Entries' = Entries \ {head}
      /\ head' = (IF contents' = <<>> THEN NULL ELSE contents'[1])
      /\ head' \in Cells \cup {NULL}
      /\ contents' = <<>> <=> next[head] = NULL
      /\ contents # <<>>
      /\ contents' # <<>> => contents'[Len(contents')] = contents[Len(contents)]
      /\ Distinct' /\ Threaded'
  BY FirstDropped
<1>3. TypeOK'
  BY <1>2 DEF TypeOK
<1>4. EndsKnown'
  BY <1>2 DEF EndsKnown
<1>5. HandApart'
  BY <1>2 DEF HandApart
<1>6. Memory'
  BY <1>2 DEF Memory
<1>7. QED
  BY <1>2, <1>3, <1>4, <1>5, <1>6

\* process_handle_events frees the entry it has handled.
LEMMA FreeEventLinked == ASSUME Linked, FreeEvent PROVE Linked'
<1>. USE ConstantsAssumption DEF FreeEvent, Free, Linked
<1>1. Entries' = Entries
  BY DEF Entries
<1>2. TypeOK'
  BY DEF TypeOK
<1>3. Distinct' /\ EndsKnown' /\ Threaded'
  BY DEF Distinct, EndsKnown, Threaded
<1>4. HandApart' /\ Memory'
  BY <1>1 DEF HandApart, Memory
<1>5. QED
  BY <1>2, <1>3, <1>4

\* queue_destroy: entry, one round of its loop, and its end
LEMMA DestroyLinked == ASSUME Linked, Destroy \/ DestroyEntry \/ DestroyEnds PROVE Linked'
<1>. USE ConstantsAssumption DEF Linked
<1>1. CASE Destroy
  <2>. USE <1>1 DEF Destroy
  <2>1. Entries' = Entries
    BY DEF Entries
  <2>2. TypeOK'
    BY DEF TypeOK
  <2>3. Distinct' /\ EndsKnown' /\ Threaded'
    BY DEF Distinct, EndsKnown, Threaded
  <2>4. HandApart' /\ Memory'
    BY <2>1 DEF HandApart, Memory
  <2>5. QED
    BY <2>2, <2>3, <2>4
<1>2. CASE DestroyEntry
  <2>. USE <1>2 DEF DestroyEntry, Free
  <2>1. /\ head \in Cells /\ head \in Entries
        /\ contents' \in Seq(Cells)
        /\ next' \in [Cells -> Cells \cup {NULL, Garbage}]
        /\ Entries' = Entries \ {head}
        /\ head' = (IF contents' = <<>> THEN NULL ELSE contents'[1])
        /\ head' \in Cells \cup {NULL}
        /\ Distinct' /\ Threaded'
    BY FirstDropped
  <2>2. hand = NULL
    BY DEF HandApart
  <2>3. TypeOK'
    BY <2>1 DEF TypeOK
  <2>4. EndsKnown'
    BY <2>1 DEF EndsKnown
  <2>5. HandApart' /\ Memory'
    BY <2>1, <2>2 DEF HandApart, Memory
  <2>6. QED
    BY <2>1, <2>3, <2>4, <2>5
<1>3. CASE DestroyEnds
  <2>. USE <1>3 DEF DestroyEnds
  <2>1. Entries' = Entries
    BY DEF Entries
  <2>2. contents = <<>>
    <3>1. contents # <<>> => 1 \in 1..Len(contents)
      BY EmptySeq DEF TypeOK
    <3>2. contents # <<>> => contents[1] \in Cells
      BY <3>1, ElementOfSeq DEF TypeOK
    <3>3. QED
      BY <3>2 DEF EndsKnown
  <2>3. TypeOK'
    BY DEF TypeOK
  <2>4. Distinct' /\ EndsKnown' /\ Threaded'
    BY DEF Distinct, EndsKnown, Threaded
  <2>5. HandApart' /\ Memory'
    BY <2>1, <2>2 DEF HandApart, Memory
  <2>6. QED
    BY <2>3, <2>4, <2>5
<1>4. QED
  BY <1>1, <1>2, <1>3

\* Every step of the queue and of its user keeps the picture of the memory.
LEMMA StepLinked == Linked /\ [Next]_vars => Linked'
<1>1. ASSUME Linked, UNCHANGED vars PROVE Linked'
  BY <1>1 DEF Linked, vars, TypeOK, Distinct, EndsKnown, Threaded, HandApart, Memory, Entries
<1>2. QED
  BY <1>1, EnqueueLinked, DequeueLinked, FreeEventLinked, DestroyLinked DEF Next

\* Linked is an invariant.
LEMMA LinkedInvariant == Spec => []Linked
<1>1. QED
  BY InitLinked, StepLinked, PTL DEF Spec

-----------------------------------------------------------------------------
\* Type correctness of the list.
THEOREM TypeCorrect == Spec => []TypeOK
<1>1. Linked => TypeOK
  BY DEF Linked
<1>2. QED
  BY <1>1, LinkedInvariant, PTL

\* No pointer the list follows is wild (queue_enqueue sets next_ptr of the new entry,
\* queue_dequeue resets tail), however much memory there is and however it is reused.
THEOREM NoWildPointer == Spec => []PointersValid
<1>1. ASSUME Linked PROVE PointersValid
  <2>. USE <1>1 DEF Linked
  <2>. DEFINE n == Len(contents)
  <2>1. /\ n \in Nat
        /\ contents # <<>> => 1 \in 1..n /\ n \in 1..n
        /\ \A i \in 1..n : contents[i] \in Entries
        /\ Entries \subseteq live
    BY EmptySeq DEF TypeOK, Entries, Memory
  <2>2. head \in live \cup {NULL}
    BY <2>1 DEF EndsKnown
  <2>3. status = "open" => tail \in live \cup {NULL}
    BY <2>1 DEF EndsKnown
  <2>4. ASSUME NEW c \in Entries PROVE next[c] \in live \cup {NULL}
    <3>1. PICK i \in 1..n : c = contents[i]
      BY DEF Entries
    <3>2. i # n => i + 1 \in 1..n
      <4>. HIDE DEF n
      <4>. QED
        BY <2>1
    <3>3. QED
      BY <2>1, <3>1, <3>2 DEF Threaded
  <2>5. ASSUME NEW c \in live \ Entries PROVE next[c] \in live \cup {NULL}
    BY <2>5 DEF Memory, HandApart
  <2>6. QED
    BY <2>2, <2>3, <2>4, <2>5 DEF PointersValid
<1>2. QED
  BY <1>1, LinkedInvariant, PTL

\* When queue_destroy returns, everything that read_events allocated has been freed.
THEOREM AllFreed == Spec => []NoLeak
<1>1. ASSUME Linked PROVE NoLeak
  <2>1. status = "destroyed" => hand = NULL /\ Entries = {}
    BY <1>1, EmptySeq DEF Linked, HandApart, Memory, Entries
  <2>2. QED
    BY <1>1, <2>1 DEF Linked, Memory, NoLeak
<1>2. QED
  BY <1>1, LinkedInvariant, PTL

-----------------------------------------------------------------------------
\* queue_create makes an empty queue.
LEMMA InitIsFifo == Init => Queue!Init
<1>1. ASSUME Init PROVE FifoItems = <<>> /\ FifoTaken = Nothing /\ FifoEmpty
  BY <1>1 DEF Init, FifoItems, FifoTaken, FifoEmpty
<1>2. QED
  BY <1>1 DEF Init, Queue!Init, FifoEmpty

\* What the mapped variables are in a state of the list.
LEMMA Mapped ==
  ASSUME Linked, status = "open"
  PROVE  /\ FifoItems \in Seq(Events)
         /\ Len(FifoItems) = Len(contents)
         /\ \A i \in 1..Len(contents) : FifoItems[i] = event[contents[i]]
         /\ FifoEmpty <=> contents = <<>>
         /\ FifoItems = <<>> <=> contents = <<>>
         /\ FifoTaken = Nothing <=> hand = NULL
<1>. USE ConstantsAssumption DEF Linked
<1>1. contents \in Seq(Cells) /\ DOMAIN contents = 1..Len(contents) /\ Len(contents) \in Nat
  BY LenProperties DEF TypeOK
<1>2. \A i \in 1..Len(contents) : contents[i] \in Cells /\ event[contents[i]] \in Events
  BY <1>1, ElementOfSeq DEF Memory, Entries
<1>3. FifoItems = [i \in 1..Len(contents) |-> event[contents[i]]]
  BY <1>1 DEF FifoItems
<1>4. FifoItems \in Seq(Events) /\ Len(FifoItems) = Len(contents)
  BY <1>1, <1>2, <1>3
<1>5. FifoItems = <<>> <=> contents = <<>>
  <2>1. FifoItems = <<>> <=> Len(FifoItems) = 0
    BY <1>4, EmptySeq
  <2>2. contents = <<>> <=> Len(contents) = 0
    BY <1>1, EmptySeq
  <2>3. QED
    BY <1>4, <2>1, <2>2
<1>6. FifoEmpty <=> contents = <<>>
  <2>1. contents # <<>> => 1 \in 1..Len(contents)
    BY <1>1, EmptySeq
  <2>2. QED
    BY <1>2, <2>1 DEF FifoEmpty, EndsKnown
<1>7. FifoTaken = Nothing <=> hand = NULL
  BY DEF FifoTaken, Memory
<1>8. QED
  BY <1>3, <1>4, <1>5, <1>6, <1>7

\* queue_empty tells the truth about the mapped queue.
LEMMA EmptyMapped == Linked /\ status = "open" => (FifoEmpty <=> FifoItems = <<>>)
  BY Mapped

\* queue_enqueue is a Put.
LEMMA EnqueueIsPut ==
  ASSUME Linked, Linked', NEW d \in Cells, NEW e \in Events, Enqueue(d, e)
  PROVE  Queue!Put
<1>. USE ConstantsAssumption DEF Enqueue
<1>. DEFINE n == Len(contents)
<1>1. status = "open" /\ status' = "open"
  OBVIOUS
<1>2. /\ contents \in Seq(Cells) /\ n \in Nat
      /\ contents' \in Seq(Cells) /\ contents' # <<>> /\ Len(contents') = n + 1
      /\ \A i \in 1..n : contents'[i] = contents[i]
      /\ contents'[n + 1] = d
  BY AppendIndexed DEF Linked, TypeOK
<1>3. \A i \in 1..n : contents[i] \in Cells /\ contents[i] # d
  BY <1>2, ElementOfSeq DEF Linked, Memory, Entries
<1>4. event'[d] = e /\ \A c \in Cells : c # d => event'[c] = event[c]
  BY DEF Linked, TypeOK
<1>5. FifoItems' = Append(FifoItems, e)
  <2>1. FifoItems \in Seq(Events) /\ Len(FifoItems) = n
        /\ \A i \in 1..n : FifoItems[i] = event[contents[i]]
    BY <1>1, Mapped
  <2>2. FifoItems' = [i \in 1..(n + 1) |-> event'[contents'[i]]]
    <3>1. DOMAIN contents' = 1..(n + 1)
      BY <1>2, LenProperties
    <3>2. QED
      BY <1>1, <3>1 DEF FifoItems
  <2>3. Append(FifoItems, e) = [i \in 1..(n + 1) |-> IF i \in 1..n THEN FifoItems[i] ELSE e]
    <3>1. /\ Append(FifoItems, e) \in Seq(Events)
          /\ Len(Append(FifoItems, e)) = n + 1
          /\ \A i \in 1..n : Append(FifoItems, e)[i] = FifoItems[i]
          /\ Append(FifoItems, e)[n + 1] = e
      BY <2>1, AppendIndexed
    <3>2. Append(FifoItems, e) \in [1..(n + 1) -> Events]
      BY <3>1, LenProperties
    <3>3. \A i \in 1..(n + 1) : i \in 1..n \/ (i = n + 1 /\ i \notin 1..n)
      BY <1>2
    <3>4. QED
      BY <3>1, <3>2, <3>3
  <2>4. \A i \in 1..(n + 1) : event'[contents'[i]] = IF i \in 1..n THEN FifoItems[i] ELSE e
    <3>1. \A i \in 1..n : event'[contents'[i]] = FifoItems[i]
      BY <1>2, <1>3, <1>4, <2>1
    <3>2. event'[contents'[n + 1]] = e
      BY <1>2, <1>4
    <3>3. QED
      BY <1>2, <3>1, <3>2
  <2>5. QED
    BY <2>2, <2>3, <2>4
<1>6. FifoTaken' = FifoTaken
  BY <1>4 DEF Linked, Memory, TypeOK, FifoTaken
<1>7. FifoEmpty' = FALSE
  <2>1. head' # NULL
    <3>1. head' \in Cells
      BY <1>2, ElementOfSeq, EmptySeq DEF Linked, EndsKnown
    <3>2. QED
      BY <3>1
  <2>2. QED
    BY <1>1, <2>1 DEF FifoEmpty
<1>8. QED
  BY <1>1, <1>5, <1>6, <1>7 DEF Queue!Put

\* queue_dequeue is a Take.
LEMMA DequeueIsTake == ASSUME Linked, Linked', Dequeue PROVE Queue!Take
<1>. USE ConstantsAssumption DEF Dequeue
<1>. DEFINE n == Len(contents)
<1>1. status = "open" /\ status' = "open" /\ event' = event
  OBVIOUS
<1>2. /\ contents # <<>> /\ contents \in Seq(Cells) /\ n \in Nat \ {0}
      /\ head = contents[1] /\ head \in Cells
      /\ contents' \in Seq(Cells) /\ Len(contents') = n - 1
      /\ \A i \in 1..(n - 1) : contents'[i] = contents[i + 1]
  BY FirstDropped, TailIndexed DEF Linked, TypeOK
<1>3. /\ FifoItems \in Seq(Events) /\ FifoItems # <<>> /\ Len(FifoItems) = n
      /\ \A i \in 1..n : FifoItems[i] = event[contents[i]]
      /\ FifoTaken = Nothing
  BY <1>1, <1>2, Mapped
<1>4. FifoTaken' = Head(FifoItems)
  <2>1. Head(FifoItems) = FifoItems[1] /\ 1 \in 1..n
    BY <1>2, <1>3
  <2>2. FifoTaken' = event[contents[1]]
    BY <1>1, <1>2 DEF FifoTaken
  <2>3. QED
    BY <1>3, <2>1, <2>2
<1>5. FifoItems' = Tail(FifoItems)
  <2>1. FifoItems' = [i \in 1..(n - 1) |-> event[contents'[i]]]
    <3>1. DOMAIN contents' = 1..(n - 1)
      BY <1>2, LenProperties
    <3>2. QED
      BY <1>1, <3>1 DEF FifoItems
  <2>2. Tail(FifoItems) = [i \in 1..(n - 1) |-> FifoItems[i + 1]]
    <3>1. /\ Tail(FifoItems) \in Seq(Events)
          /\ Len(Tail(FifoItems)) = n - 1
          /\ \A i \in 1..(n - 1) : Tail(FifoItems)[i] = FifoItems[i + 1]
      BY <1>3, TailIndexed
    <3>2. Tail(FifoItems) \in [1..(n - 1) -> Events]
      BY <3>1, LenProperties
    <3>3. QED
      BY <3>1, <3>2
  <2>3. \A i \in 1..(n - 1) : event[contents'[i]] = FifoItems[i + 1]
    <3>1. \A i \in 1..(n - 1) : i + 1 \in 1..n
      BY <1>2
    <3>2. QED
      BY <1>2, <1>3, <3>1
  <2>4. QED
    BY <2>1, <2>2, <2>3
<1>6. FifoEmpty' = (FifoItems' = <<>>)
  <2>1. (Linked /\ status = "open" => (FifoEmpty <=> FifoItems = <<>>))'
    BY EmptyMapped, PTL
  <2>2. QED
    BY <1>1, <2>1 DEF FifoEmpty
<1>7. QED
  BY <1>1, <1>3, <1>4, <1>5, <1>6 DEF Queue!Take

\* The other steps: freeing the entry is Done, calling queue_destroy closes the queue
\* and what it does then is hidden.
LEMMA OtherStepsMap ==
  ASSUME Linked, FreeEvent \/ Destroy \/ DestroyEntry \/ DestroyEnds
  PROVE  [Queue!Next]_Queue!vars
<1>. USE ConstantsAssumption
<1>1. CASE FreeEvent
  <2>1. status = "open" /\ hand \in Cells
    BY <1>1 DEF FreeEvent, Linked, HandApart, TypeOK
  <2>2. FifoTaken # Nothing /\ FifoTaken' = Nothing
    BY <1>1, <2>1, Mapped DEF FreeEvent, FifoTaken
  <2>3. FifoItems' = FifoItems /\ FifoEmpty' = FifoEmpty /\ status' = status
    BY <1>1 DEF FreeEvent, FifoItems, FifoEmpty
  <2>4. QED
    BY <2>2, <2>3 DEF Queue!Next, Queue!Done
<1>2. CASE Destroy
  <2>1. status = "open" /\ status' # "open" /\ hand = NULL /\ hand' = NULL
    BY <1>2 DEF Destroy
  <2>2. FifoTaken = Nothing /\ FifoTaken' = Nothing
    BY <2>1 DEF FifoTaken
  <2>3. FifoItems' = <<>> /\ FifoEmpty' = TRUE
    BY <2>1 DEF FifoItems, FifoEmpty
  <2>4. QED
    BY <2>1, <2>2, <2>3 DEF Queue!Next, Queue!Close
<1>3. CASE DestroyEntry \/ DestroyEnds
  <2>1. status # "open" /\ status' # "open" /\ hand' = hand /\ event' = event
    BY <1>3 DEF DestroyEntry, DestroyEnds
  <2>2. FifoItems' = FifoItems /\ FifoTaken' = FifoTaken /\ FifoEmpty' = FifoEmpty
    BY <2>1 DEF FifoItems, FifoTaken, FifoEmpty
  <2>3. QED
    BY <2>1, <2>2 DEF Queue!vars
<1>4. QED
  BY <1>1, <1>2, <1>3

\* The list of helpers_event_queue.c is a queue: BackupService may use a sequence for it.
THEOREM ListIsQueue == Spec => ImplementsFifo
<1>1. Linked /\ Linked' /\ [Next]_vars => [Queue!Next]_Queue!vars
  <2>1. ASSUME UNCHANGED vars PROVE UNCHANGED Queue!vars
    BY <2>1 DEF vars, Queue!vars, FifoItems, FifoTaken, FifoEmpty
  <2>2. QED
    BY <2>1, EnqueueIsPut, DequeueIsTake, OtherStepsMap DEF Next, Queue!Next
<1>2. QED
  BY <1>1, InitIsFifo, LinkedInvariant, PTL DEF Spec, ImplementsFifo, Queue!Spec
=============================================================================
