------------------------------- MODULE PathList -------------------------------
(***************************************************************************)
(* What the backup service takes the hash table of its thread argument     *)
(* for: a list that backup_loop extends at its end while general_loop      *)
(* walks it from the end it found to the beginning.                        *)
(***************************************************************************)
EXTENDS Integers, Sequences

CONSTANTS Paths, Nothing

VARIABLES
  paths,  \* the list
  at,     \* the position of the walk, 0 when there is none
  path,   \* what the walk reads there
  walk,   \* "on", or how the last walk ended: "through" or "left"
  open    \* has the list not been freed?

vars == <<paths, at, path, walk, open>>

Read(p) == IF p = 0 THEN Nothing ELSE paths[p]

Init == paths = <<>> /\ at = 0 /\ path = Nothing /\ walk = "through" /\ open = TRUE

Add == /\ open
       /\ \E p \in Paths : paths' = Append(paths, p)
       /\ UNCHANGED <<at, path, walk, open>>

MoveTo(p, w) == at' = p /\ path' = Read(p) /\ walk' = w /\ UNCHANGED <<paths, open>>

\* handle_event begins a walk, goes on, has met every path, or has found what it
\* looked for.
Begin == open /\ walk # "on" /\ MoveTo(Len(paths), "on")
Step  == walk = "on" /\ at > 0 /\ MoveTo(at - 1, "on")
End   == walk = "on" /\ at = 0 /\ MoveTo(0, "through")
Leave == walk = "on" /\ at > 0 /\ MoveTo(0, "left")

Close == open /\ walk # "on" /\ open' = FALSE /\ UNCHANGED <<paths, at, path, walk>>

Next == Add \/ Begin \/ Step \/ End \/ Leave \/ Close

Spec == Init /\ [][Next]_vars
=============================================================================
