------------------------------- MODULE Admission -------------------------------
(***************************************************************************)
(* What the service manager promises.  A service is attended at most once, *)
(* by processes that do not depend on the manager's life; it is answered   *)
(* while it is attended and runs only after an answer; whoever was         *)
(* answered stays attended until it ends; and a manager starts only when   *)
(* nobody is attended any more, so that there never are two.               *)
(***************************************************************************)
CONSTANT Services

VARIABLES
  up,        \* is there a manager that attends to new services?
  served,    \* the services it ever attended to
  attended,  \* those it attends to now
  answered,  \* those it has answered
  status     \* per service: "asking", "running" or "ended"

vars == <<up, served, attended, answered, status>>

Init == /\ up = FALSE
        /\ served = {} /\ attended = {} /\ answered = {}
        /\ status = [s \in Services |-> "asking"]

Open == /\ ~up
        /\ attended = {}
        /\ up' = TRUE
        /\ UNCHANGED <<served, attended, answered, status>>

Close == /\ up
         /\ up' = FALSE
         /\ UNCHANGED <<served, attended, answered, status>>

Attend(s) == /\ up
             /\ s \notin served
             /\ served' = served \cup {s}
             /\ attended' = attended \cup {s}
             /\ UNCHANGED <<up, answered, status>>

Answer(s) == /\ s \in attended \ answered
             /\ answered' = answered \cup {s}
             /\ UNCHANGED <<up, served, attended, status>>

Start(s) == /\ status[s] = "asking"
            /\ s \in answered
            /\ status' = [status EXCEPT ![s] = "running"]
            /\ UNCHANGED <<up, served, attended, answered>>

End(s) == /\ status[s] # "ended"
          /\ status' = [status EXCEPT ![s] = "ended"]
          /\ UNCHANGED <<up, served, attended, answered>>

Leave(s) == /\ s \in attended
            /\ s \in answered => status[s] = "ended"
            /\ attended' = attended \ {s}
            /\ UNCHANGED <<up, served, answered, status>>

Next == \/ Open \/ Close
        \/ \E s \in Services : Attend(s) \/ Answer(s) \/ Start(s) \/ End(s) \/ Leave(s)

Spec == Init /\ [][Next]_vars

-----------------------------------------------------------------------------
TypeOK == /\ up \in BOOLEAN
          /\ served \subseteq Services
          /\ attended \subseteq served
          /\ answered \subseteq served
          /\ status \in [Services -> {"asking", "running", "ended"}]

\* What a service may rely on once it runs: the processes of its connection are there,
\* with or without a manager.
RunningIsAttended == \A s \in Services : status[s] = "running" => s \in attended

\* A manager takes the port only when no service runs that another one admitted.
NobodyRunsAtOpening ==
  [][~up /\ up' => \A s \in Services : status[s] # "running"]_vars
=============================================================================
