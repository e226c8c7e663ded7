---------------------------- MODULE AdmissionProofs ----------------------------
(***************************************************************************)
(* What follows from the promise of the service manager alone, for any set *)
(* of services.  ServiceManagerProofs shows that the processes keep it.    *)
(***************************************************************************)
EXTENDS Admission, TLAPS

\* A running service was answered, and who was answered is attended until it ends:
\* without the second part a step of Leave could take the processes from a service
\* whose answer is on its way.
Answers ==
  \A s \in Services :
    /\ status[s] = "running" => s \in answered
    /\ s \in answered /\ status[s] # "ended" => s \in attended

Inv == TypeOK /\ Answers

LEMMA InitInv == Init => Inv
  BY DEF Init, Inv, TypeOK, Answers

LEMMA NextInv == Inv /\ [Next]_vars => Inv'
  <1> SUFFICES ASSUME Inv, [Next]_vars PROVE Inv'
    OBVIOUS
  <1> USE DEF Inv, TypeOK, Answers
  <1>1. CASE Open \/ Close
    BY <1>1 DEF Open, Close
  <1>2. ASSUME NEW s \in Services, Attend(s) PROVE Inv'
    BY <1>2 DEF Attend
  <1>3. ASSUME NEW s \in Services, Answer(s) PROVE Inv'
    BY <1>3 DEF Answer
  <1>4. ASSUME NEW s \in Services, Start(s) PROVE Inv'
    BY <1>4 DEF Start
  <1>5. ASSUME NEW s \in Services, End(s) PROVE Inv'
    BY <1>5 DEF End
  <1>6. ASSUME NEW s \in Services, Leave(s) PROVE Inv'
    BY <1>6 DEF Leave
  <1>7. CASE UNCHANGED vars
    BY <1>7 DEF vars
  <1>8. QED
    BY <1>1, <1>2, <1>3, <1>4, <1>5, <1>6, <1>7 DEF Next

\* The promise keeps every running service attended, manager or not.
THEOREM PromiseAttends == Spec => []RunningIsAttended
  <1>1. Inv => RunningIsAttended
    BY DEF Inv, TypeOK, Answers, RunningIsAttended
  <1>2. QED
    BY <1>1, InitInv, NextInv, PTL DEF Spec

\* The promise has no two managers look after running services: the port is taken again
\* only when nobody is left whom the last manager admitted.
THEOREM PromiseIsExclusive == Spec => NobodyRunsAtOpening
  <1>1. Inv /\ [Next]_vars => [~up /\ up' => \A s \in Services : status[s] # "running"]_vars
    <2> SUFFICES ASSUME Inv, Next, ~up, up', NEW s \in Services
                 PROVE  status[s] # "running"
      OBVIOUS
    <2>1. Open
      BY DEF Next, Open, Close, Attend, Answer, Start, End, Leave, Inv, TypeOK
    <2>2. QED
      BY <2>1 DEF Open, Inv, Answers, TypeOK
  <1>2. QED
    BY <1>1, InitInv, NextInv, PTL DEF Spec, NobodyRunsAtOpening
=============================================================================
