------------------------- MODULE ServiceManagerProofs -------------------------
(***************************************************************************)
(* What ServiceManager guarantees for any number of services, any backlog, *)
(* any number of process slots and any number of losses of the manager.    *)
(*                                                                         *)
(* RunningHasHandler is not inductive: that a running service has a        *)
(* handler rests on the answer that started it, on the handler that wrote  *)
(* the answer not having left its loop since, and on the order in which a  *)
(* connection passes from the backlog to accept(), the child and the       *)
(* handler.  IInv states these facts.                                      *)
(***************************************************************************)
EXTENDS ServiceManager, TLAPS

-----------------------------------------------------------------------------
(***************************************************************************)
(* The elements of a sequence used as a queue.                             *)
(***************************************************************************)
Distinct(q) == \A i, j \in DOMAIN q : q[i] = q[j] => i = j

Elements(q) == {q[i] : i \in DOMAIN q}

\* What accept() leaves in the backlog: no connection is lost or handed out twice.
LEMMA HeadTail ==
  ASSUME NEW S, NEW q \in Seq(S), q # <<>>
  PROVE  /\ Head(q) \in S
         /\ Tail(q) \in Seq(S)
         /\ Head(q) \in Elements(q)
         /\ Elements(Tail(q)) \subseteq Elements(q)
         /\ Distinct(q) => Distinct(Tail(q)) /\ Head(q) \notin Elements(Tail(q))
  <1>1. Len(q) \in Nat /\ Len(q) > 0 /\ DOMAIN q = 1..Len(q)
    OBVIOUS
  <1>2. /\ Head(q) = q[1]
        /\ Tail(q) \in Seq(S)
        /\ Len(Tail(q)) = Len(q) - 1
        /\ \A i \in 1..(Len(q) - 1) : Tail(q)[i] = q[i + 1]
    BY <1>1
  <1>3. DOMAIN Tail(q) = 1..(Len(q) - 1)
    BY <1>2
  <1>4. \A i \in DOMAIN Tail(q) : i + 1 \in DOMAIN q /\ Tail(q)[i] = q[i + 1]
    BY <1>1, <1>2, <1>3
  <1>5. Elements(Tail(q)) \subseteq Elements(q)
    BY <1>4 DEF Elements
  <1>6. ASSUME Distinct(q)
        PROVE  Distinct(Tail(q)) /\ Head(q) \notin Elements(Tail(q))
    BY <1>1, <1>2, <1>3, <1>4, <1>6 DEF Elements, Distinct
  <1>7. QED
    BY <1>1, <1>2, <1>5, <1>6 DEF Elements

\* What connect() adds to the backlog.
LEMMA AppendElements ==
  ASSUME NEW S, NEW q \in Seq(S), NEW e \in S
  PROVE  /\ Append(q, e) \in Seq(S)
         /\ Elements(Append(q, e)) = Elements(q) \cup {e}
         /\ Distinct(q) /\ e \notin Elements(q) => Distinct(Append(q, e))
  <1>1. /\ Len(q) \in Nat /\ DOMAIN q = 1..Len(q)
        /\ DOMAIN Append(q, e) = 1..(Len(q) + 1)
        /\ Append(q, e)[Len(q) + 1] = e
        /\ \A i \in 1..Len(q) : Append(q, e)[i] = q[i]
    OBVIOUS
  <1>2. Elements(Append(q, e)) = Elements(q) \cup {e}
    <2>1. Elements(Append(q, e)) \subseteq Elements(q) \cup {e}
      BY <1>1 DEF Elements
    <2>2. Elements(q) \subseteq Elements(Append(q, e))
      BY <1>1 DEF Elements
    <2>3. e \in Elements(Append(q, e))
      BY <1>1 DEF Elements
    <2>4. QED
      BY <2>1, <2>2, <2>3
  <1>3. ASSUME Distinct(q), e \notin Elements(q)
        PROVE  Distinct(Append(q, e))
    BY <1>1, <1>3 DEF Elements, Distinct
  <1>4. QED
    BY <1>2, <1>3

\* A listening socket that nobody holds has an empty backlog.
LEMMA EmptyQueue ==
  <<>> \in Seq(Services) /\ Elements(<<>>) = {} /\ Distinct(<<>>)
  BY DEF Elements, Distinct

-----------------------------------------------------------------------------
(***************************************************************************)
(* The inductive invariant.                                                *)
(***************************************************************************)

\* A connection is queued, accepted or forked for, in this order and once.
QueueOrder ==
  /\ Distinct(backlog)
  /\ newsock \notin Elements(backlog)
  /\ \A s \in Services :
       s \in Elements(backlog) \/ newsock = s => child[s] = "none" /\ svc[s] # "start"

\* A handler is forked by the child that then waits for it.
ProcessOrder ==
  \A s \in Services :
    /\ svc[s] = "start" => child[s] = "none"
    /\ child[s] \in {"none", "forking"} => handler[s] = "none"
    /\ handler[s] = "reading" => child[s] = "waiting"

\* A service that was answered and has not ended is still being read from.
AnswerOrder ==
  \A s \in Services :
    /\ answers[s] # {} /\ svc[s] \notin Ended => handler[s] = "reading"
    /\ svc[s] = "running" => answers[s] # {}

IInv == TypeOK /\ QueueOrder /\ ProcessOrder /\ AnswerOrder

-----------------------------------------------------------------------------
\* No connection exists before the manager is launched.
LEMMA InitIInv == Init => IInv
  <1> SUFFICES ASSUME Init PROVE IInv
    OBVIOUS
  <1> USE ConstantsAssumption
  <1>1. TypeOK
    <2>1. backlog \in Seq(Services)
      BY EmptyQueue DEF Init
    <2>2. /\ 0 \in 0..MsgLen /\ 0 \in 0..MaxExits
      OBVIOUS
    <2>3. QED
      BY <2>1, <2>2 DEF Init, TypeOK, ChildStates, HandlerStates, Signals,
         Uninitialised, ServiceStates, ProcessIds
  <1>2. QueueOrder
    <2>1. Distinct(backlog) /\ Elements(backlog) = {}
      BY EmptyQueue DEF Init
    <2>2. QED
      BY <2>1 DEF Init, QueueOrder
  <1>3. ProcessOrder /\ AnswerOrder
    BY DEF Init, ProcessOrder, AnswerOrder
  <1>4. QED
    BY <1>1, <1>2, <1>3 DEF IInv

\* main's own steps move a connection from the backlog to the child forked for
\* it, or lose the backlog; they touch no handler and no service.
LEMMA MainIInv ==
  ASSUME IInv, Launch \/ Main \/ ManagerLost
  PROVE  IInv'
  <1> USE ConstantsAssumption DEF IInv
  <1>1. CASE Launch
    BY <1>1 DEF Launch, connVars, TypeOK, QueueOrder, ProcessOrder, AnswerOrder
  <1>2. CASE Accept
    <2>1. /\ Head(backlog) \in Services
          /\ Head(backlog) \in Elements(backlog)
          /\ backlog' \in Seq(Services)
          /\ Elements(backlog') \subseteq Elements(backlog)
          /\ Distinct(backlog') /\ Head(backlog) \notin Elements(backlog')
      BY <1>2, HeadTail DEF Accept, TypeOK, QueueOrder
    <2>2. TypeOK'
      BY <1>2, <2>1 DEF Accept, connVars, TypeOK
    <2>3. QueueOrder'
      BY <1>2, <2>1 DEF Accept, connVars, QueueOrder
    <2>4. ProcessOrder' /\ AnswerOrder'
      BY <1>2 DEF Accept, connVars, ProcessOrder, AnswerOrder
    <2>5. QED
      BY <2>2, <2>3, <2>4
  <1>3. CASE ForkChild
    <2>1. newsock \in Services
      BY <1>3 DEF ForkChild, TypeOK
    <2>2. TypeOK'
      BY <1>3, <2>1 DEF ForkChild, TypeOK, ChildStates
    <2>3. NoService \notin Elements(backlog)
      BY DEF TypeOK, Elements
    <2>4. QueueOrder'
      BY <1>3, <2>1, <2>3 DEF ForkChild, TypeOK, QueueOrder
    <2>5. ProcessOrder' /\ AnswerOrder'
      BY <1>3, <2>1 DEF ForkChild, TypeOK, QueueOrder, ProcessOrder, AnswerOrder
    <2>6. QED
      BY <2>2, <2>4, <2>5
  <1>4. ASSUME MainExits, exits' \in 0..MaxExits,
               UNCHANGED <<handler, signal, unread, answers, svc>>
        PROVE  IInv'
    <2>1. backlog' = backlog \/ backlog' = <<>>
      BY <1>4 DEF MainExits, CloseListenerIfUnheld
    <2>2. /\ backlog' \in Seq(Services) /\ Distinct(backlog')
          /\ Elements(backlog') \subseteq Elements(backlog)
      BY <2>1, EmptyQueue DEF TypeOK, QueueOrder
    <2>3. ASSUME NEW s \in Services
          PROVE  \/ child'[s] = child[s]
                 \/ child[s] = "zombie" /\ child'[s] = "gone"
      BY <1>4 DEF MainExits
    <2>4. TypeOK'
      BY <1>4, <2>2 DEF MainExits, TypeOK, ChildStates
    <2>5. NoService \notin Elements(backlog)
      BY DEF TypeOK, Elements
    <2>6. QueueOrder'
      BY <1>4, <2>2, <2>3, <2>5 DEF MainExits, QueueOrder
    <2>7. ProcessOrder' /\ AnswerOrder'
      BY <1>4, <2>3 DEF ProcessOrder, AnswerOrder
    <2>8. QED
      BY <2>4, <2>6, <2>7
  <1>5. CASE ForkChildFails
    BY <1>4, <1>5 DEF ForkChildFails, TypeOK
  <1>6. CASE ManagerLost
    BY <1>4, <1>6 DEF ManagerLost, TypeOK
  <1>7. QED
    BY <1>1, <1>2, <1>3, <1>5, <1>6 DEF Main

\* The steps of the child: a handler appears with the child that waits for it,
\* and the child leaves only when the handler has.
LEMMA ChildIInv ==
  ASSUME IInv, NEW s \in Services, Child(s)
  PROVE  IInv'
  <1> USE ConstantsAssumption DEF IInv
  <1>1. CASE ForkHandler(s)
    <2>1. TypeOK'
      BY <1>1 DEF ForkHandler, mgrVars, TypeOK, ChildStates, HandlerStates
    <2>2. QueueOrder'
      BY <1>1 DEF ForkHandler, mgrVars, TypeOK, QueueOrder
    <2>3. ProcessOrder' /\ AnswerOrder'
      BY <1>1 DEF ForkHandler, TypeOK, ProcessOrder, AnswerOrder
    <2>4. QED
      BY <2>1, <2>2, <2>3
  <1>2. ASSUME child[s] \in {"forking", "waiting"}, handler[s] # "reading",
               child[s] = "waiting" => handler[s] = "exited",
               ChildExit(s), CloseListenerIfUnheld,
               UNCHANGED <<mgrVars, handler, signal, unread, answers, svc>>
        PROVE  IInv'
    <2>1. backlog' = backlog \/ backlog' = <<>>
      BY <1>2 DEF CloseListenerIfUnheld
    <2>2. /\ backlog' \in Seq(Services) /\ Distinct(backlog')
          /\ Elements(backlog') \subseteq Elements(backlog)
      BY <2>1, EmptyQueue DEF TypeOK, QueueOrder
    <2>3. /\ child' \in [Services -> ChildStates]
          /\ child'[s] \in {"zombie", "gone"}
          /\ \A u \in Services : u # s => child'[u] = child[u]
      BY <1>2 DEF ChildExit, TypeOK, ChildStates
    <2>4. TypeOK'
      BY <1>2, <2>2, <2>3 DEF mgrVars, TypeOK
    <2>5. QueueOrder'
      BY <1>2, <2>2, <2>3 DEF mgrVars, QueueOrder
    <2>6. ProcessOrder' /\ AnswerOrder'
      BY <1>2, <2>3 DEF ProcessOrder, AnswerOrder
    <2>7. QED
      BY <2>4, <2>5, <2>6
  <1>3. CASE ForkHandlerFails(s)
    BY <1>2, <1>3 DEF ForkHandlerFails, ProcessOrder
  <1>4. CASE ReapHandler(s)
    BY <1>2, <1>4 DEF ReapHandler
  <1>5. QED
    BY <1>1, <1>3, <1>4 DEF Child

\* The steps of the handler: it answers only while it reads, and leaves its loop
\* only when the service has ended.
LEMMA HandlerIInv ==
  ASSUME IInv, NEW s \in Services, Handler(s)
  PROVE  IInv'
  <1> USE ConstantsAssumption DEF IInv
  <1>1. CASE ReadMessage(s)
    <2>1. PICK n \in ReadSizes(s) : \E sig \in SignalsRead(s, n) :
            /\ unread' = [unread EXCEPT ![s] = @ - n]
            /\ \/ Answer(s)
               \/ /\ signal' = [signal EXCEPT ![s] = sig]
                  /\ UNCHANGED <<handler, answers>>
      BY <1>1 DEF ReadMessage
    <2>2. PICK sig \in SignalsRead(s, n) :
            \/ Answer(s)
            \/ /\ signal' = [signal EXCEPT ![s] = sig]
               /\ UNCHANGED <<handler, answers>>
      BY <2>1
    <2>3. /\ sig \in Signals \cup {Uninitialised}
          /\ IdRead(s) \in ProcessIds
          /\ SignalAccept \in Signals
      BY DEF SignalsRead, TypeOK, Signals, SignalInit, IdRead, ProcessIds, ProcessIdOf,
         BackupProcessType, FirewallProcessType
    <2>4. /\ signal' \in [Services -> Signals \cup {Uninitialised}]
          /\ answers' \in [Services -> SUBSET ProcessIds]
          /\ \A u \in Services : u # s => answers'[u] = answers[u]
          /\ \A u \in Services : answers[u] \subseteq answers'[u]
          /\ \/ handler' = handler
             \/ /\ svc[s] \in Ended
                /\ handler' = [handler EXCEPT ![s] = "exited"]
                /\ answers' = answers
      <3>1. CASE Answer(s)
        <4>1. signal' \in [Services -> Signals \cup {Uninitialised}]
          BY <2>3, <3>1 DEF Answer, TypeOK
        <4>2. CASE handler' = handler /\ answers' = [answers EXCEPT ![s] = @ \cup {IdRead(s)}]
          BY <2>3, <4>1, <4>2 DEF TypeOK
        <4>3. CASE /\ svc[s] \in Ended /\ answers' = answers
                   /\ handler' = [handler EXCEPT ![s] = "exited"]
          BY <4>1, <4>3 DEF TypeOK
        <4>4. QED
          BY <3>1, <4>2, <4>3 DEF Answer
      <3>2. CASE signal' = [signal EXCEPT ![s] = sig] /\ UNCHANGED <<handler, answers>>
        BY <2>3, <3>2 DEF TypeOK
      <3>3. QED
        BY <2>2, <3>1, <3>2
    <2>5. unread[s] - n \in 0..MsgLen
      BY <1>1 DEF ReadMessage, ReadSizes, TypeOK
    <2>6. TypeOK'
      <3>1. unread' \in [Services -> 0..MsgLen]
        BY <2>1, <2>5 DEF TypeOK
      <3>2. handler' \in [Services -> HandlerStates]
        BY <2>4 DEF TypeOK, HandlerStates
      <3>3. QED
        BY <1>1, <2>4, <3>1, <3>2 DEF ReadMessage, mgrVars, TypeOK
    <2>7. QueueOrder'
      BY <1>1 DEF ReadMessage, mgrVars, QueueOrder
    <2>8. ProcessOrder' /\ AnswerOrder'
      <3>1. /\ child' = child /\ svc' = svc /\ handler[s] = "reading"
            /\ \A u \in Services : u # s => handler'[u] = handler[u]
        BY <1>1, <2>4 DEF ReadMessage, TypeOK
      <3>2. ProcessOrder'
        BY <2>4, <3>1 DEF ProcessOrder, TypeOK
      <3>3. AnswerOrder'
        <4>1. ASSUME NEW u \in Services, answers'[u] # {}, svc[u] \notin Ended
              PROVE  handler'[u] = "reading"
          BY <2>4, <3>1, <4>1 DEF AnswerOrder
        <4>2. ASSUME NEW u \in Services, svc[u] = "running"
              PROVE  answers'[u] # {}
          <5>1. answers[u] # {} /\ answers[u] \subseteq answers'[u]
            BY <2>4, <3>1, <4>2 DEF AnswerOrder
          <5>2. QED
            BY <5>1
        <4>3. QED
          BY <3>1, <4>1, <4>2 DEF AnswerOrder
      <3>4. QED
        BY <3>2, <3>3
    <2>9. QED
      BY <2>6, <2>7, <2>8
  <1>2. CASE EndOfFile(s)
    <2>1. TypeOK'
      BY <1>2 DEF EndOfFile, mgrVars, TypeOK, HandlerStates
    <2>2. QueueOrder'
      BY <1>2 DEF EndOfFile, mgrVars, QueueOrder
    <2>3. ProcessOrder' /\ AnswerOrder'
      BY <1>2 DEF EndOfFile, AtEnd, TypeOK, ProcessOrder, AnswerOrder
    <2>4. QED
      BY <2>1, <2>2, <2>3
  <1>3. QED
    BY <1>1, <1>2 DEF Handler

\* The steps of a service: it joins the backlog once, before a child exists for
\* it, and runs only after it was answered.
LEMMA ServiceIInv ==
  ASSUME IInv, NEW s \in Services, Register(s) \/ ServiceEnds(s)
  PROVE  IInv'
  <1> USE ConstantsAssumption DEF IInv
  <1>1. CASE Connect(s)
    <2>1. /\ s \notin Elements(backlog) /\ newsock # s /\ child[s] = "none"
      BY <1>1 DEF Connect, QueueOrder, ProcessOrder
    <2>2. /\ backlog' \in Seq(Services) /\ Distinct(backlog')
          /\ Elements(backlog') = Elements(backlog) \cup {s}
      BY <1>1, <2>1, AppendElements DEF Connect, TypeOK, QueueOrder
    <2>3. TypeOK'
      BY <1>1, <2>2 DEF Connect, mgrVars, connVars, TypeOK, ServiceStates
    <2>4. QueueOrder'
      BY <1>1, <2>1, <2>2 DEF Connect, mgrVars, connVars, TypeOK, QueueOrder
    <2>5. ProcessOrder' /\ AnswerOrder'
      BY <1>1 DEF Connect, connVars, TypeOK, ProcessOrder, AnswerOrder, Ended
    <2>6. QED
      BY <2>3, <2>4, <2>5
  <1>2. ASSUME NEW st \in ServiceStates \ {"start"},
               svc' = [svc EXCEPT ![s] = st],
               unread' \in [Services -> 0..MsgLen],
               st = "running" => answers[s] # {},
               svc[s] \in Ended => st \in Ended,
               UNCHANGED <<mgrVars, backlog, connVars, answers>>
        PROVE  IInv'
    <2>1. TypeOK'
      BY <1>2 DEF mgrVars, connVars, TypeOK, ServiceStates
    <2>2. QueueOrder'
      BY <1>2 DEF mgrVars, connVars, TypeOK, QueueOrder
    <2>3. ProcessOrder' /\ AnswerOrder'
      BY <1>2 DEF connVars, TypeOK, ProcessOrder, AnswerOrder
    <2>4. QED
      BY <2>1, <2>2, <2>3
  <1>3. CASE ConnectFails(s)
    BY <1>2, <1>3 DEF ConnectFails, ServiceStates, Ended, TypeOK
  <1>4. CASE WriteHello(s)
    <2>1. unread' \in [Services -> 0..MsgLen]
      BY <1>4 DEF WriteHello, TypeOK
    <2>2. QED
      BY <1>2, <1>4, <2>1 DEF WriteHello, ServiceStates, Ended
  <1>5. CASE WriteHelloFails(s)
    BY <1>2, <1>5 DEF WriteHelloFails, ServiceStates, Ended, TypeOK
  <1>6. CASE ReadAnswer(s)
    BY <1>2, <1>6 DEF ReadAnswer, ServiceStates, Ended, TypeOK
  <1>7. CASE ReadTooShort(s)
    BY <1>2, <1>7 DEF ReadTooShort, ServiceStates, Ended, TypeOK
  <1>8. CASE ReadAnswerFails(s)
    BY <1>2, <1>8 DEF ReadAnswerFails, ServiceStates, Ended, TypeOK
  <1>9. CASE ServiceEnds(s)
    BY <1>2, <1>9 DEF ServiceEnds, ServiceStates, Ended, TypeOK
  <1>10. QED
    BY <1>1, <1>3, <1>4, <1>5, <1>6, <1>7, <1>8, <1>9 DEF Register

LEMMA NextIInv == IInv /\ [Next]_vars => IInv'
  <1> SUFFICES ASSUME IInv, [Next]_vars PROVE IInv'
    OBVIOUS
  <1>1. CASE UNCHANGED vars
    BY <1>1 DEF vars, IInv, TypeOK, QueueOrder, ProcessOrder, AnswerOrder
  <1>2. CASE Next
    BY <1>2, MainIInv, ChildIInv, HandlerIInv, ServiceIInv DEF Next
  <1>3. QED
    BY <1>1, <1>2

-----------------------------------------------------------------------------
\* Every variable of the model keeps its type: in particular no handler reads
\* more of a message than was written.
THEOREM TypeCorrect == Spec => []TypeOK
  <1>1. IInv => TypeOK
    BY DEF IInv
  <1>2. QED
    BY <1>1, InitIInv, NextIInv, PTL DEF Spec

\* The reason a running service has a live handler and a child that waits.
LEMMA IInvRunning == IInv => RunningHasHandler
  BY DEF IInv, TypeOK, ProcessOrder, AnswerOrder, RunningHasHandler, Ended

\* A service runs only under a handler that reads from it and that a child waits
\* for, however often the manager is lost and whatever forks fail.
THEOREM ServiceIsAttended == Spec => []RunningHasHandler
  BY InitIInv, NextIInv, IInvRunning, PTL DEF Spec

\* Only Launch starts the manager, and it needs the socket that the handler and
\* the child of a running service hold.
THEOREM NoSecondManager == Spec => NoRelaunchWhileServiceRuns
  <1>1. IInv /\ [Next]_vars
          => [~mgrUp /\ mgrUp' => \A s \in Services : svc'[s] # "running"]_vars
    <2> SUFFICES ASSUME IInv, Next, ~mgrUp, mgrUp', NEW s \in Services
                 PROVE  svc'[s] # "running"
      OBVIOUS
    <2>1. Launch
      BY DEF Next, Main, Child, Handler, Register, ServiceEnds, Accept, ForkChild,
         ForkChildFails, ManagerLost, MainExits, ForkHandler, ForkHandlerFails,
         ReapHandler, ReadMessage, EndOfFile, Connect, ConnectFails, WriteHello,
         WriteHelloFails, ReadAnswer, ReadTooShort, ReadAnswerFails, mgrVars
    <2>2. handler[s] # "reading" /\ svc' = svc
      BY <2>1 DEF Launch, ListenerOpen, Holders
    <2>3. QED
      BY <2>2, IInvRunning DEF RunningHasHandler
  <1>2. QED
    BY <1>1, InitIInv, NextIInv, PTL DEF Spec, NoRelaunchWhileServiceRuns

-----------------------------------------------------------------------------
(***************************************************************************)
(* The processes implement Admission.                                      *)
(***************************************************************************)
LEMMA InitIsPromise == Init => Promise!Init
  <1> SUFFICES ASSUME Init PROVE Promise!Init
    OBVIOUS
  <1>1. Forked = {} /\ Holders = {} /\ Answered = {}
    BY DEF Init, Forked, Holders, ChildLive, Answered
  <1>2. Status = [s \in Services |-> "asking"]
    BY DEF Init, Status, Ended
  <1>3. QED
    BY <1>1, <1>2 DEF Init, Promise!Init

\* Steps that change neither a process nor an answer are seen in the status at most.
LEMMA SeenUnchanged ==
  /\ UNCHANGED child => UNCHANGED Forked
  /\ UNCHANGED <<child, handler>> => UNCHANGED Holders
  /\ UNCHANGED answers => UNCHANGED Answered
  /\ UNCHANGED svc => UNCHANGED Status
  BY DEF Forked, Holders, ChildLive, Answered, Status

\* Launch opens the manager, a fork for a connection attends to it, and main's exit closes
\* the manager but leaves the other processes alone.
LEMMA MainKeepsPromise ==
  ASSUME IInv, Launch \/ Main \/ ManagerLost
  PROVE  [Promise!Next]_Promise!vars
  <1> USE DEF IInv
  <1>1. UNCHANGED <<handler, answers, svc>> /\ UNCHANGED <<Answered, Status>>
    <2>1. UNCHANGED <<handler, answers, svc>>
      BY DEF Launch, Main, ManagerLost, Accept, ForkChild, ForkChildFails, connVars
    <2>2. QED
      BY <2>1, SeenUnchanged
  <1>2. CASE Launch
    <2>1. ~mgrUp /\ mgrUp' = TRUE /\ Holders = {} /\ UNCHANGED child
      BY <1>2 DEF Launch, ListenerOpen, connVars, TypeOK
    <2>2. UNCHANGED <<Forked, Holders>>
      BY <1>1, <2>1, SeenUnchanged
    <2>3. Promise!Open
      BY <1>1, <2>1, <2>2 DEF Promise!Open
    <2>4. QED
      BY <2>3 DEF Promise!Next
  <1>3. CASE Accept
    <2>1. UNCHANGED <<mgrUp, child>>
      BY <1>3 DEF Accept, connVars
    <2>2. UNCHANGED <<Forked, Holders>>
      BY <1>1, <2>1, SeenUnchanged
    <2>3. QED
      BY <1>1, <2>1, <2>2 DEF Promise!vars
  <1>4. CASE ForkChild
    <2>1. /\ newsock \in Services /\ child[newsock] = "none"
          /\ child' = [child EXCEPT ![newsock] = "forking"] /\ mgrUp /\ UNCHANGED mgrUp
      BY <1>4 DEF ForkChild, TypeOK, QueueOrder
    <2>2. /\ child'[newsock] = "forking"
          /\ \A s \in Services \ {newsock} : child'[s] = child[s]
      BY <2>1 DEF TypeOK
    <2>3. newsock \notin Forked /\ Forked' = Forked \cup {newsock}
      BY <2>1, <2>2 DEF Forked
    <2>4. Holders' = Holders \cup {newsock}
      BY <1>1, <2>1, <2>2 DEF Holders, ChildLive
    <2>5. Promise!Attend(newsock)
      BY <1>1, <2>1, <2>3, <2>4 DEF Promise!Attend
    <2>6. QED
      BY <2>1, <2>5 DEF Promise!Next
  <1>5. CASE MainExits /\ mgrUp
    <2>1. \A s \in Services : \/ child'[s] = child[s]
                              \/ child[s] = "zombie" /\ child'[s] = "gone"
      BY <1>5 DEF MainExits
    <2>2. UNCHANGED <<Forked, Holders>>
      BY <1>1, <2>1 DEF Forked, Holders, ChildLive
    <2>3. Promise!Close
      BY <1>1, <1>5, <2>2 DEF MainExits, Promise!Close
    <2>4. QED
      BY <2>3 DEF Promise!Next
  <1>6. QED
    BY <1>2, <1>3, <1>4, <1>5 DEF Main, ForkChildFails, ManagerLost

\* A child takes its leave when nobody answered, or when the service has ended.
LEMMA ChildKeepsPromise ==
  ASSUME IInv, NEW s \in Services, Child(s)
  PROVE  [Promise!Next]_Promise!vars
  <1> USE DEF IInv
  <1>1. UNCHANGED <<mgrUp, answers, svc>> /\ UNCHANGED <<Answered, Status>>
    <2>1. UNCHANGED <<mgrUp, answers, svc>>
      BY DEF Child, ForkHandler, ForkHandlerFails, ReapHandler, mgrVars
    <2>2. QED
      BY <2>1, SeenUnchanged
  <1>2. CASE ForkHandler(s)
    <2>1. /\ child[s] = "forking" /\ child'[s] = "waiting"
          /\ \A u \in Services \ {s} : child'[u] = child[u] /\ handler'[u] = handler[u]
      BY <1>2 DEF ForkHandler, TypeOK
    <2>2. UNCHANGED <<Forked, Holders>>
      BY <2>1 DEF Forked, Holders, ChildLive
    <2>3. QED
      BY <1>1, <2>2 DEF Promise!vars
  <1>3. CASE ForkHandlerFails(s) \/ ReapHandler(s)
    <2>1. /\ child[s] \in {"forking", "waiting"} /\ handler[s] # "reading"
          /\ child'[s] \in {"zombie", "gone"} /\ UNCHANGED handler
          /\ \A u \in Services \ {s} : child'[u] = child[u]
      BY <1>3 DEF ForkHandlerFails, ReapHandler, ChildExit, TypeOK, ProcessOrder
    <2>2. UNCHANGED Forked
      BY <2>1 DEF Forked
    <2>3. s \in Holders /\ Holders' = Holders \ {s}
      BY <2>1 DEF Holders, ChildLive
    <2>4. s \in Answered => Status[s] = "ended"
      BY <2>1 DEF Answered, Status, AnswerOrder
    <2>5. Promise!Leave(s)
      BY <1>1, <2>2, <2>3, <2>4 DEF Promise!Leave
    <2>6. QED
      BY <2>5 DEF Promise!Next
  <1>4. QED
    BY <1>2, <1>3 DEF Child

\* Only a handler that is there answers; the child stands in for it when it exits.
LEMMA HandlerKeepsPromise ==
  ASSUME IInv, NEW s \in Services, Handler(s)
  PROVE  [Promise!Next]_Promise!vars
  <1> USE DEF IInv
  <1>1. /\ UNCHANGED <<mgrUp, child, svc>> /\ UNCHANGED <<Forked, Status>>
        /\ handler[s] = "reading" /\ child[s] = "waiting"
    <2>1. UNCHANGED <<mgrUp, child, svc>> /\ handler[s] = "reading"
      BY DEF Handler, ReadMessage, EndOfFile, mgrVars
    <2>2. QED
      BY <2>1, SeenUnchanged DEF ProcessOrder
  <1>2. \/ UNCHANGED handler
        \/ handler' = [handler EXCEPT ![s] = "exited"]
    BY DEF Handler, ReadMessage, EndOfFile, Answer
  <1>3. s \in Holders /\ UNCHANGED Holders
    <2>1. \A u \in Services \ {s} : handler'[u] = handler[u]
      BY <1>2 DEF TypeOK
    <2>2. QED
      BY <1>1, <2>1 DEF Holders, ChildLive
  <1>4. CASE UNCHANGED answers
    <2>1. UNCHANGED Answered
      BY <1>4, SeenUnchanged
    <2>2. QED
      BY <1>1, <1>3, <2>1 DEF Promise!vars
  <1>5. CASE answers' = [answers EXCEPT ![s] = @ \cup {IdRead(s)}]
    <2>1. /\ answers'[s] = answers[s] \cup {IdRead(s)}
          /\ \A u \in Services \ {s} : answers'[u] = answers[u]
      BY <1>5 DEF TypeOK
    <2>2. Answered' = Answered \cup {s}
      BY <2>1 DEF Answered
    <2>3. CASE s \in Answered
      <3>1. UNCHANGED Answered
        BY <2>2, <2>3
      <3>2. QED
        BY <1>1, <1>3, <3>1 DEF Promise!vars
    <2>4. CASE s \notin Answered
      <3>1. Promise!Answer(s)
        BY <1>1, <1>3, <2>2, <2>4 DEF Promise!Answer
      <3>2. QED
        BY <3>1 DEF Promise!Next
    <2>5. QED
      BY <2>3, <2>4
  <1>6. QED
    BY <1>4, <1>5 DEF Handler, ReadMessage, EndOfFile, Answer

\* A service starts by its answer, and its end is final.
LEMMA ServiceKeepsPromise ==
  ASSUME IInv, NEW s \in Services, Register(s) \/ ServiceEnds(s)
  PROVE  [Promise!Next]_Promise!vars
  <1> USE DEF IInv
  <1>1. UNCHANGED <<mgrUp, child, handler, answers>> /\ UNCHANGED <<Forked, Holders, Answered>>
    <2>1. UNCHANGED <<mgrUp, child, handler, answers>>
      BY DEF Register, ServiceEnds, Connect, ConnectFails, WriteHello, WriteHelloFails,
             ReadAnswer, ReadTooShort, ReadAnswerFails, mgrVars, connVars
    <2>2. QED
      BY <2>1, SeenUnchanged
  <1>2. CASE Connect(s) \/ WriteHello(s)
    <2>1. \A u \in Services : \/ svc'[u] = svc[u]
                              \/ /\ svc[u] \in {"start", "connected"}
                                 /\ svc'[u] \in {"connected", "waiting"}
      BY <1>2 DEF Connect, WriteHello, TypeOK
    <2>2. UNCHANGED Status
      BY <2>1 DEF Status, Ended
    <2>3. QED
      BY <1>1, <2>2 DEF Promise!vars
  <1>3. CASE ReadAnswer(s)
    <2>1. /\ svc[s] = "waiting" /\ answers[s] # {}
          /\ svc' = [svc EXCEPT ![s] = "running"]
      BY <1>3 DEF ReadAnswer
    <2>2. Status[s] = "asking" /\ s \in Answered
      BY <2>1 DEF Status, Ended, Answered
    <2>3. Status' = [Status EXCEPT ![s] = "running"]
      BY <2>1 DEF Status, Ended, TypeOK
    <2>4. Promise!Start(s)
      BY <1>1, <2>2, <2>3 DEF Promise!Start
    <2>5. QED
      BY <2>4 DEF Promise!Next
  <1>4. CASE \/ ConnectFails(s) \/ WriteHelloFails(s) \/ ReadTooShort(s)
             \/ ReadAnswerFails(s) \/ ServiceEnds(s)
    <2>1. svc[s] \notin Ended /\ \E e \in Ended : svc' = [svc EXCEPT ![s] = e]
      BY <1>4 DEF ConnectFails, WriteHelloFails, ReadTooShort, ReadAnswerFails, ServiceEnds,
                  Ended
    <2>2. Status[s] # "ended"
      BY <2>1 DEF Status
    <2>3. Status' = [Status EXCEPT ![s] = "ended"]
      BY <2>1 DEF Status, TypeOK
    <2>4. Promise!End(s)
      BY <1>1, <2>2, <2>3 DEF Promise!End
    <2>5. QED
      BY <2>4 DEF Promise!Next
  <1>5. QED
    BY <1>2, <1>3, <1>4 DEF Register

\* Whatever fails, the manager, its children and the services keep the promise: one
\* attendance for each service, answers from living processes only, nobody answered is
\* left alone, and no second manager beside those who attend.
THEOREM PromiseIsKept == Spec => ImplementsAdmission
  <1>1. IInv /\ [Next]_vars => [Promise!Next]_Promise!vars
    <2> SUFFICES ASSUME IInv, [Next]_vars PROVE [Promise!Next]_Promise!vars
      OBVIOUS
    <2>1. CASE UNCHANGED vars
      <3>1. UNCHANGED <<mgrUp, child, handler, answers, svc>>
        BY <2>1 DEF vars
      <3>2. QED
        BY <3>1, SeenUnchanged DEF Promise!vars
    <2>2. CASE Next
      BY <2>2, MainKeepsPromise, ChildKeepsPromise, HandlerKeepsPromise, ServiceKeepsPromise
         DEF Next
    <2>3. QED
      BY <2>1, <2>2
  <1>2. QED
    BY <1>1, InitIInv, NextIInv, InitIsPromise, PTL DEF Spec, ImplementsAdmission, Promise!Spec
=============================================================================
