----------------------------- MODULE ServiceManager -----------------------------
(***************************************************************************)
(* Registration of the services with the service manager.                  *)
(*                                                                         *)
(* The manager (services/service_manager_main.c) accepts a connection,     *)
(* forks a child for it and goes back to accept().  The child forks the    *)
(* handler that talks to the service and waits for it.  A service          *)
(* (main() of backup_service_main.c and firewall_service_main.c) connects, *)
(* writes one service_message_t, reads the answer once and runs only if    *)
(* the answer's signal is ACCEPT.                                          *)
(*                                                                         *)
(* A member of Services is one execution of a service program: it          *)
(* registers once and keeps its connection open while it runs.             *)
(***************************************************************************)
EXTENDS Integers, Sequences, FiniteSets

CONSTANTS
  BackupServices,    \* executions of backup_service
  FirewallServices,  \* executions of firewall_service
  NoService,         \* no service: main has no accepted connection in hand
  MaxConnectionNum,  \* MAX_CONNECTION_NUM, the backlog given to listen()
  MaxProcs,          \* process slots of the manager's user (RLIMIT_NPROC)
  MsgLen,            \* cells of a service_message_t: process_id, signal, data ...
  Fragmented,        \* may a read() return part of a message?
  MaxExits           \* bound: how often the manager's main process may be lost

Services == BackupServices \cup FirewallServices

ASSUME ConstantsAssumption ==
  /\ BackupServices \cap FirewallServices = {}
  /\ IsFiniteSet(Services)
  /\ NoService \notin Services
  /\ MaxConnectionNum \in Nat \ {0}
  /\ MaxProcs \in Nat \ {0}
  /\ MsgLen \in Nat /\ MsgLen >= 3
  /\ Fragmented \in BOOLEAN
  /\ MaxExits \in Nat

(***************************************************************************)
(* ipc_message_process_id and the two signal enumerations, whose members   *)
(* have the same values in both services.                                  *)
(***************************************************************************)
BackupProcessType   == 0
FirewallProcessType == 1
ProcessIds == {BackupProcessType, FirewallProcessType}

SignalInit   == 0
SignalDeny   == 1
SignalAccept == 2
Signals == {SignalInit, SignalDeny, SignalAccept}

\* The signal field of `args.message`, which main() never initialises.
Uninitialised == 3

ProcessIdOf(s) == IF s \in BackupServices THEN BackupProcessType
                                          ELSE FirewallProcessType

VARIABLES
  mgrUp,     \* is the manager's main process running?
  newsock,   \* the connection accept() returned and main has not forked for
  exits,     \* how often main has been lost so far (bounded by MaxExits)
  backlog,   \* connections the kernel holds for accept()
  child,     \* per connection, the first child main forks
  handler,   \* per connection, the grandchild that reads and answers
  signal,    \* per connection, message.signal in the handler's buffer
  unread,    \* per connection, cells of the hello the handler has not read
  answers,   \* per connection, the process_ids of the ACCEPTs written to it
  svc        \* per service, how far its main() is

mgrVars  == <<mgrUp, newsock, exits>>
connVars == <<child, handler, signal>>
vars == <<mgrUp, newsock, exits, backlog, child, handler, signal, unread,
          answers, svc>>

ChildStates   == {"none", "forking", "waiting", "zombie", "gone"}
HandlerStates == {"none", "reading", "exited"}
ServiceStates == {"start", "connected", "waiting", "running",
                  "declined", "failed", "stopped"}

\* The states in which a service has closed its socket, by close() or by dying.
Ended == {"declined", "failed", "stopped"}

(***************************************************************************)
(* Who holds which descriptor.  fork() gives the child and the handler     *)
(* copies of the listening socket, and neither closes it.                  *)
(***************************************************************************)
ChildLive(s) == child[s] \in {"forking", "waiting"}

Holders == {s \in Services : ChildLive(s) \/ handler[s] = "reading"}

\* Mutant: the processes forked for a connection close the listening socket.
ListenerNotInherited == mgrUp

ListenerOpen == mgrUp \/ Holders # {}

\* The services that main has forked a child for.
Forked == {s \in Services : child[s] # "none"}

Queued == {backlog[i] : i \in DOMAIN backlog}

\* The connection is established and some process may still serve it.
ServerOpen(s) == s \in Queued \/ newsock = s \/ s \in Holders

\* Processes that use a slot: a process that has exited uses it until its parent
\* waits for it.  Main never waits, so a child of a running main stays a zombie.
Children == {s \in Services : ChildLive(s) \/ child[s] = "zombie"}
Handlers == {s \in Services : \/ handler[s] = "reading"
                              \/ handler[s] = "exited" /\ child[s] = "waiting"}
ProcsUsed == (IF mgrUp THEN 1 ELSE 0) + Cardinality(Children) + Cardinality(Handlers)

\* What becomes of the child of `s` when it exits: init reaps it at once if
\* main is gone, and nobody does if main is alive.
ChildExit(s) == child' = [child EXCEPT ![s] = IF mgrUp THEN "zombie" ELSE "gone"]

\* The kernel resets the connections of a listening socket nobody holds.
CloseListenerIfUnheld == backlog' = IF ListenerOpen' THEN backlog ELSE <<>>

(***************************************************************************)
(* Main process of the manager.                                            *)
(***************************************************************************)

\* The operator starts the manager.  bind() of port 7777 succeeds only when
\* no process holds a socket of an earlier manager; otherwise main exits.
Launch ==
  /\ ~ListenerOpen
  /\ mgrUp' = TRUE
  /\ UNCHANGED <<newsock, exits, backlog, connVars, unread, answers, svc>>

Accept ==
  /\ mgrUp
  /\ newsock = NoService
  /\ backlog # <<>>
  /\ newsock' = Head(backlog)
  /\ backlog' = Tail(backlog)
  /\ UNCHANGED <<mgrUp, exits, connVars, unread, answers, svc>>

\* main's exit closes its sockets and leaves its zombies to init.
MainExits ==
  /\ mgrUp' = FALSE
  /\ newsock' = NoService
  /\ child' = [s \in Services |-> IF child[s] = "zombie" THEN "gone" ELSE child[s]]
  /\ CloseListenerIfUnheld

\* service_child_process_handler, parent side: fork, then close(newsockfd).
ForkChild ==
  /\ mgrUp
  /\ newsock # NoService
  /\ ProcsUsed < MaxProcs
  /\ child' = [child EXCEPT ![newsock] = "forking"]
  /\ newsock' = NoService
  /\ UNCHANGED <<mgrUp, exits, backlog, handler, signal, unread, answers, svc>>

\* fork() fails for want of a slot: service_err_handler ends the manager itself.
ForkChildFails ==
  /\ mgrUp
  /\ newsock # NoService
  /\ ProcsUsed >= MaxProcs
  /\ UNCHANGED <<exits, handler, signal, unread, answers, svc>>
  /\ MainExits

\* accept() returns an error (service_err_handler again), fork() fails though slots are
\* left (for want of memory, or to processes that are none of these), or main is killed.
ManagerLost ==
  /\ mgrUp
  /\ exits < MaxExits
  /\ exits' = exits + 1
  /\ UNCHANGED <<handler, signal, unread, answers, svc>>
  /\ MainExits

(***************************************************************************)
(* The two processes forked for a connection.                              *)
(***************************************************************************)

\* The child forks the handler and enters wait().
ForkHandler(s) ==
  /\ child[s] = "forking"
  /\ ProcsUsed < MaxProcs
  /\ child' = [child EXCEPT ![s] = "waiting"]
  /\ handler' = [handler EXCEPT ![s] = "reading"]
  /\ UNCHANGED <<mgrVars, backlog, signal, unread, answers, svc>>

\* fork() fails in the child, as it may at any time: service_err_handler closes both
\* sockets and exits.
ForkHandlerFails(s) ==
  /\ child[s] = "forking"
  /\ ChildExit(s)
  /\ UNCHANGED <<mgrVars, handler, signal, unread, answers, svc>>
  /\ CloseListenerIfUnheld

\* wait() returns once the handler has exited; the child exits too.
ReapHandler(s) ==
  /\ child[s] = "waiting"
  /\ handler[s] = "exited"
  /\ ChildExit(s)
  /\ UNCHANGED <<mgrVars, handler, signal, unread, answers, svc>>
  /\ CloseListenerIfUnheld

\* Mutant: more is read than the message holds.
ReadBeyondMessage(s) == 1..MsgLen

\* How many of the cells that have arrived one read() returns.
ReadSizes(s) == IF Fragmented THEN 1..unread[s] ELSE {unread[s]}

\* Mutant: the second test of the handler's loop is a copy of the first.
IsBackupRequest(id, sig) == id = BackupProcessType /\ sig = SignalInit

\* The two tests of the handler's loop.
IsRequest(id, sig) == \/ id = BackupProcessType /\ sig = SignalInit
                      \/ id = FirewallProcessType /\ sig = SignalInit

(***************************************************************************)
(* One iteration of the handler's loop.  read() overwrites the first n     *)
(* cells of args->message with the next n cells of the stream: process_id, *)
(* signal INIT and zeroes, so every cell but the first is zero.  Whatever  *)
(* the buffer then holds is taken for a message.                           *)
(***************************************************************************)
IdRead(s) == IF unread[s] = MsgLen THEN ProcessIdOf(s) ELSE 0

SignalsRead(s, n) == IF n >= 2 THEN {0}
                     ELSE IF signal[s] = Uninitialised THEN Signals
                     ELSE {signal[s]}

\* The write of an answer fails only if the service has closed its end; the
\* handler exits then.
Answer(s) ==
  /\ signal' = [signal EXCEPT ![s] = SignalAccept]
  /\ \/ /\ answers' = [answers EXCEPT ![s] = @ \cup {IdRead(s)}]
        /\ UNCHANGED handler
     \/ /\ svc[s] \in Ended
        /\ handler' = [handler EXCEPT ![s] = "exited"]
        /\ UNCHANGED answers

ReadMessage(s) ==
  /\ handler[s] = "reading"
  /\ unread[s] > 0
  /\ \E n \in ReadSizes(s) : \E sig \in SignalsRead(s, n) :
       /\ unread' = [unread EXCEPT ![s] = @ - n]
       /\ IF IsRequest(IdRead(s), sig)
          THEN Answer(s)
          ELSE /\ signal' = [signal EXCEPT ![s] = sig]
               /\ UNCHANGED <<handler, answers>>
  /\ UNCHANGED <<mgrVars, backlog, child, svc>>

\* Mutant: the handler leaves its loop when nothing is left to read.
NothingToRead(s) == unread[s] = 0

\* Mutant: the loop goes on when read() returns 0.
NeverAtEnd(s) == FALSE

\* read() returns 0 or an error only after the service has closed its end.
AtEnd(s) == unread[s] = 0 /\ svc[s] \in Ended

EndOfFile(s) ==
  /\ handler[s] = "reading"
  /\ AtEnd(s)
  /\ handler' = [handler EXCEPT ![s] = "exited"]
  /\ UNCHANGED <<mgrVars, backlog, child, signal, unread, answers, svc>>

(***************************************************************************)
(* main() of a service.                                                    *)
(***************************************************************************)

\* connect() succeeds as soon as the kernel queues the connection, whether or
\* not anyone will ever accept it.  Linux queues one more than the backlog.
Connect(s) ==
  /\ svc[s] = "start"
  /\ ListenerOpen
  /\ Len(backlog) <= MaxConnectionNum
  /\ backlog' = Append(backlog, s)
  /\ svc' = [svc EXCEPT ![s] = "connected"]
  /\ UNCHANGED <<mgrVars, connVars, unread, answers>>

\* connect() is refused, or times out on a full queue.
ConnectFails(s) ==
  /\ svc[s] = "start"
  /\ ~ListenerOpen \/ Len(backlog) > MaxConnectionNum
  /\ svc' = [svc EXCEPT ![s] = "failed"]
  /\ UNCHANGED <<mgrVars, backlog, connVars, unread, answers>>

WriteHello(s) ==
  /\ svc[s] = "connected"
  /\ unread' = [unread EXCEPT ![s] = MsgLen]
  /\ svc' = [svc EXCEPT ![s] = "waiting"]
  /\ UNCHANGED <<mgrVars, backlog, connVars, answers>>

\* write() fails on a connection that was reset.
WriteHelloFails(s) ==
  /\ svc[s] = "connected"
  /\ ~ServerOpen(s)
  /\ svc' = [svc EXCEPT ![s] = "failed"]
  /\ UNCHANGED <<mgrVars, backlog, connVars, unread, answers>>

\* read() returned the signal cell: SIGNAL_MAKE_*_ACCEPT starts the service.
ReadAnswer(s) ==
  /\ svc[s] = "waiting"
  /\ answers[s] # {}
  /\ svc' = [svc EXCEPT ![s] = "running"]
  /\ UNCHANGED <<mgrVars, backlog, connVars, unread, answers>>

\* read() returned too little for the zero-initialised answer to show ACCEPT:
\* less than the signal, or nothing at end of file.  main() returns normally.
ReadTooShort(s) ==
  /\ svc[s] = "waiting"
  /\ IF answers[s] # {} THEN Fragmented ELSE ~ServerOpen(s)
  /\ svc' = [svc EXCEPT ![s] = "declined"]
  /\ UNCHANGED <<mgrVars, backlog, connVars, unread, answers>>

\* read() fails on a connection that was reset.
ReadAnswerFails(s) ==
  /\ svc[s] = "waiting"
  /\ answers[s] = {}
  /\ ~ServerOpen(s)
  /\ svc' = [svc EXCEPT ![s] = "failed"]
  /\ UNCHANGED <<mgrVars, backlog, connVars, unread, answers>>

\* start() returns, or a signal ends the process.  Either way the kernel
\* closes its socket.
ServiceEnds(s) ==
  /\ \/ /\ svc[s] = "running"
        /\ svc' = [svc EXCEPT ![s] = "stopped"]
     \/ /\ svc[s] \in {"connected", "waiting", "running"}
        /\ svc' = [svc EXCEPT ![s] = "failed"]
  /\ UNCHANGED <<mgrVars, backlog, connVars, unread, answers>>

-----------------------------------------------------------------------------
Init ==
  /\ mgrUp = FALSE
  /\ newsock = NoService
  /\ exits = 0
  /\ backlog = <<>>
  /\ child = [s \in Services |-> "none"]
  /\ handler = [s \in Services |-> "none"]
  /\ signal = [s \in Services |-> Uninitialised]
  /\ unread = [s \in Services |-> 0]
  /\ answers = [s \in Services |-> {}]
  /\ svc = [s \in Services |-> "start"]

Main == Accept \/ ForkChild \/ ForkChildFails

Child(s) == ForkHandler(s) \/ ForkHandlerFails(s) \/ ReapHandler(s)

Handler(s) == ReadMessage(s) \/ EndOfFile(s)

Register(s) == \/ Connect(s) \/ ConnectFails(s)
               \/ WriteHello(s) \/ WriteHelloFails(s)
               \/ ReadAnswer(s) \/ ReadTooShort(s) \/ ReadAnswerFails(s)

Next ==
  \/ Launch \/ Main \/ ManagerLost
  \/ \E s \in Services : \/ Child(s)
                         \/ Handler(s)
                         \/ Register(s)
                         \/ ServiceEnds(s)

\* The operating system runs every process that can take a step.  Nobody has to
\* start a service or the manager, to stop a service, or to kill a process.
Fairness ==
  /\ WF_vars(Main)
  /\ \A s \in Services :
       /\ WF_vars(Child(s))
       /\ WF_vars(Handler(s))
       /\ WF_vars(Register(s) /\ svc[s] # "start")

Spec == Init /\ [][Next]_vars /\ Fairness

-----------------------------------------------------------------------------
TypeOK ==
  /\ mgrUp \in BOOLEAN
  /\ newsock \in Services \cup {NoService}
  /\ exits \in 0..MaxExits
  /\ backlog \in Seq(Services)
  /\ child \in [Services -> ChildStates]
  /\ handler \in [Services -> HandlerStates]
  /\ signal \in [Services -> Signals \cup {Uninitialised}]
  /\ unread \in [Services -> 0..MsgLen]
  /\ answers \in [Services -> SUBSET ProcessIds]
  /\ svc \in [Services -> ServiceStates]

(***************************************************************************)
(* Safety.                                                                 *)
(***************************************************************************)

\* A service runs only under a handler that still reads from it and that a
\* child still waits for, whatever has become of the manager: the two processes
\* forked by service_child_process_handler outlive main.
RunningHasHandler ==
  \A s \in Services :
    svc[s] = "running" => handler[s] = "reading" /\ child[s] = "waiting"

\* A manager that was lost cannot be started again while a service it admitted
\* runs: that service's handler and child hold the socket bound to port 7777.
NoRelaunchWhileServiceRuns ==
  [][~mgrUp /\ mgrUp' => \A s \in Services : svc'[s] # "running"]_vars

\* What an observer of the processes sees: a service is attended while its child or its
\* handler lives.
Answered == {s \in Services : answers[s] # {}}

Status == [s \in Services |-> IF svc[s] \in Ended THEN "ended"
                              ELSE IF svc[s] = "running" THEN "running"
                              ELSE "asking"]

Promise == INSTANCE Admission WITH up <- mgrUp, served <- Forked, attended <- Holders,
                                   answered <- Answered, status <- Status

\* The processes keep the promise whatever forks fail, messages are split, services end
\* and managers are lost: no connection is handed to two children, no answer comes from
\* a process that is gone, nobody who was answered is left alone, and main starts again
\* only when the last of them has let go of port 7777.
ImplementsAdmission == Promise!Spec

(***************************************************************************)
(* Liveness.                                                               *)
(***************************************************************************)

\* When a service has ended, its handler leaves the read loop and the child that
\* waits for the handler exits, so no process stays behind for a connection.
HandlerReleased ==
  \A s \in Services :
    (handler[s] = "reading" /\ svc[s] \in Ended) ~> ~ChildLive(s)

\* A service that has written its hello and blocks in read() gets an answer,
\* an end of file or an error.  True when read() returns whole messages, as the handler
\* supposes: it puts the pieces of a hello together nowhere, and may answer none of them.
WaitingIsServed == \A s \in Services : svc[s] = "waiting" ~> svc[s] # "waiting"
=============================================================================
