---------------------------- MODULE FirewallService ----------------------------
(***************************************************************************)
(* start() of the firewall service and the packet filter it changes.       *)
(*                                                                         *)
(* start() (services/firewall_service/firewall_service_main.c) runs        *)
(* iptables through system(): it flushes and deletes its two chains,       *)
(* creates them again, adds its rules, creates one sniffing thread per     *)
(* device, sleeps until SIGINT, joins the threads for at most 30 seconds   *)
(* each and runs the flush again.  The filter belongs to the kernel: it    *)
(* outlives the process, whichever way the process ends.                   *)
(*                                                                         *)
(* system() yields a negative value only when it cannot fork.  An iptables *)
(* that fails yields a positive one, which the code takes for success.     *)
(*                                                                         *)
(* A member of Instances is a place where the service is started, over and *)
(* over: one for each firewall_service that may run at the same time.      *)
(***************************************************************************)
EXTENDS Integers, Sequences, FiniteSets

CONSTANTS
  Instances,    \* firewall services that may run at the same time
  Devices,      \* number of devices pcap_findalldevs() finds
  MaxStarts,    \* bound: how often the service is started, all instances together
  AllOptions,   \* per instance, the settings of fw_attr_interface: is it "all"?
  Faults        \* per instance, what may go wrong

\* iptables: an iptables command fails.  fork: system() cannot fork.
\* create: pthread_create fails.
\* open: a device cannot be opened, is no Ethernet, or its filter is not compiled or set.
\* slow: a thread is still opening its device when its join times out.
\* packet: fw_got_packet reads behind what was captured of a packet.
\* kill: the process is killed, or the machine's operator kills it.
PossibleFaults == {"iptables", "fork", "create", "open", "slow", "packet", "kill"}

ASSUME ConstantsAssumption ==
  /\ IsFiniteSet(Instances)
  /\ Devices \in Nat \ {0}
  /\ MaxStarts \in Nat
  /\ AllOptions \in [Instances -> SUBSET BOOLEAN]
  /\ Faults \in [Instances -> SUBSET PossibleFaults]

VARIABLES
  table,    \* the packet filter: the chains that exist, the rules in each chain
  phase,    \* per instance, which part of start() it is in
  step,     \* the system() call of the phase, or the thread to create or join
  rc,       \* has a call whose result start() tests returned a negative value?
  all,      \* is fw_attr_interface "all" in this run's configuration?
  keep,     \* fw_keep_running
  thread,   \* the state of each sniffing thread
  created,  \* number of threads created in this run
  outcome,  \* how the last run ended
  failed,   \* history: did a system() call of this run fail?
  others,   \* history: what other services did to the filter since this run began
  starts    \* number of starts so far (bounded by MaxStarts)

vars == <<table, phase, step, rc, all, keep, thread, created, outcome, failed, others,
          starts>>

-----------------------------------------------------------------------------
(***************************************************************************)
(* The filter.  Each chain gets rules of one kind only: OUTPUT jumps to    *)
(* UNTRUSTED, UNTRUSTED rejects, INPUT jumps to TRUSTED, TRUSTED accepts.  *)
(* The rules of INPUT name fw_attr_interface: those that name "all", which *)
(* is no device, match no packet and are counted apart, as "INPUT all".    *)
(***************************************************************************)
Own     == {"TRUSTED", "UNTRUSTED"}
Inputs  == {"INPUT", "INPUT all"}
BuiltIn == Inputs \cup {"OUTPUT"}
Chains  == Own \cup BuiltIn
Jumps   == {<<"OUTPUT", "UNTRUSTED">>} \cup (Inputs \X {"TRUSTED"})

Referenced(t, c) == \E b \in BuiltIn : <<b, c>> \in Jumps /\ t.rules[b] > 0

NewChain(t, c) == [t EXCEPT !.chains = @ \cup {c}]

\* iptables deletes a chain only if it is empty and no rule jumps to it.
DeleteChain(t, c) ==
  IF t.rules[c] = 0 /\ ~Referenced(t, c) THEN [t EXCEPT !.chains = @ \ {c}] ELSE t

\* A rule is refused if its chain or the chain it jumps to does not exist.
AppendRule(t, c) ==
  IF {c} \cup {d \in Own : <<c, d>> \in Jumps} \subseteq t.chains \cup BuiltIn
  THEN [t EXCEPT !.rules[c] = @ + 1] ELSE t

\* The commands of fw_ip_tables_flush are joined by &&.
FlushOrder == <<"TRUSTED", "UNTRUSTED", "OUTPUT">>

\* How many of them succeed: the flush of a chain that does not exist fails.
FlushReach(t) == IF "TRUSTED" \notin t.chains THEN 0
                 ELSE IF "UNTRUSTED" \notin t.chains THEN 1 ELSE 3

Flush(t, n) ==
  [t EXCEPT !.rules = [c \in Chains |-> IF c \in {FlushOrder[k] : k \in 1..n}
                                        THEN 0 ELSE t.rules[c]]]

\* What a system() call does to the filter when no command fails that could succeed.
Effect(call, t) ==
  CASE call[1] = "flush"  -> Flush(t, FlushReach(t))
    [] call[1] = "new"    -> NewChain(t, call[2])
    [] call[1] = "delete" -> DeleteChain(t, call[2])
    [] call[1] = "append" -> AppendRule(t, call[2])

\* What it may do when one fails: of the flush, the commands before it count.
Interrupted(call, t) ==
  IF call[1] = "flush" THEN {Flush(t, n) : n \in 0..FlushReach(t)} ELSE {t}

-----------------------------------------------------------------------------
(***************************************************************************)
(* The calls of fw_ip_tables_flush, and those of start() before the        *)
(* threads.  iptables-save changes nothing and is left out.                *)
(***************************************************************************)

\* Mutant: the chains are deleted before they are flushed.
DeleteBeforeFlush == << <<"delete", "TRUSTED">>, <<"delete", "UNTRUSTED">>, <<"flush", "OUTPUT">> >>

FlushCalls == << <<"flush", "OUTPUT">>, <<"delete", "TRUSTED">>, <<"delete", "UNTRUSTED">> >>

\* Mutant: the rules of UNTRUSTED are added before the chains are made.
RulesBeforeChains(rule) ==
  FlushCalls \o
  << <<"append", "OUTPUT">>, <<"append", "UNTRUSTED">>,
     <<"new", "UNTRUSTED">>, <<"new", "TRUSTED">>,
     <<"append", rule>>, <<"append", "TRUSTED">> >>

StartCalls(rule) ==
  FlushCalls \o
  << <<"new", "UNTRUSTED">>, <<"new", "TRUSTED">>,
     <<"append", "OUTPUT">>, <<"append", "UNTRUSTED">>,
     <<"append", rule>>, <<"append", "TRUSTED">> >>

\* The rule of INPUT that the run of i adds.
InputRule(i) == IF all[i] THEN "INPUT all" ELSE "INPUT"

\* The calls after which start() looks at the results since the last test.
Tested == {4, 5, 7, 9}

\* The calls whose results start() looks at: not those of the first flush.
Counted == 4..9

Results(i) == {"ok"} \cup (Faults[i] \cap {"iptables", "fork"})

\* The rules are added under one name and removed under the other.
KindOf(call) == IF call[1] \in {"flush", "delete"} THEN "remove" ELSE "add"

\* One system() call.  The chains are the same for every service.
System(i, call, result) ==
  /\ failed' = [failed EXCEPT ![i] = @ \/ result # "ok"]
  /\ others' = [j \in Instances |-> IF j = i THEN others[j]
                                            ELSE others[j] \cup {KindOf(call)}]
  /\ table' \in (CASE result = "ok"       -> {Effect(call, table)}
                   [] result = "iptables" -> Interrupted(call, table)
                   [] result = "fork"     -> {table})

\* free_and_exit: thread_args is freed first, then the flush begins.
EnterShutdown(i) ==
  /\ phase' = [phase EXCEPT ![i] = "shutdown"]
  /\ step' = [step EXCEPT ![i] = 1]

NoThreads == [d \in 1..Devices |-> "none"]

\* The process is gone, its threads and its variables with it.
Ends(i, how) ==
  /\ phase' = [phase EXCEPT ![i] = "off"]
  /\ outcome' = [outcome EXCEPT ![i] = how]
  /\ step' = [step EXCEPT ![i] = 1]
  /\ keep' = [keep EXCEPT ![i] = TRUE]
  /\ rc' = [rc EXCEPT ![i] = FALSE]
  /\ all' = [all EXCEPT ![i] = FALSE]
  /\ thread' = [thread EXCEPT ![i] = NoThreads]
  /\ created' = [created EXCEPT ![i] = 0]

\* With "all" the loop over the devices advances before it takes a name: the first
\* device is skipped and the last argument stays empty.
Named(i, d) == all[i] => d < Devices

\* Mutant: the loop over the devices runs once too often.
OneThreadMore(i) == IF all[i] THEN Devices + 1 ELSE 2

ThreadCount(i) == IF all[i] THEN Devices ELSE 1

-----------------------------------------------------------------------------
(***************************************************************************)
(* The main thread.                                                        *)
(***************************************************************************)

\* start() is entered with some configuration; the signal handler is installed.
Start(i) ==
  /\ phase[i] = "off"
  /\ starts < MaxStarts
  /\ starts' = starts + 1
  /\ phase' = [phase EXCEPT ![i] = "startup"]
  /\ step' = [step EXCEPT ![i] = 1]
  /\ \E b \in AllOptions[i] : all' = [all EXCEPT ![i] = b]
  /\ outcome' = [outcome EXCEPT ![i] = "none"]
  /\ failed' = [failed EXCEPT ![i] = FALSE]
  /\ others' = [others EXCEPT ![i] = {}]
  /\ UNCHANGED <<table, rc, keep, thread, created>>

\* The flush, the two chains and the four rules, one system() call at a time.
InstallRules(i) ==
  /\ phase[i] = "startup"
  /\ \E result \in Results(i) :
       /\ System(i, StartCalls(InputRule(i))[step[i]], result)
       /\ rc' = [rc EXCEPT ![i] = @ \/ (step[i] \in Counted /\ result = "fork")]
       /\ \/ /\ rc'[i] /\ step[i] \in Tested
             /\ EnterShutdown(i)
          \/ /\ ~(rc'[i] /\ step[i] \in Tested)
             /\ step[i] < Len(StartCalls(InputRule(i)))
             /\ step' = [step EXCEPT ![i] = @ + 1]
             /\ UNCHANGED phase
          \/ /\ ~rc'[i]
             /\ step[i] = Len(StartCalls(InputRule(i)))
             /\ phase' = [phase EXCEPT ![i] = "create"]
             /\ step' = [step EXCEPT ![i] = 1]
  /\ UNCHANGED <<all, keep, thread, created, outcome, starts>>

\* pthread_create for the next device; its failure ends start() at once, with the
\* threads created so far still running.
CreateThread(i) ==
  /\ phase[i] = "create"
  /\ step[i] <= ThreadCount(i) /\ keep[i]
  /\ \/ /\ thread' = [thread EXCEPT ![i][step[i]] = "opening"]
        /\ created' = [created EXCEPT ![i] = @ + 1]
        /\ step' = [step EXCEPT ![i] = @ + 1]
        /\ UNCHANGED phase
     \/ /\ "create" \in Faults[i]
        /\ EnterShutdown(i)
        /\ UNCHANGED <<thread, created>>
  /\ UNCHANGED <<table, rc, all, keep, outcome, failed, others, starts>>

\* The loop over the devices is over: all have a thread, or SIGINT came first.
\* Main then sleeps until SIGINT.
WakeUp(i) ==
  /\ phase[i] = "create"
  /\ ~keep[i]
  /\ phase' = [phase EXCEPT ![i] = "join"]
  /\ step' = [step EXCEPT ![i] = 1]
  /\ UNCHANGED <<table, rc, all, keep, thread, created, outcome, failed, others, starts>>

\* Mutant: main waits for a thread as long as it takes.
JoinForEver(i, d) == thread[i][d] = "done"

\* Mutant: main gives a thread up as soon as it has not ended.
GiveUpAtOnce(i, d) == TRUE

\* pthread_tryjoin_np succeeds, or FW_MAX_SEC_WAIT seconds pass.  A thread that sees
\* no packet stays in pcap_loop for ever, so the timeout is an ordinary case.
JoinReturns(i, d) == thread[i][d] = "opening" => "slow" \in Faults[i]

\* Is the identifier of thread d uninitialised?
NeverCreated(i, d) == d > created[i]

\* The next thread is joined or given up.  The identifier of a thread that was never
\* created is whatever the stack holds: joining it may succeed, may run into the
\* timeout, and may end the process.
Join(i) ==
  /\ phase[i] = "join"
  /\ \/ /\ NeverCreated(i, step[i]) \/ JoinReturns(i, step[i])
        /\ IF step[i] < ThreadCount(i)
           THEN step' = [step EXCEPT ![i] = @ + 1] /\ UNCHANGED phase
           ELSE EnterShutdown(i)
        /\ UNCHANGED <<outcome, keep, rc, all, thread, created>>
     \/ /\ NeverCreated(i, step[i])
        /\ Ends(i, "died")
  /\ UNCHANGED <<table, failed, others, starts>>

\* The flush of free_and_exit; its results reach the exit code only.
RemoveRules(i) ==
  /\ phase[i] = "shutdown"
  /\ \E result \in Results(i) : System(i, FlushCalls[step[i]], result)
  /\ IF step[i] < Len(FlushCalls)
     THEN /\ step' = [step EXCEPT ![i] = @ + 1]
          /\ UNCHANGED <<phase, outcome, rc, keep, all, thread, created>>
     ELSE Ends(i, "returned")
  /\ UNCHANGED starts

(***************************************************************************)
(* The sniffing threads.                                                   *)
(***************************************************************************)

\* pcap_open_live of the device named in the thread's argument, which has been
\* freed when start() is already in free_and_exit: the name is then arbitrary.  A thread
\* whose open device or filter is unfit cancels itself as one without a device does, but
\* it may come to disable cancellation first: then it sniffs like any other.
OpenDevice(i, d) ==
  /\ phase[i] # "off"
  /\ thread[i][d] = "opening"
  /\ \/ /\ Named(i, d)
        /\ thread' = [thread EXCEPT ![i][d] = "sniffing"]
     \/ /\ ~Named(i, d) \/ "open" \in Faults[i] \/ phase[i] = "shutdown"
        /\ thread' = [thread EXCEPT ![i][d] = "failed"]
  /\ UNCHANGED <<table, phase, step, rc, all, keep, created, outcome, failed, others, starts>>

\* A thread that failed only cancels itself, which takes effect at its next cancellation
\* point.  Before that it may use the handle that is NULL or the filter that was not
\* compiled.
FailedThread(i, d) ==
  /\ phase[i] # "off"
  /\ thread[i][d] = "failed"
  /\ \/ /\ thread' = [thread EXCEPT ![i][d] = "done"]
        /\ UNCHANGED <<phase, outcome, step, rc, keep, all, created>>
     \/ Ends(i, "died")
  /\ UNCHANGED <<table, failed, others, starts>>

\* The capture ends: packet_num packets were seen, or a packet arrives after SIGINT.
\* fw_got_packet takes the lengths in the headers for what was captured, and what it
\* reads behind that may end the process.
CaptureEnds(i, d) ==
  /\ phase[i] # "off"
  /\ thread[i][d] = "sniffing"
  /\ \/ /\ thread' = [thread EXCEPT ![i][d] = "done"]
        /\ UNCHANGED <<phase, outcome, step, rc, keep, all, created>>
     \/ /\ "packet" \in Faults[i] /\ keep[i]
        /\ Ends(i, "died")
  /\ UNCHANGED <<table, failed, others, starts>>

(***************************************************************************)
(* The environment.                                                        *)
(***************************************************************************)

\* fw_signal_handler.  A SIGINT during a system() call is ignored, as system()
\* specifies: it is as if it had not been sent.
Sigint(i) ==
  /\ phase[i] # "off"
  /\ keep[i]
  /\ keep' = [keep EXCEPT ![i] = FALSE]
  /\ UNCHANGED <<table, phase, step, rc, all, thread, created, outcome, failed, others, starts>>

Killed(i) ==
  /\ "kill" \in Faults[i]
  /\ phase[i] # "off"
  /\ Ends(i, "died")
  /\ UNCHANGED <<table, failed, others, starts>>

-----------------------------------------------------------------------------
Init ==
  /\ table = [chains |-> {}, rules |-> [c \in Chains |-> 0]]
  /\ phase = [i \in Instances |-> "off"]
  /\ step = [i \in Instances |-> 1]
  /\ rc = [i \in Instances |-> FALSE]
  /\ all = [i \in Instances |-> FALSE]
  /\ keep = [i \in Instances |-> TRUE]
  /\ thread = [i \in Instances |-> NoThreads]
  /\ created = [i \in Instances |-> 0]
  /\ outcome = [i \in Instances |-> "none"]
  /\ failed = [i \in Instances |-> FALSE]
  /\ others = [i \in Instances |-> {}]
  /\ starts = 0

MainThread(i) == \/ InstallRules(i) \/ CreateThread(i) \/ WakeUp(i)
                 \/ Join(i) \/ RemoveRules(i)

SniffingThread(i, d) == OpenDevice(i, d) \/ FailedThread(i, d) \/ CaptureEnds(i, d)

Next ==
  \E i \in Instances :
    \/ Start(i) \/ MainThread(i)
    \/ \E d \in 1..Devices : SniffingThread(i, d)
    \/ Sigint(i) \/ Killed(i)

\* The main thread runs and iptables returns; a device is opened or not.  Packets
\* need not arrive, and nobody has to send SIGINT.
Fairness ==
  \A i \in Instances :
    /\ WF_vars(MainThread(i))
    /\ \A d \in 1..Devices : WF_vars(OpenDevice(i, d) \/ FailedThread(i, d))

Spec == Init /\ [][Next]_vars /\ Fairness

-----------------------------------------------------------------------------
TypeOK ==
  /\ table \in [chains : SUBSET Own, rules : [Chains -> Nat]]
  /\ phase \in [Instances -> {"off", "startup", "create", "join", "shutdown"}]
  /\ step \in [Instances -> Nat \ {0}]
  /\ \A i \in Instances :
       /\ phase[i] = "startup" => step[i] <= Len(StartCalls(InputRule(i)))
       /\ phase[i] = "shutdown" => step[i] <= Len(FlushCalls)
       /\ phase[i] = "join" => step[i] <= ThreadCount(i)
  /\ rc \in [Instances -> BOOLEAN]
  /\ all \in [Instances -> BOOLEAN]
  /\ keep \in [Instances -> BOOLEAN]
  /\ thread \in [Instances -> [1..Devices -> {"none", "opening", "sniffing", "failed", "done"}]]
  /\ created \in [Instances -> 0..Devices]
  /\ outcome \in [Instances -> {"none", "returned", "died"}]
  /\ failed \in [Instances -> BOOLEAN]
  /\ others \in [Instances -> SUBSET {"remove", "add"}]
  /\ starts \in 0..MaxStarts

\* While a run sniffs, the chains and the rules it added are in the filter, whatever earlier
\* runs left there, provided no system() call of this run failed: fw_ip_tables_flush and
\* the four *_rules functions, in the order of start().  So the untrusted network is
\* blocked, and the trusted one accepted on the interface that is configured; with "all"
\* the rule of INPUT is there and matches no packet.
RulesHoldWhileSniffing ==
  \A i \in Instances :
    phase[i] \in {"create", "join"} /\ ~failed[i] /\ "remove" \notin others[i] =>
      /\ Own \subseteq table.chains
      /\ \A c \in Own \cup {"OUTPUT", InputRule(i)} : table.rules[c] > 0

\* A run in which no system() call failed leaves nothing behind that blocks or accepts
\* a packet, whatever it found in the filter: the flush of free_and_exit reaches its
\* last command, which it does only if both chains exist, and UNTRUSTED is deleted.
\* Only jumps from INPUT to an empty TRUSTED remain.
CleanAfterRun ==
  \A i \in Instances :
    phase[i] = "off" /\ outcome[i] = "returned" /\ ~failed[i] /\ others[i] = {} =>
      /\ "UNTRUSTED" \notin table.chains
      /\ \A c \in Chains \ Inputs : table.rules[c] = 0

\* The names in thread_args are freed only when no thread still has to read its own,
\* unless start() gave up before all threads existed (pthread_create failed): the joins
\* of start() keep free_and_exit from running before.
ThreadsOpenBeforeFree ==
  \A i \in Instances :
    phase[i] = "shutdown" /\ (\E d \in 1..Devices : thread[i][d] = "opening") =>
      created[i] < ThreadCount(i)

\* SIGINT ends the service, even if no packet ever arrives: the joins time out.  (A
\* run that has seen SIGINT goes on to have seen it until it ends.)
SigintTerminates ==
  \A i \in Instances : []<>(phase[i] = "off" \/ keep[i])
=============================================================================
