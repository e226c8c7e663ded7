------------------------- MODULE FirewallServiceProofs -------------------------
(***************************************************************************)
(* What FirewallService guarantees for any number of services, devices,    *)
(* starts and faults.                                                      *)
(*                                                                         *)
(* Two inductive invariants are used.  ThreadInv holds for any number of   *)
(* instances and concerns the threads of one process.  FilterOrder is      *)
(* about the packet filter that the instances share: it says how much of   *)
(* the rules stands before each call of start(), and how much is gone      *)
(* before each call of the last flush, as far as the calls of the other    *)
(* instances leave it so.                                                  *)
(***************************************************************************)
EXTENDS FirewallService, TLAPS

-----------------------------------------------------------------------------
(***************************************************************************)
(* The calls and what they do to the filter.                               *)
(***************************************************************************)
CallSet == {<<"flush", "OUTPUT">>} \cup ({"new", "delete"} \X Own) \cup ({"append"} \X Chains)

Tables == [chains : SUBSET Own, rules : [Chains -> Nat]]

\* The two sequences of system() calls, call by call.
LEMMA Calls ==
  /\ Len(FlushCalls) = 3
  /\ FlushCalls[1] = <<"flush", "OUTPUT">>
  /\ FlushCalls[2] = <<"delete", "TRUSTED">>
  /\ FlushCalls[3] = <<"delete", "UNTRUSTED">>
  /\ \A rule \in Inputs :
       /\ Len(StartCalls(rule)) = 9
       /\ \A k \in 1..3 : StartCalls(rule)[k] = FlushCalls[k]
       /\ StartCalls(rule)[4] = <<"new", "UNTRUSTED">>
       /\ StartCalls(rule)[5] = <<"new", "TRUSTED">>
       /\ StartCalls(rule)[6] = <<"append", "OUTPUT">>
       /\ StartCalls(rule)[7] = <<"append", "UNTRUSTED">>
       /\ StartCalls(rule)[8] = <<"append", rule>>
       /\ StartCalls(rule)[9] = <<"append", "TRUSTED">>
  BY DEF StartCalls, FlushCalls

LEMMA CallsInCallSet ==
  /\ \A rule \in Inputs, k \in 1..9 : StartCalls(rule)[k] \in CallSet
  /\ \A k \in 1..3 : FlushCalls[k] \in CallSet
  <1>1. \A k \in 1..3 : FlushCalls[k] \in CallSet
    BY Calls DEF CallSet, Own, Chains
  <1>2. \A rule \in Inputs, k \in 4..9 : StartCalls(rule)[k] \in CallSet
    BY Calls DEF CallSet, Own, Chains, BuiltIn
  <1>3. \A k \in 1..9 : k \in 1..3 \/ k \in 4..9
    OBVIOUS
  <1>4. QED
    BY <1>1, <1>2, <1>3, Calls

\* fw_ip_tables_flush empties the three chains if both of its own exist.
LEMMA FlushRules ==
  ASSUME NEW t \in Tables, NEW n \in 0..3
  PROVE  /\ Flush(t, n) \in Tables
         /\ Flush(t, n).chains = t.chains
         /\ n = 3 => \A c \in Chains \ Inputs : Flush(t, n).rules[c] = 0
  <1> DEFINE r == [c \in Chains |-> IF c \in {FlushOrder[k] : k \in 1..n} THEN 0 ELSE t.rules[c]]
  <1>1. r \in [Chains -> Nat]
    BY DEF Tables
  <1>2. Flush(t, n) = [t EXCEPT !.rules = r]
    BY DEF Flush
  <1>3. Flush(t, n) \in Tables /\ Flush(t, n).chains = t.chains /\ Flush(t, n).rules = r
    BY <1>1, <1>2 DEF Tables
  <1>4. ASSUME n = 3, NEW c \in Chains \ Inputs
        PROVE  r[c] = 0
    <2>1. /\ FlushOrder[1] = "TRUSTED" /\ FlushOrder[2] = "UNTRUSTED"
          /\ FlushOrder[3] = "OUTPUT"
      BY DEF FlushOrder
    <2>2. 1 \in 1..n /\ 2 \in 1..n /\ 3 \in 1..n
      BY <1>4
    <2>3. c \in {"TRUSTED", "UNTRUSTED", "OUTPUT"}
      BY DEF Chains, Own, BuiltIn, Inputs
    <2>4. c \in {FlushOrder[k] : k \in 1..n}
      BY <2>1, <2>2, <2>3
    <2>5. QED
      BY <2>4
  <1>5. QED
    BY <1>3, <1>4

\* Each iptables command leaves a filter behind, and changes what its name says.
LEMMA NewRules ==
  ASSUME NEW t \in Tables, NEW c \in Own
  PROVE  /\ NewChain(t, c) \in Tables
         /\ NewChain(t, c).chains = t.chains \cup {c}
         /\ NewChain(t, c).rules = t.rules
  BY DEF NewChain, Tables

LEMMA DeleteRules ==
  ASSUME NEW t \in Tables, NEW c \in Own
  PROVE  /\ DeleteChain(t, c) \in Tables
         /\ DeleteChain(t, c).rules = t.rules
         /\ t.rules[c] = 0 /\ ~Referenced(t, c) => c \notin DeleteChain(t, c).chains
         /\ DeleteChain(t, c).chains \subseteq t.chains
  BY DEF DeleteChain, Tables

LEMMA AppendRules ==
  ASSUME NEW t \in Tables, NEW c \in Chains
  PROVE  /\ AppendRule(t, c) \in Tables
         /\ AppendRule(t, c).chains = t.chains
         /\ \A d \in Chains : AppendRule(t, c).rules[d] >= t.rules[d]
         /\ Own \subseteq t.chains => AppendRule(t, c).rules[c] > 0
  <1> DEFINE u == [t EXCEPT !.rules[c] = @ + 1]
  <1>1. t.rules \in [Chains -> Nat] /\ t.rules[c] \in Nat
    BY DEF Tables
  <1>2. /\ u \in Tables
        /\ u.chains = t.chains
        /\ u.rules = [t.rules EXCEPT ![c] = t.rules[c] + 1]
    BY <1>1 DEF Tables
  <1>3. \A d \in Chains : u.rules[d] >= t.rules[d]
    BY <1>1, <1>2
  <1>4. u.rules[c] > 0
    BY <1>1, <1>2
  <1>5. AppendRule(t, c) = u \/ AppendRule(t, c) = t
    BY DEF AppendRule
  <1>6. Own \subseteq t.chains => AppendRule(t, c) = u
    BY DEF AppendRule, Chains
  <1> HIDE DEF u
  <1>7. CASE AppendRule(t, c) = u
    BY <1>2, <1>3, <1>4, <1>7
  <1>8. CASE AppendRule(t, c) = t
    <2>1. \A d \in Chains : t.rules[d] >= t.rules[d]
      BY <1>1
    <2>2. Own \subseteq t.chains => t.rules[c] > 0
      BY <1>4, <1>6, <1>8
    <2>3. QED
      BY <1>8, <2>1, <2>2
  <1>9. QED
    BY <1>5, <1>7, <1>8

LEMMA FlushReachType == \A t \in Tables : FlushReach(t) \in 0..3
  BY DEF FlushReach

\* Every system() call leaves a filter behind, whether its commands succeed or not.
LEMMA EffectTable ==
  ASSUME NEW t \in Tables, NEW call \in CallSet
  PROVE  Effect(call, t) \in Tables /\ Interrupted(call, t) \subseteq Tables
  <1>1. CASE call = <<"flush", "OUTPUT">>
    BY <1>1, FlushRules, FlushReachType DEF Effect, Interrupted
  <1>2. CASE call \in {"new", "delete"} \X Own
    BY <1>2, NewRules, DeleteRules DEF Effect, Interrupted
  <1>3. CASE call \in {"append"} \X Chains
    BY <1>3, AppendRules DEF Effect, Interrupted
  <1>4. QED
    BY <1>1, <1>2, <1>3 DEF CallSet

\* The first element of a call is its command, the second its chain.
LEMMA EffectOf ==
  ASSUME NEW t, NEW c
  PROVE  /\ Effect(<<"flush", c>>, t) = Flush(t, FlushReach(t))
         /\ Effect(<<"new", c>>, t) = NewChain(t, c)
         /\ Effect(<<"delete", c>>, t) = DeleteChain(t, c)
         /\ Effect(<<"append", c>>, t) = AppendRule(t, c)
  BY DEF Effect

Kinds == {"remove", "add"}

\* The other instances are told what kind of call i made.
Told(i, call) ==
  \A j \in Instances :
    others'[j] = IF j = i THEN others[j] ELSE others[j] \cup {KindOf(call)}

LEMMA KindType == \A call \in CallSet : KindOf(call) \in Kinds
  BY DEF KindOf, Kinds

\* What one system() call does, whatever becomes of it.
LEMMA SystemStep ==
  ASSUME NEW i \in Instances, NEW call \in CallSet, NEW result \in Results(i),
         table \in Tables, failed \in [Instances -> BOOLEAN],
         others \in [Instances -> SUBSET Kinds],
         System(i, call, result)
  PROVE  /\ table' \in Tables
         /\ failed' \in [Instances -> BOOLEAN]
         /\ \A j \in Instances \ {i} : failed'[j] = failed[j]
         /\ failed[i] => failed'[i]
         /\ result = "fork" => failed'[i]
         /\ ~failed'[i] => table' = Effect(call, table)
         /\ others' \in [Instances -> SUBSET Kinds]
         /\ Told(i, call)
  <1>1. result \in {"ok", "iptables", "fork"}
    BY ConstantsAssumption DEF Results, PossibleFaults
  <1>2. failed' = [failed EXCEPT ![i] = failed[i] \/ result # "ok"]
    BY DEF System
  <1>3. /\ result = "ok" => table' = Effect(call, table)
        /\ result = "iptables" => table' \in Interrupted(call, table)
        /\ result = "fork" => table' = table
    BY <1>1 DEF System
  <1>4. table' \in Tables
    BY <1>1, <1>3, EffectTable
  <1>5. failed'[i] = (failed[i] \/ result # "ok")
    BY <1>2
  <1>6. others' = [j \in Instances |-> IF j = i THEN others[j] ELSE others[j] \cup {KindOf(call)}]
    BY DEF System
  <1>7. others' \in [Instances -> SUBSET Kinds]
    BY <1>6, KindType
  <1>8. Told(i, call)
    BY <1>6 DEF Told
  <1>9. QED
    BY <1>1, <1>2, <1>3, <1>4, <1>5, <1>7, <1>8

\* A call that adds takes nothing away, whatever becomes of it.
LEMMA AddingKeeps ==
  ASSUME NEW i \in Instances, NEW call \in CallSet, NEW result \in Results(i),
         table \in Tables, System(i, call, result), KindOf(call) = "add"
  PROVE  /\ table.chains \subseteq table'.chains
         /\ \A c \in Chains : table'.rules[c] >= table.rules[c]
  <1>1. result \in {"ok", "iptables", "fork"}
    BY ConstantsAssumption DEF Results, PossibleFaults
  <1>2. call \in {"new"} \X Own \/ call \in {"append"} \X Chains
    BY DEF CallSet, KindOf
  <1>3. table' = Effect(call, table) \/ table' = table
    <2>1. Interrupted(call, table) = {table}
      BY <1>2 DEF Interrupted
    <2>2. QED
      BY <1>1, <2>1 DEF System
  <1>4. \A c \in Chains : table.rules[c] \in Nat
    BY DEF Tables
  <1>5. CASE table' = table
    BY <1>4, <1>5
  <1>6. CASE table' = Effect(call, table) /\ call \in {"new"} \X Own
    <2>1. PICK c \in Own : call = <<"new", c>>
      BY <1>6
    <2>2. table' = NewChain(table, c)
      BY <1>6, <2>1, EffectOf
    <2>3. QED
      BY <1>4, <2>2, NewRules
  <1>7. CASE table' = Effect(call, table) /\ call \in {"append"} \X Chains
    <2>1. PICK c \in Chains : call = <<"append", c>>
      BY <1>7
    <2>2. table' = AppendRule(table, c)
      BY <1>7, <2>1, EffectOf
    <2>3. QED
      BY <2>2, AppendRules
  <1>8. QED
    BY <1>2, <1>3, <1>5, <1>6, <1>7

\* What a call of another instance does to the rules that j relies on: nothing, or it
\* removes some and j is told, or it adds some and j is told.
Spared(j) ==
  \/ table' = table /\ others'[j] = others[j]
  \/ "remove" \in others'[j]
  \/ /\ others'[j] = others[j] \cup {"add"}
     /\ table' \in Tables /\ table.chains \subseteq table'.chains
     /\ \A c \in Chains : table'.rules[c] >= table.rules[c]

LEMMA SystemSpares ==
  ASSUME NEW i \in Instances, NEW call \in CallSet, NEW result \in Results(i),
         table \in Tables, failed \in [Instances -> BOOLEAN],
         others \in [Instances -> SUBSET Kinds],
         System(i, call, result), NEW j \in Instances \ {i}
  PROVE  Spared(j)
  <1>1. table' \in Tables /\ others'[j] = others[j] \cup {KindOf(call)}
    BY SystemStep DEF Told
  <1>2. CASE KindOf(call) = "remove"
    BY <1>1, <1>2 DEF Spared
  <1>3. CASE KindOf(call) = "add"
    BY <1>1, <1>3, AddingKeeps DEF Spared
  <1>4. QED
    BY <1>2, <1>3, KindType DEF Kinds

-----------------------------------------------------------------------------
(***************************************************************************)
(* The threads.                                                            *)
(***************************************************************************)

\* Threads are created in order, and none exists before.
Creation ==
  \A i \in Instances :
    /\ phase[i] \in {"off", "startup"} => created[i] = 0
    /\ phase[i] = "create" => created[i] = step[i] - 1 /\ step[i] <= ThreadCount(i) + 1
    /\ created[i] <= ThreadCount(i)
    /\ \A d \in 1..Devices : thread[i][d] # "none" => d <= created[i]

ThreadInv == TypeOK /\ Creation

ThreadStates == {"none", "opening", "sniffing", "failed", "done"}

\* One thread changes its state.
LEMMA SetThread ==
  ASSUME NEW f \in [Instances -> [1..Devices -> ThreadStates]],
         NEW i \in Instances, NEW d \in 1..Devices, NEW v \in ThreadStates
  PROVE  /\ [f EXCEPT ![i][d] = v] \in [Instances -> [1..Devices -> ThreadStates]]
         /\ \A j \in Instances, e \in 1..Devices :
              [f EXCEPT ![i][d] = v][j][e] = IF j = i /\ e = d THEN v ELSE f[j][e]
  <1> DEFINE g == [f[i] EXCEPT ![d] = v]
  <1>1. f[i] \in [1..Devices -> ThreadStates]
    OBVIOUS
  <1>2. /\ g \in [1..Devices -> ThreadStates]
        /\ \A e \in 1..Devices : g[e] = IF e = d THEN v ELSE f[i][e]
    BY <1>1
  <1>3. [f EXCEPT ![i][d] = v] = [f EXCEPT ![i] = g]
    OBVIOUS
  <1> HIDE DEF g
  <1>4. QED
    BY <1>2, <1>3

LEMMA ThreadCountType ==
  ASSUME all \in [Instances -> BOOLEAN], NEW i \in Instances
  PROVE  ThreadCount(i) \in 1..Devices
  BY ConstantsAssumption DEF ThreadCount

\* The calls of start() depend on the setting of fw_attr_interface alone.
CallsKept ==
  \A j \in Instances : InputRule(j)' = InputRule(j) /\ ThreadCount(j)' = ThreadCount(j)

LEMMA CallsFrame ==
  ASSUME all' = all
  PROVE  CallsKept
  BY DEF CallsKept, InputRule, ThreadCount

LEMMA InitThreadInv == Init => ThreadInv
  <1> SUFFICES ASSUME Init PROVE ThreadInv
    OBVIOUS
  <1>1. table \in [chains : SUBSET Own, rules : [Chains -> Nat]]
    BY DEF Init
  <1>2. TypeOK
    BY <1>1, ConstantsAssumption DEF Init, TypeOK, NoThreads
  <1>3. Creation
    BY ConstantsAssumption, ThreadCountType, <1>2 DEF Init, Creation, TypeOK, NoThreads
  <1>4. QED
    BY <1>2, <1>3 DEF ThreadInv

\* The process is gone, whatever has become of the filter meanwhile.
LEMMA EndsThreadInv ==
  ASSUME ThreadInv, NEW i \in Instances, NEW how \in {"returned", "died"}, Ends(i, how),
         table' \in Tables, failed' \in [Instances -> BOOLEAN],
         others' \in [Instances -> SUBSET Kinds], UNCHANGED starts
  PROVE  ThreadInv'
  <1> USE DEF ThreadInv
  <1>1. NoThreads \in [1..Devices -> {"none"}]
    BY DEF NoThreads
  <1>2. /\ phase' = [phase EXCEPT ![i] = "off"]
        /\ outcome' = [outcome EXCEPT ![i] = how]
        /\ step' = [step EXCEPT ![i] = 1]
        /\ keep' = [keep EXCEPT ![i] = TRUE]
        /\ rc' = [rc EXCEPT ![i] = FALSE]
        /\ all' = [all EXCEPT ![i] = FALSE]
        /\ thread' = [thread EXCEPT ![i] = NoThreads]
        /\ created' = [created EXCEPT ![i] = 0]
    BY DEF Ends
  <1>3. /\ phase' \in [Instances -> {"off", "startup", "create", "join", "shutdown"}]
        /\ outcome' \in [Instances -> {"none", "returned", "died"}]
        /\ step' \in [Instances -> Nat \ {0}]
        /\ keep' \in [Instances -> BOOLEAN]
        /\ rc' \in [Instances -> BOOLEAN]
        /\ all' \in [Instances -> BOOLEAN]
    BY <1>2 DEF TypeOK
  <1>4. /\ thread' \in [Instances -> [1..Devices -> ThreadStates]]
        /\ created' \in [Instances -> 0..Devices]
    BY <1>1, <1>2, ConstantsAssumption DEF TypeOK, ThreadStates
  <1>5. /\ phase'[i] = "off" /\ created'[i] = 0
        /\ \A d \in 1..Devices : thread'[i][d] = "none"
    BY <1>1, <1>2 DEF TypeOK
  <1>6. ASSUME NEW j \in Instances \ {i}
        PROVE  /\ phase'[j] = phase[j] /\ step'[j] = step[j] /\ all'[j] = all[j]
               /\ thread'[j] = thread[j] /\ created'[j] = created[j]
               /\ ThreadCount(j)' = ThreadCount(j) /\ InputRule(j)' = InputRule(j)
    BY <1>2 DEF TypeOK, ThreadCount, InputRule
  <1>7. TypeOK'
    <2>1. ASSUME NEW j \in Instances
          PROVE  /\ phase'[j] = "startup" => step'[j] <= Len(StartCalls(InputRule(j)'))
                 /\ phase'[j] = "shutdown" => step'[j] <= Len(FlushCalls)
                 /\ phase'[j] = "join" => step'[j] <= ThreadCount(j)'
      <3>1. CASE j = i
        BY <1>5, <3>1
      <3>2. CASE j # i
        BY <1>6, <3>2 DEF TypeOK
      <3>3. QED
        BY <3>1, <3>2
    <2>2. QED
      BY <1>3, <1>4, <2>1 DEF TypeOK, Tables, Kinds, ThreadStates
  <1>8. Creation'
    <2> SUFFICES ASSUME NEW j \in Instances
                 PROVE  /\ phase'[j] \in {"off", "startup"} => created'[j] = 0
                        /\ phase'[j] = "create" =>
                             created'[j] = step'[j] - 1 /\ step'[j] <= ThreadCount(j)' + 1
                        /\ created'[j] <= ThreadCount(j)'
                        /\ \A d \in 1..Devices : thread'[j][d] # "none" => d <= created'[j]
      BY DEF Creation
    <2>1. CASE j = i
      <3>1. ThreadCount(i)' \in 1..Devices
        BY <1>3, ConstantsAssumption DEF ThreadCount
      <3>2. QED
        BY <1>5, <2>1, <3>1, ConstantsAssumption
    <2>2. CASE j # i
      BY <1>6, <2>2 DEF Creation
    <2>3. QED
      BY <2>1, <2>2
  <1>9. QED
    BY <1>7, <1>8

\* How far start() is in the phase it is in.
LEMMA StepBounds ==
  ASSUME TypeOK, NEW j \in Instances
  PROVE  /\ step[j] \in Nat \ {0}
         /\ phase[j] = "startup" => step[j] <= 9
         /\ phase[j] = "shutdown" => step[j] <= 3
         /\ phase[j] = "join" => step[j] <= ThreadCount(j)
  <1>1. InputRule(j) \in Inputs
    BY DEF InputRule, Inputs
  <1>2. Len(StartCalls(InputRule(j))) = 9 /\ Len(FlushCalls) = 3
    BY <1>1, Calls
  <1>3. /\ step[j] \in Nat \ {0}
        /\ phase[j] = "startup" => step[j] <= Len(StartCalls(InputRule(j)))
        /\ phase[j] = "shutdown" => step[j] <= Len(FlushCalls)
        /\ phase[j] = "join" => step[j] <= ThreadCount(j)
    BY DEF TypeOK
  <1>4. QED
    BY <1>2, <1>3

\* One system() call before the threads: what it does to the filter, and where
\* start() goes from there.
InstallEffect(i) ==
  /\ phase[i] = "startup" /\ step[i] \in 1..9
  /\ UNCHANGED <<all, keep, thread, created, outcome, starts>>
  /\ table' \in Tables
  /\ failed' \in [Instances -> BOOLEAN] /\ rc' \in [Instances -> BOOLEAN]
  /\ others' \in [Instances -> SUBSET Kinds] /\ others'[i] = others[i]
  /\ \A j \in Instances \ {i} : failed'[j] = failed[j] /\ rc'[j] = rc[j] /\ Spared(j)
  /\ failed[i] => failed'[i]
  /\ rc'[i] => rc[i] \/ failed'[i]
  /\ ~failed'[i] => table' = Effect(StartCalls(InputRule(i))[step[i]], table)
  /\ \/ /\ rc'[i]
        /\ phase' = [phase EXCEPT ![i] = "shutdown"]
        /\ step' = [step EXCEPT ![i] = 1]
     \/ /\ step[i] < 9
        /\ phase' = phase
        /\ step' = [step EXCEPT ![i] = step[i] + 1]
     \/ /\ ~rc'[i]
        /\ step[i] = 9
        /\ phase' = [phase EXCEPT ![i] = "create"]
        /\ step' = [step EXCEPT ![i] = 1]

LEMMA InstallStep ==
  ASSUME TypeOK, NEW i \in Instances, InstallRules(i)
  PROVE  InstallEffect(i)
  <1>0. InputRule(i) \in Inputs
    BY DEF InputRule, Inputs
  <1>1. step[i] \in 1..9 /\ phase[i] = "startup"
    BY StepBounds DEF InstallRules
  <1>2. PICK result \in Results(i) :
          /\ System(i, StartCalls(InputRule(i))[step[i]], result)
          /\ rc' = [rc EXCEPT ![i] = @ \/ (step[i] \in Counted /\ result = "fork")]
          /\ \/ /\ rc'[i] /\ step[i] \in Tested
                /\ EnterShutdown(i)
             \/ /\ ~(rc'[i] /\ step[i] \in Tested)
                /\ step[i] < Len(StartCalls(InputRule(i)))
                /\ step' = [step EXCEPT ![i] = @ + 1]
                /\ UNCHANGED phase
             \/ /\ ~rc'[i]
                /\ step[i] = Len(StartCalls(InputRule(i)))
                /\ phase' = [phase EXCEPT ![i] = "create"]
                /\ step' = [step EXCEPT ![i] = 1]
    BY DEF InstallRules
  <1>3. StartCalls(InputRule(i))[step[i]] \in CallSet
    BY <1>0, <1>1, CallsInCallSet
  <1>4. /\ table' \in Tables
        /\ failed' \in [Instances -> BOOLEAN]
        /\ \A j \in Instances \ {i} : failed'[j] = failed[j]
        /\ failed[i] => failed'[i]
        /\ result = "fork" => failed'[i]
        /\ ~failed'[i] => table' = Effect(StartCalls(InputRule(i))[step[i]], table)
        /\ others' \in [Instances -> SUBSET Kinds] /\ others'[i] = others[i]
        /\ \A j \in Instances \ {i} : Spared(j)
    BY <1>2, <1>3, SystemStep, SystemSpares DEF TypeOK, Tables, Kinds, Told
  <1>5. /\ rc' \in [Instances -> BOOLEAN]
        /\ \A j \in Instances \ {i} : rc'[j] = rc[j]
        /\ rc'[i] => rc[i] \/ result = "fork"
    BY <1>2 DEF TypeOK
  <1>6. \/ /\ rc'[i]
           /\ phase' = [phase EXCEPT ![i] = "shutdown"]
           /\ step' = [step EXCEPT ![i] = 1]
        \/ /\ step[i] < 9
           /\ phase' = phase
           /\ step' = [step EXCEPT ![i] = step[i] + 1]
        \/ /\ ~rc'[i]
           /\ step[i] = 9
           /\ phase' = [phase EXCEPT ![i] = "create"]
           /\ step' = [step EXCEPT ![i] = 1]
    BY <1>0, <1>2, Calls DEF EnterShutdown
  <1>7. UNCHANGED <<all, keep, thread, created, outcome, starts>>
    BY DEF InstallRules
  <1>8. QED
    BY <1>1, <1>4, <1>5, <1>6, <1>7 DEF InstallEffect

LEMMA InstallThreadInv ==
  ASSUME ThreadInv, NEW i \in Instances, InstallRules(i)
  PROVE  ThreadInv'
  <1> USE DEF ThreadInv
  <1>1. InstallEffect(i)
    BY InstallStep
  <1>2. /\ phase' \in [Instances -> {"off", "startup", "create", "join", "shutdown"}]
        /\ step' \in [Instances -> Nat \ {0}]
        /\ \A j \in Instances \ {i} : phase'[j] = phase[j] /\ step'[j] = step[j]
        /\ phase'[i] = "startup" => step'[i] \in 1..9
        /\ phase'[i] \in {"create", "shutdown"} => step'[i] = 1
        /\ phase'[i] \in {"startup", "create", "shutdown"}
    <2>1. /\ phase \in [Instances -> {"off", "startup", "create", "join", "shutdown"}]
          /\ step \in [Instances -> Nat \ {0}]
          /\ step[i] \in 1..9 /\ phase[i] = "startup"
      BY <1>1 DEF TypeOK, InstallEffect
    <2>2. CASE /\ phase' = [phase EXCEPT ![i] = "shutdown"]
               /\ step' = [step EXCEPT ![i] = 1]
      BY <2>1, <2>2
    <2>3. CASE /\ step[i] < 9
               /\ phase' = phase
               /\ step' = [step EXCEPT ![i] = step[i] + 1]
      BY <2>1, <2>3
    <2>4. CASE /\ phase' = [phase EXCEPT ![i] = "create"]
               /\ step' = [step EXCEPT ![i] = 1]
      BY <2>1, <2>4
    <2>5. QED
      BY <1>1, <2>2, <2>3, <2>4 DEF InstallEffect
  <1>3. TypeOK'
    <2>1. \A j \in Instances :
            /\ phase'[j] = "startup" => step'[j] <= 9
            /\ phase'[j] = "shutdown" => step'[j] <= 3
            /\ phase'[j] = "join" => step'[j] <= ThreadCount(j)'
      <3> SUFFICES ASSUME NEW j \in Instances PROVE <2>1!(j)
        OBVIOUS
      <3>1. ThreadCount(j)' = ThreadCount(j) /\ InputRule(j) \in Inputs
        BY <1>1 DEF ThreadCount, InstallEffect, InputRule, Inputs
      <3>2. CASE j = i
        BY <1>2, <3>2
      <3>3. CASE j # i
        BY <1>2, <3>1, <3>3, StepBounds
      <3>4. QED
        BY <3>2, <3>3
    <2>2. \A j \in Instances : InputRule(j)' \in Inputs
      BY DEF InputRule, Inputs
    <2>3. ASSUME NEW j \in Instances
          PROVE  /\ phase'[j] = "startup" => step'[j] <= Len(StartCalls(InputRule(j)'))
                 /\ phase'[j] = "shutdown" => step'[j] <= Len(FlushCalls)
      BY <2>1, <2>2, Calls
    <2>4. QED
      BY <1>1, <1>2, <2>1, <2>3 DEF TypeOK, Tables, InstallEffect, Kinds
  <1>4. Creation'
    <2>1. ThreadCount(i) \in 1..Devices
      BY ThreadCountType DEF TypeOK
    <2>2. \A j \in Instances : ThreadCount(j)' = ThreadCount(j)
      BY <1>1 DEF ThreadCount, InstallEffect
    <2>3. created[i] = 0
      BY <1>1 DEF InstallEffect, Creation
    <2>4. QED
      BY <1>1, <1>2, <2>1, <2>2, <2>3, ConstantsAssumption DEF Creation, InstallEffect
  <1>5. QED
    BY <1>3, <1>4

\* The system() calls of free_and_exit.
LEMMA RemoveThreadInv ==
  ASSUME ThreadInv, NEW i \in Instances, RemoveRules(i)
  PROVE  ThreadInv'
  <1> USE DEF ThreadInv
  <1>1. step[i] \in 1..3 /\ phase[i] = "shutdown"
    BY Calls DEF RemoveRules, TypeOK
  <1>2. PICK result \in Results(i) : System(i, FlushCalls[step[i]], result)
    BY DEF RemoveRules
  <1>3. /\ table' \in Tables /\ failed' \in [Instances -> BOOLEAN]
        /\ others' \in [Instances -> SUBSET Kinds]
    BY <1>1, <1>2, CallsInCallSet, SystemStep DEF TypeOK, Tables, Kinds
  <1>4. starts' = starts
    BY DEF RemoveRules
  <1>5. CASE step[i] < Len(FlushCalls)
    <2>1. /\ step' = [step EXCEPT ![i] = step[i] + 1]
          /\ UNCHANGED <<phase, outcome, rc, keep, all, thread, created>>
      BY <1>5 DEF RemoveRules
    <2>2. TypeOK'
      <3>1. CallsKept
        BY <2>1, CallsFrame
      <3>2. QED
        BY <1>1, <1>3, <1>4, <1>5, <2>1, <3>1 DEF TypeOK, Tables, CallsKept, Kinds
    <2>3. Creation'
      BY <1>1, <1>4, <2>1 DEF Creation, TypeOK, ThreadCount
    <2>4. QED
      BY <2>2, <2>3
  <1>6. CASE ~(step[i] < Len(FlushCalls))
    BY <1>3, <1>4, <1>6, EndsThreadInv DEF RemoveRules
  <1>7. QED
    BY <1>5, <1>6

\* Creation and joining of the threads.
LEMMA ThreadsThreadInv ==
  ASSUME ThreadInv, NEW i \in Instances, CreateThread(i) \/ WakeUp(i) \/ Join(i)
  PROVE  ThreadInv'
  <1> USE DEF ThreadInv
  <1>1. ThreadCount(i) \in 1..Devices
    BY ThreadCountType DEF TypeOK
  <1>2. CASE CreateThread(i)
    <2>0. CallsKept
      BY <1>2, CallsFrame DEF CreateThread
    <2>1. CASE EnterShutdown(i) /\ UNCHANGED <<thread, created>>
      BY <1>2, <2>0, <2>1, Calls
      DEF TypeOK, Creation, CreateThread, EnterShutdown, CallsKept
    <2>2. CASE /\ thread' = [thread EXCEPT ![i][step[i]] = "opening"]
               /\ created' = [created EXCEPT ![i] = @ + 1]
               /\ step' = [step EXCEPT ![i] = @ + 1]
               /\ UNCHANGED phase
      <3>1. /\ phase[i] = "create" /\ step[i] \in 1..Devices
            /\ step[i] <= ThreadCount(i) /\ created[i] = step[i] - 1
            /\ UNCHANGED <<table, rc, all, keep, outcome, failed, others, starts>>
        BY <1>1, <1>2, ConstantsAssumption DEF CreateThread, TypeOK, Creation
      <3>2. /\ thread' \in [Instances -> [1..Devices -> ThreadStates]]
            /\ \A j \in Instances, e \in 1..Devices :
                 thread'[j][e] # thread[j][e] => j = i /\ e = step[i]
        BY <2>2, <3>1, SetThread DEF TypeOK, ThreadStates
      <3>3. created' \in [Instances -> 0..Devices]
        BY <2>2, <3>1, ConstantsAssumption DEF TypeOK
      <3>4. TypeOK'
        BY <2>0, <2>2, <3>1, <3>2, <3>3 DEF TypeOK, CallsKept, ThreadStates
      <3>5. Creation'
        BY <1>1, <2>2, <3>1, <3>2, ConstantsAssumption DEF TypeOK, Creation, ThreadCount
      <3>6. QED
        BY <3>4, <3>5
    <2>3. QED
      BY <1>2, <2>1, <2>2 DEF CreateThread
  <1>3. CASE WakeUp(i)
    <2>1. CallsKept
      BY <1>3, CallsFrame DEF WakeUp
    <2>2. QED
      BY <1>1, <1>3, <2>1, ConstantsAssumption DEF TypeOK, Creation, WakeUp, CallsKept
  <1>4. CASE Join(i)
    <2>1. /\ phase[i] = "join" /\ step[i] <= ThreadCount(i)
          /\ UNCHANGED <<table, failed, others, starts>>
          /\ \/ /\ step[i] < ThreadCount(i)
                /\ step' = [step EXCEPT ![i] = step[i] + 1]
                /\ UNCHANGED <<phase, outcome, keep, rc, all, thread, created>>
             \/ /\ EnterShutdown(i)
                /\ UNCHANGED <<outcome, keep, rc, all, thread, created>>
             \/ Ends(i, "died")
      BY <1>4 DEF Join, TypeOK
    <2>2. step[i] \in Nat \ {0} /\ ThreadCount(i) \in Nat
      BY <1>1, ConstantsAssumption DEF TypeOK
    <2>3. CASE /\ step[i] < ThreadCount(i)
               /\ step' = [step EXCEPT ![i] = step[i] + 1]
               /\ UNCHANGED <<phase, outcome, keep, rc, all, thread, created>>
      <3>1. step[i] + 1 <= ThreadCount(i) /\ step[i] + 1 \in Nat \ {0}
        BY <2>2, <2>3
      <3>2. QED
        BY <2>1, <2>3, <3>1, CallsFrame DEF TypeOK, Creation, CallsKept
    <2>4. CASE /\ EnterShutdown(i)
               /\ UNCHANGED <<outcome, keep, rc, all, thread, created>>
      BY <2>1, <2>4, Calls, CallsFrame DEF TypeOK, Creation, CallsKept, EnterShutdown
    <2>5. CASE Ends(i, "died")
      BY <2>1, <2>5, EndsThreadInv DEF TypeOK, Tables, Kinds
    <2>6. QED
      BY <2>1, <2>3, <2>4, <2>5
  <1>5. QED
    BY <1>2, <1>3, <1>4

\* What the threads, SIGINT, a kill and the next start do.
LEMMA OtherThreadInv ==
  ASSUME ThreadInv, NEW i \in Instances,
         \/ Start(i) \/ Sigint(i) \/ Killed(i)
         \/ \E d \in 1..Devices : SniffingThread(i, d)
  PROVE  ThreadInv'
  <1> USE DEF ThreadInv
  <1>1. CASE Start(i)
    <2>1. TypeOK'
      <3>1. /\ phase' = [phase EXCEPT ![i] = "startup"]
            /\ step' = [step EXCEPT ![i] = 1]
            /\ outcome' = [outcome EXCEPT ![i] = "none"]
            /\ failed' = [failed EXCEPT ![i] = FALSE]
            /\ others' = [others EXCEPT ![i] = {}]
            /\ UNCHANGED <<table, rc, keep, thread, created>>
        BY <1>1 DEF Start
      <3>2. PICK b \in BOOLEAN : all' = [all EXCEPT ![i] = b]
        BY <1>1, ConstantsAssumption DEF Start
      <3>3. starts' \in 0..MaxStarts
        BY <1>1, ConstantsAssumption DEF TypeOK, Start
      <3>4. \A j \in Instances : j # i => /\ phase'[j] = phase[j] /\ step'[j] = step[j]
                                         /\ all'[j] = all[j]
        BY <3>1, <3>2 DEF TypeOK
      <3>5. phase'[i] = "startup" /\ step'[i] = 1
        BY <3>1 DEF TypeOK
      <3>6. /\ phase' \in [Instances -> {"off", "startup", "create", "join", "shutdown"}]
            /\ step' \in [Instances -> Nat \ {0}]
            /\ created' \in [Instances -> 0..Devices]
        BY <3>1, ConstantsAssumption DEF TypeOK
      <3>7. /\ rc' \in [Instances -> BOOLEAN]
            /\ all' \in [Instances -> BOOLEAN]
            /\ keep' \in [Instances -> BOOLEAN]
            /\ failed' \in [Instances -> BOOLEAN]
            /\ others' \in [Instances -> SUBSET {"remove", "add"}]
            /\ outcome' \in [Instances -> {"none", "returned", "died"}]
        BY <3>1, <3>2 DEF TypeOK
      <3>8. thread' \in [Instances -> [1..Devices -> {"none", "opening", "sniffing", "failed", "done"}]]
        BY <3>1 DEF TypeOK
      <3>9. \A j \in Instances :
              /\ phase'[j] = "startup" => step'[j] <= Len(StartCalls(InputRule(j)'))
              /\ phase'[j] = "shutdown" => step'[j] <= Len(FlushCalls)
              /\ phase'[j] = "join" => step'[j] <= ThreadCount(j)'
        <4>1. ASSUME NEW j \in Instances
              PROVE  /\ phase[j] = "startup" => step[j] <= Len(StartCalls(InputRule(j)))
                     /\ phase[j] = "shutdown" => step[j] <= Len(FlushCalls)
                     /\ phase[j] = "join" => step[j] <= ThreadCount(j)
          BY DEF TypeOK
        <4>2. \A j \in Instances : j # i => /\ ThreadCount(j)' = ThreadCount(j)
                                           /\ InputRule(j)' = InputRule(j)
          BY <3>4 DEF ThreadCount, InputRule
        <4>3. 1 <= Len(StartCalls(InputRule(i)'))
          <5>1. InputRule(i)' \in Inputs
            BY DEF InputRule, Inputs
          <5>2. QED
            BY <5>1, Calls
        <4>4. QED
          BY <3>4, <3>5, <4>1, <4>2, <4>3
      <3>10. QED
        BY <3>1, <3>3, <3>6, <3>7, <3>8, <3>9 DEF TypeOK
    <2>2. Creation'
      BY <1>1, <2>1, ThreadCountType, ConstantsAssumption
      DEF TypeOK, Creation, Start, ThreadCount
    <2>3. QED
      BY <2>1, <2>2
  <1>2. CASE Sigint(i)
    <2>1. TypeOK'
      BY <1>2 DEF TypeOK, Sigint, ThreadCount, InputRule
    <2>2. Creation'
      BY <1>2 DEF TypeOK, Creation, Sigint, ThreadCount
    <2>3. QED
      BY <2>1, <2>2
  <1>3. CASE Killed(i)
    BY <1>3, EndsThreadInv DEF Killed, TypeOK, Tables, Kinds
  <1>4. ASSUME NEW d \in 1..Devices, SniffingThread(i, d)
        PROVE  ThreadInv'
    <2>1. CASE Ends(i, "died") /\ UNCHANGED <<table, failed, others, starts>>
      BY <2>1, EndsThreadInv DEF TypeOK, Tables, Kinds
    <2>2. ASSUME thread[i][d] # "none", NEW v \in {"sniffing", "failed", "done"},
                 thread' = [thread EXCEPT ![i][d] = v],
                 UNCHANGED <<table, phase, step, rc, all, keep, created, outcome, failed,
                             others, starts>>
          PROVE  ThreadInv'
      <3>1. /\ thread' \in [Instances -> [1..Devices -> ThreadStates]]
            /\ \A j \in Instances, e \in 1..Devices :
                 thread'[j][e] # "none" => thread[j][e] # "none"
        BY <2>2, SetThread DEF TypeOK, ThreadStates
      <3>2. TypeOK'
        BY <2>2, <3>1 DEF TypeOK, ThreadCount, InputRule, ThreadStates
      <3>3. Creation'
        BY <2>2, <3>1 DEF TypeOK, Creation, ThreadCount
      <3>4. QED
        BY <3>2, <3>3
    <2>3. QED
      BY <1>4, <2>1, <2>2 DEF SniffingThread, OpenDevice, FailedThread, CaptureEnds
  <1>5. QED
    BY <1>1, <1>2, <1>3, <1>4

LEMMA NextThreadInv == ThreadInv /\ [Next]_vars => ThreadInv'
  <1> SUFFICES ASSUME ThreadInv, [Next]_vars PROVE ThreadInv'
    OBVIOUS
  <1>1. ASSUME NEW i \in Instances, MainThread(i)
        PROVE  ThreadInv'
    BY <1>1, InstallThreadInv, RemoveThreadInv, ThreadsThreadInv DEF MainThread
  <1>2. CASE UNCHANGED vars
    BY <1>2 DEF vars, ThreadInv, TypeOK, Creation, ThreadCount, InputRule
  <1>3. QED
    BY <1>1, <1>2, OtherThreadInv DEF Next

-----------------------------------------------------------------------------
(***************************************************************************)
(* The joins.                                                              *)
(***************************************************************************)

\* A thread that was joined or given up has opened its device.
JoinedThreads ==
  \A i \in Instances : \A d \in 1..Devices :
    phase[i] = "join" /\ d < step[i] /\ d <= created[i] => thread[i][d] # "opening"

\* A step of one instance leaves the other processes alone.
Frame(i) ==
  \A j \in Instances \ {i} :
    /\ phase'[j] = phase[j] /\ all'[j] = all[j] /\ created'[j] = created[j]
    /\ thread'[j] = thread[j]

JoinInv == JoinedThreads /\ ThreadsOpenBeforeFree

\* The names in thread_args outlive the threads that read them: JoinedThreads carries
\* what each join established to the end of the loop.
LEMMA JoinFrame ==
  ASSUME JoinInv, NEW i \in Instances, Frame(i),
         \A j \in Instances \ {i} : step'[j] = step[j],
         \A d \in 1..Devices :
           phase'[i] = "join" /\ d < step'[i] /\ d <= created'[i] => thread'[i][d] # "opening",
         phase'[i] = "shutdown" /\ (\E d \in 1..Devices : thread'[i][d] = "opening") =>
           created'[i] < ThreadCount(i)'
  PROVE  JoinInv'
  <1>1. JoinedThreads'
    <2> SUFFICES ASSUME NEW j \in Instances, NEW d \in 1..Devices,
                        phase'[j] = "join", d < step'[j], d <= created'[j]
                 PROVE  thread'[j][d] # "opening"
      BY DEF JoinedThreads
    <2>1. CASE j = i
      BY <2>1
    <2>2. CASE j # i
      BY <2>2 DEF JoinInv, JoinedThreads, Frame
    <2>3. QED
      BY <2>1, <2>2
  <1>2. ThreadsOpenBeforeFree'
    <2> SUFFICES ASSUME NEW j \in Instances, phase'[j] = "shutdown",
                        \E d \in 1..Devices : thread'[j][d] = "opening"
                 PROVE  created'[j] < ThreadCount(j)'
      BY DEF ThreadsOpenBeforeFree
    <2>1. CASE j = i
      BY <2>1
    <2>2. CASE j # i
      BY <2>2 DEF JoinInv, ThreadsOpenBeforeFree, Frame, ThreadCount
    <2>3. QED
      BY <2>1, <2>2
  <1>3. QED
    BY <1>1, <1>2 DEF JoinInv

LEMMA EndsJoinInv ==
  ASSUME TypeOK, JoinInv, NEW i \in Instances, NEW how, Ends(i, how)
  PROVE  JoinInv'
  <1>1. phase'[i] = "off"
    BY DEF Ends, TypeOK
  <1>2. Frame(i) /\ \A j \in Instances \ {i} : step'[j] = step[j]
    BY DEF Ends, TypeOK, Frame
  <1>3. QED
    BY <1>1, <1>2, JoinFrame

LEMMA NextJoinInv ==
  ASSUME \A i \in Instances : "slow" \notin Faults[i], ThreadInv, JoinInv, [Next]_vars
  PROVE  JoinInv'
  <1> USE DEF ThreadInv, Frame
  <1>1. ASSUME NEW i \in Instances, Start(i) PROVE JoinInv'
    BY <1>1, JoinFrame DEF Start, TypeOK
  <1>2. ASSUME NEW i \in Instances, InstallRules(i) PROVE JoinInv'
    <2>1. InstallEffect(i)
      BY <1>2, InstallStep
    <2>2. /\ Frame(i) /\ \A j \in Instances \ {i} : step'[j] = step[j]
          /\ phase'[i] # "join"
      BY <2>1 DEF InstallEffect, TypeOK
    <2>3. created'[i] = 0 /\ ThreadCount(i)' = ThreadCount(i)
      BY <2>1 DEF InstallEffect, Creation, ThreadCount
    <2>4. ThreadCount(i) \in 1..Devices
      BY ThreadCountType DEF TypeOK
    <2>5. QED
      BY <2>2, <2>3, <2>4, JoinFrame, ConstantsAssumption
  <1>3. ASSUME NEW i \in Instances, CreateThread(i) PROVE JoinInv'
    <2>1. Frame(i) /\ \A j \in Instances \ {i} : step'[j] = step[j]
      BY <1>3 DEF CreateThread, EnterShutdown, TypeOK
    <2>2. phase'[i] # "join"
      BY <1>3 DEF CreateThread, EnterShutdown, TypeOK
    <2>3. /\ created[i] = step[i] - 1 /\ step[i] <= ThreadCount(i)
          /\ step[i] \in Nat /\ ThreadCount(i) \in Nat
      BY <1>3, ThreadCountType, ConstantsAssumption DEF CreateThread, Creation, TypeOK
    <2>4. phase'[i] = "shutdown" => created'[i] < ThreadCount(i)'
      BY <1>3, <2>3 DEF CreateThread, ThreadCount
    <2>5. QED
      BY <2>1, <2>2, <2>4, JoinFrame
  <1>4. ASSUME NEW i \in Instances, WakeUp(i) PROVE JoinInv'
    <2>1. /\ Frame(i) /\ \A j \in Instances \ {i} : step'[j] = step[j]
          /\ phase'[i] = "join" /\ step'[i] = 1
      BY <1>4 DEF WakeUp, TypeOK
    <2>2. QED
      BY <2>1, JoinFrame
  <1>5. ASSUME NEW i \in Instances, Join(i) PROVE JoinInv'
    <2>1. /\ phase[i] = "join" /\ step[i] <= ThreadCount(i) /\ step[i] \in Nat
          /\ created[i] \in Nat /\ ThreadCount(i) \in Nat
          /\ created[i] <= ThreadCount(i)
      BY <1>5, ThreadCountType, ConstantsAssumption DEF Join, TypeOK, Creation
    <2>2. Frame(i) /\ \A j \in Instances \ {i} : step'[j] = step[j]
      BY <1>5 DEF Join, EnterShutdown, Ends, TypeOK
    <2>3. CASE Ends(i, "died")
      BY <2>3, EndsJoinInv
    <2>4. CASE /\ NeverCreated(i, step[i]) \/ JoinReturns(i, step[i])
               /\ IF step[i] < ThreadCount(i)
                  THEN step' = [step EXCEPT ![i] = @ + 1] /\ UNCHANGED phase
                  ELSE EnterShutdown(i)
               /\ UNCHANGED <<outcome, keep, rc, all, thread, created>>
      <3>0. ThreadCount(i)' = ThreadCount(i)
        BY <2>4 DEF ThreadCount
      <3>1. \A d \in 1..Devices : d <= step[i] /\ d <= created[i] => thread[i][d] # "opening"
        <4> SUFFICES ASSUME NEW d \in 1..Devices, d <= step[i], d <= created[i]
                     PROVE  thread[i][d] # "opening"
          OBVIOUS
        <4>1. CASE d < step[i]
          BY <2>1, <4>1 DEF JoinInv, JoinedThreads
        <4>2. CASE d = step[i]
          BY <2>1, <2>4, <4>2 DEF NeverCreated, JoinReturns
        <4>3. QED
          BY <2>1, <4>1, <4>2, ConstantsAssumption
      <3>2. CASE step[i] < ThreadCount(i)
        <4>1. step'[i] = step[i] + 1 /\ phase'[i] = "join"
          BY <2>1, <2>4, <3>2 DEF TypeOK
        <4>2. \A d \in 1..Devices : d < step'[i] => d <= step[i]
          BY <2>1, <4>1, ConstantsAssumption
        <4>3. QED
          BY <2>1, <2>2, <2>4, <3>0, <3>1, <4>1, <4>2, JoinFrame
      <3>3. CASE ~(step[i] < ThreadCount(i))
        <4>1. phase'[i] = "shutdown"
          BY <2>4, <3>3 DEF EnterShutdown, TypeOK
        <4>2. ASSUME NEW d \in 1..Devices, thread[i][d] = "opening"
              PROVE  created[i] < ThreadCount(i)
          BY <2>1, <3>1, <3>3, <4>2, ConstantsAssumption DEF Creation
        <4>3. QED
          BY <2>1, <2>2, <2>4, <3>0, <4>1, <4>2, JoinFrame
      <3>4. QED
        BY <3>2, <3>3
    <2>5. QED
      BY <1>5, <2>3, <2>4 DEF Join
  <1>6. ASSUME NEW i \in Instances, RemoveRules(i) \/ Sigint(i) \/ Killed(i)
        PROVE  JoinInv'
    <2>1. CASE \E how : Ends(i, how)
      BY <2>1, EndsJoinInv
    <2>2. CASE /\ UNCHANGED <<all, thread, created>> /\ phase' = phase
               /\ \/ step' = step
                  \/ phase[i] = "shutdown" /\ step' = [step EXCEPT ![i] = @ + 1]
      <3>1. /\ Frame(i) /\ ThreadCount(i)' = ThreadCount(i)
            /\ \A j \in Instances \ {i} : step'[j] = step[j]
            /\ phase'[i] = "join" => step'[i] = step[i]
        BY <2>2 DEF ThreadCount, TypeOK
      <3>2. QED
        BY <2>2, <3>1, JoinFrame DEF JoinInv, JoinedThreads, ThreadsOpenBeforeFree
    <2>3. QED
      BY <1>6, <2>1, <2>2 DEF RemoveRules, Sigint, Killed
  <1>7. ASSUME NEW i \in Instances, NEW d \in 1..Devices, SniffingThread(i, d),
               ~Ends(i, "died")
        PROVE  JoinInv'
    <2>1. /\ UNCHANGED <<all, created, phase, step>> /\ ThreadCount(i)' = ThreadCount(i)
      BY <1>7 DEF SniffingThread, OpenDevice, FailedThread, CaptureEnds, ThreadCount
    <2>2. Frame(i)
      BY <1>7 DEF SniffingThread, OpenDevice, FailedThread, CaptureEnds, TypeOK
    <2>3. \A e \in 1..Devices : thread'[i][e] = "opening" => thread[i][e] = "opening"
      <3>1. CASE thread' = thread
        BY <3>1
      <3>2. ASSUME NEW v \in {"sniffing", "failed", "done"},
                   thread' = [thread EXCEPT ![i][d] = v]
            PROVE  <2>3!:
        BY <3>2, SetThread DEF TypeOK, ThreadStates
      <3>3. QED
        BY <1>7, <3>1, <3>2 DEF SniffingThread, OpenDevice, FailedThread, CaptureEnds
    <2>4. QED
      BY <2>1, <2>2, <2>3, JoinFrame
      DEF JoinInv, JoinedThreads, ThreadsOpenBeforeFree
  <1>8. CASE UNCHANGED vars
    BY <1>8 DEF vars, JoinInv, JoinedThreads, ThreadsOpenBeforeFree, ThreadCount
  <1>9. QED
    BY <1>1, <1>2, <1>3, <1>4, <1>5, <1>6, <1>7, <1>8, EndsJoinInv DEF Next, MainThread

-----------------------------------------------------------------------------
(***************************************************************************)
(* The filter that the instances share.                                    *)
(***************************************************************************)

\* The calls of start() up to the k-th have done their work.
InstalledBefore(rule, k) ==
  /\ k >= 5 => "UNTRUSTED" \in table.chains
  /\ k >= 6 => "TRUSTED" \in table.chains
  /\ k >= 7 => table.rules["OUTPUT"] > 0
  /\ k >= 8 => table.rules["UNTRUSTED"] > 0
  /\ k >= 9 => table.rules[rule] > 0

Installed(rule) ==
  /\ Own \subseteq table.chains
  /\ \A c \in Own \cup {"OUTPUT", rule} : table.rules[c] > 0

Flushed == \A c \in Chains \ Inputs : table.rules[c] = 0

\* How far instance i has brought the filter, provided its own calls succeeded.  Rules
\* that others add do no harm to what it installed; before its last flush is over
\* nobody else may have touched the filter.
Order(i) ==
  /\ rc[i] => failed[i] /\ phase[i] # "off"
  /\ ~failed[i] /\ "remove" \notin others[i] =>
       /\ phase[i] = "startup" => InstalledBefore(InputRule(i), step[i])
       /\ phase[i] \in {"create", "join"} => Installed(InputRule(i))
  /\ ~failed[i] /\ others[i] = {} =>
       /\ phase[i] = "shutdown" => IF step[i] = 1 THEN Own \subseteq table.chains
                                                  ELSE Flushed
       /\ phase[i] = "off" /\ outcome[i] = "returned" =>
            Flushed /\ "UNTRUSTED" \notin table.chains

FilterOrder == \A i \in Instances : Order(i)

\* Each call of start() that does not fail brings the rules one step further; in
\* particular the first flush undoes nothing that a later call relies on.
LEMMA InstallProgress ==
  ASSUME NEW rule \in Inputs, NEW k \in 1..9, table \in Tables,
         InstalledBefore(rule, k), table' = Effect(StartCalls(rule)[k], table)
  PROVE  /\ k < 9 => InstalledBefore(rule, k + 1)'
         /\ k = 9 => Installed(rule)'
  <1>1. CASE k \in 1..3
    BY <1>1 DEF InstalledBefore
  <1>2. CASE k = 4
    <2>1. table' = NewChain(table, "UNTRUSTED")
      BY <1>2, Calls, EffectOf
    <2>2. QED
      BY <1>2, <2>1, NewRules DEF InstalledBefore, Own
  <1>3. CASE k = 5
    <2>1. table' = NewChain(table, "TRUSTED")
      BY <1>3, Calls, EffectOf
    <2>2. QED
      BY <1>3, <2>1, NewRules DEF InstalledBefore, Own
  <1>4. CASE k \in 6..9
    <2> DEFINE c == IF k = 6 THEN "OUTPUT" ELSE IF k = 7 THEN "UNTRUSTED"
                    ELSE IF k = 8 THEN rule ELSE "TRUSTED"
    <2>0. StartCalls(rule)[k] = <<"append", c>> /\ c \in Chains
      BY <1>4, Calls DEF Chains, Own, BuiltIn
    <2>1. table' = AppendRule(table, c)
      BY <2>0, EffectOf
    <2>2. Own \subseteq table.chains
      BY <1>4 DEF InstalledBefore, Own
    <2>3. /\ table' \in Tables /\ table'.chains = table.chains
          /\ table'.rules[c] > 0
          /\ \A d \in Chains : table'.rules[d] >= table.rules[d]
      BY <2>0, <2>1, <2>2, AppendRules
    <2>4. /\ \A d \in Chains : table.rules[d] \in Nat /\ table'.rules[d] \in Nat
          /\ {"TRUSTED", "UNTRUSTED", "OUTPUT", rule} \subseteq Chains
      BY <2>3 DEF Tables, Chains, Own, BuiltIn
    <2>5. \A d \in Chains : table.rules[d] > 0 => table'.rules[d] > 0
      BY <2>3, <2>4
    <2>6. k < 9 => InstalledBefore(rule, k + 1)'
      BY <1>4, <2>1, <2>2, <2>3, <2>4, <2>5 DEF InstalledBefore, Own
    <2>7. k = 9 => Installed(rule)'
      BY <2>1, <2>2, <2>3, <2>4, <2>5 DEF InstalledBefore, Installed, Own
    <2>8. QED
      BY <2>6, <2>7
  <1>5. QED
    BY <1>1, <1>2, <1>3, <1>4

\* The last flush reaches all of its commands, and UNTRUSTED can then be deleted.
LEMMA RemoveProgress ==
  ASSUME NEW k \in 1..3, table \in Tables,
         IF k = 1 THEN Own \subseteq table.chains ELSE Flushed,
         table' = Effect(FlushCalls[k], table)
  PROVE  Flushed' /\ (k = 3 => "UNTRUSTED" \notin table'.chains)
  <1>1. CASE k = 1
    <2>1. table' = Flush(table, FlushReach(table))
      BY <1>1, Calls, EffectOf
    <2>2. FlushReach(table) = 3
      BY <1>1 DEF FlushReach, Own
    <2>3. QED
      BY <1>1, <2>1, <2>2, FlushRules DEF Flushed
  <1>2. CASE k = 2
    <2>1. table' = DeleteChain(table, "TRUSTED")
      BY <1>2, Calls, EffectOf
    <2>2. QED
      BY <1>2, <2>1, DeleteRules DEF Flushed, Own
  <1>3. CASE k = 3
    <2>1. table' = DeleteChain(table, "UNTRUSTED")
      <3>1. table' = Effect(<<"delete", "UNTRUSTED">>, table)
        BY <1>3, Calls
      <3>2. QED
        BY <3>1, EffectOf
    <2>2. table.rules["UNTRUSTED"] = 0 /\ table.rules["OUTPUT"] = 0
      <3>1. "UNTRUSTED" \in Chains \ Inputs /\ "OUTPUT" \in Chains \ Inputs
        BY DEF Chains, Own, BuiltIn, Inputs
      <3>2. QED
        BY <1>3, <3>1 DEF Flushed
    <2>3. ~Referenced(table, "UNTRUSTED")
      <3> SUFFICES ASSUME NEW b \in BuiltIn, <<b, "UNTRUSTED">> \in Jumps,
                          table.rules[b] > 0
                   PROVE  FALSE
        BY DEF Referenced
      <3>1. b = "OUTPUT"
        BY DEF Jumps
      <3>2. QED
        BY <2>2, <3>1
    <2>4. QED
      BY <1>3, <2>1, <2>2, <2>3, DeleteRules DEF Flushed, Own
  <1>4. QED
    BY <1>1, <1>2, <1>3

\* A step of instance i leaves the order of the others, if it spares them.
LEMMA OthersOrder ==
  ASSUME table \in Tables, FilterOrder, NEW i \in Instances, Order(i)',
         \A j \in Instances \ {i} :
           /\ phase'[j] = phase[j] /\ step'[j] = step[j] /\ outcome'[j] = outcome[j]
           /\ rc'[j] = rc[j] /\ failed'[j] = failed[j] /\ all'[j] = all[j]
           /\ Spared(j)
  PROVE  FilterOrder'
  <1> SUFFICES ASSUME NEW j \in Instances PROVE Order(j)'
    BY DEF FilterOrder
  <1> USE DEF InputRule
  <1>1. CASE j = i
    BY <1>1
  <1>2. CASE j # i /\ table' = table /\ others'[j] = others[j]
    BY <1>2 DEF FilterOrder, Order, Installed, InstalledBefore, Flushed
  <1>3. CASE j # i /\ "remove" \in others'[j]
    BY <1>3 DEF FilterOrder, Order
  <1>4. CASE /\ j # i /\ others'[j] = others[j] \cup {"add"}
             /\ table' \in Tables /\ table.chains \subseteq table'.chains
             /\ \A c \in Chains : table'.rules[c] >= table.rules[c]
    <2>1. \A c \in Chains : table.rules[c] > 0 => table'.rules[c] > 0
      <3>1. \A c \in Chains : table.rules[c] \in Nat /\ table'.rules[c] \in Nat
        BY <1>4 DEF Tables
      <3>2. QED
        BY <1>4, <3>1
    <2>2. "remove" \in others[j] => "remove" \in others'[j]
      BY <1>4
    <2>3. Installed(InputRule(j)) => Installed(InputRule(j))'
      BY <1>4, <2>1 DEF Installed, Chains, BuiltIn, Inputs
    <2>4. InstalledBefore(InputRule(j), step[j]) => InstalledBefore(InputRule(j), step[j])'
      <3>1. {"OUTPUT", "UNTRUSTED", InputRule(j)} \subseteq Chains
        BY DEF Chains, Own, BuiltIn, Inputs
      <3>2. step'[j] = step[j] /\ InputRule(j)' = InputRule(j)
        BY <1>4
      <3>3. QED
        BY <1>4, <2>1, <3>1, <3>2 DEF InstalledBefore
    <2>5. others'[j] # {}
      BY <1>4
    <2>6. Order(j)
      BY DEF FilterOrder
    <2>7. QED
      BY <1>4, <2>2, <2>3, <2>4, <2>5, <2>6 DEF Order
  <1>5. QED
    BY <1>1, <1>2, <1>3, <1>4 DEF Spared

\* A process that dies leaves the filter as it is.
LEMMA DiedOrder ==
  ASSUME TypeOK, FilterOrder, NEW i \in Instances, Ends(i, "died"),
         UNCHANGED <<table, failed, others>>
  PROVE  FilterOrder'
  <1>1. Order(i)'
    BY DEF Ends, TypeOK, Order
  <1>2. ASSUME NEW j \in Instances \ {i}
        PROVE  /\ phase'[j] = phase[j] /\ step'[j] = step[j] /\ outcome'[j] = outcome[j]
               /\ rc'[j] = rc[j] /\ all'[j] = all[j]
    BY DEF Ends, TypeOK
  <1>3. QED
    BY <1>1, <1>2, OthersOrder DEF Spared, TypeOK, Tables

LEMMA NextFilterOrder ==
  ASSUME ThreadInv, FilterOrder, [Next]_vars
  PROVE  FilterOrder'
  <1> USE DEF ThreadInv
  <1>0. table \in Tables
    BY DEF TypeOK, Tables
  <1>1. ASSUME NEW i \in Instances, Start(i) PROVE FilterOrder'
    <2>1. Order(i)'
      <3>1. phase'[i] = "startup" /\ step'[i] = 1 /\ rc'[i] = rc[i] /\ phase[i] = "off"
        BY <1>1 DEF Start, TypeOK
      <3>2. ~rc[i]
        BY <3>1 DEF FilterOrder, Order
      <3>3. QED
        BY <3>1, <3>2 DEF InstalledBefore, Order
    <2>2. QED
      BY <1>0, <1>1, <2>1, OthersOrder DEF Start, TypeOK, Spared
  <1>2. ASSUME NEW i \in Instances, InstallRules(i) PROVE FilterOrder'
    <2>1. InstallEffect(i)
      BY <1>2, InstallStep
    <2>2. rc'[i] => failed'[i]
      BY <2>1 DEF InstallEffect, FilterOrder, Order
    <2>3. ASSUME ~failed'[i]
          PROVE  /\ "remove" \notin others'[i] =>
                      /\ phase'[i] = "startup" => InstalledBefore(InputRule(i), step[i])'
                      /\ phase'[i] \in {"create", "join"} => Installed(InputRule(i))'
                 /\ phase'[i] \notin {"shutdown", "off"}
      <3>1. /\ step[i] \in 1..9 /\ ~rc'[i] /\ ~failed[i] /\ phase[i] = "startup"
            /\ others'[i] = others[i] /\ all' = all
            /\ table' = Effect(StartCalls(InputRule(i))[step[i]], table)
        BY <2>1, <2>2, <2>3 DEF InstallEffect
      <3>2. PICK k \in 1..9 : k = step[i]
        BY <3>1
      <3>3. ASSUME "remove" \notin others'[i]
            PROVE  /\ k < 9 => InstalledBefore(InputRule(i), k + 1)'
                   /\ k = 9 => Installed(InputRule(i))'
        <4>1. InstalledBefore(InputRule(i), k)
          BY <3>1, <3>2, <3>3 DEF FilterOrder, Order
        <4>2. PICK rule \in Inputs : rule = InputRule(i) /\ rule = InputRule(i)'
          BY <3>1 DEF InputRule, Inputs
        <4>3. QED
          BY <1>0, <3>1, <3>2, <4>1, <4>2, InstallProgress
      <3>4. \/ k < 9 /\ phase'[i] = "startup" /\ step'[i] = k + 1
            \/ k = 9 /\ phase'[i] = "create"
        BY <2>1, <3>1, <3>2 DEF InstallEffect, TypeOK
      <3>5. QED
        BY <3>3, <3>4
    <2>4. Order(i)'
      <3>1. rc'[i] => phase'[i] # "off"
        BY <2>1 DEF InstallEffect, TypeOK
      <3>2. QED
        BY <2>2, <2>3, <3>1 DEF Order
    <2>5. ASSUME NEW j \in Instances \ {i}
          PROVE  /\ phase'[j] = phase[j] /\ step'[j] = step[j] /\ outcome'[j] = outcome[j]
                 /\ rc'[j] = rc[j] /\ failed'[j] = failed[j] /\ all'[j] = all[j]
                 /\ Spared(j)
      BY <2>1 DEF InstallEffect, TypeOK
    <2>6. QED
      BY <1>0, <2>4, <2>5, OthersOrder
  <1>3. ASSUME NEW i \in Instances, CreateThread(i) \/ WakeUp(i) \/ Join(i)
        PROVE  FilterOrder'
    <2>1. CASE Ends(i, "died") /\ UNCHANGED <<table, failed, others>>
      BY <2>1, DiedOrder
    <2>2. CASE /\ UNCHANGED <<table, failed, others, rc, outcome, all>>
               /\ ~Ends(i, "died")
      <3>1. /\ phase[i] \in {"create", "join"}
            /\ \/ phase'[i] \in {"create", "join"}
               \/ phase'[i] = "shutdown" /\ step'[i] = 1
        <4>1. CASE CreateThread(i)
          BY <4>1 DEF CreateThread, EnterShutdown, TypeOK
        <4>2. CASE WakeUp(i)
          BY <4>2 DEF WakeUp, TypeOK
        <4>3. CASE Join(i)
          BY <2>2, <4>3 DEF Join, EnterShutdown, TypeOK
        <4>4. QED
          BY <1>3, <4>1, <4>2, <4>3
      <3>2. Order(i)'
        BY <2>2, <3>1, CallsFrame DEF FilterOrder, Order, Installed, CallsKept
      <3>3. ASSUME NEW j \in Instances \ {i}
            PROVE  phase'[j] = phase[j] /\ step'[j] = step[j]
        BY <1>3 DEF CreateThread, WakeUp, Join, EnterShutdown, Ends, TypeOK
      <3>4. QED
        BY <1>0, <2>2, <3>2, <3>3, OthersOrder DEF Spared
    <2>3. QED
      BY <1>3, <2>1, <2>2 DEF CreateThread, WakeUp, Join
  <1>4. ASSUME NEW i \in Instances, RemoveRules(i) PROVE FilterOrder'
    <2>1. /\ phase[i] = "shutdown" /\ step[i] \in 1..3
          /\ rc'[i] => rc[i] /\ phase'[i] = phase[i]
          /\ \/ step[i] < 3 /\ phase'[i] = "shutdown" /\ step'[i] = step[i] + 1
             \/ step[i] = 3 /\ phase'[i] = "off"
      BY <1>4, Calls DEF RemoveRules, Ends, TypeOK
    <2>2. PICK k \in 1..3 : k = step[i]
      BY <2>1
    <2>3. PICK result \in Results(i) : System(i, FlushCalls[k], result)
      BY <1>4, <2>2 DEF RemoveRules
    <2>4. /\ failed[i] => failed'[i]
          /\ others'[i] = others[i]
          /\ ~failed'[i] => table' = Effect(FlushCalls[k], table)
          /\ \A j \in Instances \ {i} : failed'[j] = failed[j] /\ Spared(j)
      BY <1>0, <2>2, <2>3, CallsInCallSet, SystemStep, SystemSpares
      DEF TypeOK, Told, Kinds
    <2>5. ~failed'[i] /\ others'[i] = {} =>
            Flushed' /\ (k = 3 => "UNTRUSTED" \notin table'.chains)
      BY <1>0, <2>1, <2>2, <2>4, RemoveProgress DEF FilterOrder, Order
    <2>6. Order(i)'
      BY <2>1, <2>2, <2>4, <2>5 DEF FilterOrder, Order
    <2>7. ASSUME NEW j \in Instances \ {i}
          PROVE  /\ phase'[j] = phase[j] /\ step'[j] = step[j] /\ outcome'[j] = outcome[j]
                 /\ rc'[j] = rc[j] /\ all'[j] = all[j]
      BY <1>4 DEF RemoveRules, Ends, TypeOK
    <2>8. QED
      BY <1>0, <2>4, <2>6, <2>7, OthersOrder
  <1>5. ASSUME NEW i \in Instances,
               \/ Sigint(i) \/ Killed(i)
               \/ \E d \in 1..Devices : SniffingThread(i, d)
        PROVE  FilterOrder'
    <2>1. CASE UNCHANGED <<table, failed, others, phase, outcome, step, rc, all>>
      BY <2>1, CallsFrame
      DEF FilterOrder, Order, Installed, InstalledBefore, Flushed, CallsKept
    <2>2. CASE Ends(i, "died") /\ UNCHANGED <<table, failed, others>>
      BY <2>2, DiedOrder
    <2>3. QED
      BY <1>5, <2>1, <2>2
      DEF Sigint, Killed, SniffingThread, OpenDevice, FailedThread, CaptureEnds
  <1>6. CASE UNCHANGED vars
    BY <1>6, CallsFrame
    DEF vars, FilterOrder, Order, Installed, InstalledBefore, Flushed, CallsKept
  <1>7. QED
    BY <1>1, <1>2, <1>3, <1>4, <1>5, <1>6 DEF Next, MainThread

-----------------------------------------------------------------------------
(***************************************************************************)
(* Theorems.                                                               *)
(***************************************************************************)

\* Type correctness: in particular no thread beyond the devices is created or joined.
THEOREM TypeCorrect == Spec => []TypeOK
  <1>1. ThreadInv => TypeOK
    BY DEF ThreadInv
  <1>2. QED
    BY <1>1, InitThreadInv, NextThreadInv, PTL DEF Spec

\* When every thread has opened its device before its join times out, thread_args is
\* freed under a thread only after a failed pthread_create.
THEOREM ArgumentsOutliveThreads ==
  ASSUME \A i \in Instances : "slow" \notin Faults[i]
  PROVE  Spec => []ThreadsOpenBeforeFree
  <1>1. Init => JoinInv
    BY DEF Init, JoinInv, JoinedThreads, ThreadsOpenBeforeFree
  <1>2. JoinInv => ThreadsOpenBeforeFree
    BY DEF JoinInv
  <1>3. ThreadInv /\ JoinInv /\ [Next]_vars => JoinInv'
    BY NextJoinInv
  <1>4. QED
    BY <1>1, <1>2, <1>3, InitThreadInv, NextThreadInv, PTL DEF Spec

LEMMA FilterOrderInvariant == Spec => [](ThreadInv /\ FilterOrder)
  <1>1. Init => FilterOrder
    BY DEF Init, FilterOrder, Order
  <1>2. ThreadInv /\ FilterOrder /\ [Next]_vars => FilterOrder'
    BY NextFilterOrder
  <1>3. QED
    BY <1>1, <1>2, InitThreadInv, NextThreadInv, PTL DEF Spec

\* A service whose system() calls succeed has all its rules in place while it sniffs,
\* whatever state earlier runs, crashes and failures left the filter in, unless another
\* service that ran meanwhile started or ended and so removed the rules of both.
THEOREM RulesHold == Spec => []RulesHoldWhileSniffing
  <1>1. FilterOrder => RulesHoldWhileSniffing
    BY DEF FilterOrder, Order, RulesHoldWhileSniffing, Installed
  <1>2. QED
    BY <1>1, FilterOrderInvariant, PTL

\* When such a run returns, and no other service touched the filter meanwhile, nothing
\* that it or an earlier run installed still blocks or accepts a packet.
THEOREM RunsCleanUp == Spec => []CleanAfterRun
  <1>1. FilterOrder => CleanAfterRun
    BY DEF FilterOrder, Order, CleanAfterRun, Flushed
  <1>2. QED
    BY <1>1, FilterOrderInvariant, PTL
=============================================================================
