-------------------------- MODULE BackupServiceProofs --------------------------
(***************************************************************************)
(* Theorems about BackupService, for any tree, names, keys, bounds and     *)
(* disturbances: types, what must have happened when memory is misused,    *)
(* and, where threads end in time, that it is not.                         *)
(***************************************************************************)
EXTENDS BackupService, WellFoundedInduction, TLAPS

\* A set of natural numbers has a least element.
LEMMA Least ==
  ASSUME NEW T \in SUBSET Nat, T # {}
  PROVE  \E x \in T : \A y \in T : x <= y
  <1> DEFINE R == OpToRel(<, Nat)
  <1>1. IsWellFoundedOn(R, Nat)
    BY NatLessThanWellFounded
  <1>2. R = {ss \in Nat \X Nat : ss[1] < ss[2]}
    BY DEF OpToRel
  <1> HIDE DEF R
  <1>3. PICK x \in T : \A y \in T : ~(<<y, x>> \in R)
    BY <1>1, WFMin
  <1>4. ASSUME NEW y \in T PROVE x <= y
    <2>1. x \in Nat /\ y \in Nat /\ <<y, x>> \in Nat \X Nat
      OBVIOUS
    <2>2. ~(y < x)
      BY <1>2, <1>3, <2>1
    <2>3. QED
      BY <2>1, <2>2
  <1>5. QED
    BY <1>4

\* The loop over ht_dirs is at one of its directories as long as there is one.
LEMMA CurrentIsHeld ==
  ASSUME dirTable \subseteq Dirs, dirTable # {}
  PROVE  Current \in dirTable
  <1> DEFINE T == {Key[d] : d \in dirTable}
  <1>1. T \in SUBSET Nat /\ T # {}
    BY ConstantsAssumption DEF Nodes
  <1>2. PICK k \in T : \A l \in T : k <= l
    BY <1>1, Least
  <1>3. PICK d \in dirTable : k = Key[d]
    OBVIOUS
  <1>4. \A e \in dirTable : Key[d] <= Key[e]
    BY <1>2, <1>3
  <1>5. QED
    BY <1>4 DEF Current

\* The kernel's queues hold events only.
LEMMA DeliverType ==
  ASSUME NEW q \in Seq(Events), NEW e \in Events
  PROVE  Deliver(q, e) \in Seq(Events)
  <1>1. Overflow \in Events
    BY DEF Overflow, Events, Kinds
  <1>2. Append(q, e) \in Seq(Events) /\ Append(q, Overflow) \in Seq(Events)
    BY <1>1
  <1>3. QED
    BY <1>2 DEF Deliver

LEMMA NotifyType ==
  ASSUME TypeOK, NEW d, NEW e \in Events, Notify(d, e)
  PROVE  kqueue' \in [Instances -> Seq(Events)]
  BY DeliverType DEF TypeOK, Notify

\* What handle_event walks grows at its end.
LEMMA InsertType ==
  ASSUME NEW c \in Seq(Nodes), NEW p \in Nodes
  PROVE  /\ Insert(c, p) \in Seq(Nodes)
         /\ Len(c) <= Len(Insert(c, p))
         /\ Insert(c, p) = c \/ Insert(c, p) = Append(c, p)
  BY DEF Insert

-----------------------------------------------------------------------------
(***************************************************************************)
(* Types.                                                                  *)
(***************************************************************************)
WithDescriptor == {"watch", "load", "store", "insert", "use after free",
                   "watch root", "poll", "read", "dequeue", "walk", "close"}

\* A thread that works with an inotify instance has one, a thread that is about to make
\* one has none, and there are no more instances than threads that have called
\* open_inotify_fd.
Has(t) == IF fdOf[t] = 0 THEN 0 ELSE 1

FewInstances == made <= Has("backup_loop") + Has("general_loop")

DescriptorsHeld ==
  \A t \in Threads : /\ pc[t] \in WithDescriptor => fdOf[t] \in Instances
                     /\ pc[t] \in {"none", "scan", "open", "init"} => fdOf[t] = 0

Descriptors == DescriptorsHeld /\ FewInstances

\* The directory that is watched and inserted is in ht_dirs.
ScanOrder == pc["backup_loop"] \in {"load", "store", "insert"} => dirTable # {}

\* open_inotify_fd is for the parts of a thread that follow.
LabelsOK == pc \in [Threads -> ScannerLabels \cup WatcherLabels]

\* A thread is created once.
StartOrder ==
  /\ main = "create backup_loop" => pc["backup_loop"] = "none"
  /\ main \in {"create backup_loop", "create general_loop"} => pc["general_loop"] = "none"

TypeInv == TypeOK /\ LabelsOK /\ Descriptors /\ ScanOrder /\ StartOrder

LEMMA InitTypeInv == Init => TypeInv
  <1>1. <<>> \in Seq(Events) /\ <<>> \in Seq(Nodes)
    OBVIOUS
  <1>2. Len(<<>>) = 0
    OBVIOUS
  <1>3. SUFFICES ASSUME Init PROVE TypeInv
    OBVIOUS
  <1>4. /\ pc = [t \in Threads |-> "none"]
        /\ "none" \in ScannerLabels /\ "none" \in WatcherLabels
        /\ pc["backup_loop"] = "none" /\ pc["general_loop"] = "none"
    BY <1>3 DEF Init, Threads, SharedLabels, ScannerLabels, WatcherLabels
  <1>5. /\ fdOf = [t \in Threads |-> 0] /\ made = 0
        /\ fdOf["backup_loop"] = 0 /\ fdOf["general_loop"] = 0
    BY <1>3 DEF Init, Threads
  <1>6. kqueue \in [Instances -> Seq(Events)] /\ watches \in [Instances -> SUBSET Dirs]
    BY <1>1, <1>3 DEF Init
  <1>7. hi \in 0..Len(chain) /\ chain \in Seq(Nodes) /\ queue \in Seq(Events)
    <2>1. hi = 0 /\ chain = <<>> /\ queue = <<>>
      BY <1>3 DEF Init
    <2>2. QED
      BY <1>1, <1>2, <2>1
  <1>8. /\ version \in [Files -> 0..MaxWrites] /\ backup \in [Names -> 0..MaxWrites]
        /\ writes \in 0..MaxWrites /\ leaked \in 0..MaxDirFds
    <2>1. 0 \in 0..MaxWrites /\ 0 \in 0..MaxDirFds
      BY ConstantsAssumption
    <2>2. QED
      BY <1>3, <2>1 DEF Init
  <1>9. TypeOK
    BY <1>3, <1>4, <1>5, <1>6, <1>7, <1>8, ConstantsAssumption
       DEF Init, TypeOK, MainLabels, Dirs, Nodes, Instances
  <1>10. LabelsOK
    BY <1>4 DEF LabelsOK
  <1>11. Descriptors /\ ScanOrder
    BY <1>4, <1>5 DEF Descriptors, DescriptorsHeld, FewInstances, ScanOrder, WithDescriptor,
                      Threads, Has
  <1>12. StartOrder
    BY <1>4 DEF StartOrder
  <1>13. QED
    BY <1>9, <1>10, <1>11, <1>12 DEF TypeInv

LEMMA TypeUnchanged == TypeInv /\ UNCHANGED vars => TypeInv'
  BY DEF TypeInv, TypeOK, LabelsOK, Descriptors, DescriptorsHeld, FewInstances, Has, ScanOrder, StartOrder, vars

\* A thread goes to one of its labels; the other one stays where it is.
LEMMA ScannerGoes ==
  ASSUME TypeInv, NEW l \in ScannerLabels, Goto("backup_loop", l)
  PROVE  /\ LabelsOK'
         /\ pc'["backup_loop"] = l /\ pc'["general_loop"] = pc["general_loop"]
         /\ pc'["backup_loop"] \in ScannerLabels /\ pc'["general_loop"] \in WatcherLabels
  BY DEF TypeInv, TypeOK, LabelsOK, Goto, Threads

LEMMA WatcherGoes ==
  ASSUME TypeInv, NEW l \in WatcherLabels, Goto("general_loop", l)
  PROVE  /\ LabelsOK'
         /\ pc'["general_loop"] = l /\ pc'["backup_loop"] = pc["backup_loop"]
         /\ pc'["backup_loop"] \in ScannerLabels /\ pc'["general_loop"] \in WatcherLabels
  BY DEF TypeInv, TypeOK, LabelsOK, Goto, Threads

LEMMA LabelsAre ==
  /\ {"scan", "open", "init", "watch", "load", "store", "insert", "count", "use after free",
    "done"} \subseteq ScannerLabels
  /\ {"open", "init", "watch root", "load", "store", "poll", "read", "dequeue", "walk",
      "close", "done"} \subseteq WatcherLabels
  BY DEF SharedLabels, ScannerLabels, WatcherLabels

\* The steps of start() change its own variables and the first label of a thread.
LEMMA MainThreadType == TypeInv /\ MainThread => TypeInv'
  <1> SUFFICES ASSUME TypeInv, MainThread PROVE TypeInv'
    OBVIOUS
  <1> USE DEF MainUnchanged, fdVars, inoVars, cntVars, scanVars, evVars, fsVars
  <1>1. ASSUME main' \in MainLabels \ {"create backup_loop", "create general_loop"},
               UNCHANGED <<pc, keepRunning>>,
               freed' \in BOOLEAN, proc' \in {"running", "exited", "crashed"}, MainUnchanged
        PROVE  TypeInv'
    BY <1>1 DEF TypeInv, TypeOK, LabelsOK, Descriptors, DescriptorsHeld, FewInstances, Has, ScanOrder, StartOrder
  <1>2. ASSUME CreateThread("backup_loop", "scan", "create backup_loop", "create general_loop"),
               Goto("backup_loop", "scan"), main' = "create general_loop"
        PROVE  TypeInv'
    <2>1. /\ LabelsOK'
          /\ pc'["backup_loop"] = "scan" /\ pc'["general_loop"] = pc["general_loop"]
          /\ pc'["backup_loop"] \in ScannerLabels /\ pc'["general_loop"] \in WatcherLabels
      BY <1>2, ScannerGoes, LabelsAre
    <2>2. TypeOK'
      BY <1>2, <2>1 DEF TypeInv, TypeOK, CreateThread, MainLabels
    <2>3. pc["backup_loop"] = "none" /\ pc["general_loop"] = "none"
      BY <1>2 DEF TypeInv, StartOrder, CreateThread
    <2>4. Descriptors' /\ ScanOrder' /\ StartOrder'
      BY <1>2, <2>1, <2>3 DEF TypeInv, Descriptors, DescriptorsHeld, FewInstances, Has, ScanOrder, StartOrder, Threads,
                              WithDescriptor, CreateThread
    <2>5. QED
      BY <2>1, <2>2, <2>4 DEF TypeInv
  <1>3. ASSUME CreateThread("general_loop", "open", "create general_loop", "sleep"),
               Goto("general_loop", "open"), main' = "sleep"
        PROVE  TypeInv'
    <2>1. /\ LabelsOK'
          /\ pc'["general_loop"] = "open" /\ pc'["backup_loop"] = pc["backup_loop"]
          /\ pc'["backup_loop"] \in ScannerLabels /\ pc'["general_loop"] \in WatcherLabels
      BY <1>3, WatcherGoes, LabelsAre
    <2>2. TypeOK'
      BY <1>3, <2>1 DEF TypeInv, TypeOK, CreateThread, MainLabels
    <2>3. pc["general_loop"] = "none"
      BY <1>3 DEF TypeInv, StartOrder, CreateThread
    <2>4. Descriptors' /\ ScanOrder' /\ StartOrder'
      BY <1>3, <2>1, <2>3 DEF TypeInv, Descriptors, DescriptorsHeld, FewInstances, Has, ScanOrder, StartOrder, Threads,
                              WithDescriptor, CreateThread
    <2>5. QED
      BY <2>1, <2>2, <2>4 DEF TypeInv
  <1>4. ASSUME NEW t \in Threads, NEW l, NEW m, NEW n, CreateThread(t, l, m, n),
               main' = "free", UNCHANGED pc
        PROVE  TypeInv'
    BY <1>1, <1>4 DEF CreateThread, TypeInv, TypeOK, MainLabels
  <1>5. ASSUME WakeUp PROVE TypeInv'
    BY <1>1, <1>5 DEF WakeUp, TypeInv, TypeOK, MainLabels
  <1>6. ASSUME NEW t \in Threads, NEW m, NEW n \in {"join general_loop", "free"},
               JoinThread(t, m, n)
        PROVE  TypeInv'
    BY <1>1, <1>6 DEF JoinThread, TypeInv, TypeOK, MainLabels
  <1>7. ASSUME FreeTable PROVE TypeInv'
    BY <1>1, <1>7 DEF FreeTable, TypeInv, TypeOK, MainLabels
  <1>8. ASSUME Return PROVE TypeInv'
    BY <1>1, <1>8 DEF Return, TypeInv, TypeOK, MainLabels
  <1>9. QED
    BY <1>2, <1>3, <1>4, <1>5, <1>6, <1>7, <1>8 DEF MainThread, CreateThread, Threads

\* What users do changes files, directories and the kernel's side of inotify only.
LEMMA UsersType == TypeInv /\ (Users \/ Sigint) => TypeInv'
  <1> SUFFICES ASSUME TypeInv, Users \/ Sigint PROVE TypeInv'
    OBVIOUS
  <1> USE DEF mainVars, fdVars, inoVars, cntVars, scanVars, evVars, fsVars
  <1>1. ASSUME keepRunning' \in BOOLEAN, kqueue' \in [Instances -> Seq(Events)],
               watches' \in [Instances -> SUBSET Dirs], dirs' \subseteq Dirs,
               version' \in [Files -> 0..MaxWrites], writes' \in 0..MaxWrites,
               UNCHANGED <<proc, main, freed, pc, fdVars, closed, cntVars, scanVars,
                           evVars, world>>
        PROVE  TypeInv'
    <2>1. TypeOK'
      BY <1>1 DEF TypeInv, TypeOK
    <2>2. LabelsOK' /\ ScanOrder' /\ StartOrder'
      BY <1>1 DEF TypeInv, LabelsOK, ScanOrder, StartOrder
    <2>3. Descriptors'
      BY <1>1 DEF TypeInv, Descriptors, DescriptorsHeld, FewInstances, Has
    <2>4. QED
      BY <2>1, <2>2, <2>3 DEF TypeInv
  <1>2. ASSUME NEW f \in Files, WriteFile(f) PROVE TypeInv'
    <2>1. f[1] \in Dirs /\ f[2] \in Names
      BY ConstantsAssumption
    <2>2. [kind |-> "written", wd |-> f[1], name |-> f[2]] \in Events
      BY <2>1 DEF Events, Kinds
    <2>3. kqueue' \in [Instances -> Seq(Events)]
      BY <1>2, <2>2, NotifyType DEF WriteFile, TypeInv
    <2>4. writes' \in 0..MaxWrites /\ version' \in [Files -> 0..MaxWrites]
      BY <1>2, ConstantsAssumption DEF WriteFile, TypeInv, TypeOK
    <2>5. QED
      BY <1>1, <1>2, <2>3, <2>4 DEF WriteFile, TypeInv, TypeOK
  <1>3. ASSUME NEW f \in Files, RemoveFile(f) PROVE TypeInv'
    <2>1. f[1] \in Dirs /\ f[2] \in Names
      BY ConstantsAssumption
    <2>2. PICK k \in {"deleted", "movedFrom"} :
            Notify(f[1], [kind |-> k, wd |-> f[1], name |-> f[2]])
      BY <1>3 DEF RemoveFile
    <2>3. [kind |-> k, wd |-> f[1], name |-> f[2]] \in Events
      BY <2>1 DEF Events, Kinds
    <2>4. kqueue' \in [Instances -> Seq(Events)]
      BY <2>2, <2>3, NotifyType DEF TypeInv
    <2>5. version' \in [Files -> 0..MaxWrites]
      BY <1>3, ConstantsAssumption DEF RemoveFile, TypeInv, TypeOK
    <2>6. QED
      BY <1>1, <1>3, <2>4, <2>5 DEF RemoveFile, TypeInv, TypeOK
  <1>4. ASSUME NEW d \in Dirs, RemoveDir(d) PROVE TypeInv'
    <2> DEFINE self == [kind |-> "nameless", wd |-> d, name |-> NoName]
               gone == [kind |-> "subdir", wd |-> Root, name |-> NoName]
               q(i) == IF d \in watches[i] THEN Deliver(kqueue[i], self) ELSE kqueue[i]
    <2>1. self \in Events /\ gone \in Events
      BY DEF Events, Kinds, Dirs
    <2>2. ASSUME NEW i \in Instances
          PROVE  q(i) \in Seq(Events) /\ Deliver(q(i), gone) \in Seq(Events)
      <3>1. kqueue[i] \in Seq(Events)
        BY DEF TypeInv, TypeOK
      <3> HIDE DEF self, gone
      <3>2. q(i) \in Seq(Events)
        BY <2>1, <3>1, DeliverType
      <3> HIDE DEF q
      <3>3. QED
        BY <2>1, <3>2, DeliverType
    <2>3. kqueue' = [i \in Instances |-> IF d # Root /\ Root \in watches[i]
                                         THEN Deliver(q(i), gone) ELSE q(i)]
      BY <1>4 DEF RemoveDir
    <2> HIDE DEF q, gone
    <2>4. kqueue' \in [Instances -> Seq(Events)]
      BY <2>2, <2>3
    <2>5. watches' \in [Instances -> SUBSET Dirs] /\ dirs' \subseteq Dirs
      BY <1>4 DEF RemoveDir, TypeInv, TypeOK
    <2>6. QED
      BY <1>1, <1>4, <2>4, <2>5 DEF RemoveDir, TypeInv, TypeOK
  <1>5. ASSUME Sigint PROVE TypeInv'
    BY <1>1, <1>5 DEF Sigint, TypeInv, TypeOK
  <1>6. QED
    BY <1>2, <1>3, <1>4, <1>5 DEF Users

LEMMA ThreadGoes ==
  ASSUME TypeInv, NEW t \in Threads, NEW l, Goto(t, l),
         t = "backup_loop" => l \in ScannerLabels,
         t = "general_loop" => l \in WatcherLabels
  PROVE  /\ LabelsOK'
         /\ pc'[t] = l /\ \A u \in Threads \ {t} : pc'[u] = pc[u]
         /\ pc'["backup_loop"] \in ScannerLabels /\ pc'["general_loop"] \in WatcherLabels
  BY ScannerGoes, WatcherGoes DEF Threads

\* A thread that has been created finds start() behind its creation.
LEMMA Created ==
  ASSUME TypeInv, UNCHANGED main, NEW t \in Threads, pc[t] # "none",
         \A u \in Threads \ {t} : pc'[u] = pc[u]
  PROVE  StartOrder'
  BY DEF TypeInv, StartOrder, Threads

\* open_inotify_fd and watched_items++, in either thread.
LEMMA OpenType ==
  ASSUME TypeInv, NEW t \in Threads, OpenInotify(t)
  PROVE  TypeInv'
  <1> USE DEF mainVars, fdVars, inoVars, cntVars, scanVars, evVars, fsVars
  <1>1. ASSUME NEW l \in {"init", "done", "count", "watch", "watch root", "store", "insert", "poll"},
               t = "backup_loop" => l \in ScannerLabels,
               t = "general_loop" => l \in WatcherLabels,
               Goto(t, l),
               pc[t] # "none",
               staticFd' \in Instances \cup {-1, 0}, made' \in {0} \cup Instances,
               fdOf' \in [Threads -> Instances \cup {-1, 0}],
               watched' \in Nat, loaded' \in [Threads -> Nat],
               UNCHANGED <<mainVars, inoVars, scanVars, evVars, fsVars>>
        PROVE  /\ TypeOK' /\ LabelsOK' /\ StartOrder'
               /\ pc'[t] = l /\ \A u \in Threads \ {t} : pc'[u] = pc[u]
    <2>1. /\ LabelsOK'
          /\ pc'[t] = l /\ \A u \in Threads \ {t} : pc'[u] = pc[u]
          /\ pc'["backup_loop"] \in ScannerLabels /\ pc'["general_loop"] \in WatcherLabels
      BY <1>1, ThreadGoes
    <2>2. TypeOK'
      BY <1>1, <2>1 DEF TypeInv, TypeOK
    <2>3. StartOrder'
      BY <1>1, <2>1, Created
    <2>4. QED
      BY <2>1, <2>2, <2>3
  <1>2. ASSUME NEW fd \in Instances \cup {-1, 0}
        PROVE  /\ Opened(t, fd) \in {"done", "count", "watch", "watch root"}
               /\ t = "backup_loop" => Opened(t, fd) \in ScannerLabels
               /\ t = "general_loop" => Opened(t, fd) \in WatcherLabels
               /\ Opened(t, fd) \notin {"done", "count"} => fd \in Instances
    <2>1. CASE fd <= 0
      <3>1. ~(fd > 0)
        BY <2>1 DEF Instances
      <3>2. QED
        BY <3>1, LabelsAre DEF Opened, Threads
    <2>2. CASE fd \in Instances
      <3>1. fd > 0
        BY <2>2 DEF Instances
      <3>2. QED
        BY <2>2, <3>1, LabelsAre DEF Opened, Threads
    <2>3. fd <= 0 \/ fd \in Instances
      OBVIOUS
    <2>4. QED
      BY <2>1, <2>2, <2>3
  <1>3. CASE TestFd(t) /\ staticFd # 0
    <2>1. /\ Goto(t, Opened(t, staticFd)) /\ fdOf' = [fdOf EXCEPT ![t] = staticFd]
          /\ fdOf[t] = 0 /\ pc[t] = "open"
      BY <1>3 DEF TestFd, TypeInv, Descriptors, DescriptorsHeld
    <2>2. staticFd \in Instances \cup {-1, 0} /\ fdOf \in [Threads -> Instances \cup {-1, 0}]
      BY DEF TypeInv, TypeOK
    <2>3. /\ TypeOK' /\ LabelsOK' /\ StartOrder'
          /\ pc'[t] = Opened(t, staticFd) /\ \A u \in Threads \ {t} : pc'[u] = pc[u]
      <3>1. fdOf' \in [Threads -> Instances \cup {-1, 0}]
        BY <2>1, <2>2
      <3>2. /\ staticFd' \in Instances \cup {-1, 0} /\ made' \in {0} \cup Instances
            /\ watched' \in Nat /\ loaded' \in [Threads -> Nat]
            /\ UNCHANGED <<mainVars, inoVars, scanVars, evVars, fsVars>>
        BY <1>3 DEF TestFd, TypeInv, TypeOK
      <3> DEFINE l == Opened(t, staticFd)
      <3>3. /\ l \in {"init", "done", "count", "watch", "watch root", "store", "insert", "poll"}
            /\ t = "backup_loop" => l \in ScannerLabels
            /\ t = "general_loop" => l \in WatcherLabels
            /\ Goto(t, l) /\ pc[t] # "none"
        BY <1>2, <2>1, <2>2
      <3> HIDE DEF l
      <3>4. /\ TypeOK' /\ LabelsOK' /\ StartOrder'
            /\ pc'[t] = l /\ \A u \in Threads \ {t} : pc'[u] = pc[u]
        BY <1>1, <3>1, <3>2, <3>3
      <3>5. QED
        BY <3>4 DEF l
    <2>4. ScanOrder'
      BY <1>2, <1>3, <2>2, <2>3 DEF TestFd, TypeInv, ScanOrder, Threads
    <2>5. DescriptorsHeld'
      BY <1>2, <2>1, <2>2, <2>3 DEF TypeInv, Descriptors, DescriptorsHeld, WithDescriptor
    <2>6. UNCHANGED made /\ fdOf'[t] # 0 /\ \A u \in Threads \ {t} : fdOf'[u] = fdOf[u]
      BY <1>3, <2>1, <2>2 DEF TestFd
    <2>7. FewInstances'
      BY <2>1, <2>6 DEF TypeInv, TypeOK, Descriptors, DescriptorsHeld, FewInstances, Has, Threads, Instances
    <2>8. QED
      BY <2>3, <2>4, <2>5, <2>7 DEF TypeInv, Descriptors
  <1>4. CASE TestFd(t) /\ staticFd = 0
    <2>1. Goto(t, "init") /\ fdOf[t] = 0 /\ pc[t] = "open" /\ UNCHANGED fdOf
      BY <1>4 DEF TestFd, TypeInv, Descriptors, DescriptorsHeld
    <2>2. /\ TypeOK' /\ LabelsOK' /\ StartOrder'
          /\ pc'[t] = "init" /\ \A u \in Threads \ {t} : pc'[u] = pc[u]
      BY <1>1, <1>4, <2>1, LabelsAre DEF TestFd, TypeInv, TypeOK
    <2>3. ScanOrder' /\ Descriptors'
      BY <1>4, <2>1, <2>2
         DEF TestFd, TypeInv, ScanOrder, Descriptors, DescriptorsHeld, FewInstances, Has, Threads, WithDescriptor
    <2>4. QED
      BY <2>2, <2>3 DEF TypeInv
  <1>5. CASE InitFd(t)
    <2>1. pc[t] = "init" /\ fdOf[t] = 0 /\ made + 1 \in Instances
      <3>1. pc[t] = "init" /\ fdOf[t] = 0
        BY <1>5 DEF InitFd, TypeInv, Descriptors, DescriptorsHeld
      <3>2. made <= 1 /\ made \in {0, 1, 2}
        BY <3>1 DEF TypeInv, TypeOK, Descriptors, DescriptorsHeld, FewInstances, Has, Threads, Instances
      <3>3. QED
        BY <3>1, <3>2 DEF Instances
    <2>2. PICK fd \in {made + 1} \cup (IF "init" \in Disturbances THEN {-1} ELSE {}) :
            /\ staticFd' = fd
            /\ made' = IF fd > 0 THEN fd ELSE made
            /\ fdOf' = [fdOf EXCEPT ![t] = fd]
            /\ Goto(t, Opened(t, fd))
      BY <1>5 DEF InitFd
    <2>3. fd \in Instances \cup {-1, 0}
      BY <2>1
    <2>4. /\ TypeOK' /\ LabelsOK' /\ StartOrder'
          /\ pc'[t] = Opened(t, fd) /\ \A u \in Threads \ {t} : pc'[u] = pc[u]
      <3>1. staticFd' \in Instances \cup {-1, 0} /\ made' \in {0} \cup Instances
        BY <2>1, <2>2, <2>3 DEF TypeInv, TypeOK
      <3>2. fdOf' \in [Threads -> Instances \cup {-1, 0}]
        BY <2>2, <2>3 DEF TypeInv, TypeOK
      <3>3. /\ watched' \in Nat /\ loaded' \in [Threads -> Nat]
            /\ UNCHANGED <<mainVars, inoVars, scanVars, evVars, fsVars>>
        BY <1>5 DEF InitFd, TypeInv, TypeOK
      <3> DEFINE l == Opened(t, fd)
      <3>4. /\ l \in {"init", "done", "count", "watch", "watch root", "store", "insert", "poll"}
            /\ t = "backup_loop" => l \in ScannerLabels
            /\ t = "general_loop" => l \in WatcherLabels
            /\ Goto(t, l) /\ pc[t] # "none"
        BY <1>2, <2>1, <2>2, <2>3
      <3> HIDE DEF l
      <3>5. /\ TypeOK' /\ LabelsOK' /\ StartOrder'
            /\ pc'[t] = l /\ \A u \in Threads \ {t} : pc'[u] = pc[u]
        BY <1>1, <3>1, <3>2, <3>3, <3>4
      <3>6. QED
        BY <3>5 DEF l
    <2>5. ScanOrder'
      BY <1>2, <1>5, <2>3, <2>4 DEF InitFd, TypeInv, ScanOrder, Threads
    <2>6. DescriptorsHeld'
      BY <1>2, <2>2, <2>3, <2>4 DEF TypeInv, TypeOK, Descriptors, DescriptorsHeld, WithDescriptor
    <2>7. FewInstances'
      BY <2>1, <2>2 DEF TypeInv, TypeOK, Descriptors, DescriptorsHeld, FewInstances, Has, Threads, Instances
    <2>8. QED
      BY <2>4, <2>5, <2>6, <2>7 DEF TypeInv, Descriptors
  <1>6. CASE LoadCount(t)
    <2>1. /\ TypeOK' /\ LabelsOK' /\ StartOrder'
          /\ pc'[t] = "store" /\ \A u \in Threads \ {t} : pc'[u] = pc[u]
      BY <1>1, <1>6, LabelsAre DEF LoadCount, TypeInv, TypeOK
    <2>2. ScanOrder' /\ Descriptors'
      BY <1>6, <2>1
         DEF LoadCount, TypeInv, ScanOrder, Descriptors, DescriptorsHeld, FewInstances, Has, Threads, WithDescriptor
    <2>3. QED
      BY <2>1, <2>2 DEF TypeInv
  <1>7. CASE StoreCount(t)
    <2> DEFINE l == IF t = "backup_loop" THEN "insert" ELSE "poll"
    <2>1. /\ l \in {"init", "done", "count", "watch", "watch root", "store", "insert", "poll"}
          /\ l \in {"insert", "poll"}
          /\ t = "backup_loop" => l \in ScannerLabels
          /\ t = "general_loop" => l \in WatcherLabels
      BY LabelsAre
    <2>2. Goto(t, l) /\ watched' \in Nat /\ loaded' \in [Threads -> Nat]
      BY <1>7 DEF StoreCount, TypeInv, TypeOK
    <2> HIDE DEF l
    <2>3. /\ TypeOK' /\ LabelsOK' /\ StartOrder'
          /\ pc'[t] = l /\ \A u \in Threads \ {t} : pc'[u] = pc[u]
      BY <1>1, <1>7, <2>1, <2>2 DEF StoreCount, TypeInv, TypeOK
    <2>4. ScanOrder' /\ Descriptors'
      BY <1>7, <2>1, <2>3
         DEF StoreCount, TypeInv, ScanOrder, Descriptors, DescriptorsHeld, FewInstances, Has, Threads, WithDescriptor
    <2>5. QED
      BY <2>3, <2>4 DEF TypeInv
  <1>8. QED
    BY <1>3, <1>4, <1>5, <1>6, <1>7 DEF OpenInotify

\* A step that leaves both threads where they are, or moves one of them between labels
\* that need a descriptor (or to its end), leaves the order of the labels.
LEMMA OrderKept ==
  ASSUME TypeInv, UNCHANGED <<main, fdOf, made>>, NEW t \in Threads,
         \A u \in Threads \ {t} : pc'[u] = pc[u],
         \/ pc'[t] = pc[t]
         \/ pc[t] \in WithDescriptor /\ pc'[t] \in WithDescriptor \cup {"done", "count"}
         \/ pc[t] = "scan" /\ pc'[t] = "open"
         \/ pc[t] = "count" /\ pc'[t] = "done"
  PROVE  Descriptors' /\ StartOrder'
  <1>1. DescriptorsHeld'
    BY DEF TypeInv, Descriptors, DescriptorsHeld, WithDescriptor
  <1>2. FewInstances'
    BY DEF TypeInv, Descriptors, FewInstances, Has
  <1>3. StartOrder'
    BY DEF TypeInv, StartOrder, Threads, WithDescriptor
  <1>4. QED
    BY <1>1, <1>2, <1>3 DEF Descriptors

\* The steps of backup_loop.
LEMMA BackupLoopType == TypeInv /\ BackupLoop => TypeInv'
  <1> SUFFICES ASSUME TypeInv, BackupLoop PROVE TypeInv'
    OBVIOUS
  <1> USE DEF mainVars, fdVars, inoVars, cntVars, scanVars, evVars, fsVars
  <1>1. CASE OpenInotify("backup_loop")
    BY <1>1, OpenType DEF Threads
  <1>2. CASE Scan
    <2>1. PICK p \in scan :
            IF p \in Dirs
            THEN /\ scan' = (scan \ {p}) \cup Children(p)
                 /\ dirTable' \in {dirTable, dirTable \cup {p}}
                 /\ UNCHANGED chain
            ELSE scan' = scan \ {p} /\ chain' = Insert(chain, p) /\ UNCHANGED dirTable
      BY <1>2 DEF Scan
    <2>2. scan \subseteq Nodes /\ p \in Nodes /\ Children(p) \subseteq Nodes
      BY DEF TypeInv, TypeOK, Children, Nodes, Dirs
    <2>3. scan' \subseteq Nodes /\ dirTable' \subseteq Dirs
      BY <2>1, <2>2 DEF TypeInv, TypeOK
    <2>4. chain' \in Seq(Nodes) /\ Len(chain) <= Len(chain') /\ Len(chain) \in Nat
          /\ Len(chain') \in Nat
      BY <2>1, <2>2, InsertType DEF TypeInv, TypeOK
    <2>5. hi' \in 0..Len(chain')
      BY <1>2, <2>4 DEF Scan, TypeInv, TypeOK
    <2>6. TypeOK'
      BY <1>2, <2>3, <2>4, <2>5 DEF Scan, TypeInv, TypeOK
    <2>7. LabelsOK' /\ ScanOrder' /\ Descriptors' /\ StartOrder'
      BY <1>2, OrderKept DEF Scan, TypeInv, LabelsOK, ScanOrder, Threads
    <2>8. QED
      BY <2>6, <2>7 DEF TypeInv
  <1>3. CASE ScanEnds
    <2>1. /\ LabelsOK'
          /\ pc'["backup_loop"] = "open" /\ pc'["general_loop"] = pc["general_loop"]
          /\ pc'["backup_loop"] \in ScannerLabels /\ pc'["general_loop"] \in WatcherLabels
      BY <1>3, ScannerGoes, LabelsAre DEF ScanEnds
    <2>2. TypeOK' /\ ScanOrder'
      BY <1>3, <2>1 DEF ScanEnds, TypeInv, TypeOK, ScanOrder
    <2>3. Descriptors' /\ StartOrder'
      BY <1>3, <2>1, OrderKept DEF ScanEnds, Threads
    <2>4. QED
      BY <2>1, <2>2, <2>3 DEF TypeInv
  <1>4. CASE WatchDir
    <2>1. PICK l \in {"count", "insert", "load", "use after free"} :
            /\ Goto("backup_loop", l)
            /\ l \in {"insert", "load"} => dirTable # {}
            /\ \/ UNCHANGED watches
               \/ dirTable # {} /\ watches' = [watches EXCEPT ![fdOf["backup_loop"]] = @ \cup {Current}]
      BY <1>4 DEF WatchDir, AddWatch
    <2>2. /\ LabelsOK'
          /\ pc'["backup_loop"] = l /\ pc'["general_loop"] = pc["general_loop"]
          /\ pc'["backup_loop"] \in ScannerLabels /\ pc'["general_loop"] \in WatcherLabels
      BY <2>1, ScannerGoes, LabelsAre
    <2>3. watches' \in [Instances -> SUBSET Dirs]
      <3>1. dirTable # {} => Current \in Dirs
        BY CurrentIsHeld DEF TypeInv, TypeOK
      <3>2. watches \in [Instances -> SUBSET Dirs]
        BY DEF TypeInv, TypeOK
      <3>3. ASSUME NEW d \in Dirs, NEW i
            PROVE  [watches EXCEPT ![i] = @ \cup {d}] \in [Instances -> SUBSET Dirs]
        BY <3>2
      <3>4. dirTable # {}
              => [watches EXCEPT ![fdOf["backup_loop"]] = @ \cup {Current}]
                   \in [Instances -> SUBSET Dirs]
        BY <3>1, <3>3
      <3>5. QED
        BY <2>1, <3>2, <3>4
    <2>4. TypeOK' /\ ScanOrder'
      BY <1>4, <2>1, <2>2, <2>3 DEF WatchDir, TypeInv, TypeOK, ScanOrder
    <2>5. Descriptors' /\ StartOrder'
      BY <1>4, <2>1, <2>2, OrderKept DEF WatchDir, Threads, WithDescriptor
    <2>6. QED
      BY <2>2, <2>4, <2>5 DEF TypeInv
  <1>5. CASE InsertDir
    <2>1. /\ LabelsOK'
          /\ pc'["backup_loop"] = "watch" /\ pc'["general_loop"] = pc["general_loop"]
          /\ pc'["backup_loop"] \in ScannerLabels /\ pc'["general_loop"] \in WatcherLabels
      BY <1>5, ScannerGoes, LabelsAre DEF InsertDir
    <2>2. Current \in Nodes
      BY <1>5, CurrentIsHeld DEF InsertDir, TypeInv, TypeOK, ScanOrder, Nodes
    <2>3. chain' \in Seq(Nodes) /\ Len(chain) <= Len(chain') /\ Len(chain) \in Nat
          /\ Len(chain') \in Nat
      BY <1>5, <2>2, InsertType DEF InsertDir, TypeInv, TypeOK
    <2>4. hi' \in 0..Len(chain')
      BY <1>5, <2>3 DEF InsertDir, TypeInv, TypeOK
    <2>5. TypeOK' /\ ScanOrder'
      BY <1>5, <2>1, <2>3, <2>4 DEF InsertDir, TypeInv, TypeOK, ScanOrder
    <2>6. Descriptors' /\ StartOrder'
      BY <1>5, <2>1, OrderKept DEF InsertDir, Threads, WithDescriptor
    <2>7. QED
      BY <2>1, <2>5, <2>6 DEF TypeInv
  <1>6. CASE ReadCount
    <2>1. /\ LabelsOK'
          /\ pc'["backup_loop"] = "done" /\ pc'["general_loop"] = pc["general_loop"]
          /\ pc'["backup_loop"] \in ScannerLabels /\ pc'["general_loop"] \in WatcherLabels
      BY <1>6, ScannerGoes, LabelsAre DEF ReadCount
    <2>2. TypeOK' /\ ScanOrder'
      BY <1>6, <2>1 DEF ReadCount, TypeInv, TypeOK, ScanOrder
    <2>3. Descriptors' /\ StartOrder'
      BY <1>6, <2>1, OrderKept DEF ReadCount, Threads, WithDescriptor
    <2>4. QED
      BY <2>1, <2>2, <2>3 DEF TypeInv
  <1>7. QED
    BY <1>1, <1>2, <1>3, <1>4, <1>5, <1>6 DEF BackupLoop

\* The steps of general_loop.
LEMMA MyEventsType ==
  ASSUME TypeInv, pc["general_loop"] = "read"
  PROVE  MyEvents \in Seq(Events) /\ fdOf["general_loop"] \in Instances
  BY DEF TypeInv, TypeOK, Descriptors, DescriptorsHeld, WithDescriptor, MyEvents, Threads

LEMMA GeneralLoopType == TypeInv /\ GeneralLoop => TypeInv'
  <1> SUFFICES ASSUME TypeInv, GeneralLoop PROVE TypeInv'
    OBVIOUS
  <1> USE DEF mainVars, fdVars, inoVars, cntVars, scanVars, evVars, fsVars, OtherUnchanged
  <1>1. CASE OpenInotify("general_loop")
    BY <1>1, OpenType DEF Threads
  <1>2. ASSUME \/ UNCHANGED pc
               \/ \E l \in {"load", "close", "read", "poll", "walk", "dequeue", "done"} :
                    Goto("general_loop", l),
               pc["general_loop"] \in WithDescriptor,
               UNCHANGED <<main, dirTable, fdOf, made>>
        PROVE  /\ pc'["backup_loop"] \in ScannerLabels /\ pc'["general_loop"] \in WatcherLabels
               /\ LabelsOK' /\ ScanOrder' /\ Descriptors' /\ StartOrder'
    <2>1. CASE UNCHANGED pc
      <3>1. Descriptors' /\ StartOrder'
        BY <1>2, <2>1, OrderKept DEF Threads
      <3>2. QED
        BY <1>2, <2>1, <3>1 DEF TypeInv, TypeOK, LabelsOK, ScanOrder
    <2>2. ASSUME NEW l \in {"load", "close", "read", "poll", "walk", "dequeue", "done"},
                 Goto("general_loop", l)
          PROVE  /\ pc'["backup_loop"] \in ScannerLabels /\ pc'["general_loop"] \in WatcherLabels
                 /\ LabelsOK' /\ ScanOrder' /\ Descriptors' /\ StartOrder'
      <3>1. /\ LabelsOK'
            /\ pc'["general_loop"] = l /\ pc'["backup_loop"] = pc["backup_loop"]
            /\ pc'["backup_loop"] \in ScannerLabels /\ pc'["general_loop"] \in WatcherLabels
        BY <2>2, WatcherGoes, LabelsAre
      <3>2. Descriptors' /\ StartOrder'
        BY <1>2, <3>1, OrderKept DEF Threads, WithDescriptor
      <3>3. ScanOrder'
        BY <1>2, <3>1 DEF TypeInv, ScanOrder
      <3>4. QED
        BY <3>1, <3>2, <3>3
    <2>3. QED
      BY <1>2, <2>1, <2>2
  <1>3. ASSUME proc' \in {"running", "exited", "crashed"},
               kqueue' \in [Instances -> Seq(Events)], queue' \in Seq(Events),
               event' \in Events \cup {NoEvent}, hi' \in 0..Len(chain), pathToDir' \in Dirs,
               leaked' \in 0..MaxDirFds, backup' \in [Names -> 0..MaxWrites],
               \/ UNCHANGED pc
               \/ \E l \in {"load", "close", "read", "poll", "walk", "dequeue", "done"} :
                    Goto("general_loop", l),
               pc["general_loop"] \in WithDescriptor,
               OtherUnchanged
        PROVE  TypeInv'
    <2>1. /\ pc'["backup_loop"] \in ScannerLabels /\ pc'["general_loop"] \in WatcherLabels
          /\ LabelsOK' /\ ScanOrder' /\ Descriptors' /\ StartOrder'
      BY <1>2, <1>3
    <2>2. TypeOK'
      BY <1>3, <2>1 DEF TypeInv, TypeOK
    <2>3. QED
      BY <2>1, <2>2 DEF TypeInv
  <1>4. CASE WatchRoot
    <2>1. Goto("general_loop", "load") /\ pc["general_loop"] \in WithDescriptor
      BY <1>4 DEF WatchRoot, AddWatch, WithDescriptor
    <2>2. /\ pc'["backup_loop"] \in ScannerLabels /\ pc'["general_loop"] \in WatcherLabels
          /\ LabelsOK' /\ ScanOrder' /\ Descriptors' /\ StartOrder'
      BY <1>2, <1>4, <2>1 DEF WatchRoot
    <2>3. watches' \in [Instances -> SUBSET Dirs]
      BY <1>4 DEF WatchRoot, AddWatch, TypeInv, TypeOK, Dirs
    <2>4. TypeOK'
      BY <1>4, <2>2, <2>3 DEF WatchRoot, TypeInv, TypeOK
    <2>5. QED
      BY <2>2, <2>4 DEF TypeInv
  <1>5. CASE PollEvent
    BY <1>3, <1>5 DEF PollEvent, TypeInv, TypeOK, WithDescriptor
  <1>6. CASE ReadEvents
    <2>1. /\ pc["general_loop"] = "read" /\ pc["general_loop"] \in WithDescriptor
          /\ UNCHANGED <<proc, event, hi, pathToDir, leaked, backup>>
          /\ OtherUnchanged
          /\ Goto("general_loop", "dequeue") \/ Goto("general_loop", "done")
      BY <1>6 DEF ReadEvents, WithDescriptor
    <2>2. MyEvents \in Seq(Events) /\ fdOf["general_loop"] \in Instances
      BY <2>1, MyEventsType
    <2>3. ReadSize \in 0..Len(MyEvents)
      BY <2>2, ConstantsAssumption DEF ReadSize
    <2>4. queue' \in Seq(Events)
      <3>1. ASSUME NEW k \in 0..Len(MyEvents) PROVE SubSeq(MyEvents, 1, k) \in Seq(Events)
        BY <2>2
      <3>2. \A k \in 1..ReadSize : k - 1 \in 0..Len(MyEvents)
        BY <2>3
      <3>3. queue \in Seq(Events)
        BY DEF TypeInv, TypeOK
      <3>4. QED
        BY <1>6, <2>3, <3>1, <3>2, <3>3 DEF ReadEvents
    <2>5. kqueue' \in [Instances -> Seq(Events)]
      <3>1. SubSeq(MyEvents, ReadSize + 1, Len(MyEvents)) \in Seq(Events)
        BY <2>2, <2>3
      <3>2. QED
        BY <1>6, <3>1 DEF ReadEvents, MyEvents, TypeInv, TypeOK
    <2>6. QED
      BY <1>3, <2>1, <2>4, <2>5 DEF TypeInv, TypeOK
  <1>7. CASE QueueEmpty
    BY <1>3, <1>7 DEF QueueEmpty, TypeInv, TypeOK, WithDescriptor
  <1>8. CASE Dequeue
    <2>1. /\ pc["general_loop"] \in WithDescriptor
          /\ UNCHANGED pc \/ Goto("general_loop", "walk")
          /\ proc' \in {"running", "exited", "crashed"}
      BY <1>8 DEF Dequeue, TypeInv, TypeOK, WithDescriptor
    <2>2. queue' \in Seq(Events) /\ Head(queue) \in Events
      BY <1>8 DEF Dequeue, TypeInv, TypeOK
    <2>3. hi' \in 0..Len(chain)
      BY <1>8 DEF Dequeue, TypeInv, TypeOK
    <2>4. event' \in Events \cup {NoEvent}
      BY <1>8, <2>2 DEF Dequeue, TypeInv, TypeOK
    <2>5. QED
      BY <1>3, <1>8, <2>1, <2>2, <2>3, <2>4 DEF Dequeue, TypeInv, TypeOK
  <1>9. CASE Walk
    <2>1. /\ pc["general_loop"] \in WithDescriptor
          /\ UNCHANGED pc \/ Goto("general_loop", "dequeue")
      BY <1>9 DEF Walk, EventDone, WithDescriptor
    <2>2. Len(chain) \in Nat /\ hi \in 1..Len(chain) /\ chain[hi] \in Nodes
      BY <1>9 DEF Walk, TypeInv, TypeOK
    <2>3. hi' \in 0..Len(chain)
      BY <1>9, <2>2 DEF Walk, EventDone
    <2>4. leaked' \in 0..MaxDirFds
      BY <1>9, ConstantsAssumption DEF Walk, CanOpen, TypeInv, TypeOK
    <2>5. pathToDir' \in Dirs
      BY <1>9 DEF Walk, CanOpen, TypeInv, TypeOK
    <2>6. event' \in Events \cup {NoEvent}
      BY <1>9 DEF Walk, EventDone, TypeInv, TypeOK
    <2>7. QED
      BY <1>3, <1>9, <2>1, <2>3, <2>4, <2>5, <2>6 DEF Walk, TypeInv, TypeOK
  <1>10. CASE Copy
    <2>1. /\ pc["general_loop"] \in WithDescriptor
          /\ \/ Goto("general_loop", "dequeue") /\ event' = NoEvent /\ hi' = 0
             \/ UNCHANGED <<pc, event, hi>>
          /\ proc' \in {"running", "exited", "crashed"}
      BY <1>10 DEF Copy, EventDone, WithDescriptor, TypeInv, TypeOK
    <2>2. hi' \in 0..Len(chain) /\ event' \in Events \cup {NoEvent}
      BY <2>1 DEF TypeInv, TypeOK
    <2>3. backup' \in [Names -> 0..MaxWrites]
      <3>1. backup \in [Names -> 0..MaxWrites] /\ version \in [Files -> 0..MaxWrites]
        BY DEF TypeInv, TypeOK
      <3>2. \A f \in Files : f[2] \in Names
        BY ConstantsAssumption
      <3> DEFINE f == world.shell[<<pathToDir, event.name>>]
      <3>3. \/ UNCHANGED backup
            \/ f \in Files /\ backup' = [backup EXCEPT ![f[2]] = version[f]]
        BY <1>10, Zenon DEF Copy
      <3> HIDE DEF f
      <3>4. QED
        BY <3>1, <3>2, <3>3
    <2>4. QED
      BY <1>3, <1>10, <2>1, <2>2, <2>3 DEF Copy, TypeInv, TypeOK
  <1>11. CASE CloseFd
    <2>1. Goto("general_loop", "done") /\ pc["general_loop"] \in WithDescriptor
      BY <1>11 DEF CloseFd, WithDescriptor
    <2>2. /\ pc'["backup_loop"] \in ScannerLabels /\ pc'["general_loop"] \in WatcherLabels
          /\ LabelsOK' /\ ScanOrder' /\ Descriptors' /\ StartOrder'
      BY <1>2, <1>11, <2>1 DEF CloseFd
    <2>3. fdOf["general_loop"] \in Instances /\ <<>> \in Seq(Events)
      BY <2>1 DEF TypeInv, Descriptors, DescriptorsHeld, Threads
    <2>4. /\ closed' \subseteq Instances /\ watches' \in [Instances -> SUBSET Dirs]
          /\ kqueue' \in [Instances -> Seq(Events)]
      BY <1>11, <2>3 DEF CloseFd, TypeInv, TypeOK
    <2>5. TypeOK'
      BY <1>11, <2>2, <2>4 DEF CloseFd, TypeInv, TypeOK
    <2>6. QED
      BY <2>2, <2>5 DEF TypeInv
  <1>12. QED
    BY <1>1, <1>4, <1>5, <1>6, <1>7, <1>8, <1>9, <1>10, <1>11 DEF GeneralLoop

LEMMA NextTypeInv == TypeInv /\ [Next]_vars => TypeInv'
  <1> SUFFICES ASSUME TypeInv, [Next]_vars PROVE TypeInv'
    OBVIOUS
  <1>1. CASE Crash
    BY <1>1 DEF Crash, MainUnchanged, TypeInv, TypeOK, LabelsOK, Descriptors, DescriptorsHeld,
                FewInstances, Has, ScanOrder, StartOrder, fdVars, inoVars, cntVars, scanVars,
                evVars, fsVars
  <1>2. QED
    BY <1>1, TypeUnchanged, MainThreadType, UsersType, BackupLoopType, GeneralLoopType DEF Next

\* Type correctness of the threads, the kernel's queues and the tables, for any tree.
THEOREM TypeCorrect == Spec => []TypeOK
  <1>1. TypeInv => TypeOK
    BY DEF TypeInv
  <1>2. QED
    BY <1>1, InitTypeInv, NextTypeInv, PTL DEF Spec

-----------------------------------------------------------------------------
(***************************************************************************)
(* What must have happened when a watch cannot be added.                   *)
(***************************************************************************)

\* general_loop closes its descriptor at its end, because of SIGINT or because the root
\* cannot be watched.
ClosedAtTheEnd ==
  closed # {} => pc["general_loop"] = "done" /\ (~keepRunning \/ ~Watchable(Root))

\* Both threads write to watched_items, but until it is reset each write leaves at least
\* one, whatever the race.
Watching ==
  /\ pc["general_loop"] \in {"poll", "read", "dequeue", "walk"} => watched >= 1
  /\ pc["general_loop"] = "close" => ~keepRunning

CauseInv == ClosedAtTheEnd /\ Watching /\ DoubleFreeHasCause

\* What the steps outside the two loops leave alone.
OutsideStep == MainThread \/ Users \/ Sigint \/ Crash

LEMMA OutsideLabels ==
  ASSUME TypeInv, OutsideStep
  PROVE  /\ \/ pc'["general_loop"] = pc["general_loop"]
            \/ pc["general_loop"] = "none" /\ pc'["general_loop"] = "open"
         /\ \/ pc'["backup_loop"] = pc["backup_loop"]
            \/ pc["backup_loop"] = "none" /\ pc'["backup_loop"] = "scan"
  <1> USE DEF MainUnchanged, mainVars, fdVars, inoVars, cntVars, scanVars, evVars, fsVars
  <1>1. CASE CreateThread("backup_loop", "scan", "create backup_loop", "create general_loop")
    <2>1. pc["backup_loop"] = "none"
      BY <1>1 DEF CreateThread, TypeInv, StartOrder
    <2>2. CASE Goto("backup_loop", "scan")
      BY <2>1, <2>2, ScannerGoes, LabelsAre
    <2>3. QED
      BY <1>1, <2>2 DEF CreateThread
  <1>2. CASE CreateThread("general_loop", "open", "create general_loop", "sleep")
    <2>1. pc["general_loop"] = "none"
      BY <1>2 DEF CreateThread, TypeInv, StartOrder
    <2>2. CASE Goto("general_loop", "open")
      BY <2>1, <2>2, WatcherGoes, LabelsAre
    <2>3. QED
      BY <1>2, <2>2 DEF CreateThread
  <1>3. CASE \/ WakeUp \/ FreeTable \/ Return \/ Sigint \/ Crash
             \/ JoinThread("backup_loop", "join backup_loop", "join general_loop")
             \/ JoinThread("general_loop", "join general_loop", "free")
    BY <1>3 DEF WakeUp, JoinThread, FreeTable, Return, Sigint, Crash
  <1>4. CASE Users
    BY <1>4 DEF Users, WriteFile, RemoveFile, RemoveDir
  <1>5. QED
    BY <1>1, <1>2, <1>3, <1>4 DEF OutsideStep, MainThread

LEMMA OutsideData ==
  ASSUME TypeInv, OutsideStep
  PROVE  /\ UNCHANGED <<watched, closed, dirTable, world, fdOf, staticFd, chain>>
         /\ keepRunning' => keepRunning
         /\ dirs' \subseteq dirs
         /\ "rmdir" \notin Disturbances => dirs' = dirs
  <1> USE DEF mainVars, fdVars, inoVars, cntVars, scanVars, evVars, fsVars
  <1>1. CASE MainThread
    <2>1. MainUnchanged /\ UNCHANGED keepRunning
      BY <1>1 DEF MainThread, CreateThread, WakeUp, JoinThread, FreeTable, Return
    <2>2. QED
      BY <2>1 DEF MainUnchanged
  <1>2. CASE Sigint \/ Crash
    <2>1. CASE Sigint
      BY <2>1 DEF Sigint
    <2>2. CASE Crash
      BY <2>2 DEF Crash, MainUnchanged
    <2>3. QED
      BY <1>2, <2>1, <2>2
  <1>3. CASE \E f \in Files : WriteFile(f) \/ RemoveFile(f)
    BY <1>3 DEF WriteFile, RemoveFile
  <1>4. CASE \E d \in Dirs : RemoveDir(d)
    <2>1. PICK d \in Dirs : RemoveDir(d)
      BY <1>4
    <2>2. QED
      BY <2>1 DEF RemoveDir
  <1>5. QED
    BY <1>1, <1>2, <1>3, <1>4 DEF OutsideStep, Users

\* What the steps of open_inotify_fd and of watched_items++ leave alone.
LEMMA OpenData ==
  ASSUME TypeInv, NEW t \in Threads, OpenInotify(t)
  PROVE  /\ UNCHANGED <<mainVars, inoVars, scanVars, evVars, fsVars>>
         /\ \A u \in Threads \ {t} : pc'[u] = pc[u] /\ fdOf'[u] = fdOf[u]
         /\ \/ pc[t] = "open" /\ pc'[t] \in {"init", "done", "count", "watch", "watch root"}
            \/ pc[t] = "init" /\ pc'[t] \in {"done", "count", "watch", "watch root"}
            \/ pc[t] = "load" /\ pc'[t] = "store"
            \/ /\ pc[t] = "store" /\ watched' \in Nat \ {0}
               /\ pc'[t] = (IF t = "backup_loop" THEN "insert" ELSE "poll")
         /\ pc[t] \in {"open", "init", "load"} => UNCHANGED watched
         /\ t = "backup_loop" => pc'[t] # "watch root"
         /\ t = "general_loop" => pc'[t] \notin {"watch", "count"}
  <1>1. pc \in [Threads -> ScannerLabels \cup WatcherLabels]
    BY DEF TypeInv, LabelsOK
  <1>2. fdOf \in [Threads -> Instances \cup {-1, 0}] /\ loaded[t] \in Nat
    BY DEF TypeInv, TypeOK
  <1>3. CASE TestFd(t)
    BY <1>1, <1>2, <1>3 DEF TestFd, Goto, Opened, cntVars
  <1>4. CASE InitFd(t)
    BY <1>1, <1>2, <1>4 DEF InitFd, Goto, Opened, cntVars
  <1>5. CASE LoadCount(t)
    BY <1>1, <1>5 DEF LoadCount, Goto, fdVars
  <1>6. CASE StoreCount(t)
    BY <1>1, <1>2, <1>6 DEF StoreCount, Goto, fdVars
  <1>7. QED
    BY <1>3, <1>4, <1>5, <1>6 DEF OpenInotify

\* What the other steps of backup_loop do.
ScannerStep == Scan \/ ScanEnds \/ WatchDir \/ InsertDir \/ ReadCount

LEMMA ScannerData ==
  ASSUME TypeInv, ScannerStep
  PROVE  /\ UNCHANGED <<mainVars, fdVars, closed, kqueue, cntVars, evVars, fsVars>>
         /\ pc'["general_loop"] = pc["general_loop"]
         /\ \/ pc["backup_loop"] = "scan" /\ pc'["backup_loop"] \in {"scan", "open"}
            \/ /\ pc["backup_loop"] = "watch" /\ UNCHANGED dirTable
               /\ pc'["backup_loop"] \in {"count", "insert", "load", "use after free"}
            \/ pc["backup_loop"] = "count" /\ pc'["backup_loop"] = "done"
            \/ pc["backup_loop"] = "insert" /\ pc'["backup_loop"] = "watch"
         /\ pc'["backup_loop"] = "use after free"
              => ~(CanWatch("backup_loop", Current) /\ CopyIntact("ht_dirs", Current))
  <1>1. pc \in [Threads -> ScannerLabels \cup WatcherLabels]
    BY DEF TypeInv, LabelsOK
  <1>2. CASE Scan
    BY <1>1, <1>2 DEF Scan, inoVars
  <1>3. CASE ScanEnds
    BY <1>1, <1>3 DEF ScanEnds, Goto, Threads, inoVars
  <1>4. CASE WatchDir
    BY <1>1, <1>4 DEF WatchDir, AddWatch, Goto, Threads, scanVars
  <1>5. CASE InsertDir
    BY <1>1, <1>5 DEF InsertDir, Goto, Threads, inoVars
  <1>6. CASE ReadCount
    BY <1>1, <1>6 DEF ReadCount, Goto, Threads, inoVars
  <1>7. QED
    BY <1>2, <1>3, <1>4, <1>5, <1>6 DEF ScannerStep

\* What the other steps of general_loop do.
WatcherStep == \/ WatchRoot \/ PollEvent \/ ReadEvents
               \/ QueueEmpty \/ Dequeue \/ Walk \/ Copy \/ CloseFd

LEMMA WatcherData ==
  ASSUME TypeInv, WatcherStep
  PROVE  /\ UNCHANGED <<keepRunning, main, freed, fdVars, scanVars, fsVars>>
         /\ pc'["backup_loop"] = pc["backup_loop"]
         /\ \/ CloseFd
            \/ /\ UNCHANGED <<closed, watched>>
               /\ \/ pc["general_loop"] = "watch root" /\ pc'["general_loop"] = "load"
                  \/ /\ pc["general_loop"] = "poll"
                     /\ \/ pc'["general_loop"] = "read"
                        \/ pc'["general_loop"] = "close" /\ ~LoopGoesOn
                  \/ /\ pc["general_loop"] = "read"
                     /\ \/ pc'["general_loop"] = "dequeue"
                        \/ pc'["general_loop"] = "done" /\ "read" \in Disturbances
                  \/ /\ pc["general_loop"] \in {"dequeue", "walk"}
                     /\ pc'["general_loop"] \in {"poll", "dequeue", "walk"}
  <1> USE DEF mainVars, cntVars, inoVars, evVars
  <1>1. pc \in [Threads -> ScannerLabels \cup WatcherLabels]
    BY DEF TypeInv, LabelsOK
  <1>2. CASE WatchRoot
    BY <1>1, <1>2 DEF WatchRoot, AddWatch, Goto, Threads
  <1>3. CASE PollEvent
    BY <1>1, <1>3 DEF PollEvent, Goto, Threads
  <1>4. CASE ReadEvents
    BY <1>1, <1>4 DEF ReadEvents, OtherUnchanged, Goto, Threads
  <1>5. CASE QueueEmpty
    BY <1>1, <1>5 DEF QueueEmpty, OtherUnchanged, Goto, Threads
  <1>6. CASE Dequeue
    BY <1>1, <1>6 DEF Dequeue, OtherUnchanged, Goto, Threads
  <1>7. CASE Walk
    BY <1>1, <1>7 DEF Walk, EventDone, OtherUnchanged, Goto, Threads
  <1>8. CASE Copy
    BY <1>1, <1>8 DEF Copy, EventDone, OtherUnchanged, Goto, Threads
  <1>9. CASE CloseFd
    BY <1>1, <1>9 DEF CloseFd, Goto, Threads
  <1>10. QED
    BY <1>2, <1>3, <1>4, <1>5, <1>6, <1>7, <1>8, <1>9 DEF WatcherStep

\* Every step is one of these.
LEMMA StepsAre ==
  ASSUME [Next]_vars
  PROVE  \/ OutsideStep \/ ScannerStep \/ WatcherStep \/ UNCHANGED vars
         \/ \E t \in Threads : OpenInotify(t)
  BY DEF Next, OutsideStep, ScannerStep, WatcherStep, BackupLoop, GeneralLoop, Threads

LEMMA InitCauseInv == Init => CauseInv
  BY DEF Init, CauseInv, ClosedAtTheEnd, Watching, DoubleFreeHasCause, Threads, Dirs

LEMMA NextCauseInv == TypeInv /\ CauseInv /\ [Next]_vars => CauseInv'
  <1> SUFFICES ASSUME TypeInv, CauseInv, [Next]_vars PROVE CauseInv'
    OBVIOUS
  <1> USE DEF CauseInv
  <1>1. ASSUME UNCHANGED <<dirTable, world>>, dirs' \subseteq dirs,
               keepRunning' => keepRunning,
               pc'["backup_loop"] = "use after free" => pc["backup_loop"] = "use after free"
        PROVE  DoubleFreeHasCause'
    <2>1. Current' = Current
      BY <1>1 DEF Current
    <2>2. CopyIntact("ht_dirs", Current)' = CopyIntact("ht_dirs", Current)
      BY <1>1, <2>1 DEF CopyIntact
    <2>3. /\ ~Watchable(Current) => ~Watchable(Current)'
          /\ ~Watchable(Root) => ~Watchable(Root)'
      BY <1>1, <2>1 DEF Watchable
    <2>4. QED
      BY <1>1, <2>2, <2>3 DEF DoubleFreeHasCause
  <1>2. CASE OutsideStep
    <2>1. ClosedAtTheEnd' /\ Watching'
      BY <1>2, OutsideLabels, OutsideData DEF ClosedAtTheEnd, Watching, Watchable
    <2>2. DoubleFreeHasCause'
      BY <1>1, <1>2, OutsideLabels, OutsideData
    <2>3. QED
      BY <2>1, <2>2
  <1>3. ASSUME NEW t \in Threads, OpenInotify(t) PROVE CauseInv'
    <2> USE DEF mainVars, inoVars, scanVars, evVars, fsVars
    <2>1. ClosedAtTheEnd'
      BY <1>3, OpenData DEF ClosedAtTheEnd, Threads, Watchable
    <2>2. Watching'
      <3>1. CASE t = "backup_loop"
        <4>1. pc'["general_loop"] = pc["general_loop"] /\ UNCHANGED keepRunning
          BY <1>3, <3>1, OpenData DEF Threads
        <4>2. watched' = watched \/ watched' \in Nat \ {0}
          BY <1>3, OpenData
        <4>3. QED
          BY <4>1, <4>2 DEF Watching
      <3>2. CASE t = "general_loop"
        <4>1. \/ pc'["general_loop"] \in {"init", "done", "watch root", "store"}
              \/ pc'["general_loop"] = "poll" /\ watched' \in Nat \ {0}
          BY <1>3, <3>2, OpenData
        <4>2. CASE pc'["general_loop"] \in {"init", "done", "watch root", "store"}
          BY <4>2 DEF Watching
        <4>3. CASE pc'["general_loop"] = "poll" /\ watched' \in Nat \ {0}
          <5>1. watched' >= 1
            BY <4>3
          <5>2. QED
            BY <4>3, <5>1 DEF Watching
        <4>4. QED
          BY <4>1, <4>2, <4>3
      <3>3. QED
        BY <3>1, <3>2 DEF Threads
    <2>3. DoubleFreeHasCause'
      BY <1>1, <1>3, OpenData DEF Threads
    <2>4. QED
      BY <2>1, <2>2, <2>3
  <1>4. CASE ScannerStep
    <2> USE DEF mainVars, fdVars, cntVars, evVars, fsVars
    <2>1. ClosedAtTheEnd' /\ Watching'
      <3>1. /\ UNCHANGED <<dirs, world, closed, watched, keepRunning>>
            /\ pc'["general_loop"] = pc["general_loop"]
        BY <1>4, ScannerData
      <3>2. QED
        BY <3>1 DEF ClosedAtTheEnd, Watching, Watchable
    <2>2. CASE pc'["backup_loop"] = "use after free"
      <3>1. UNCHANGED <<dirTable, world, dirs, keepRunning>>
        BY <1>4, <2>2, ScannerData
      <3>2. Current' = Current
        BY <3>1 DEF Current
      <3>3. ~(CanWatch("backup_loop", Current) /\ CopyIntact("ht_dirs", Current))
        BY <1>4, <2>2, ScannerData
      <3>4. closed # {} => ~keepRunning \/ ~Watchable(Root)
        BY DEF ClosedAtTheEnd
      <3>5. \/ ~Watchable(Current) \/ ~CopyIntact("ht_dirs", Current)
            \/ ~keepRunning \/ ~Watchable(Root)
        BY <3>3, <3>4 DEF CanWatch
      <3>6. /\ CopyIntact("ht_dirs", Current)' = CopyIntact("ht_dirs", Current)
            /\ Watchable(Current)' = Watchable(Current) /\ Watchable(Root)' = Watchable(Root)
        BY <3>1, <3>2 DEF CopyIntact, Watchable
      <3>7. QED
        BY <2>1, <3>1, <3>2, <3>5, <3>6 DEF DoubleFreeHasCause
    <2>3. CASE pc'["backup_loop"] # "use after free"
      BY <2>1, <2>3 DEF DoubleFreeHasCause
    <2>4. QED
      BY <2>1, <2>2, <2>3
  <1>5. CASE WatcherStep
    <2> USE DEF fdVars, scanVars, fsVars
    <2>1. DoubleFreeHasCause'
      BY <1>1, <1>5, WatcherData 
    <2>2. CASE CloseFd
      <3>1. pc'["general_loop"] = "done"
        BY <2>2, WatcherGoes, LabelsAre DEF CloseFd
      <3>2. pc["general_loop"] = "close" => ~keepRunning
        BY DEF Watching
      <3>3. pc["general_loop"] = "watch root" /\ ~CanWatch("general_loop", Root)
              => ~Watchable(Root)
        BY DEF ClosedAtTheEnd, CanWatch
      <3>4. UNCHANGED <<keepRunning, dirs, world>>
        BY <1>5, WatcherData
      <3>5. ClosedAtTheEnd'
        BY <2>2, <3>1, <3>2, <3>3, <3>4 DEF ClosedAtTheEnd, CloseFd, Watchable
      <3>6. QED
        BY <2>1, <3>1, <3>5 DEF Watching
    <2>3. CASE ~CloseFd
      <3>1. UNCHANGED <<closed, watched, keepRunning, dirs, world>>
        BY <1>5, <2>3, WatcherData
      <3>2. ClosedAtTheEnd'
        BY <1>5, <2>3, <3>1, WatcherData DEF ClosedAtTheEnd, Watchable
      <3>3. watched \in Nat
        BY DEF TypeInv, TypeOK
      <3>4. pc'["general_loop"] = "close" => ~keepRunning
        <4>1. HAVE pc'["general_loop"] = "close"
        <4>2. pc["general_loop"] = "poll" /\ ~LoopGoesOn
          BY <1>5, <2>3, <4>1, WatcherData
        <4>3. watched > 0
          BY <3>3, <4>2 DEF Watching
        <4>4. QED
          BY <4>2, <4>3 DEF LoopGoesOn
      <3>5. pc'["general_loop"] \in {"poll", "read", "dequeue", "walk"} => watched >= 1
        <4>1. HAVE pc'["general_loop"] \in {"poll", "read", "dequeue", "walk"}
        <4>2. pc["general_loop"] \in {"poll", "read", "dequeue", "walk"}
          BY <1>5, <2>3, <4>1, WatcherData
        <4>3. QED
          BY <4>2 DEF Watching
      <3>6. QED
        BY <2>1, <3>1, <3>2, <3>4, <3>5 DEF Watching
    <2>4. QED
      BY <2>2, <2>3
  <1>6. CASE UNCHANGED vars
    BY <1>1, <1>6 DEF vars, ClosedAtTheEnd, Watching, Watchable
  <1>7. QED
    BY <1>2, <1>3, <1>4, <1>5, <1>6, StepsAre

\* backup_check_fs_and_run uses and frees ht_dirs a second time only for one of the causes
\* that DoubleFreeHasCause names: a directory that cannot be watched, a path without its
\* end, SIGINT, or a root that general_loop could not watch.  The race on watched_items is
\* none.
THEOREM DoubleFreesHaveCause == Spec => []DoubleFreeHasCause
  <1>1. CauseInv => DoubleFreeHasCause
    BY DEF CauseInv
  <1>2. QED
    BY <1>1, InitTypeInv, NextTypeInv, InitCauseInv, NextCauseInv, PTL DEF Spec

-----------------------------------------------------------------------------
(***************************************************************************)
(* When start() frees what the threads use.                                *)
(***************************************************************************)

\* start() joins after SIGINT; else it frees the table for want of a second thread, and
\* then there is no general_loop.
FreeOrder ==
  /\ main \in {"join backup_loop", "join general_loop"} => ~keepRunning
  /\ main \in {"free", "return"} => ~keepRunning \/ pc["general_loop"] = "none"
  /\ freed => main = "return"

\* What one step of start() does to the variables of FreeOrder and to those of the joins.
LEMMA MainGoes ==
  ASSUME TypeInv, MainThread
  PROVE  /\ UNCHANGED keepRunning
         /\ \/ /\ main = "create backup_loop" /\ main' = "create general_loop"
               /\ UNCHANGED freed
            \/ main = "create general_loop" /\ main' = "sleep" /\ UNCHANGED freed
            \/ /\ main \in {"create backup_loop", "create general_loop"} /\ main' = "free"
               /\ "create" \in Disturbances /\ UNCHANGED <<pc, freed>>
            \/ /\ main = "sleep" /\ main' = "join backup_loop"
               /\ ~keepRunning /\ UNCHANGED <<pc, freed>>
            \/ /\ main = "join backup_loop" /\ main' = "join general_loop"
               /\ Joined("backup_loop") /\ UNCHANGED <<pc, freed>>
            \/ /\ main = "join general_loop" /\ main' = "free"
               /\ Joined("general_loop") /\ UNCHANGED <<pc, freed>>
            \/ main = "free" /\ main' = "return" /\ UNCHANGED pc
            \/ main = "return" /\ main' = "return" /\ UNCHANGED <<pc, freed>>
  <1>1. CASE CreateThread("backup_loop", "scan", "create backup_loop", "create general_loop")
    <2>1. CASE Goto("backup_loop", "scan") /\ main' = "create general_loop"
      BY <1>1, <2>1, ScannerGoes, LabelsAre DEF CreateThread
    <2>2. QED
      BY <1>1, <2>1 DEF CreateThread
  <1>2. CASE CreateThread("general_loop", "open", "create general_loop", "sleep")
    BY <1>2 DEF CreateThread
  <1>3. CASE \/ JoinThread("backup_loop", "join backup_loop", "join general_loop")
             \/ JoinThread("general_loop", "join general_loop", "free")
    BY <1>3 DEF JoinThread
  <1>4. CASE WakeUp \/ FreeTable \/ Return
    BY <1>4 DEF WakeUp, SleepEnds, FreeTable, Return
  <1>5. QED
    BY <1>1, <1>2, <1>3, <1>4 DEF MainThread

\* The other steps leave start() alone.
LEMMA MainStays ==
  ASSUME TypeInv, [Next]_vars, ~MainThread
  PROVE  UNCHANGED <<main, freed>> /\ (keepRunning' => keepRunning)
  <1>1. CASE OutsideStep
    <2>1. UNCHANGED <<main, freed>>
      BY <1>1 DEF OutsideStep, Users, WriteFile, RemoveFile, RemoveDir, Sigint, Crash, mainVars
    <2>2. QED
      BY <1>1, <2>1, OutsideData
  <1>2. CASE \E t \in Threads : OpenInotify(t)
    BY <1>2, OpenData DEF mainVars
  <1>3. CASE ScannerStep
    <2>1. UNCHANGED mainVars
      BY <1>3, ScannerData
    <2>2. QED
      BY <2>1 DEF mainVars
  <1>4. CASE WatcherStep
    <2>1. UNCHANGED <<keepRunning, main, freed>>
      BY <1>4, WatcherData DEF fdVars, scanVars, fsVars
    <2>2. QED
      BY <2>1
  <1>5. CASE UNCHANGED vars
    BY <1>5 DEF vars
  <1>6. QED
    BY <1>1, <1>2, <1>3, <1>4, <1>5, StepsAre

\* Only start() creates a thread, and no step brings one back that is done.
LEMMA ThreadsEnd ==
  ASSUME TypeInv, [Next]_vars
  PROVE  /\ pc["general_loop"] = "none" /\ ~MainThread => pc'["general_loop"] = "none"
         /\ pc["general_loop"] = "done" => pc'["general_loop"] = "done"
         /\ pc["backup_loop"] = "done" => pc'["backup_loop"] = "done"
  <1>1. CASE OutsideStep
    <2>1. \/ MainThread
          \/ UNCHANGED pc
      BY <1>1 DEF OutsideStep, Users, WriteFile, RemoveFile, RemoveDir, Sigint, Crash
    <2>2. QED
      BY <1>1, <2>1, OutsideLabels
  <1>2. ASSUME NEW t \in Threads, OpenInotify(t)
        PROVE  \A u \in Threads : pc[u] \in {"none", "done"} => pc'[u] = pc[u]
    BY <1>2, OpenData
  <1>3. CASE ScannerStep
    <2>1. /\ pc'["general_loop"] = pc["general_loop"]
          /\ pc["backup_loop"] \in {"scan", "watch", "insert", "count"}
      BY <1>3, ScannerData
    <2>2. QED
      BY <2>1
  <1>4. CASE WatcherStep
    <2>1. pc'["backup_loop"] = pc["backup_loop"] /\ pc["general_loop"] \notin {"none", "done"}
      BY <1>4, WatcherData DEF CloseFd
    <2>2. QED
      BY <2>1
  <1>5. CASE UNCHANGED vars
    BY <1>5 DEF vars
  <1>6. QED
    BY <1>1, <1>2, <1>3, <1>4, <1>5, StepsAre DEF Threads

LEMMA NextFreeOrder == TypeInv /\ FreeOrder /\ [Next]_vars => FreeOrder'
  <1> SUFFICES ASSUME TypeInv, FreeOrder, [Next]_vars PROVE FreeOrder'
    OBVIOUS
  <1>1. CASE MainThread
    <2>1. main \in {"create backup_loop", "create general_loop"} => pc["general_loop"] = "none"
      BY DEF TypeInv, StartOrder
    <2>2. UNCHANGED keepRunning
      BY <1>1, MainGoes
    <2>3. main' \in {"join backup_loop", "join general_loop"} => ~keepRunning
      BY <1>1, MainGoes DEF FreeOrder
    <2>4. /\ main' \in {"free", "return"} => ~keepRunning \/ pc["general_loop"] = "none"
          /\ main' \in {"free", "return"} => UNCHANGED pc
      BY <1>1, <2>1, MainGoes DEF FreeOrder
    <2>5. freed' => main' = "return"
      BY <1>1, MainGoes DEF FreeOrder
    <2>6. QED
      BY <2>2, <2>3, <2>4, <2>5 DEF FreeOrder
  <1>2. CASE ~MainThread
    <2>1. UNCHANGED <<main, freed>> /\ (keepRunning' => keepRunning)
      BY <1>2, MainStays
    <2>2. pc["general_loop"] = "none" => pc'["general_loop"] = "none"
      BY <1>2, ThreadsEnd
    <2>3. QED
      BY <2>1, <2>2 DEF FreeOrder
  <1>3. QED
    BY <1>1, <1>2

\* A table that start() frees under a thread was freed at a shutdown, or general_loop was
\* never created.
THEOREM UsesAfterFreeHaveCause == Spec => []UseAfterFreeHasCause
  <1>1. Init => FreeOrder
    BY DEF Init, FreeOrder
  <1>2. FreeOrder => UseAfterFreeHasCause
    BY DEF FreeOrder, UseAfterFreeHasCause
  <1>3. QED
    BY <1>1, <1>2, InitTypeInv, NextTypeInv, NextFreeOrder, PTL DEF Spec

\* Where the threads end in time and can be created, start() goes on only behind them.
JoinOrder ==
  /\ main \in {"join general_loop", "free", "return"} => pc["backup_loop"] = "done"
  /\ main \in {"free", "return"} => pc["general_loop"] = "done"
  /\ freed => main = "return"

\* start() frees nothing that a thread still uses, if every thread is created and none
\* outlives its join.
THEOREM JoinsAreEnough ==
  ASSUME "slow" \notin Disturbances, "create" \notin Disturbances
  PROVE  Spec => []NoUseAfterFree
  <1>1. Init => JoinOrder
    BY DEF Init, JoinOrder
  <1>2. TypeInv /\ JoinOrder /\ [Next]_vars => JoinOrder'
    <2> SUFFICES ASSUME TypeInv, JoinOrder, [Next]_vars PROVE JoinOrder'
      OBVIOUS
    <2>1. CASE MainThread
      <3>1. Joined("backup_loop") => pc["backup_loop"] = "done"
        BY DEF Joined
      <3>2. Joined("general_loop") => pc["general_loop"] = "done"
        BY DEF Joined
      <3>3. main' \in {"join general_loop", "free", "return"} => pc["backup_loop"] = "done"
        BY <2>1, <3>1, MainGoes DEF JoinOrder
      <3>4. main' \in {"free", "return"} => pc["general_loop"] = "done"
        BY <2>1, <3>2, MainGoes DEF JoinOrder
      <3>5. freed' => main' = "return"
        BY <2>1, MainGoes DEF JoinOrder
      <3>6. QED
        BY <3>3, <3>4, <3>5, ThreadsEnd DEF JoinOrder
    <2>2. CASE ~MainThread
      <3>1. UNCHANGED <<main, freed>>
        BY <2>2, MainStays
      <3>2. QED
        BY <3>1, ThreadsEnd DEF JoinOrder
    <2>3. QED
      BY <2>1, <2>2
  <1>3. JoinOrder => NoUseAfterFree
    BY DEF JoinOrder, NoUseAfterFree, UsesTable
  <1>4. QED
    BY <1>1, <1>2, <1>3, InitTypeInv, NextTypeInv, PTL DEF Spec

-----------------------------------------------------------------------------
(***************************************************************************)
(* Once general_loop watches the root, it goes on until SIGINT.            *)
(***************************************************************************)

\* Where read() succeeds, a general_loop that listens leaves its loop only after SIGINT:
\* whatever fails or vanishes, the race on watched_items does not end it.
THEOREM WatcherStays ==
  ASSUME "read" \notin Disturbances
  PROVE  Spec => WatcherRunsUntilSigint
  <1>1. ASSUME TypeInv, CauseInv, [Next]_vars, Listening, keepRunning
        PROVE  Listening'
    <2>1. Watching
      BY <1>1 DEF CauseInv
    <2>2. CASE OutsideStep
      BY <1>1, <2>2, OutsideLabels DEF Listening
    <2>3. ASSUME NEW t \in Threads, OpenInotify(t) PROVE Listening'
      <3>1. CASE t = "backup_loop"
        <4>1. pc'["general_loop"] = pc["general_loop"]
          BY <1>1, <2>3, <3>1, OpenData DEF Threads
        <4>2. QED
          BY <1>1, <4>1 DEF Listening
      <3>2. CASE t = "general_loop"
        <4>1. pc'["general_loop"] \in {"store", "poll"}
          BY <1>1, <2>3, <3>2, OpenData DEF Listening
        <4>2. QED
          BY <4>1 DEF Listening
      <3>3. QED
        BY <3>1, <3>2 DEF Threads
    <2>4. CASE ScannerStep
      BY <1>1, <2>4, ScannerData DEF Listening
    <2>5. CASE WatcherStep
      <3>1. ~CloseFd
        BY <1>1 DEF CloseFd, Listening
      <3>2. pc["general_loop"] = "poll" => LoopGoesOn
        BY <1>1, <2>1 DEF Watching, LoopGoesOn, TypeInv, TypeOK
      <3>3. QED
        BY <1>1, <2>5, <3>1, <3>2, WatcherData DEF Listening
    <2>6. CASE UNCHANGED vars
      BY <1>1, <2>6 DEF vars, Listening
    <2>7. QED
      BY <1>1, <2>2, <2>3, <2>4, <2>5, <2>6, StepsAre
  <1>2. TypeInv /\ CauseInv /\ [Next]_vars => [Listening => Listening' \/ ~keepRunning]_vars
    BY <1>1
  <1>3. QED
    BY <1>2, InitTypeInv, NextTypeInv, InitCauseInv, NextCauseInv, PTL
       DEF Spec, WatcherRunsUntilSigint

-----------------------------------------------------------------------------
(***************************************************************************)
(* What handle_event walks.                                                *)
(***************************************************************************)

\* The scan of the tree puts files into the table, and the directories follow it.
ScanFirst == pc["backup_loop"] \in {"none", "scan"} => \A i \in DOMAIN chain : chain[i] \notin Dirs

\* Steps other than those of the scan and of the loop over ht_dirs leave the table alone.
LEMMA ChainStays ==
  ASSUME TypeInv, [Next]_vars, ~Scan, ~InsertDir
  PROVE  /\ UNCHANGED chain
         /\ pc'["backup_loop"] \in {"none", "scan"} => pc["backup_loop"] \in {"none", "scan"}
  <1>1. CASE OutsideStep
    BY <1>1, OutsideData, OutsideLabels
  <1>2. ASSUME NEW t \in Threads, OpenInotify(t)
        PROVE  /\ UNCHANGED chain
               /\ pc'["backup_loop"] \in {"none", "scan"} => pc["backup_loop"] \in {"none", "scan"}
    <2>1. UNCHANGED scanVars
      BY <1>2, OpenData
    <2>2. pc'["backup_loop"] \in {"none", "scan"} => pc["backup_loop"] \in {"none", "scan"}
      BY <1>2, OpenData DEF Threads
    <2>3. QED
      BY <2>1, <2>2 DEF scanVars
  <1>3. CASE ScannerStep
    <2>1. pc'["backup_loop"] \in {"none", "scan"} => pc["backup_loop"] \in {"none", "scan"}
      BY <1>3, ScannerData
    <2>2. UNCHANGED chain
      BY <1>3 DEF ScannerStep, ScanEnds, WatchDir, ReadCount, scanVars
    <2>3. QED
      BY <2>1, <2>2
  <1>4. CASE WatcherStep
    <2>1. UNCHANGED scanVars /\ pc'["backup_loop"] = pc["backup_loop"]
      BY <1>4, WatcherData
    <2>2. QED
      BY <2>1 DEF scanVars
  <1>5. CASE UNCHANGED vars
    BY <1>5 DEF vars
  <1>6. QED
    BY <1>1, <1>2, <1>3, <1>4, <1>5, StepsAre

ChainInv == ScanFirst /\ DirectoriesSearchedFirst

LEMMA InitChainInv == Init => ChainInv
  <1>1. Init => chain = <<>>
    BY DEF Init
  <1>2. DOMAIN <<>> = {}
    OBVIOUS
  <1>3. QED
    BY <1>1, <1>2 DEF ChainInv, ScanFirst, DirectoriesSearchedFirst

LEMMA NextChainInv == TypeInv /\ ChainInv /\ [Next]_vars => ChainInv'
  <1> SUFFICES ASSUME TypeInv, ChainInv, [Next]_vars PROVE ChainInv'
    OBVIOUS
  <1>1. chain \in Seq(Nodes) /\ scan \subseteq Nodes /\ dirTable \subseteq Dirs
    BY DEF TypeInv, TypeOK
  <1>2. CASE Scan
    <2>1. pc["backup_loop"] = "scan" /\ UNCHANGED pc
      BY <1>2 DEF Scan
    <2>2. \A i \in DOMAIN chain : chain[i] \notin Dirs
      BY <2>1 DEF ChainInv, ScanFirst
    <2>3. CASE UNCHANGED chain
      BY <2>1, <2>2, <2>3 DEF ChainInv, ScanFirst, DirectoriesSearchedFirst
    <2>4. ASSUME NEW p \in scan \ Dirs, chain' = Insert(chain, p)
          PROVE  \A i \in DOMAIN chain' : chain'[i] \notin Dirs
      BY <1>1, <2>2, <2>4, InsertType DEF Insert
    <2>5. QED
      BY <1>2, <2>1, <2>3, <2>4 DEF Scan, ChainInv, ScanFirst, DirectoriesSearchedFirst
  <1>3. CASE InsertDir
    <2>1. pc["backup_loop"] = "insert" /\ chain' = Insert(chain, Current)
      BY <1>3 DEF InsertDir
    <2>2. Current \in Dirs
      BY <1>1, <2>1, CurrentIsHeld DEF TypeInv, ScanOrder
    <2>3. pc'["backup_loop"] = "watch"
      BY <1>3, ScannerGoes, LabelsAre DEF InsertDir
    <2>4. chain' = chain \/ chain' = Append(chain, Current)
      BY <2>1 DEF Insert
    <2>5. DirectoriesSearchedFirst'
      BY <1>1, <2>2, <2>4 DEF DirectoriesSearchedFirst, ChainInv
    <2>6. QED
      BY <2>3, <2>5 DEF ScanFirst, ChainInv
  <1>4. CASE ~Scan /\ ~InsertDir
    BY <1>4, ChainStays DEF ChainInv, ScanFirst, DirectoriesSearchedFirst
  <1>5. QED
    BY <1>2, <1>3, <1>4

\* handle_event, which walks the table from its end, meets the directories first.
THEOREM DirectoriesAreLast == Spec => []DirectoriesSearchedFirst
  <1>1. ChainInv => DirectoriesSearchedFirst
    BY DEF ChainInv
  <1>2. QED
    BY <1>1, InitTypeInv, NextTypeInv, InitChainInv, NextChainInv, PTL DEF Spec

-----------------------------------------------------------------------------
(***************************************************************************)
(* No step of the service forgets a write that was reported.               *)
(***************************************************************************)

\* process_handle_events leaves the event queue empty, so that the next read() overwrites
\* nothing.
QueueDrained == pc["general_loop"] \notin {"dequeue", "walk"} => queue = <<>>

\* c is a beginning of d.
Begins(c, d) == \A i \in DOMAIN c : i \in DOMAIN d /\ d[i] = c[i]

\* An event that the kernel holds stays in its queue until read().
LEMMA DeliverKeeps ==
  ASSUME NEW q \in Seq(Events), NEW e \in Events
  PROVE  Begins(q, Deliver(q, e))
  <1>1. Overflow \in Events
    BY DEF Overflow, Events, Kinds
  <1>2. Begins(q, Append(q, e)) /\ Begins(q, Append(q, Overflow)) /\ Begins(q, q)
    BY <1>1 DEF Begins
  <1>3. QED
    BY <1>2 DEF Deliver

\* The steps outside the two loops add to the queues of the kernel.
LEMMA OutsideKeeps ==
  ASSUME TypeInv, OutsideStep
  PROVE  /\ UNCHANGED <<queue, event, hi, pathToDir>>
         /\ \A i \in Instances : Begins(kqueue[i], kqueue'[i])
  <1> USE DEF mainVars, fdVars, inoVars, cntVars, scanVars, evVars, fsVars
  <1>1. kqueue \in [Instances -> Seq(Events)]
    BY DEF TypeInv, TypeOK
  <1>2. CASE MainThread
    <2>1. MainUnchanged
      BY <1>2 DEF MainThread, CreateThread, WakeUp, JoinThread, FreeTable, Return
    <2>2. QED
      BY <2>1 DEF MainUnchanged, Begins
  <1>3. CASE Sigint \/ Crash
    BY <1>3 DEF Sigint, Crash, MainUnchanged, Begins
  <1>4. ASSUME NEW d, NEW e \in Events, Notify(d, e)
        PROVE  \A i \in Instances : Begins(kqueue[i], kqueue'[i])
    <2>1. TAKE i \in Instances
    <2>2. kqueue'[i] = Deliver(kqueue[i], e) \/ kqueue'[i] = kqueue[i]
      BY <1>4 DEF Notify
    <2>3. QED
      BY <1>1, <2>2, DeliverKeeps DEF Begins
  <1>5. CASE \E f \in Files : WriteFile(f) \/ RemoveFile(f)
    <2>1. PICK f \in Files : WriteFile(f) \/ RemoveFile(f)
      BY <1>5
    <2>2. f[1] \in Dirs /\ f[2] \in Names
      BY ConstantsAssumption
    <2>3. \A k \in Kinds : [kind |-> k, wd |-> f[1], name |-> f[2]] \in Events
      BY <2>2 DEF Events
    <2>4. \E k \in Kinds : Notify(f[1], [kind |-> k, wd |-> f[1], name |-> f[2]])
      BY <2>1 DEF WriteFile, RemoveFile, Kinds
    <2>5. UNCHANGED evVars
      BY <2>1 DEF WriteFile, RemoveFile
    <2>6. QED
      BY <1>4, <2>3, <2>4, <2>5
  <1>6. CASE \E d \in Dirs : RemoveDir(d)
    <2>1. PICK d \in Dirs : RemoveDir(d)
      BY <1>6
    <2> DEFINE self == [kind |-> "nameless", wd |-> d, name |-> NoName]
               gone == [kind |-> "subdir", wd |-> Root, name |-> NoName]
               q(i) == IF d \in watches[i] THEN Deliver(kqueue[i], self) ELSE kqueue[i]
    <2>2. self \in Events /\ gone \in Events
      BY DEF Events, Kinds, Dirs
    <2>3. \A i \in Instances : kqueue'[i] = Deliver(q(i), gone) \/ kqueue'[i] = q(i)
      BY <2>1 DEF RemoveDir
    <2>4. ASSUME NEW i \in Instances
          PROVE  Begins(kqueue[i], kqueue'[i])
      <3> HIDE DEF self, gone
      <3>1. q(i) \in Seq(Events) /\ Begins(kqueue[i], q(i))
        BY <1>1, <2>2, DeliverType, DeliverKeeps DEF Begins
      <3> HIDE DEF q
      <3>2. Begins(q(i), kqueue'[i])
        BY <2>2, <2>3, <3>1, DeliverKeeps DEF Begins
      <3>3. QED
        BY <3>1, <3>2 DEF Begins
    <2>5. UNCHANGED evVars
      BY <2>1 DEF RemoveDir
    <2>6. QED
      BY <2>4, <2>5
  <1>7. QED
    BY <1>2, <1>3, <1>5, <1>6 DEF OutsideStep, Users

\* The table that handle_event walks grows at its end.
LEMMA ChainGrows ==
  ASSUME TypeInv, [Next]_vars
  PROVE  Begins(chain, chain')
  <1>1. chain \in Seq(Nodes) /\ scan \subseteq Nodes /\ dirTable \subseteq Dirs
    BY DEF TypeInv, TypeOK
  <1>2. ASSUME NEW p \in Nodes PROVE Begins(chain, Insert(chain, p))
    BY <1>1 DEF Insert, Begins
  <1>3. CASE Scan
    BY <1>1, <1>2, <1>3 DEF Scan, Begins
  <1>4. CASE InsertDir
    <2>1. Current \in Nodes
      BY <1>1, <1>4, CurrentIsHeld DEF InsertDir, TypeInv, ScanOrder, Nodes
    <2>2. QED
      BY <1>2, <1>4, <2>1 DEF InsertDir
  <1>5. CASE ~Scan /\ ~InsertDir
    BY <1>5, ChainStays DEF Begins
  <1>6. QED
    BY <1>3, <1>4, <1>5

LEMMA NextQueueDrained == TypeInv /\ QueueDrained /\ [Next]_vars => QueueDrained'
  <1> SUFFICES ASSUME TypeInv, QueueDrained, [Next]_vars PROVE QueueDrained'
    OBVIOUS
  <1> USE DEF QueueDrained
  <1>1. CASE OutsideStep
    BY <1>1, OutsideLabels, OutsideKeeps
  <1>2. ASSUME NEW t \in Threads, OpenInotify(t) PROVE QueueDrained'
    <2>1. UNCHANGED queue
      BY <1>2, OpenData DEF evVars
    <2>2. pc["general_loop"] \in {"dequeue", "walk"} => pc'["general_loop"] = pc["general_loop"]
      BY <1>2, OpenData DEF Threads
    <2>3. QED
      BY <2>1, <2>2
  <1>3. CASE ScannerStep
    BY <1>3, ScannerData DEF evVars
  <1>4. CASE WatcherStep
    <2> USE DEF evVars
    <2>1. CASE ReadEvents
      <3>1. pc["general_loop"] = "read"
        BY <2>1 DEF ReadEvents
      <3>2. CASE Goto("general_loop", "dequeue")
        BY <3>2, WatcherGoes, LabelsAre
      <3>3. CASE Goto("general_loop", "done") /\ UNCHANGED queue
        BY <3>1, <3>3
      <3>4. QED
        BY <2>1, <3>2, <3>3 DEF ReadEvents
    <2>2. CASE QueueEmpty
      BY <2>2 DEF QueueEmpty
    <2>3. CASE Dequeue
      <3>1. CASE UNCHANGED pc
        BY <2>3, <3>1 DEF Dequeue
      <3>2. CASE Goto("general_loop", "walk")
        BY <3>2, WatcherGoes, LabelsAre
      <3>3. QED
        BY <2>3, <3>1, <3>2 DEF Dequeue
    <2>4. CASE Walk \/ Copy
      <3>1. pc["general_loop"] = "walk" /\ UNCHANGED queue
        BY <2>4 DEF Walk, Copy
      <3>2. CASE UNCHANGED pc
        BY <3>1, <3>2
      <3>3. CASE Goto("general_loop", "dequeue")
        BY <3>3, WatcherGoes, LabelsAre
      <3>4. QED
        BY <2>4, <3>2, <3>3 DEF Walk, Copy, EventDone
    <2>5. CASE WatchRoot \/ PollEvent \/ CloseFd
      <3>1. UNCHANGED queue /\ pc["general_loop"] \notin {"dequeue", "walk"}
        BY <2>5 DEF WatchRoot, PollEvent, CloseFd
      <3>2. QED
        BY <3>1
    <2>6. QED
      BY <1>4, <2>1, <2>2, <2>3, <2>4, <2>5 DEF WatcherStep
  <1>5. CASE UNCHANGED vars
    BY <1>5 DEF vars
  <1>6. QED
    BY <1>1, <1>2, <1>3, <1>4, <1>5, StepsAre

\* What leaves general_loop where it is and takes no event leaves a write on its way.
LEMMA StillOnItsWay ==
  ASSUME TypeInv, NEW f \in Files, OnItsWay(f), Begins(chain, chain'),
         Listening', pc["general_loop"] = "walk" => pc'["general_loop"] = "walk",
         UNCHANGED <<queue, event, hi, pathToDir>>,
         Begins(MyEvents, MyEvents')
  PROVE  OnItsWay(f)'
  <1>1. \E p \in DOMAIN chain' : chain'[p] = f[1]
    BY DEF OnItsWay, Begins
  <1>2. CASE Reported(f)
    <2>1. Reported(f)'
      BY <1>2 DEF Reported, Begins, IsWriteOf
    <2>2. QED
      BY <1>1, <2>1 DEF OnItsWay
  <1>3. CASE Queued(f)
    BY <1>1, <1>3 DEF OnItsWay, Queued, IsWriteOf
  <1>4. CASE InHand(f)
    <2>1. chain \in Seq(Nodes) /\ hi \in 0..Len(chain)
      BY DEF TypeInv, TypeOK
    <2>2. ASSUME NEW p \in 1..hi, chain[p] = f[1] PROVE chain'[p] = f[1]
      <3>1. p \in DOMAIN chain
        BY <2>1
      <3>2. QED
        BY <2>2, <3>1 DEF Begins
    <2>3. InHand(f)'
      BY <1>4, <2>2 DEF InHand, IsWriteOf
    <2>4. QED
      BY <1>1, <2>3 DEF OnItsWay
  <1>5. QED
    BY <1>2, <1>3, <1>4 DEF OnItsWay

\* A step of general_loop hands a write on from the kernel to the event queue, from there
\* to handle_event, and from the walk over the table to cp.
LEMMA HandedOn ==
  ASSUME TypeInv, Watching, QueueDrained, WatcherStep,
         NEW f \in Files, OnItsWay(f), ~MayBeLost(f)
  PROVE  OnItsWay(f)' \/ backup'[f[2]] = version[f]
  <1> USE DEF mainVars, fdVars, inoVars, cntVars, scanVars, evVars, fsVars
  <1>1. /\ f[1] \in Dirs /\ f[2] \in Names /\ f = <<f[1], f[2]>>
        /\ f[2] \in Contains[f[2]]
    BY ConstantsAssumption
  <1>2. /\ queue \in Seq(Events) /\ chain \in Seq(Nodes) /\ hi \in 0..Len(chain)
        /\ backup \in [Names -> 0..MaxWrites] /\ leaked \in 0..MaxDirFds
        /\ kqueue \in [Instances -> Seq(Events)]
    BY DEF TypeInv, TypeOK
  <1>3. /\ keepRunning /\ version[f] # 0 /\ ~Shadowed(f) /\ f[2] \notin Hidden
        /\ ~Blocked(f) /\ world.shell[f] = f
        /\ "read" \notin Disturbances
    BY DEF MayBeLost
  <1>4. UNCHANGED <<chain, version>> /\ fdOf' = fdOf /\ fdOf["general_loop"] \in Instances
    <2>1. pc["general_loop"] \in WithDescriptor
      BY DEF OnItsWay, Listening, WithDescriptor
    <2>2. QED
      BY <2>1, WatcherData DEF TypeInv, Descriptors, DescriptorsHeld, Threads
  <1>5. \E p \in DOMAIN chain' : chain'[p] = f[1]
    BY <1>4 DEF OnItsWay
  <1>6. CASE WatchRoot \/ CloseFd
    <2>1. ~LoopGoesOn \/ pc["general_loop"] # "close"
      BY <1>3 DEF Watching
    <2>2. pc["general_loop"] \in {"watch root", "close"}
      BY <1>6 DEF WatchRoot, CloseFd
    <2>3. QED
      BY <2>2 DEF OnItsWay, Listening
  <1>7. CASE PollEvent
    <2>1. pc["general_loop"] = "poll" /\ watched \in Nat
      BY <1>7 DEF PollEvent, TypeInv, TypeOK
    <2>2. LoopGoesOn
      BY <1>3, <2>1 DEF Watching, LoopGoesOn
    <2>3. pc'["general_loop"] = "read"
      BY <1>7, <2>2, WatcherGoes, LabelsAre DEF PollEvent
    <2>4. UNCHANGED <<queue, event, hi, pathToDir, kqueue>>
      BY <1>7 DEF PollEvent
    <2>5. Begins(MyEvents, MyEvents') /\ Begins(chain, chain')
      BY <1>4, <2>4 DEF MyEvents, Begins
    <2>6. QED
      BY <2>1, <2>3, <2>4, <2>5, StillOnItsWay DEF Listening
  <1>8. CASE ReadEvents
    <2>1. pc["general_loop"] = "read" /\ queue = <<>>
      BY <1>8 DEF ReadEvents, QueueDrained
    <2>2. Reported(f)
      BY <2>1 DEF OnItsWay, Queued, InHand
    <2>3. /\ queue' = SubSeq(MyEvents, 1, ReadSize) /\ Goto("general_loop", "dequeue")
          /\ MyEvents' = SubSeq(MyEvents, ReadSize + 1, Len(MyEvents))
      BY <1>2, <1>3, <1>4, <1>8 DEF ReadEvents, MyEvents
    <2>4. pc'["general_loop"] = "dequeue"
      BY <2>3, WatcherGoes, LabelsAre
    <2>5. MyEvents \in Seq(Events) /\ ReadSize \in 0..Len(MyEvents)
      BY <1>2, <1>4, ConstantsAssumption DEF MyEvents, ReadSize
    <2>6. PICK i \in DOMAIN MyEvents : IsWriteOf(MyEvents[i], f)
      BY <2>2 DEF Reported
    <2>7. CASE i <= ReadSize
      <3>1. i \in DOMAIN queue' /\ queue'[i] = MyEvents[i]
        BY <2>3, <2>5, <2>7
      <3>2. Queued(f)'
        BY <2>6, <3>1 DEF Queued, IsWriteOf
      <3>3. QED
        BY <1>5, <2>4, <3>2 DEF OnItsWay, Listening
    <2>8. CASE i > ReadSize
      <3>1. /\ i - ReadSize \in DOMAIN (MyEvents')
            /\ (MyEvents')[i - ReadSize] = MyEvents[i]
        BY <2>3, <2>5, <2>8
      <3>2. Reported(f)'
        BY <2>6, <3>1 DEF Reported, IsWriteOf
      <3>3. QED
        BY <1>5, <2>4, <3>2 DEF OnItsWay, Listening
    <2>9. QED
      BY <2>5, <2>7, <2>8
  <1>9. CASE QueueEmpty
    <2>1. pc["general_loop"] = "dequeue" /\ UNCHANGED <<queue, event, hi, pathToDir, kqueue>>
      BY <1>9 DEF QueueEmpty
    <2>2. pc'["general_loop"] = "poll"
      BY <1>9, WatcherGoes, LabelsAre DEF QueueEmpty
    <2>3. Begins(MyEvents, MyEvents') /\ Begins(chain, chain')
      BY <1>4, <2>1 DEF MyEvents, Begins
    <2>4. QED
      BY <2>1, <2>2, <2>3, StillOnItsWay DEF Listening
  <1>10. CASE Dequeue
    <2>1. /\ pc["general_loop"] = "dequeue" /\ queue # <<>> /\ queue' = Tail(queue)
          /\ UNCHANGED kqueue
      BY <1>10 DEF Dequeue
    <2>2. pc'["general_loop"] \in {"dequeue", "walk"}
      <3>1. CASE UNCHANGED pc
        BY <2>1, <3>1
      <3>2. CASE Goto("general_loop", "walk")
        BY <3>2, WatcherGoes, LabelsAre
      <3>3. QED
        BY <1>10, <3>1, <3>2 DEF Dequeue
    <2>3. Listening'
      BY <2>2 DEF Listening
    <2>4. CASE Reported(f)
      <3>1. Reported(f)'
        BY <1>4, <2>1, <2>4 DEF Reported, MyEvents, IsWriteOf
      <3>2. QED
        BY <1>5, <2>3, <3>1 DEF OnItsWay
    <2>5. CASE \E i \in DOMAIN queue : i > 1 /\ IsWriteOf(queue[i], f)
      <3>1. PICK i \in DOMAIN queue : i > 1 /\ IsWriteOf(queue[i], f)
        BY <2>5
      <3>2. i - 1 \in DOMAIN Tail(queue) /\ Tail(queue)[i - 1] = queue[i]
        BY <1>2, <2>1, <3>1
      <3>3. Queued(f)'
        BY <2>1, <3>1, <3>2 DEF Queued, IsWriteOf
      <3>4. QED
        BY <1>5, <2>3, <3>3 DEF OnItsWay
    <2>6. CASE IsWriteOf(Head(queue), f)
      <3> DEFINE e == Head(queue)
      <3>1. e.kind = "written" /\ e.name = f[2]
        BY <1>1, <2>6 DEF IsWriteOf
      <3>2. e.kind # "nameless" /\ ~Ignored(e)
        BY <1>3, <3>1 DEF Ignored
      <3>3. event' = e /\ hi' = Len(chain) /\ Goto("general_loop", "walk")
        BY <1>10, <3>2 DEF Dequeue
      <3>4. pc'["general_loop"] = "walk"
        BY <3>3, WatcherGoes, LabelsAre
      <3>5. \E p \in 1..hi' : chain'[p] = f[1]
        BY <1>2, <1>4, <3>3 DEF OnItsWay
      <3>6. InHand(f)'
        BY <2>6, <3>3, <3>4, <3>5 DEF InHand, IsWriteOf
      <3>7. QED
        BY <1>5, <2>3, <3>6 DEF OnItsWay
    <2>7. QED
      <3>1. CASE Queued(f)
        <4>1. PICK i \in DOMAIN queue : IsWriteOf(queue[i], f)
          BY <3>1 DEF Queued
        <4>2. i = 1 \/ i > 1
          BY <1>2
        <4>3. queue[1] = Head(queue)
          BY <1>2, <2>1
        <4>4. QED
          BY <2>5, <2>6, <4>1, <4>2, <4>3
      <3>2. ~InHand(f)
        BY <2>1 DEF InHand
      <3>3. QED
        BY <2>4, <3>1, <3>2 DEF OnItsWay
  <1>11. ASSUME pc["general_loop"] = "walk", ~InHand(f), UNCHANGED <<queue, kqueue>>,
                pc'["general_loop"] \in {"dequeue", "walk"}
         PROVE  OnItsWay(f)'
    <2>1. Reported(f) => Reported(f)'
      BY <1>4, <1>11 DEF Reported, MyEvents, IsWriteOf
    <2>2. Queued(f) => Queued(f)'
      BY <1>11 DEF Queued, IsWriteOf
    <2>3. QED
      BY <1>5, <1>11, <2>1, <2>2 DEF OnItsWay, Listening
  <1>12. CASE Walk
    <2>1. /\ pc["general_loop"] = "walk" /\ hi > 0
          /\ UNCHANGED <<queue, kqueue>>
      BY <1>12 DEF Walk
    <2>2. pc'["general_loop"] \in {"dequeue", "walk"}
      <3>1. CASE UNCHANGED pc
        BY <2>1, <3>1
      <3>2. CASE Goto("general_loop", "dequeue")
        BY <3>2, WatcherGoes, LabelsAre
      <3>3. QED
        BY <1>12, <3>1, <3>2 DEF Walk, EventDone
    <2>3. CASE InHand(f)
      <3>1. PICK p \in 1..hi : chain[p] = f[1]
        BY <2>1, <2>3 DEF InHand
      <3>2. IsWriteOf(event, f) /\ event.name = f[2]
        BY <1>1, <2>3 DEF InHand, IsWriteOf
      <3>3. p \in DOMAIN chain /\ hi \in DOMAIN chain /\ p <= hi
        BY <1>2, <2>1
      <3>4. CanOpen(chain[hi])
        BY <1>3, <3>1, <3>3 DEF Blocked
      <3>5. FindFile(f[1], event.name)
        <4>1. version[f] > 0
          BY <1>3 DEF TypeInv, TypeOK
        <4>2. QED
          BY <1>1, <1>3, <3>2, <4>1 DEF FindFile
      <3>6. FindFile(chain[hi], event.name) => chain[hi] = f[1]
        BY <1>3, <3>2 DEF FindFile, Shadowed
      <3>7. CASE chain[hi] = f[1]
        <4>1. hi' = 0 /\ pathToDir' = f[1] /\ UNCHANGED <<pc, event>>
          BY <1>12, <3>4, <3>5, <3>7 DEF Walk
        <4>2. InHand(f)'
          BY <2>1, <3>2, <4>1 DEF InHand, IsWriteOf
        <4>3. QED
          BY <1>5, <2>1, <4>1, <4>2 DEF OnItsWay, Listening
      <3>8. CASE chain[hi] # f[1]
        <4>1. hi' = hi - 1 /\ UNCHANGED <<pc, event>>
          BY <1>12, <3>4, <3>6, <3>8 DEF Walk
        <4>2. p \in 1..hi' /\ chain'[p] = f[1]
          BY <1>2, <1>4, <3>1, <3>8, <4>1
        <4>3. InHand(f)'
          BY <2>1, <3>2, <4>1, <4>2 DEF InHand, IsWriteOf
        <4>4. QED
          BY <1>5, <2>1, <4>1, <4>3 DEF OnItsWay, Listening
      <3>9. QED
        BY <3>7, <3>8
    <2>4. CASE ~InHand(f)
      BY <1>11, <2>1, <2>2, <2>4
    <2>5. QED
      BY <2>3, <2>4
  <1>13. CASE Copy
    <2>1. pc["general_loop"] = "walk" /\ hi = 0 /\ UNCHANGED <<queue, kqueue>>
      BY <1>13 DEF Copy
    <2>2. CASE UNCHANGED <<pc, event, hi, backup>>
      <3>1. Begins(MyEvents, MyEvents') /\ Begins(chain, chain')
        BY <1>4, <2>1 DEF MyEvents, Begins
      <3>2. UNCHANGED pathToDir
        BY <1>13 DEF Copy
      <3>3. QED
        BY <2>1, <2>2, <3>1, <3>2, StillOnItsWay DEF Listening
    <2> SUFFICES ASSUME ~UNCHANGED <<pc, event, hi, backup>>
                 PROVE  OnItsWay(f)' \/ backup'[f[2]] = version[f]
      BY <2>2
    <2>3. Goto("general_loop", "dequeue")
      BY <1>13 DEF Copy, EventDone
    <2>4. pc'["general_loop"] = "dequeue"
      BY <2>3, WatcherGoes, LabelsAre
    <2>5. CASE InHand(f)
      <3>1. pathToDir = f[1] /\ event.kind = "written" /\ event.name = f[2]
        BY <1>1, <2>1, <2>5 DEF InHand, IsWriteOf
      <3>2. <<pathToDir, event.name>> = f /\ version[f] > 0
        BY <1>1, <1>3, <3>1 DEF TypeInv, TypeOK
      <3>3. world.shell[<<pathToDir, event.name>>] = f
        BY <1>3, <3>2
      <3>4. backup' = [backup EXCEPT ![f[2]] = version[f]]
        BY <1>13, <3>1, <3>2, <3>3 DEF Copy, NeedToBackup
      <3>5. QED
        BY <1>1, <1>2, <3>4
    <2>6. CASE ~InHand(f)
      BY <1>11, <2>1, <2>4, <2>6
    <2>7. QED
      BY <2>5, <2>6
  <1>14. QED
    BY <1>6, <1>7, <1>8, <1>9, <1>10, <1>12, <1>13 DEF WatcherStep

\* A write that general_loop was told of is copied, or gets lost for one of the causes that
\* NoWriteForgotten names: not by a race of the two threads on watched_items, nor because
\* the scan still adds to the table that handle_event walks.
THEOREM WritesStayOnTheirWay == Spec => NoWriteForgotten
  <1> DEFINE Kept(f) == OnItsWay(f)' \/ backup'[f[2]] = version[f] \/ MayBeLost(f)
  <1>1. TypeInv /\ CauseInv /\ QueueDrained /\ [Next]_vars
          => \A f \in Files : OnItsWay(f) => Kept(f)
    <2> SUFFICES ASSUME TypeInv, CauseInv, QueueDrained, [Next]_vars,
                        NEW f \in Files, OnItsWay(f)
                 PROVE  Kept(f)
      OBVIOUS
    <2>1. Begins(chain, chain')
      BY ChainGrows
    <2>2. Listening /\ fdOf["general_loop"] \in Instances
      <3>1. pc["general_loop"] \in WithDescriptor
        BY DEF OnItsWay, Listening, WithDescriptor
      <3>2. QED
        BY <3>1 DEF OnItsWay, TypeInv, Descriptors, DescriptorsHeld, Threads
    <2>3. CASE OutsideStep
      <3>1. pc'["general_loop"] = pc["general_loop"] /\ UNCHANGED fdOf
        BY <2>2, <2>3, OutsideLabels, OutsideData DEF Listening
      <3>2. Begins(MyEvents, MyEvents')
        BY <2>2, <2>3, <3>1, OutsideKeeps DEF MyEvents
      <3>3. QED
        BY <2>1, <2>2, <2>3, <3>1, <3>2, OutsideKeeps, StillOnItsWay DEF Listening
    <2>4. ASSUME NEW t \in Threads, OpenInotify(t) PROVE Kept(f)
      <3>1. UNCHANGED <<queue, event, hi, pathToDir, kqueue>>
        BY <2>4, OpenData DEF inoVars, evVars
      <3>2. fdOf'["general_loop"] = fdOf["general_loop"]
        <4>1. CASE t = "general_loop"
          BY <2>2, <2>4, <4>1
             DEF OpenInotify, TestFd, InitFd, LoadCount, StoreCount, Listening, fdVars
        <4>2. CASE t = "backup_loop"
          BY <2>4, <4>2, OpenData DEF Threads
        <4>3. QED
          BY <4>1, <4>2 DEF Threads
      <3>3. /\ pc'["general_loop"] \in {pc["general_loop"], "store", "poll"}
            /\ pc["general_loop"] = "walk" => pc'["general_loop"] = "walk"
        BY <2>2, <2>4, OpenData DEF Threads, Listening
      <3>4. Begins(MyEvents, MyEvents')
        BY <3>1, <3>2 DEF MyEvents, Begins
      <3>5. Listening'
        BY <2>2, <3>3 DEF Listening
      <3>6. QED
        BY <2>1, <3>1, <3>3, <3>4, <3>5, StillOnItsWay
    <2>5. CASE ScannerStep
      <3>1. /\ UNCHANGED <<queue, event, hi, pathToDir, kqueue, fdOf>>
            /\ pc'["general_loop"] = pc["general_loop"]
        BY <2>5, ScannerData DEF evVars, fdVars
      <3>2. Begins(MyEvents, MyEvents')
        BY <3>1 DEF MyEvents, Begins
      <3>3. QED
        BY <2>1, <2>2, <3>1, <3>2, StillOnItsWay DEF Listening
    <2>6. CASE WatcherStep
      BY <2>6, HandedOn DEF CauseInv
    <2>7. CASE UNCHANGED vars
      <3>1. /\ UNCHANGED <<queue, event, hi, pathToDir, kqueue, fdOf>>
            /\ pc'["general_loop"] = pc["general_loop"]
        BY <2>7 DEF vars
      <3>2. Begins(MyEvents, MyEvents')
        BY <3>1 DEF MyEvents, Begins
      <3>3. QED
        BY <2>1, <2>2, <3>1, <3>2, StillOnItsWay DEF Listening
    <2>8. QED
      BY <2>3, <2>4, <2>5, <2>6, <2>7, StepsAre
  <1> HIDE DEF Kept
  <1>2. Init => QueueDrained
    BY DEF Init, QueueDrained
  <1>3. TypeInv /\ CauseInv /\ QueueDrained /\ [Next]_vars
          => [\A f \in Files :
                OnItsWay(f) => OnItsWay(f)' \/ backup'[f[2]] = version[f] \/ MayBeLost(f)]_vars
    BY <1>1 DEF Kept
  <1>4. QED
    BY <1>2, <1>3, InitTypeInv, NextTypeInv, InitCauseInv, NextCauseInv,
       NextQueueDrained, PTL DEF Spec, NoWriteForgotten
=============================================================================
