----------------------------- MODULE BackupService -----------------------------
(***************************************************************************)
(* The backup service after its admission: start() of                      *)
(* backup_service_main.c and the two threads it creates.                   *)
(*                                                                         *)
(* backup_loop scans the tree below path_to_dir once, remembers its files  *)
(* and directories in a hash table and watches its subdirectories.         *)
(* general_loop watches path_to_dir, reads the inotify events, looks each  *)
(* event's file up in the directories of the hash table and copies it.     *)
(* The main thread waits for SIGINT, joins the two and frees the table.    *)
(* No lock is ever taken: the mutex of start() is unused.                  *)
(***************************************************************************)
EXTENDS Integers, Sequences, FiniteSets

CONSTANTS
  Root,        \* path_to_dir of the configuration file
  Subs,        \* the directories below it
  Names,       \* file names
  Files,       \* the files users work on: pairs <<directory, name>>
  NoName,      \* the name of an event without one (len = 0)
  Hidden,      \* the names that begin with a dot
  Contains,    \* Contains[n]: the names that contain n as a substring
  Key,         \* the hash key of a directory or of a file's path
  Worlds,      \* what the services may find: see WorldType
  MaxDirFds,   \* DIR streams the process can have open
  MaxQueued,   \* fs.inotify.max_queued_events
  MaxRead,     \* the events that fit into the buffer of read_events
  MaxWrites,   \* bound: how often users write a file
  Disturbances \* what may happen: see DisturbanceKinds

Dirs  == {Root} \cup Subs
Nodes == Dirs \cup Files

\* Ctrl+C; inotify_init(), pthread_create() or read() fails; a thread is slower than
\* main's join; users remove a directory.
DisturbanceKinds == {"sigint", "init", "create", "read", "slow", "rmdir"}

\* The table of the scan, and the one that the threads share.
Tables == {"ht_dirs", "hash_table"}

\* What the service meets and no step of it changes: the copies of a path that fill the
\* memory they are given, so that they have no end; the directories that inotify has no
\* watch left for (ENOSPC), and those that may not be read (EACCES); the paths of more than
\* HASH_ITEM_MAX_SIZE_STR characters; how many items a table takes before its count, which
\* malloc() left as it was, is its size; the file cp reads when the shell has split the
\* unquoted path of a file; the attributes whose path has no slash.
WorldType == [unterminated : SUBSET (Tables \X Dirs),
              unwatchable  : SUBSET Dirs,
              unreadable   : SUBSET Dirs,
              tooLong      : SUBSET Nodes,
              room         : [Tables -> Nat],
              shell        : [Dirs \X Names -> Dirs \X Names],
              slashless    : SUBSET {"path_to_dir", "path_to_backup"}]

ASSUME ConstantsAssumption ==
  /\ Root \notin Subs
  /\ Files \subseteq Dirs \X Names
  /\ Files \cap Dirs = {}
  /\ IsFiniteSet(Dirs)
  /\ NoName \notin Names
  /\ Hidden \subseteq Names
  /\ Contains \in [Names -> SUBSET Names]
  /\ \A n \in Names : n \in Contains[n]
  /\ \A p \in Nodes : Key[p] \in Nat
  /\ \A w \in Worlds : w \in WorldType
  /\ MaxDirFds \in Nat
  /\ MaxQueued \in Nat \ {0}
  /\ MaxRead \in Nat \ {0}
  /\ MaxWrites \in Nat
  /\ Disturbances \subseteq DisturbanceKinds

Threads == {"backup_loop", "general_loop"}

\* inotify instances: open_inotify_fd makes two at most, one per thread.
Instances == {1, 2}

VARIABLES
  proc,       \* the process: "running", "exited" or "crashed"
  keepRunning,\* backup_keep_running
  main,       \* what start() does next
  pc,         \* per thread, what it does next
  freed,      \* has start() freed the hash table and the argument?
  staticFd,   \* `fd` of open_inotify_fd: 0, an instance, or -1
  fdOf,       \* per thread, the descriptor open_inotify_fd returned to it
  made,       \* inotify instances made so far
  closed,     \* the instances closed by close_inotify_fd
  watches,    \* per instance, the directories it watches
  kqueue,     \* per instance, the events the kernel holds
  watched,    \* watched_items
  loaded,     \* per thread, watched_items as its increment loaded it
  scan,       \* what fts_read has yet to return
  dirTable,   \* the directories in ht_dirs that are still to be handled
  chain,      \* values of arg->hash_table in the order of `previous`, node last
  queue,      \* the event queue
  event,      \* the event handle_event is at, or NoEvent
  hi,         \* the position in chain handle_event is at, 0 past its end
  pathToDir,  \* arg->path_to_dir
  leaked,     \* DIR streams that handle_event opened: it closes none
  dirs,       \* the directories that exist
  version,    \* per file, the number of its last write, 0 when it does not exist
  writes,     \* writes so far
  world,      \* the one of Worlds that the service runs in
  backup      \* per name, the version that the backup directory has, or 0

mainVars == <<proc, keepRunning, main, freed>>
fdVars   == <<staticFd, fdOf, made>>
inoVars  == <<closed, watches, kqueue>>
cntVars  == <<watched, loaded>>
scanVars == <<scan, dirTable, chain>>
evVars   == <<queue, event, hi, pathToDir, leaked, backup>>
fsVars   == <<dirs, version, writes, world>>
vars == <<proc, keepRunning, main, pc, freed, staticFd, fdOf, made,
          closed, watches, kqueue, watched, loaded, scan, dirTable, chain,
          queue, event, hi, pathToDir, leaked, dirs, version, writes,
          world, backup>>

\* The events the code tells apart.  "written" stands for IN_CREATE, IN_MODIFY
\* and those of the default case (IN_ATTRIB, IN_MOVED_TO); "subdir" has IN_ISDIR;
\* IN_DELETE_SELF, IN_IGNORED and IN_Q_OVERFLOW are "nameless".
Kinds  == {"written", "deleted", "movedFrom", "subdir", "nameless"}
Events == [kind : Kinds, wd : Dirs \cup {NoName}, name : Names \cup {NoName}]

\* Mutant: the default case of handle_event does not ask for a backup.
OnlyKnownKinds == {"deleted"}

NeedToBackup == {"written", "deleted"}

Goto(t, label) == pc' = [pc EXCEPT ![t] = label]

\* Mutant: the list grows at its other end.
InsertAtFront(c, p) == <<p>> \o c

\* hash_table_insert_item takes the path p into a table with these items, of which there
\* are n: a full table, a long path, the keys 0 and 1 and a taken key are refused.
Accepts(table, items, n, p) ==
  /\ n < world.room[table]
  /\ p \notin world.tooLong
  /\ Key[p] > 1
  /\ \A q \in items : Key[q] # Key[p]

Insert(c, p) == IF Accepts("hash_table", {c[i] : i \in DOMAIN c}, Len(c), p)
                THEN Append(c, p) ELSE c

(***************************************************************************)
(* The kernel's side of inotify: it drops an event that repeats the last   *)
(* one, and what comes after a full queue's overflow event.                *)
(***************************************************************************)
NoEvent  == [kind |-> "none", wd |-> NoName, name |-> NoName]
Overflow == [kind |-> "nameless", wd |-> NoName, name |-> NoName]

Deliver(q, e) ==
  IF q # <<>> /\ q[Len(q)] = e THEN q
  ELSE IF Len(q) < MaxQueued THEN Append(q, e)
  ELSE IF Len(q) = MaxQueued THEN Append(q, Overflow)
  ELSE q

Notify(d, e) ==
  kqueue' = [i \in Instances |-> IF d \in watches[i] THEN Deliver(kqueue[i], e)
                                                     ELSE kqueue[i]]

(***************************************************************************)
(* What users do to the tree.                                              *)
(***************************************************************************)
WriteFile(f) ==
  /\ proc = "running"
  /\ writes < MaxWrites
  /\ f[1] \in dirs
  /\ writes' = writes + 1
  /\ version' = [version EXCEPT ![f] = writes + 1]
  /\ Notify(f[1], [kind |-> "written", wd |-> f[1], name |-> f[2]])
  /\ UNCHANGED <<mainVars, pc, fdVars, closed, watches, cntVars, scanVars, evVars, dirs,
                 world>>

RemoveFile(f) ==
  /\ proc = "running"
  /\ version[f] > 0
  /\ version' = [version EXCEPT ![f] = 0]
  /\ \E k \in {"deleted", "movedFrom"} :
       Notify(f[1], [kind |-> k, wd |-> f[1], name |-> f[2]])
  /\ UNCHANGED <<mainVars, pc, fdVars, closed, watches, cntVars, scanVars, evVars, dirs,
                 writes, world>>

\* The directory's own watch goes with it; its parent reports a "subdir" event.
RemoveDir(d) ==
  /\ proc = "running"
  /\ "rmdir" \in Disturbances
  /\ d \in dirs
  /\ d = Root => dirs = {Root}
  /\ \A f \in Files : f[1] = d => version[f] = 0
  /\ dirs' = dirs \ {d}
  /\ watches' = [i \in Instances |-> watches[i] \ {d}]
  /\ LET self == [kind |-> "nameless", wd |-> d, name |-> NoName]
         gone == [kind |-> "subdir", wd |-> Root, name |-> NoName]
     IN kqueue' = [i \in Instances |->
          LET q == IF d \in watches[i] THEN Deliver(kqueue[i], self) ELSE kqueue[i]
          IN IF d # Root /\ Root \in watches[i] THEN Deliver(q, gone) ELSE q]
  /\ UNCHANGED <<mainVars, pc, fdVars, closed, cntVars, scanVars, evVars, version, writes,
                 world>>

\* backup_signal_handler.
Sigint ==
  /\ proc = "running"
  /\ "sigint" \in Disturbances
  /\ keepRunning
  /\ keepRunning' = FALSE
  /\ UNCHANGED <<proc, main, freed, pc, fdVars, inoVars, cntVars, scanVars, evVars,
                 fsVars>>

-----------------------------------------------------------------------------
(***************************************************************************)
(* The main thread: start().                                               *)
(***************************************************************************)
MainUnchanged == UNCHANGED <<fdVars, inoVars, cntVars, scanVars, evVars, fsVars>>

\* pthread_create; when it fails, start() frees everything and returns.
CreateThread(t, first, at, next) ==
  /\ main = at
  /\ \/ /\ Goto(t, first)
        /\ main' = next
     \/ /\ "create" \in Disturbances
        /\ main' = "free"
        /\ UNCHANGED pc
  /\ UNCHANGED <<proc, keepRunning, freed>>
  /\ MainUnchanged

\* Mutant: main does not wait for SIGINT.
NoSleep == TRUE

\* The sleep loop, which only the signal handler ends.
SleepEnds == ~keepRunning

WakeUp ==
  /\ main = "sleep"
  /\ SleepEnds
  /\ main' = "join backup_loop"
  /\ UNCHANGED <<proc, keepRunning, freed, pc>>
  /\ MainUnchanged

\* Mutant: the wait for a thread is given up at once.
JoinedAnyway(t) == TRUE

\* pthread_tryjoin_np succeeds, or BACKUP_MAX_SEC_WAIT seconds have passed.
Joined(t) == pc[t] = "done" \/ "slow" \in Disturbances

JoinThread(t, at, next) ==
  /\ main = at
  /\ Joined(t)
  /\ main' = next
  /\ UNCHANGED <<proc, keepRunning, freed, pc>>
  /\ MainUnchanged

\* free_and_exit of start().
FreeTable ==
  /\ main = "free"
  /\ freed' = TRUE
  /\ main' = "return"
  /\ UNCHANGED <<proc, keepRunning, pc>>
  /\ MainUnchanged

\* start() and main() return, or backup_service_err_handler exits: the process
\* ends with all its threads.
Return ==
  /\ main = "return"
  /\ proc' = "exited"
  /\ UNCHANGED <<keepRunning, main, freed, pc>>
  /\ MainUnchanged

-----------------------------------------------------------------------------
(***************************************************************************)
(* open_inotify_fd and watch_dir, which both threads call.                 *)
(***************************************************************************)

\* What follows open_inotify_fd() in each thread.
Opened(t, fd) == IF t = "backup_loop" THEN IF fd > 0 THEN "watch" ELSE "count"
                                      ELSE IF fd > 0 THEN "watch root" ELSE "done"

\* The test of the static descriptor.
TestFd(t) ==
  /\ pc[t] = "open"
  /\ IF staticFd # 0
     THEN /\ fdOf' = [fdOf EXCEPT ![t] = staticFd]
          /\ Goto(t, Opened(t, staticFd))
     ELSE /\ Goto(t, "init")
          /\ UNCHANGED fdOf
  /\ UNCHANGED <<mainVars, staticFd, made, inoVars, cntVars, scanVars, evVars, fsVars>>

\* inotify_init() and the assignment of the static descriptor; the caller gets
\* the value it made itself.
InitFd(t) ==
  /\ pc[t] = "init"
  /\ \E fd \in {made + 1} \cup (IF "init" \in Disturbances THEN {-1} ELSE {}) :
       /\ staticFd' = fd
       /\ made' = IF fd > 0 THEN fd ELSE made
       /\ fdOf' = [fdOf EXCEPT ![t] = fd]
       /\ Goto(t, Opened(t, fd))
  /\ UNCHANGED <<mainVars, inoVars, cntVars, scanVars, evVars, fsVars>>

\* inotify_add_watch succeeds: nobody has closed the descriptor, and the directory is
\* there, can be read, and there is a watch left for it.
Watchable(d) == d \in dirs /\ d \notin world.unwatchable \cup world.unreadable

CanWatch(t, d) == fdOf[t] \notin closed /\ Watchable(d)

AddWatch(t, d) ==
  /\ watches' = [watches EXCEPT ![fdOf[t]] = @ \cup {d}]
  /\ Goto(t, "load")

\* watched_items++ is one unlocked instruction: it loads, then stores.
LoadCount(t) ==
  /\ pc[t] = "load"
  /\ loaded' = [loaded EXCEPT ![t] = watched]
  /\ Goto(t, "store")
  /\ UNCHANGED <<mainVars, fdVars, inoVars, watched, scanVars, evVars, fsVars>>

StoreCount(t) ==
  /\ pc[t] = "store"
  /\ watched' = loaded[t] + 1
  /\ loaded' = [loaded EXCEPT ![t] = 0]
  /\ Goto(t, IF t = "backup_loop" THEN "insert" ELSE "poll")
  /\ UNCHANGED <<mainVars, fdVars, inoVars, scanVars, evVars, fsVars>>

OpenInotify(t) == TestFd(t) \/ InitFd(t) \/ LoadCount(t) \/ StoreCount(t)

-----------------------------------------------------------------------------
(***************************************************************************)
(* backup_loop: backup_check_fs_and_run.                                   *)
(***************************************************************************)
Children(d) == IF d \notin dirs \/ d \in world.unreadable THEN {}
               ELSE {f \in Files : f[1] = d /\ version[f] > 0}
                    \cup (IF d = Root THEN Subs \cap dirs ELSE {})

\* One fts_read(), in any order that visits a directory before its entries.
Scan ==
  /\ pc["backup_loop"] = "scan"
  /\ keepRunning
  /\ \E p \in scan :
       IF p \in Dirs
       THEN /\ scan' = (scan \ {p}) \cup Children(p)
            /\ dirTable' = IF Accepts("ht_dirs", dirTable, Cardinality(dirTable), p)
                           THEN dirTable \cup {p} ELSE dirTable
            /\ UNCHANGED chain
       ELSE /\ scan' = scan \ {p}
            /\ chain' = Insert(chain, p)
            /\ UNCHANGED dirTable
  /\ UNCHANGED <<mainVars, pc, fdVars, inoVars, cntVars, evVars, fsVars>>

ScanEnds ==
  /\ pc["backup_loop"] = "scan"
  /\ scan = {} \/ ~keepRunning
  /\ Goto("backup_loop", "open")
  /\ UNCHANGED <<mainVars, fdVars, inoVars, cntVars, scanVars, evVars, fsVars>>

\* The directory of ht_dirs that the loop over its keys is at.
Current == CHOOSE d \in dirTable : \A e \in dirTable : Key[d] <= Key[e]

\* __hash_item_create copies strlen(value) bytes into as many: when the path fills the
\* memory it is given, what is read back goes on with what lies behind.
CopyIntact(table, d) == <<table, d>> \notin world.unterminated

\* The loop over ht_dirs, up to watch_dir.  The root is watched by general_loop.
\* When inotify_add_watch fails, free_and_exit frees ht_dirs and the loop goes on.
WatchDir ==
  /\ pc["backup_loop"] = "watch"
  /\ IF dirTable = {}
     THEN Goto("backup_loop", "count") /\ UNCHANGED watches
     ELSE IF Current = Root /\ CopyIntact("ht_dirs", Current)
     THEN Goto("backup_loop", "insert") /\ UNCHANGED watches
     ELSE IF CanWatch("backup_loop", Current) /\ CopyIntact("ht_dirs", Current)
     THEN AddWatch("backup_loop", Current)
     ELSE Goto("backup_loop", "use after free") /\ UNCHANGED watches
  /\ UNCHANGED <<mainVars, fdVars, closed, kqueue, cntVars, scanVars, evVars, fsVars>>

InsertDir ==
  /\ pc["backup_loop"] = "insert"
  /\ chain' = Insert(chain, Current)
  /\ dirTable' = dirTable \ {Current}
  /\ Goto("backup_loop", "watch")
  /\ UNCHANGED <<mainVars, fdVars, inoVars, cntVars, scan, evVars, fsVars>>

\* backup_fs_iteration_main looks whether the table is empty, and only logs it.
ReadCount ==
  /\ pc["backup_loop"] = "count"
  /\ Goto("backup_loop", "done")
  /\ UNCHANGED <<mainVars, fdVars, inoVars, cntVars, scanVars, evVars, fsVars>>

BackupLoop == \/ OpenInotify("backup_loop") \/ Scan \/ ScanEnds \/ WatchDir \/ InsertDir
              \/ ReadCount

-----------------------------------------------------------------------------
(***************************************************************************)
(* general_loop: pthread_on_dir_run.                                       *)
(***************************************************************************)
WatchRoot ==
  /\ pc["general_loop"] = "watch root"
  /\ CanWatch("general_loop", Root)
  /\ AddWatch("general_loop", Root)
  /\ UNCHANGED <<mainVars, fdVars, closed, kqueue, cntVars, scanVars, evVars, fsVars>>

OtherUnchanged == UNCHANGED <<keepRunning, main, freed, fdVars, closed, watches,
                              cntVars, scanVars, fsVars>>

MyEvents == kqueue[fdOf["general_loop"]]

\* Mutant: the loop looks at watched_items only.
LoopUntilUnwatched == watched > 0

\* Mutant: the loop ends when only the root is watched.
LoopWhileSubsWatched == keepRunning /\ watched > 1

LoopGoesOn == keepRunning /\ watched > 0

\* The loop of process_inotify_events up to the return of poll().
PollEvent ==
  /\ pc["general_loop"] = "poll"
  /\ \/ /\ LoopGoesOn
        /\ MyEvents # <<>>
        /\ Goto("general_loop", "read")
     \/ /\ ~LoopGoesOn
        /\ Goto("general_loop", "close")
  /\ UNCHANGED <<mainVars, fdVars, inoVars, cntVars, scanVars, evVars, fsVars>>

\* How many events the buffer of read_events takes.
ReadSize == IF Len(MyEvents) <= MaxRead THEN Len(MyEvents) ELSE MaxRead

\* read_events: the loop that enqueues what read() took stops at SIGINT and drops the
\* rest of it.  When read() fails, the thread leaves without closing the descriptor.
ReadEvents ==
  /\ pc["general_loop"] = "read"
  /\ \/ /\ \/ queue' = SubSeq(MyEvents, 1, ReadSize)
           \/ ~keepRunning /\ \E k \in 1..ReadSize : queue' = SubSeq(MyEvents, 1, k - 1)
        /\ kqueue' = [kqueue EXCEPT ![fdOf["general_loop"]] =
                        SubSeq(@, ReadSize + 1, Len(@))]
        /\ Goto("general_loop", "dequeue")
     \/ /\ "read" \in Disturbances
        /\ Goto("general_loop", "done")
        /\ UNCHANGED <<queue, kqueue>>
  /\ UNCHANGED <<proc, event, hi, pathToDir, leaked, backup>>
  /\ OtherUnchanged

\* process_handle_events returns to the loop of process_inotify_events.
QueueEmpty ==
  /\ pc["general_loop"] = "dequeue"
  /\ queue = <<>>
  /\ Goto("general_loop", "poll")
  /\ UNCHANGED <<proc, kqueue, evVars>>
  /\ OtherUnchanged

\* The events that handle_event returns from at once.
Ignored(e) == e.kind = "subdir" \/ e.name \in Hidden

\* queue_dequeue and the beginning of handle_event.  An event without a name makes
\* it read through a null pointer.
Dequeue ==
  /\ pc["general_loop"] = "dequeue"
  /\ queue # <<>>
  /\ queue' = Tail(queue)
  /\ LET e == Head(queue) IN
       \/ /\ e.kind = "nameless"
          /\ proc' = "crashed"
          /\ UNCHANGED <<pc, event, hi>>
       \/ /\ e.kind # "nameless" /\ Ignored(e)
          /\ UNCHANGED <<proc, pc, event, hi>>
       \/ /\ e.kind # "nameless" /\ ~Ignored(e)
          /\ event' = e
          /\ hi' = Len(chain)
          /\ Goto("general_loop", "walk")
          /\ UNCHANGED proc
  /\ UNCHANGED <<kqueue, pathToDir, leaked, backup>>
  /\ OtherUnchanged

EventDone == Goto("general_loop", "dequeue") /\ event' = NoEvent /\ hi' = 0

\* Mutant: opendir() is taken to succeed on every directory.
CanOpenAlways(p) == p \in dirs

\* opendir() of an item of the hash table; a file's path is no directory.
CanOpen(p) == /\ p \in dirs /\ p \notin world.unreadable
              /\ leaked < MaxDirFds
              /\ CopyIntact("hash_table", p)

\* backup_helpers_find_file.
FindFile(d, n) == keepRunning /\ \E f \in Files : /\ f[1] = d
                                                  /\ version[f] > 0
                                                  /\ f[2] \in Contains[n]

\* One iteration of handle_event's loop over the hash table.
Walk ==
  /\ pc["general_loop"] = "walk"
  /\ hi > 0
  /\ \/ /\ CanOpen(chain[hi]) /\ FindFile(chain[hi], event.name)
        /\ leaked' = leaked + 1
        /\ pathToDir' = chain[hi]
        /\ hi' = 0
        /\ UNCHANGED <<pc, event>>
     \/ /\ CanOpen(chain[hi]) /\ ~FindFile(chain[hi], event.name)
        /\ leaked' = leaked + 1
        /\ hi' = hi - 1
        /\ UNCHANGED <<pc, event, pathToDir>>
     \/ /\ ~CanOpen(chain[hi])
        /\ EventDone
        /\ UNCHANGED <<leaked, pathToDir>>
  /\ UNCHANGED <<proc, kqueue, queue, backup>>
  /\ OtherUnchanged

\* strrchr() finds no slash in a path that strlen() is then applied to.
NoSlash == \/ pathToDir = Root /\ "path_to_dir" \in world.slashless
           \/ "path_to_backup" \in world.slashless

\* The rest of handle_event, and backup_fs_make_backup: the shell gives cp a path, and cp
\* fails if that file does not exist or is not one of the tree.
Copy ==
  /\ pc["general_loop"] = "walk"
  /\ hi = 0
  /\ \/ /\ event.kind \in NeedToBackup
        /\ NoSlash
        /\ proc' = "crashed"
        /\ UNCHANGED <<pc, event, hi, backup>>
     \/ /\ event.kind \in NeedToBackup => ~NoSlash
        /\ LET f == world.shell[<<pathToDir, event.name>>] IN
             IF event.kind \in NeedToBackup /\ f \in Files /\ version[f] > 0
             THEN backup' = [backup EXCEPT ![f[2]] = version[f]]
             ELSE UNCHANGED backup
        /\ EventDone
        /\ UNCHANGED proc
  /\ UNCHANGED <<kqueue, queue, pathToDir, leaked>>
  /\ OtherUnchanged

\* close_inotify_fd, and the same way out when the root cannot be watched.
CloseFd ==
  /\ \/ pc["general_loop"] = "close"
     \/ pc["general_loop"] = "watch root" /\ ~CanWatch("general_loop", Root)
  /\ LET fd == fdOf["general_loop"] IN
       /\ closed' = closed \cup {fd}
       /\ watches' = [watches EXCEPT ![fd] = {}]
       /\ kqueue' = [kqueue EXCEPT ![fd] = <<>>]
  /\ watched' = 0
  /\ Goto("general_loop", "done")
  /\ UNCHANGED <<mainVars, fdVars, loaded, scanVars, evVars, fsVars>>

GeneralLoop == \/ OpenInotify("general_loop") \/ WatchRoot \/ PollEvent \/ ReadEvents
               \/ QueueEmpty \/ Dequeue \/ Walk \/ Copy \/ CloseFd

\* A thread at one of these labels reads or writes memory that start() frees.
UsesTable == \/ pc["backup_loop"] \in {"scan", "insert", "count"}
             \/ pc["general_loop"] \in {"watch root", "dequeue", "walk"}

\* The freed ht_dirs is used and freed again, or a thread uses the freed table.
Crash ==
  /\ pc["backup_loop"] = "use after free" \/ (freed /\ UsesTable)
  /\ proc' = "crashed"
  /\ UNCHANGED <<keepRunning, main, freed, pc>>
  /\ MainUnchanged

-----------------------------------------------------------------------------
Init ==
  /\ proc = "running" /\ keepRunning = TRUE /\ freed = FALSE
  /\ main = "create backup_loop"
  /\ pc = [t \in Threads |-> "none"]
  /\ staticFd = 0 /\ made = 0
  /\ fdOf = [t \in Threads |-> 0]
  /\ closed = {}
  /\ watches = [i \in Instances |-> {}]
  /\ kqueue = [i \in Instances |-> <<>>]
  /\ watched = 0
  /\ loaded = [t \in Threads |-> 0]
  /\ scan = {Root} /\ dirTable = {} /\ chain = <<>>
  /\ queue = <<>> /\ event = NoEvent /\ hi = 0
  /\ pathToDir = Root /\ leaked = 0
  /\ dirs = Dirs
  /\ version = [f \in Files |-> 0] /\ writes = 0
  /\ world \in Worlds
  /\ backup = [n \in Names |-> 0]

MainThread ==
  \/ CreateThread("backup_loop", "scan", "create backup_loop", "create general_loop")
  \/ CreateThread("general_loop", "open", "create general_loop", "sleep")
  \/ WakeUp
  \/ JoinThread("backup_loop", "join backup_loop", "join general_loop")
  \/ JoinThread("general_loop", "join general_loop", "free")
  \/ FreeTable
  \/ Return

Users == \/ \E f \in Files : WriteFile(f) \/ RemoveFile(f)
         \/ \E d \in Dirs : RemoveDir(d)

Next == /\ proc = "running"
        /\ MainThread \/ BackupLoop \/ GeneralLoop \/ Crash \/ Users \/ Sigint

\* The threads are scheduled; nobody has to write a file or press Ctrl+C.
Fairness == /\ WF_vars(proc = "running" /\ MainThread)
            /\ WF_vars(proc = "running" /\ (BackupLoop \/ Crash))
            /\ WF_vars(proc = "running" /\ GeneralLoop)

Spec == Init /\ [][Next]_vars /\ Fairness

-----------------------------------------------------------------------------
(***************************************************************************)
(* Types.                                                                  *)
(***************************************************************************)
MainLabels == {"create backup_loop", "create general_loop", "sleep",
               "join backup_loop", "join general_loop", "free", "return"}
SharedLabels  == {"none", "open", "init", "load", "store", "done"}
ScannerLabels == SharedLabels \cup {"scan", "watch", "insert", "count",
                                 "use after free"}
WatcherLabels == SharedLabels \cup {"watch root", "poll", "read", "dequeue", "walk", "close"}

TypeOK ==
  /\ proc \in {"running", "exited", "crashed"}
  /\ keepRunning \in BOOLEAN /\ freed \in BOOLEAN
  /\ main \in MainLabels
  /\ pc["backup_loop"] \in ScannerLabels /\ pc["general_loop"] \in WatcherLabels
  /\ staticFd \in Instances \cup {-1, 0}
  /\ fdOf \in [Threads -> Instances \cup {-1, 0}]
  /\ made \in {0} \cup Instances
  /\ closed \subseteq Instances
  /\ watches \in [Instances -> SUBSET Dirs]
  /\ kqueue \in [Instances -> Seq(Events)]
  /\ watched \in Nat
  /\ loaded \in [Threads -> Nat]
  /\ scan \subseteq Nodes /\ dirTable \subseteq Dirs /\ chain \in Seq(Nodes)
  /\ queue \in Seq(Events) /\ event \in Events \cup {NoEvent}
  /\ hi \in 0..Len(chain) /\ pathToDir \in Dirs /\ leaked \in 0..MaxDirFds
  /\ dirs \subseteq Dirs
  /\ version \in [Files -> 0..MaxWrites] /\ writes \in 0..MaxWrites
  /\ world \in Worlds
  /\ backup \in [Names -> 0..MaxWrites]

(***************************************************************************)
(* Safety.                                                                 *)
(***************************************************************************)

\* start() frees the hash table and the thread argument only when no thread can
\* touch them any more.  True as long as the threads end within the join timeout.
NoUseAfterFree == freed => ~UsesTable

\* The failing watch that makes backup_check_fs_and_run free ht_dirs twice has a cause of
\* its own, this directory or its path, or general_loop closed the descriptor: no race on
\* watched_items makes it do so, only SIGINT or its failing watch on the root.
DoubleFreeHasCause ==
  pc["backup_loop"] = "use after free" =>
    \/ ~Watchable(Current) \/ ~CopyIntact("ht_dirs", Current)
    \/ ~keepRunning \/ ~Watchable(Root)

\* start() frees the table under a thread only at a shutdown whose join timed out, or
\* when it could not create the second thread: never while the service is in use.
UseAfterFreeHasCause == freed /\ UsesTable => ~keepRunning \/ pc["general_loop"] = "none"

\* A search meets every directory that the table holds before a file's path, at which
\* opendir() fails and handle_event gives the event up.
DirectoriesSearchedFirst ==
  \A i, j \in DOMAIN chain : i < j /\ chain[i] \in Dirs => chain[j] \in Dirs

\* A write of f that general_loop has yet to handle: the kernel or the event queue holds
\* it, or it is in hand and the walk has yet to reach f's directory or has chosen it.
IsWriteOf(e, f) == e.kind = "written" /\ <<e.wd, e.name>> = f

Listening == pc["general_loop"] \in {"load", "store", "poll", "read", "dequeue", "walk"}

Reported(f) == \E i \in DOMAIN MyEvents : IsWriteOf(MyEvents[i], f)
Queued(f)   == \E i \in DOMAIN queue : IsWriteOf(queue[i], f)
InHand(f)   == /\ pc["general_loop"] = "walk"
               /\ IsWriteOf(event, f)
               /\ \/ hi = 0 /\ pathToDir = f[1]
                  \/ \E p \in 1..hi : chain[p] = f[1]

OnItsWay(f) == /\ Listening
               /\ \E p \in DOMAIN chain : chain[p] = f[1]
               /\ Reported(f) \/ Queued(f) \/ InHand(f)

\* A general_loop that has come to watch the root goes on until SIGINT: no race on
\* watched_items can bring it to zero.  It says nothing of a general_loop that never
\* listened, because inotify_init() or the watch on the root failed, and it is true as
\* long as read() does not fail: in these three cases main sleeps over a dead watcher.
WatcherRunsUntilSigint == [][Listening => Listening' \/ ~keepRunning]_vars

\* Both threads end up with the one inotify instance of open_inotify_fd.
OneInotifyInstance ==
  \A t, u \in Threads : fdOf[t] > 0 /\ fdOf[u] > 0 => fdOf[t] = fdOf[u]

\* handle_event survives every event the kernel delivers.
EventsHandled == proc # "crashed"

(***************************************************************************)
(* Liveness.                                                               *)
(***************************************************************************)

\* SIGINT ends the process: every loop looks at backup_keep_running.
SigintTerminates == ~keepRunning ~> proc # "running"

\* Another directory has a file in whose name f's name occurs: the look-up by substring
\* may take that directory for f's.
Shadowed(f) == \E g \in Files : /\ g[1] # f[1]
                               /\ version[g] > 0
                               /\ g[2] \in Contains[f[2]]

\* The walk comes to something it cannot open before f's directory, or there: a file or a
\* directory that was removed, may not be read or has no end in the table; or
\* handle_event has used up the descriptors.
Blocked(f) == \E i, j \in DOMAIN chain : chain[i] = f[1] /\ i <= j /\ ~CanOpen(chain[j])

\* The causes for which a write may get lost although its directory is in the table and
\* general_loop was told of it: SIGINT; the file is gone, shadowed or hidden; the walk is
\* blocked; the shell does not read the path as it is; read() fails.
MayBeLost(f) == \/ ~keepRunning
                \/ version[f] = 0 \/ Shadowed(f) \/ f[2] \in Hidden
                \/ Blocked(f)
                \/ world.shell[f] # f
                \/ "read" \in Disturbances

\* Once its directory is in the table, a write that was reported stays on its way until
\* the backup has the file as it is, whatever backup_loop and the users do meanwhile.
\* (The process may still end over it: EventsHandled.)
NoWriteForgotten ==
  [][\A f \in Files :
       OnItsWay(f) => OnItsWay(f)' \/ backup'[f[2]] = version[f] \/ MayBeLost(f)]_vars

\* A write that is on its way gets into the backup, unless the file is written again or
\* removed before that, or something of MayBeLost happens, or the process crashes over
\* another event or at a path without a slash.
WritesAreBackedUp ==
  \A f \in Files, v \in 1..MaxWrites :
    (OnItsWay(f) /\ version[f] = v)
      ~> backup[f[2]] = v \/ version[f] # v \/ MayBeLost(f) \/ proc = "crashed"
=============================================================================
