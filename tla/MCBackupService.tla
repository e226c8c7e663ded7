---------------------------- MODULE MCBackupService ----------------------------
(***************************************************************************)
(* Small instances of BackupService for TLC: a watched directory with one  *)
(* subdirectory and two files.                                             *)
(***************************************************************************)
EXTENDS BackupService

CONSTANTS root, sub, a, ab, c

OneSub    == {sub}
ThreeNames == {a, ab, c}

\* A file of each directory, with names neither of which contains the other.
ApartFiles == {<<root, a>>, <<sub, c>>}

\* Both directories have a file of the same name.
TwinFiles == {<<root, a>>, <<sub, a>>}

\* The name of the root's file occurs in the name of the subdirectory's file.
SubstringFiles == {<<root, a>>, <<sub, ab>>}

NothingHidden == {}
OneHidden     == {c}

Substrings == [n \in ThreeNames |-> IF n = a THEN {a, ab} ELSE {n}]

\* The hash keys of the paths, in an order in which the root is walked first.
SomeKeys == [p \in {root, sub} \cup ({root, sub} \X ThreeNames) |->
               IF p = root THEN 9 ELSE IF p = sub THEN 4
               ELSE IF p = <<root, a>> THEN 2 ELSE IF p[1] = sub THEN 7 ELSE 8]

\* The path of the subdirectory's file has the key of the subdirectory, and the path of the
\* root's file a key that is refused.
CollidingKeys == [SomeKeys EXCEPT ![<<sub, ab>>] = 4, ![<<root, a>>] = 1]

\* Nothing goes wrong.
Plain == [unterminated |-> {}, unwatchable |-> {}, unreadable |-> {}, tooLong |-> {},
          room |-> [t \in Tables |-> 10000], slashless |-> {},
          shell |-> [p \in {root, sub} \X ThreeNames |-> p]]

\* The name ab has a blank behind its a.
Split == [p \in {root, sub} \X ThreeNames |-> IF p[2] = ab THEN <<p[1], a>> ELSE p]

\* One thing goes wrong.
NoWatchFor(d)    == [Plain EXCEPT !.unwatchable = {d}]
NotReadable(d)   == [Plain EXCEPT !.unreadable = {d}]
NoEnd(table, d)  == [Plain EXCEPT !.unterminated = {<<table, d>>}]
LongPath(d)      == [Plain EXCEPT !.tooLong = {d}]
RoomForOne       == [Plain EXCEPT !.room = [t \in Tables |-> 1]]
WithoutSlash(at) == [Plain EXCEPT !.slashless = {at}]
Blanks           == [Plain EXCEPT !.shell = Split]

OnlyPlain    == {Plain}
SafetyWorlds == {Plain} \cup {NoWatchFor(d) : d \in {root, sub}}
FaultWorlds  == SafetyWorlds \cup {NotReadable(d) : d \in {root, sub}}
                             \cup {NoEnd(t, sub) : t \in Tables}
                             \cup {LongPath(sub), RoomForOne, WithoutSlash("path_to_dir")}
LiveWorlds   == {Plain, NotReadable(sub), NoEnd("hash_table", sub), RoomForOne,
                 WithoutSlash("path_to_dir"), Blanks}

Undisturbed == {}
CtrlC == {"sigint"}
EveryDisturbance == {"sigint", "init", "create", "read", "slow", "rmdir"}
=============================================================================
