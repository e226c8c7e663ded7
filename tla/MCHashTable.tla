----------------------------- MODULE MCHashTable -----------------------------
(***************************************************************************)
(* Seven short paths for TLC, with the characters a, b, c and i numbered.  *)
(* As in the unit test at the end of helpers_hash_table.c, "biba" and      *)
(* "babi" have the same key.                                               *)
(***************************************************************************)
EXTENDS HashTable, HashKey

biba == <<2, 4, 2, 1>>
babi == <<2, 1, 2, 4>>
ai   == <<1, 4>>
ac   == <<1, 3>>
ba   == <<2, 1>>
aab  == <<1, 1, 2>>

MCValues == {biba, babi, ai, ac, ba, aab, <<2>>}
MCTooLong == {aab}
MCUnterminated == {ai}
MCSize == 5
MCKey == [v \in MCValues |-> Hash(16, MCSize, v)]
=============================================================================
