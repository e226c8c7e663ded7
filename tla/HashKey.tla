-------------------------------- MODULE HashKey --------------------------------
(***************************************************************************)
(* The hash function of helpers_hash_table.c, on the codes of a path's     *)
(* characters.                                                             *)
(***************************************************************************)
EXTENDS Integers, Sequences

LOCAL INSTANCE SequencesExt

\* `while (*str++)` skips the first character; the unsigned sum of the others, which may
\* have negative codes, is reduced.
Hash(word, keyMaxLen, str) ==
  IF str = <<>> THEN 0
  ELSE FoldSeq(LAMBDA c, sum : (sum + c) % word, 0, Tail(str)) % keyMaxLen
=============================================================================
