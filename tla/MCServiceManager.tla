--------------------------- MODULE MCServiceManager ---------------------------
(***************************************************************************)
(* Small instances of ServiceManager for TLC.                              *)
(***************************************************************************)
EXTENDS ServiceManager, TLC

CONSTANTS b1, b2, f1, f2

OneBackup    == {b1}
TwoBackups   == {b1, b2}
OneFirewall  == {f1}
NoFirewall   == {}

\* Executions of the same program are interchangeable.
BackupSymmetry == Permutations(TwoBackups)
=============================================================================
