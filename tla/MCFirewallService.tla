--------------------------- MODULE MCFirewallService ---------------------------
(***************************************************************************)
(* Two firewall services on one machine for TLC.  What goes wrong goes     *)
(* wrong in the first one; the second one watches a single device and      *)
(* meets no failure of its own.  With "all" a device without a name fails  *)
(* to open, so that devices that fail by chance are left out.              *)
(***************************************************************************)
EXTENDS FirewallService

CONSTANTS f1, f2

FirstOnly == [i \in {f1, f2} |-> IF i = f1 THEN PossibleFaults \ {"open", "slow"} ELSE {}]

FirstEither == [i \in {f1, f2} |-> IF i = f1 THEN BOOLEAN ELSE {FALSE}]
=============================================================================
