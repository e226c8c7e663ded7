------------------------------ MODULE NetworkMatch ------------------------------
(***************************************************************************)
(* The test that decides whether a packet comes from the untrusted network *)
(* (start and fw_got_packet of services/firewall_service).                 *)
(*                                                                         *)
(* An IPv4 address is kept in network byte order in an unsigned int of a   *)
(* little-endian machine.  Here it is the set of the positions of its one  *)
(* bits in that int.  The first octet, which leads the address as it is    *)
(* written, holds the lowest positions, and the leading bit of an octet    *)
(* the highest one of the octet.                                           *)
(***************************************************************************)
EXTENDS Integers

CONSTANTS
  Octet,     \* bits of an octet
  Octets     \* octets of an address

ASSUME AddressAssumption == Octet \in Nat \ {0} /\ Octets \in Nat \ {0}

Width     == Octet * Octets
Positions == 0..(Width - 1)
Addresses == SUBSET Positions

\* How far from the front a position stands in the written address.
Rank(p) == (p \div Octet) * Octet + (Octet - 1 - (p % Octet))

\* The network ip/bits of the iptables rules: the first bits of the written address.
Leading(bits)     == {p \in Positions : Rank(p) < bits}
Members(ip, bits) == {a \in Addresses : a \cap Leading(bits) = ip \cap Leading(bits)}

\* No bit of the address is set outside the network part.
Canonical(ip, bits) == ip \subseteq Leading(bits)

-----------------------------------------------------------------------------
\* Mutant: the mask has one bit less.
MaskTooShort(ip, bits) == {p \in ip : p < (bits % Width) - 1}

\* net_bits & ((1 << bits) - 1): the shift takes its count modulo the width, and the
\* mask holds the low bits of the int instead of the leading ones of the address.
Mask(ip, bits) == {p \in ip : p < (bits % Width)}

\* (ip_bits & netmask) == net_bits
Matches(source, mask, net) == source \cap mask = net
=============================================================================
