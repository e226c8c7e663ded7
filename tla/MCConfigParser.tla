---------------------------- MODULE MCConfigParser ----------------------------
(***************************************************************************)
(* Files of at most MaxLines lines over a few values, and every network in *)
(* a file of its own, for addresses of two octets of two bits.             *)
(***************************************************************************)
EXTENDS ConfigParser

CONSTANT MaxLines   \* bound: lines of a file

SmallTexts  == {<<>>, <<"a">>, <<"b">>, <<"b", "c">>}
DirectoryTexts == {<<"a">>}
NoSuchTexts == {<<>>, <<"b">>}
SmallNumbers == {0, 7}
SmallNetworks ==
  {[ip |-> {0}, bits |-> 2], [ip |-> {1, 3}, bits |-> 4], [ip |-> {2}, bits |-> 3],
   [ip |-> BadPrefix, bits |-> 1], NoSlash}
TooLongPrefixes == {{2}, BadPrefix}

OddLines == {Long, Bare, [key |-> Unknown, value |-> <<>>]}

Pairs(keys, values) == {[key |-> k, value |-> v] : k \in keys, v \in values \cup {Missing}}

FirewallLines ==
  Pairs(FirewallTexts, {<<>>, <<"a">>, <<"b", "c">>}) \cup Pairs({"packet_num"}, {7, Inf, Junk})
    \cup Pairs(NetworkKeys, SmallNetworks) \cup OddLines

BackupLines == Pairs(BackupKeys, SmallTexts) \cup OddLines

Files(lines) == UNION {[1..n -> lines] : n \in 0..MaxLines}

AnyNetwork == {<<[key |-> "untrusted_net", value |-> [ip |-> a, bits |-> n]]>> :
                 a \in Addresses, n \in 0..(Width + 1)}

SmallFirewallFiles == Files(FirewallLines) \cup AnyNetwork
SmallBackupFiles   == Files(BackupLines)
AllNetworks == SmallNetworks \cup {f[1].value : f \in AnyNetwork}
=============================================================================
