------------------------------ MODULE ConfigParser ------------------------------
(***************************************************************************)
(* The configuration files of the two services, from the file to what the  *)
(* service runs with: parser_read_conf and parser_get_index_by_param       *)
(* (services/helpers/helpers_parser.c), fw_parse_and_serialize_config, and *)
(* backup_parse_and_serialize_config with the setters it calls, and the    *)
(* network test that the firewall derives from its attributes.             *)
(*                                                                         *)
(* A file is a sequence of lines, the last of them ended by a newline or   *)
(* not.  A line is Long (more than PARSER_FILE_STROKE_MAX_LEN characters), *)
(* Bare (it has no ':', an empty line is one), or a key with a value.  The *)
(* value begins two characters behind the key; it is Missing if the line   *)
(* ends with the ':'.  All values fit into the buffers of the attributes,  *)
(* except that the prefix of a network may be too long for its own.  What  *)
(* is written or read outside a buffer ends the process or does no harm.   *)
(***************************************************************************)
EXTENDS NetworkMatch, Sequences

CONSTANTS
  FirewallFiles, BackupFiles,  \* the files: sequences of lines
  Texts,          \* values of the texts; garbage on the stack is one of them
  PacketNumbers,  \* values of packet_num that are numbers
  NetworkValues,  \* values of the networks
  StaleNetworks,  \* those of them that the stack may hold as garbage
  Directories,  \* the texts that are the path of a directory
  StatFails,    \* the texts that are a path for which stat fails
  FullPrefixes, \* the addresses that are written with 15 characters
  LongPrefixes, \* the prefixes, good or bad, that are written with more
  MaxPackets,   \* bound: packets of the untrusted network that are counted
  Long, Bare, Unknown, Missing, Inf, Junk, NoSlash, BadPrefix, NUL

FirewallTexts == {"interface", "filter"}
PathKeys      == {"path_to_backup", "path_to_log"}
TextKeys      == FirewallTexts \cup PathKeys \cup {"path_to_dir"}
NetworkKeys   == {"untrusted_net", "trusted_net"}

\* The keys that a parser knows.
FirewallKeys  == FirewallTexts \cup NetworkKeys \cup {"packet_num"}
BackupKeys    == PathKeys \cup {"path_to_dir"}
Keys          == FirewallKeys \cup BackupKeys

Networks == [ip : Addresses, bits : Nat]

\* What the value of a line may be, and what the stack may hold in its place.
Values(k) ==
  CASE k \in TextKeys    -> Texts
    [] k = "packet_num"  -> PacketNumbers \cup {Inf, Junk}
    [] k \in NetworkKeys -> NetworkValues

Garbage(k) == IF k \in NetworkKeys THEN StaleNetworks ELSE Values(k)

IsLine(l, keys) ==
  \/ l \in {Long, Bare}
  \/ l.key = Unknown
  \/ l.key \in keys /\ (l.value = Missing \/ l.value \in Values(l.key))

ASSUME FilesAssumption ==
  /\ \A f \in FirewallFiles : Len(f) \in Nat /\ \A i \in 1..Len(f) : IsLine(f[i], FirewallKeys)
  /\ \A f \in BackupFiles : Len(f) \in Nat /\ \A i \in 1..Len(f) : IsLine(f[i], BackupKeys)
  /\ Unknown \notin Keys
  /\ \A t \in Texts : t \in Seq(STRING) /\ \A i \in 1..Len(t) : t[i] # NUL
  /\ PacketNumbers \subseteq Nat
  /\ \A v \in NetworkValues :
       v # NoSlash => /\ v.bits \in Nat
                      /\ v.ip # BadPrefix => v \in Networks
  /\ FullPrefixes \subseteq Addresses
  /\ LongPrefixes \subseteq Addresses \cup {BadPrefix}
  /\ MaxPackets \in Nat

VARIABLES
  service,   \* whose parser runs: "firewall" or "backup"
  file,      \* its configuration file
  newline,   \* does a newline end the last line?
  at,        \* the line that begins at buffer[before]
  attrs,     \* the attributes; a text is what its buffer holds
  result,    \* "parsing", how the parser ended, or "sniffing"
  net_bits, netmask,  \* of start() of the firewall
  untrusted_counter   \* packets that fw_got_packet took for untrusted

vars == <<service, file, newline, at, attrs, result, net_bits, netmask, untrusted_counter>>
fileVars  == <<service, file, newline>>
sniffVars == <<net_bits, netmask, untrusted_counter>>

-----------------------------------------------------------------------------
(***************************************************************************)
(* The buffers of the texts.  strncpy copies as many characters as the new *)
(* value has and no terminator, so the rest of a longer old value stays.   *)
(* strinit, which the setters of the backup's paths call first, clears the *)
(* first character only.                                                   *)
(***************************************************************************)
Overlay(old, new) ==
  [i \in 1..(IF Len(new) > Len(old) THEN Len(new) ELSE Len(old)) |->
     IF i <= Len(new) THEN new[i] ELSE old[i]]

Cleared(k, old) ==
  IF k \in PathKeys /\ old # <<>> THEN [old EXCEPT ![1] = NUL] ELSE old

\* The characters before the first NUL.
IsString(buf, text) ==
  /\ Len(text) <= Len(buf)
  /\ \A i \in 1..Len(text) : buf[i] = text[i] /\ buf[i] # NUL
  /\ Len(text) < Len(buf) => buf[Len(text) + 1] = NUL

\* "inf" is FW_SNIFF_INF_COUNT; atoi makes 0 of what is no number.
Number(v) == IF v = Inf THEN -1 ELSE IF v = Junk THEN 0 ELSE v

-----------------------------------------------------------------------------
(***************************************************************************)
(* One iteration of the loop over the lines.                               *)
(***************************************************************************)

\* The line that begins at buffer[before].  Behind the last newline there are only the
\* NULs of the buffer, which make an empty line.
Line == IF at <= Len(file) THEN file[at] ELSE Bare

\* No newline is left: the scan clears flag at the first NUL, but goes on through the
\* buffer and beyond it until it meets a newline that is none of the file's.
Overrun == at > Len(file) \/ (at = Len(file) /\ ~newline)

Ends(how) ==
  /\ result' = how
  /\ UNCHANGED <<at, fileVars, sniffVars>>

\* Mutant: the iteration skips the line behind the one it has read.
SkipALine ==
  /\ IF Overrun THEN result' = "normal" /\ UNCHANGED at
                ELSE at' = at + 2 /\ UNCHANGED result
  /\ UNCHANGED <<fileVars, sniffVars>>

\* while (flag): the attribute of this line is set, the loop ends or goes on.
NextLine ==
  /\ IF Overrun THEN result' = "normal" /\ UNCHANGED at
                ELSE at' = at + 1 /\ UNCHANGED result
  /\ UNCHANGED <<fileVars, sniffVars>>

\* The attribute k is set from this line.  A missing value is what the stack holds
\* behind tmp.
Given(k, v) ==
  /\ result = "parsing"
  /\ Line \notin {Long, Bare} /\ Line.key = k
  /\ v = Line.value \/ (Line.value = Missing /\ v \in Garbage(k))

\* The file or the directory that the service runs in cannot be opened.
CannotOpen ==
  /\ result = "parsing" /\ at = 1
  /\ Ends("error")
  /\ UNCHANGED attrs

\* The scan leaves the heap before it meets a newline.  Or at the beginning: the size of
\* buffer is computed from the garbage in lines, so that malloc may fail before memset
\* writes to it; and the NUL behind the first line is written behind tmp.
MemoryError ==
  /\ result = "parsing"
  /\ Overrun \/ at = 1
  /\ Ends("crashed")
  /\ UNCHANGED attrs

LineTooLong ==
  /\ result = "parsing" /\ Line = Long
  /\ Ends("error")
  /\ UNCHANGED attrs

\* A line without a ':' or with a key the parser does not know ends it, and the caller
\* is told that the configuration was applied.
StopQuietly ==
  /\ result = "parsing"
  /\ Line # Long
  /\ IF Line = Bare THEN TRUE ELSE Line.key = Unknown
  /\ Ends("normal")
  /\ UNCHANGED attrs

\* interface and filter by strncpy, path_to_backup and path_to_log by their setters.
TakeText ==
  \E k \in FirewallTexts \cup PathKeys : \E v \in Texts :
    /\ Given(k, v)
    /\ attrs' = [attrs EXCEPT ![k] = Overlay(Cleared(k, @), v)]
    /\ NextLine

\* Does path_stat say that the path is a directory?  If stat fails it is what the stack
\* held, and may say so or not.
LooksLikeDirectory(v) == v \in Directories \cup StatFails

TakeDirectory ==
  \E v \in Texts :
    /\ Given("path_to_dir", v)
    /\ \/ /\ LooksLikeDirectory(v)
          /\ attrs' = [attrs EXCEPT !["path_to_dir"] = Overlay(@, v)]
          /\ NextLine
       \/ /\ v \notin Directories
          /\ Ends("error")
          /\ UNCHANGED attrs

\* The number of packets after which a capture ends.
TakeNumber ==
  \E v \in PacketNumbers \cup {Inf, Junk} :
    /\ Given("packet_num", v)
    /\ attrs' = [attrs EXCEPT !["packet_num"] = Number(v)]
    /\ NextLine

\* Mutant: the bits of the network are not stored.
BitsForgotten(k, v) == [attrs EXCEPT ![k].ip = v.ip]

SetNetwork(k, v) == [attrs EXCEPT ![k] = v]

\* strchr finds no '/' and strlen is called with NULL; or the bits are set before
\* inet_aton refuses the prefix.  A prefix of 15 characters has no terminator: what
\* follows it on the stack decides whether inet_aton takes it.  A longer one is copied
\* over what follows ip_prefix, which may end the process as well.
TakeNetwork ==
  \E k \in NetworkKeys : \E v \in NetworkValues :
    /\ Given(k, v)
    /\ \/ /\ IF v = NoSlash THEN TRUE ELSE v.ip \in LongPrefixes
          /\ Ends("crashed")
          /\ UNCHANGED attrs
       \/ /\ v # NoSlash /\ v.ip # BadPrefix
          /\ attrs' = SetNetwork(k, v)
          /\ NextLine
       \/ /\ v # NoSlash
          /\ v.ip \in {BadPrefix} \cup FullPrefixes \cup LongPrefixes
          /\ attrs' = [attrs EXCEPT ![k].bits = v.bits]
          /\ Ends("exit")

-----------------------------------------------------------------------------
(***************************************************************************)
(* The firewall with its attributes.                                       *)
(***************************************************************************)
StartSniffing ==
  /\ result = "normal" /\ service = "firewall"
  /\ result' = "sniffing"
  /\ net_bits' = attrs["untrusted_net"].ip
  /\ netmask' = Mask(attrs["untrusted_net"].ip, attrs["untrusted_net"].bits)
  /\ UNCHANGED <<fileVars, at, attrs, untrusted_counter>>

\* fw_got_packet for a packet with a valid IP header.
GotPacket ==
  /\ result = "sniffing"
  /\ untrusted_counter < MaxPackets
  /\ \E source \in Addresses : Matches(source, netmask, net_bits)
  /\ untrusted_counter' = untrusted_counter + 1
  /\ UNCHANGED <<fileVars, at, attrs, result, net_bits, netmask>>

-----------------------------------------------------------------------------
\* fw_attrs is static, path_to_dir_buffer and the paths are zeroed.
Defaults ==
  [k \in Keys |-> IF k \in TextKeys THEN <<>>
                  ELSE IF k = "packet_num" THEN 0 ELSE [ip |-> {}, bits |-> 0]]

Init ==
  /\ \/ service = "firewall" /\ file \in FirewallFiles
     \/ service = "backup" /\ file \in BackupFiles
  /\ newline \in (IF file = <<>> THEN {FALSE} ELSE BOOLEAN)
  /\ at = 1
  /\ attrs = Defaults
  /\ result = "parsing"
  /\ net_bits = {} /\ netmask = {} /\ untrusted_counter = 0

Next ==
  \/ CannotOpen \/ MemoryError \/ LineTooLong \/ StopQuietly
  \/ TakeText \/ TakeDirectory \/ TakeNumber \/ TakeNetwork
  \/ StartSniffing \/ GotPacket

Spec == Init /\ [][Next]_vars

-----------------------------------------------------------------------------
TypeOK ==
  /\ \/ service = "firewall" /\ file \in FirewallFiles
     \/ service = "backup" /\ file \in BackupFiles
  /\ newline \in BOOLEAN
  /\ at \in 1..(Len(file) + 1)
  /\ DOMAIN attrs = Keys
  /\ \A k \in TextKeys : attrs[k] \in Seq(STRING \cup {NUL})
  /\ attrs["packet_num"] \in Int
  /\ \A k \in NetworkKeys : attrs[k] \in Networks
  /\ result \in {"parsing", "normal", "error", "exit", "crashed", "sniffing"}
  /\ net_bits \in Addresses /\ netmask \in Addresses
  /\ untrusted_counter \in 0..MaxPackets

\* The lines in front of the first one that ends the parser.
Understood(l) ==
  /\ l \notin {Long, Bare}
  /\ l.key # Unknown

Taken == {i \in 1..Len(file) : \A j \in 1..i : Understood(file[j])}

\* The lines that give k.
Giving(k) == {i \in Taken : file[i].key = k}

\* An attribute whose last line says v, where a longer text may have stood before.
AsWritten(k, i) ==
  LET v == file[i].value IN
  IF k \in TextKeys
  THEN \/ IsString(attrs[k], v)
       \/ \E j \in Giving(k) :
            j < i /\ (file[j].value = Missing \/ Len(file[j].value) > Len(v))
  ELSE attrs[k] = IF k = "packet_num" THEN Number(v) ELSE v

\* Whatever the order of the lines, and however the file ends: what the service runs
\* with is what the last line of each key says, down to the first line with no ':' or
\* with an unknown key, and the defaults for the rest.  Only a text that is shorter
\* than an earlier one of the same key, or garbage, may differ.
AttributesAsWritten ==
  result \in {"normal", "sniffing"} =>
    \A k \in (IF service = "firewall" THEN FirewallKeys ELSE BackupKeys) :
      /\ Giving(k) = {} => attrs[k] = Defaults[k]
      /\ \A i \in Giving(k) :
           (\A j \in Giving(k) : j <= i) /\ file[i].value # Missing => AsWritten(k, i)

\* If the network is written with no bit set behind its prefix, the packets of its
\* members are all counted or none is, and all are if the prefix consists of whole
\* octets but not of the whole address: start() computes the mask in the wrong bit
\* order and from the address itself, so other prefixes and single hosts may be lost.
MembersAreCounted ==
  LET net  == attrs["untrusted_net"].ip
      bits == attrs["untrusted_net"].bits
      Counted(a) == Matches(a, netmask, net_bits)
  IN result = "sniffing" /\ Canonical(net, bits) =>
       /\ \/ \A a \in Members(net, bits) : Counted(a)
          \/ \A a \in Addresses : ~Counted(a)
       /\ bits % Octet = 0 /\ bits < Width => \A a \in Members(net, bits) : Counted(a)
=============================================================================
