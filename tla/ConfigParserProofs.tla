--------------------------- MODULE ConfigParserProofs ---------------------------
(***************************************************************************)
(* What the two parsers leave behind for any file, any values and any      *)
(* addresses.                                                              *)
(*                                                                         *)
(* AttributesAsWritten speaks of the end of the parser.  It rests on an    *)
(* invariant of its loop: after n lines the attributes are what these n    *)
(* lines say (Reflects), and a buffer is longer than a value only if an    *)
(* earlier line of the same key was (LengthHasCause).                      *)
(***************************************************************************)
EXTENDS ConfigParser, TLAPS

-----------------------------------------------------------------------------
(***************************************************************************)
(* The network test.                                                       *)
(***************************************************************************)

\* Multiplying by the width of an octet keeps the order of numbers.
LEMMA Multiples ==
  ASSUME NEW o \in Nat, o > 0
  PROVE  /\ \A d, q \in Nat : d < q => (d + 1) * o <= q * o
         /\ \A d, q \in Nat : \A r \in 0..(o - 1) : d * o + r < q * o => d < q
  <1>1. ASSUME NEW d \in Nat, NEW q \in Nat, d <= q
        PROVE  d * o <= q * o
    <2> DEFINE e == q - d
    <2>1. e \in Nat /\ q = d + e
      BY <1>1
    <2> HIDE DEF e
    <2>2. q * o = d * o + e * o
      BY <2>1
    <2>3. d * o \in Nat /\ e * o \in Nat
      BY <2>1
    <2>4. QED
      BY <2>2, <2>3
  <1>2. ASSUME NEW d \in Nat, NEW q \in Nat, d < q
        PROVE  (d + 1) * o <= q * o
    <2>1. d + 1 \in Nat /\ d + 1 <= q
      BY <1>2
    <2>2. QED
      BY <1>1, <2>1
  <1>3. ASSUME NEW d \in Nat, NEW q \in Nat, NEW r \in 0..(o - 1), d * o + r < q * o
        PROVE  d < q
    <2>1. SUFFICES ASSUME q <= d PROVE FALSE
      OBVIOUS
    <2>2. q * o <= d * o
      BY <1>1, <2>1
    <2>3. d * o \in Nat /\ q * o \in Nat
      OBVIOUS
    <2>4. QED
      BY <1>3, <2>2, <2>3
  <1>4. QED
    BY <1>2, <1>3

\* If the mask keeps every bit of a network in canonical form, each member passes the
\* test of fw_got_packet.
LEMMA WholeMask ==
  ASSUME NEW ip \in Addresses, NEW bits \in Nat, Canonical(ip, bits),
         Mask(ip, bits) = ip
  PROVE  \A a \in Members(ip, bits) : Matches(a, Mask(ip, bits), ip)
  BY DEF Members, Matches, Canonical, Addresses

\* If it loses a bit, no packet passes.
LEMMA BrokenMask ==
  ASSUME NEW ip \in Addresses, NEW bits \in Nat, Mask(ip, bits) # ip
  PROVE  \A a \in Addresses : ~Matches(a, Mask(ip, bits), ip)
  <1>1. Mask(ip, bits) \subseteq ip
    BY DEF Mask
  <1>2. QED
    BY <1>1 DEF Matches

\* The bits of whole leading octets are the low bits of the int.
LEMMA OctetMask ==
  ASSUME NEW ip \in Addresses, NEW bits \in Nat, Canonical(ip, bits),
         bits % Octet = 0, bits < Width
  PROVE  Mask(ip, bits) = ip
  <1>1. /\ Octet \in Nat /\ Octet > 0 /\ Octets \in Nat /\ Width \in Nat /\ Width > 0
    BY AddressAssumption DEF Width
  <1>2. bits % Width = bits
    BY <1>1
  <1>3. ASSUME NEW p \in ip
        PROVE  p < bits
    <2>1. p \in Nat /\ Rank(p) < bits
      BY <1>1, <1>3 DEF Canonical, Leading, Addresses, Positions
    <2> DEFINE d == p \div Octet
               r == p % Octet
               q == bits \div Octet
    <2>2. d \in Nat /\ r \in 0..(Octet - 1) /\ p = d * Octet + r
      BY <1>1, <2>1
    <2>3. q \in Nat /\ bits = q * Octet
      BY <1>1
    <2>4. d * Octet + (Octet - 1 - r) < q * Octet /\ Octet - 1 - r \in 0..(Octet - 1)
      BY <1>1, <2>1, <2>2, <2>3 DEF Rank
    <2>5. d < q
      BY <1>1, <2>2, <2>3, <2>4, Multiples
    <2>6. (d + 1) * Octet <= q * Octet
      BY <1>1, <2>2, <2>3, <2>5, Multiples
    <2>7. (d + 1) * Octet = d * Octet + Octet /\ d * Octet \in Nat
      BY <1>1, <2>2
    <2>8. QED
      BY <1>1, <2>2, <2>3, <2>6, <2>7
  <1>4. QED
    BY <1>2, <1>3 DEF Mask

-----------------------------------------------------------------------------
(***************************************************************************)
(* The buffers.                                                            *)
(***************************************************************************)
Chars == STRING \cup {NUL}

\* strncpy into a buffer keeps it as long as the longer of the two texts, and a text
\* that is not the shorter one replaces it.
LEMMA OverlaySeq ==
  ASSUME NEW old \in Seq(Chars), NEW new \in Seq(Chars)
  PROVE  /\ Overlay(old, new) \in Seq(Chars)
         /\ Len(Overlay(old, new)) = (IF Len(new) > Len(old) THEN Len(new) ELSE Len(old))
         /\ Len(new) >= Len(old) => Overlay(old, new) = new
  <1> DEFINE n == IF Len(new) > Len(old) THEN Len(new) ELSE Len(old)
  <1>1. /\ n \in Nat /\ Len(old) \in Nat /\ Len(new) \in Nat
        /\ \A i \in 1..Len(old) : old[i] \in Chars
        /\ \A i \in 1..Len(new) : new[i] \in Chars
        /\ new = [i \in 1..Len(new) |-> new[i]]
    OBVIOUS
  <1>2. Overlay(old, new) \in [1..n -> Chars]
    BY <1>1 DEF Overlay
  <1>3. Overlay(old, new) \in Seq(Chars) /\ Len(Overlay(old, new)) = n
    BY <1>1, <1>2
  <1>4. ASSUME Len(new) >= Len(old)
        PROVE  Overlay(old, new) = new
    <2>1. n = Len(new)
      BY <1>1, <1>4
    <2>2. Overlay(old, new) = [i \in 1..Len(new) |-> new[i]]
      BY <1>1, <2>1 DEF Overlay
    <2>3. QED
      BY <1>1, <2>2
  <1>5. QED
    BY <1>3, <1>4

\* strinit does not change the length of what the buffer holds.
LEMMA ClearedSeq ==
  ASSUME NEW k, NEW old \in Seq(Chars)
  PROVE  Cleared(k, old) \in Seq(Chars) /\ Len(Cleared(k, old)) = Len(old)
  BY DEF Cleared, Chars

-----------------------------------------------------------------------------
(***************************************************************************)
(* The inductive invariant.                                                *)
(***************************************************************************)

\* The lines among the first n that give k.
Before(n, k) == {i \in 1..n : file[i].key = k}

PrefixTaken(n) == n \in 0..Len(file) /\ \A j \in 1..n : Understood(file[j])

Reflects(n) ==
  \A k \in Keys :
    /\ Before(n, k) = {} => attrs[k] = Defaults[k]
    /\ \A i \in Before(n, k) :
         (\A j \in Before(n, k) : j <= i) /\ file[i].value # Missing => AsWritten(k, i)

LengthHasCause(n) ==
  \A k \in TextKeys : \A m \in Nat :
    Len(attrs[k]) > m =>
      \E j \in Before(n, k) : file[j].value = Missing \/ Len(file[j].value) > m

Parsed(n) == PrefixTaken(n) /\ Reflects(n) /\ LengthHasCause(n)

ParserInv ==
  /\ result = "parsing" => Parsed(at - 1)
  /\ result \in {"normal", "sniffing"} => \E n \in 0..Len(file) : Parsed(n) /\ Taken = 1..n

SniffInv ==
  result = "sniffing" =>
    /\ net_bits = attrs["untrusted_net"].ip
    /\ netmask = Mask(attrs["untrusted_net"].ip, attrs["untrusted_net"].bits)

IInv == TypeOK /\ ParserInv /\ SniffInv

-----------------------------------------------------------------------------
LEMMA FileLength == TypeOK => Len(file) \in Nat
  BY FilesAssumption DEF TypeOK

\* Nothing has been read.
LEMMA InitIInv == Init => IInv
  <1> SUFFICES ASSUME Init PROVE IInv
    OBVIOUS
  <1>1. Len(file) \in Nat
    BY FilesAssumption DEF Init
  <1>2. /\ \A k \in TextKeys : k \in Keys /\ attrs[k] = <<>>
        /\ attrs["packet_num"] = 0
        /\ \A k \in NetworkKeys : attrs[k] = [ip |-> {}, bits |-> 0]
        /\ DOMAIN attrs = Keys
    BY DEF Init, Defaults, Keys, FirewallKeys, BackupKeys, TextKeys, FirewallTexts, PathKeys,
       NetworkKeys
  <1>3. TypeOK
    <2>1. {} \in Addresses /\ [ip |-> {}, bits |-> 0] \in Networks
      BY DEF Addresses, Networks
    <2>2. MaxPackets \in Nat
      BY FilesAssumption
    <2>3. <<>> \in Seq(STRING \cup {NUL})
      OBVIOUS
    <2>4. \A k \in TextKeys : attrs[k] \in Seq(STRING \cup {NUL})
      BY <1>2, <2>3, Zenon
    <2>8. \A k \in NetworkKeys : attrs[k] \in Networks
      BY <1>2, <2>1, Zenon
    <2>9. attrs["packet_num"] \in Int
      BY <1>2
    <2>5. at \in 1..(Len(file) + 1) /\ untrusted_counter \in 0..MaxPackets
      BY <1>1, <2>2 DEF Init
    <2>6. newline \in BOOLEAN
      BY DEF Init
    <2>7. QED
      BY <1>2, <2>1, <2>4, <2>5, <2>6, <2>8, <2>9 DEF Init, TypeOK
  <1>4. \A k : Before(0, k) = {}
    BY DEF Before
  <1>5. Parsed(0)
    <2>1. PrefixTaken(0)
      BY <1>1 DEF PrefixTaken
    <2>2. Reflects(0)
      BY <1>4 DEF Reflects, Init
    <2>3. LengthHasCause(0)
      BY <1>2 DEF LengthHasCause
    <2>4. QED
      BY <2>1, <2>2, <2>3 DEF Parsed
  <1>6. QED
    BY <1>3, <1>5 DEF Init, IInv, ParserInv, SniffInv

-----------------------------------------------------------------------------
(***************************************************************************)
(* A line that sets an attribute.                                          *)
(***************************************************************************)

\* What the line `at` may make of attribute k.
TextFrom(k, w) ==
  \E v \in Texts :
    /\ w = Overlay(Cleared(k, attrs[k]), v)
    /\ v = file[at].value \/ file[at].value = Missing

ValueFrom(k, w) ==
  /\ k \in TextKeys => TextFrom(k, w)
  /\ k = "packet_num" =>
       w \in Int /\ (file[at].value # Missing => w = Number(file[at].value))
  /\ k \in NetworkKeys =>
       w \in Networks /\ (file[at].value # Missing => w = file[at].value)

Sets(k, w) ==
  /\ result = "parsing"
  /\ at \in 1..Len(file) /\ Understood(file[at]) /\ file[at].key = k
  /\ ValueFrom(k, w)
  /\ attrs' = [attrs EXCEPT ![k] = w]
  /\ NextLine

\* The attributes keep their types.
LEMMA SetsType ==
  ASSUME TypeOK, NEW k \in Keys, NEW w, Sets(k, w)
  PROVE  TypeOK'
  <1>1. k \in TextKeys => w \in Seq(Chars)
    <2>1. SUFFICES ASSUME k \in TextKeys PROVE w \in Seq(Chars)
      OBVIOUS
    <2>2. PICK v \in Texts : w = Overlay(Cleared(k, attrs[k]), v)
      BY <2>1 DEF Sets, ValueFrom, TextFrom
    <2>3. attrs[k] \in Seq(Chars)
      BY <2>1 DEF TypeOK, Chars
    <2>4. Cleared(k, attrs[k]) \in Seq(Chars)
      BY <2>3, ClearedSeq
    <2>5. v \in Seq(Chars)
      <3>1. v \in Seq(STRING)
        BY FilesAssumption
      <3>2. QED
        BY <3>1 DEF Chars
    <2>6. QED
      BY <2>2, <2>4, <2>5, OverlaySeq
  <1>2. /\ DOMAIN attrs' = Keys
        /\ \A j \in Keys : attrs'[j] = IF j = k THEN w ELSE attrs[j]
    BY DEF TypeOK, Sets
  <1>3. /\ \A j \in TextKeys : j \in Keys
        /\ \A j \in NetworkKeys : j \in Keys
        /\ "packet_num" \in Keys
    BY DEF Keys, FirewallKeys, BackupKeys, TextKeys, FirewallTexts, PathKeys, NetworkKeys
  <1>4. /\ \A j \in TextKeys : attrs'[j] \in Seq(Chars)
        /\ attrs'["packet_num"] \in Int
        /\ \A j \in NetworkKeys : attrs'[j] \in Networks
    <2>1. \A j \in TextKeys : attrs[j] \in Seq(Chars)
      BY DEF TypeOK, Chars
    <2>2. attrs["packet_num"] \in Int /\ \A j \in NetworkKeys : attrs[j] \in Networks
      BY DEF TypeOK
    <2>3. /\ k = "packet_num" => w \in Int
          /\ k \in NetworkKeys => w \in Networks
      BY DEF Sets, ValueFrom
    <2>4. QED
      BY <1>1, <1>2, <1>3, <2>1, <2>2, <2>3
  <1>5. at' \in 1..(Len(file) + 1) /\ result' \in {"parsing", "normal"}
    BY FileLength DEF Sets, NextLine, TypeOK
  <1>6. UNCHANGED <<fileVars, sniffVars>>
    BY DEF Sets, NextLine
  <1>7. QED
    BY <1>2, <1>4, <1>5, <1>6 DEF TypeOK, fileVars, sniffVars, Chars

\* What the first n lines give when line n gives k.
LEMMA BeforeNext ==
  ASSUME NEW n \in Nat, n > 0, NEW k, NEW j, file[n].key = k
  PROVE  Before(n, j) = IF j = k THEN Before(n - 1, j) \cup {n} ELSE Before(n - 1, j)
  BY DEF Before

\* A value that is not shorter than what the buffer holds becomes its string.
LEMMA WholeText ==
  ASSUME NEW k, NEW old \in Seq(Chars), NEW v \in Texts, Len(old) <= Len(v)
  PROVE  IsString(Overlay(Cleared(k, old), v), v)
  <1>1. v \in Seq(STRING) /\ \A i \in 1..Len(v) : v[i] # NUL
    BY FilesAssumption
  <1>2. v \in Seq(Chars) /\ Len(v) \in Nat
    BY <1>1 DEF Chars
  <1>3. Cleared(k, old) \in Seq(Chars) /\ Len(Cleared(k, old)) = Len(old)
    BY ClearedSeq
  <1>4. Overlay(Cleared(k, old), v) = v
    BY <1>2, <1>3, OverlaySeq
  <1>5. QED
    BY <1>1, <1>2, <1>4 DEF IsString

\* The loop has read one line more, whose attribute is what the line says.
LEMMA SetsParsed ==
  ASSUME TypeOK, ParserInv, NEW k \in Keys, NEW w, Sets(k, w),
         NEW CONSTANT n \in Nat, n = at
  PROVE  Parsed(n)'
  <1>1. /\ n \in 1..Len(file) /\ n - 1 \in Nat /\ Len(file) \in Nat
        /\ Understood(file[n]) /\ file[n].key = k /\ ValueFrom(k, w)
    BY FileLength DEF Sets
  <1>2. Parsed(n - 1)
    BY DEF Sets, ParserInv
  <1>3. /\ file' = file /\ service' = service
        /\ \A j \in Keys : attrs'[j] = IF j = k THEN w ELSE attrs[j]
    BY DEF Sets, NextLine, fileVars, TypeOK
  <1>4. \A m, j : Before(m, j)' = Before(m, j)
    BY <1>3 DEF Before
  <1>5. \A j : Before(n, j) = IF j = k THEN Before(n - 1, j) \cup {n} ELSE Before(n - 1, j)
    BY <1>1, BeforeNext
  <1>6. PrefixTaken(n)'
    BY <1>1, <1>2, <1>3 DEF Parsed, PrefixTaken, Understood
  <1>7. LengthHasCause(n)'
    <2>1. SUFFICES ASSUME NEW j \in TextKeys, NEW m \in Nat, Len(attrs'[j]) > m
                   PROVE  \E i \in Before(n, j) :
                            file[i].value = Missing \/ Len(file[i].value) > m
      BY <1>3, <1>4 DEF LengthHasCause
    <2>2. j \in Keys
      BY DEF Keys, FirewallKeys, BackupKeys, TextKeys, FirewallTexts, PathKeys
    <2>3. ASSUME Len(attrs[j]) > m
          PROVE  \E i \in Before(n, j) : file[i].value = Missing \/ Len(file[i].value) > m
      BY <1>2, <1>5, <2>3 DEF Parsed, LengthHasCause
    <2>4. CASE j # k
      BY <1>3, <2>1, <2>2, <2>3, <2>4
    <2>5. CASE j = k
      <3>1. PICK v \in Texts : /\ w = Overlay(Cleared(k, attrs[k]), v)
                               /\ v = file[n].value \/ file[n].value = Missing
        BY <1>1, <2>5 DEF ValueFrom, TextFrom
      <3>2. attrs[k] \in Seq(Chars)
        BY <2>5 DEF TypeOK, Chars
      <3>3. v \in Seq(Chars)
        <4>1. v \in Seq(STRING)
          BY FilesAssumption
        <4>2. QED
          BY <4>1 DEF Chars
      <3>4. Cleared(k, attrs[k]) \in Seq(Chars) /\ Len(Cleared(k, attrs[k])) = Len(attrs[k])
        BY <3>2, ClearedSeq
      <3>5. Len(w) = IF Len(v) > Len(attrs[k]) THEN Len(v) ELSE Len(attrs[k])
        BY <3>1, <3>3, <3>4, OverlaySeq
      <3>6. Len(w) > m
        BY <1>3, <2>1, <2>2, <2>5
      <3>7. n \in Before(n, j)
        BY <1>5, <2>5
      <3>8. CASE Len(v) > m
        BY <3>1, <3>7, <3>8
      <3>9. CASE ~(Len(v) > m)
        BY <2>3, <2>5, <3>5, <3>6, <3>9
      <3>10. QED
        BY <3>8, <3>9
    <2>6. QED
      BY <2>4, <2>5
  <1>8. Reflects(n)'
    <2>1. SUFFICES ASSUME NEW j \in Keys
                   PROVE  /\ Before(n, j) = {} => attrs'[j] = Defaults[j]
                          /\ \A i \in Before(n, j) :
                               (\A l \in Before(n, j) : l <= i) /\ file[i].value # Missing
                                 => AsWritten(j, i)'
      BY <1>3, <1>4 DEF Reflects
    <2>2. CASE j # k
      <3>1. attrs'[j] = attrs[j] /\ Before(n, j) = Before(n - 1, j)
        BY <1>3, <1>5, <2>2
      <3>2. \A i : AsWritten(j, i)' <=> AsWritten(j, i)
        BY <1>3, <3>1 DEF AsWritten, Giving, Taken
      <3>3. QED
        BY <1>2, <3>1, <3>2 DEF Parsed, Reflects
    <2>3. CASE j = k
      <3>1. n \in Before(n, j)
        BY <1>5, <2>3
      <3>2. ASSUME NEW i \in Before(n, j), \A l \in Before(n, j) : l <= i
            PROVE  i = n
        BY <1>1, <3>1, <3>2 DEF Before
      <3>3. ASSUME file[n].value # Missing
            PROVE  AsWritten(k, n)'
        <4>1. attrs'[k] = w
          BY <1>3
        <4>2. CASE k \in TextKeys
          <5>1. PICK v \in Texts : w = Overlay(Cleared(k, attrs[k]), v) /\ v = file[n].value
            BY <1>1, <3>3, <4>2 DEF ValueFrom, TextFrom
          <5>2. attrs[k] \in Seq(Chars)
            BY <4>2 DEF TypeOK, Chars
          <5>3. Len(attrs[k]) \in Nat /\ Len(v) \in Nat
            BY <5>2, FilesAssumption
          <5>4. CASE Len(attrs[k]) <= Len(v)
            <6>1. IsString(attrs'[k], file[n].value)
              BY <4>1, <5>1, <5>2, <5>4, WholeText
            <6>2. QED
              BY <1>3, <4>2, <6>1 DEF AsWritten, IsString
          <5>5. CASE Len(attrs[k]) > Len(v)
            <6>1. PICK l \in Before(n - 1, k) :
                    file[l].value = Missing \/ Len(file[l].value) > Len(v)
              BY <1>2, <4>2, <5>3, <5>5 DEF Parsed, LengthHasCause
            <6>2. l \in Giving(k) /\ l < n
              BY <1>1, <1>2, <6>1 DEF Giving, Taken, Before, Parsed, PrefixTaken
            <6>3. Giving(k)' = Giving(k)
              BY <1>3 DEF Giving, Taken, Understood
            <6>4. QED
              BY <1>3, <4>2, <5>1, <6>1, <6>2, <6>3 DEF AsWritten
          <5>6. QED
            BY <5>3, <5>4, <5>5
        <4>3. CASE k = "packet_num"
          BY <1>1, <1>3, <3>3, <4>1, <4>3 DEF ValueFrom, AsWritten, TextKeys, FirewallTexts, PathKeys
        <4>4. CASE k \in NetworkKeys
          BY <1>1, <1>3, <3>3, <4>1, <4>4
             DEF ValueFrom, AsWritten, TextKeys, FirewallTexts, PathKeys, NetworkKeys
        <4>5. QED
          BY <4>2, <4>3, <4>4
             DEF Keys, FirewallKeys, BackupKeys, TextKeys, FirewallTexts, PathKeys, NetworkKeys
      <3>4. QED
        BY <2>3, <3>1, <3>2, <3>3
    <2>4. QED
      BY <2>2, <2>3
  <1>9. QED
    BY <1>6, <1>7, <1>8 DEF Parsed

\* A line that sets an attribute keeps the invariant, whether the loop ends or goes on.
LEMMA SetsIInv ==
  ASSUME IInv, NEW k \in Keys, NEW w, Sets(k, w)
  PROVE  IInv'
  <1>1. TypeOK'
    BY SetsType DEF IInv
  <1>2. at \in 1..Len(file) /\ Len(file) \in Nat /\ file' = file
    BY FileLength DEF IInv, Sets, NextLine, fileVars
  <1>3. PICK n \in Nat : n = at
    BY <1>2
  <1>4. Parsed(n)'
    BY <1>3, SetsParsed DEF IInv
  <1>5. ParserInv'
    <2>1. CASE Overrun
      <3>1. result' = "normal" /\ n = Len(file)
        BY <1>2, <1>3, <2>1 DEF Sets, NextLine, Overrun
      <3>2. Taken' = 1..n
        BY <1>2, <1>4, <3>1 DEF Taken, Parsed, PrefixTaken
      <3>3. n \in 0..Len(file')
        BY <1>2, <3>1
      <3>4. QED
        BY <1>4, <3>1, <3>2, <3>3 DEF ParserInv
    <2>2. CASE ~Overrun
      <3>1. result' = "parsing" /\ at' - 1 = n
        BY <1>2, <1>3, <2>2 DEF Sets, NextLine
      <3>2. Parsed(at - 1)'
        BY <1>4, <3>1 DEF Parsed, PrefixTaken, Reflects, LengthHasCause, Before
      <3>3. QED
        BY <3>1, <3>2 DEF ParserInv
    <2>3. QED
      BY <2>1, <2>2
  <1>6. result' \in {"parsing", "normal"}
    BY DEF Sets, NextLine
  <1>7. QED
    BY <1>1, <1>5, <1>6 DEF IInv, SniffInv

-----------------------------------------------------------------------------
(***************************************************************************)
(* The actions.                                                            *)
(***************************************************************************)

\* A line that has an attribute to give lies within the file, and its key is known.
LEMMA GivenLine ==
  ASSUME TypeOK, NEW k \in Keys, NEW v, Given(k, v)
  PROVE  /\ at \in 1..Len(file) /\ Line = file[at] /\ Understood(file[at])
         /\ result = "parsing" /\ file[at].key = k
         /\ v = file[at].value \/ file[at].value = Missing
  <1>1. Len(file) \in Nat /\ at \in 1..(Len(file) + 1)
    BY FileLength DEF TypeOK
  <1>2. at <= Len(file) /\ Line = file[at]
    BY DEF Given, Line
  <1>3. k # Unknown
    BY FilesAssumption
  <1>4. QED
    BY <1>1, <1>2, <1>3 DEF Given, Understood

LEMMA KeyKinds ==
  /\ FirewallTexts \cup PathKeys \subseteq TextKeys
  /\ "path_to_dir" \in TextKeys
  /\ TextKeys \cup NetworkKeys \cup {"packet_num"} = Keys
  /\ "path_to_dir" \notin FirewallTexts \cup PathKeys
  /\ "packet_num" \notin TextKeys \cup NetworkKeys
  /\ TextKeys \cap NetworkKeys = {}
  BY DEF Keys, FirewallKeys, BackupKeys, TextKeys, FirewallTexts, PathKeys, NetworkKeys

LEMMA TakeTextSets ==
  ASSUME TypeOK, TakeText
  PROVE  \E k \in Keys : \E w : Sets(k, w)
  <1>1. PICK k \in FirewallTexts \cup PathKeys, v \in Texts :
          /\ Given(k, v)
          /\ attrs' = [attrs EXCEPT ![k] = Overlay(Cleared(k, @), v)]
          /\ NextLine
    BY DEF TakeText
  <1>2. k \in TextKeys /\ k \in Keys /\ k # "path_to_dir" /\ k # "packet_num"
        /\ k \notin NetworkKeys
    BY <1>1, KeyKinds
  <1> DEFINE w == Overlay(Cleared(k, attrs[k]), v)
  <1>3. ValueFrom(k, w)
    BY <1>1, <1>2, GivenLine DEF ValueFrom, TextFrom
  <1>4. attrs' = [attrs EXCEPT ![k] = w]
    BY <1>1
  <1> HIDE DEF w
  <1>5. Sets(k, w)
    BY <1>1, <1>2, <1>3, <1>4, GivenLine DEF Sets
  <1>6. QED
    BY <1>2, <1>5

LEMMA TakeNumberSets ==
  ASSUME TypeOK, TakeNumber
  PROVE  \E k \in Keys : \E w : Sets(k, w)
  <1>1. PICK v \in PacketNumbers \cup {Inf, Junk} :
          /\ Given("packet_num", v)
          /\ attrs' = [attrs EXCEPT !["packet_num"] = Number(v)]
          /\ NextLine
    BY DEF TakeNumber
  <1>2. Number(v) \in Int
    BY FilesAssumption DEF Number
  <1>3. ValueFrom("packet_num", Number(v))
    BY <1>1, <1>2, GivenLine, KeyKinds DEF ValueFrom
  <1>4. Sets("packet_num", Number(v))
    BY <1>1, <1>3, GivenLine, KeyKinds DEF Sets
  <1>5. QED
    BY <1>4, KeyKinds

\* An end that does not let the service run asks nothing of the attributes.
LEMMA FailureIInv ==
  ASSUME IInv, result = "parsing", UNCHANGED <<at, fileVars, sniffVars>>,
         \/ UNCHANGED attrs
         \/ \E k \in NetworkKeys, b \in Nat : attrs' = [attrs EXCEPT ![k].bits = b],
         result' \in {"error", "exit", "crashed"}
  PROVE  IInv'
  <1>1. /\ DOMAIN attrs' = Keys
        /\ \A k \in TextKeys : attrs'[k] = attrs[k]
        /\ attrs'["packet_num"] = attrs["packet_num"]
        /\ \A k \in NetworkKeys : attrs'[k] \in Networks
    <2>1. CASE UNCHANGED attrs
      BY <2>1 DEF IInv, TypeOK
    <2>2. CASE \E k \in NetworkKeys, b \in Nat : attrs' = [attrs EXCEPT ![k].bits = b]
      <3>1. PICK k \in NetworkKeys, b \in Nat : attrs' = [attrs EXCEPT ![k].bits = b]
        BY <2>2
      <3>2. [attrs[k] EXCEPT !.bits = b] \in Networks
        BY DEF IInv, TypeOK, Networks
      <3>3. /\ DOMAIN attrs' = Keys
            /\ \A j \in Keys : attrs'[j] = IF j = k THEN [attrs[k] EXCEPT !.bits = b]
                                                    ELSE attrs[j]
        BY <3>1 DEF IInv, TypeOK
      <3>4. QED
        BY <3>2, <3>3, KeyKinds DEF IInv, TypeOK
    <2>3. QED
      BY <2>1, <2>2
  <1>2. TypeOK'
    BY <1>1 DEF IInv, TypeOK, fileVars, sniffVars
  <1>3. QED
    BY <1>2 DEF IInv, ParserInv, SniffInv

\* The tests of path_to_dir.
LEMMA TakeDirectoryIInv == IInv /\ TakeDirectory => IInv'
  <1> SUFFICES ASSUME IInv, TakeDirectory PROVE IInv'
    OBVIOUS
  <1> DEFINE d == "path_to_dir"
  <1>1. PICK v \in Texts :
          /\ Given(d, v)
          /\ \/ /\ LooksLikeDirectory(v)
                /\ attrs' = [attrs EXCEPT ![d] = Overlay(@, v)]
                /\ NextLine
             \/ /\ v \notin Directories
                /\ Ends("error")
                /\ UNCHANGED attrs
    BY DEF TakeDirectory
  <1>2. d \in Keys /\ d \in TextKeys /\ TypeOK
    BY KeyKinds DEF IInv
  <1>3. CASE /\ LooksLikeDirectory(v)
             /\ attrs' = [attrs EXCEPT ![d] = Overlay(@, v)]
             /\ NextLine
    <2> DEFINE w == Overlay(attrs[d], v)
    <2>1. Cleared(d, attrs[d]) = attrs[d]
      BY DEF Cleared, PathKeys
    <2>2. ValueFrom(d, w)
      BY <1>1, <1>2, <1>3, <2>1, GivenLine, KeyKinds DEF ValueFrom, TextFrom, LooksLikeDirectory
    <2>3. attrs' = [attrs EXCEPT ![d] = w]
      BY <1>3
    <2> HIDE DEF w
    <2>4. Sets(d, w)
      BY <1>1, <1>2, <1>3, <2>2, <2>3, GivenLine DEF Sets
    <2>5. QED
      BY <1>2, <2>4, SetsIInv
  <1>4. CASE Ends("error") /\ UNCHANGED attrs
    BY <1>1, <1>4, FailureIInv DEF Ends, Given
  <1>5. QED
    BY <1>1, <1>3, <1>4

\* A network that can be read, that has no slash, or whose prefix is refused.
LEMMA TakeNetworkIInv == IInv /\ TakeNetwork => IInv'
  <1> SUFFICES ASSUME IInv, TakeNetwork PROVE IInv'
    OBVIOUS
  <1>1. PICK k \in NetworkKeys, v \in NetworkValues :
          /\ Given(k, v)
          /\ \/ /\ Ends("crashed")
                /\ UNCHANGED attrs
             \/ /\ v # NoSlash /\ v.ip # BadPrefix
                /\ attrs' = SetNetwork(k, v)
                /\ NextLine
             \/ /\ v # NoSlash
                /\ attrs' = [attrs EXCEPT ![k].bits = v.bits]
                /\ Ends("exit")
    BY DEF TakeNetwork
  <1>2. k \in Keys /\ k \notin TextKeys /\ k # "packet_num" /\ TypeOK
    BY KeyKinds DEF IInv
  <1>3. /\ result = "parsing" /\ at \in 1..Len(file)
        /\ v = file[at].value \/ file[at].value = Missing
    BY <1>1, <1>2, GivenLine
  <1>4. CASE Ends("crashed") /\ UNCHANGED attrs
    BY <1>3, <1>4, FailureIInv DEF Ends
  <1>5. CASE v # NoSlash /\ v.ip # BadPrefix /\ attrs' = SetNetwork(k, v) /\ NextLine
    <2>1. v \in Networks
      BY <1>5, FilesAssumption
    <2>2. ValueFrom(k, v)
      BY <1>2, <1>3, <2>1 DEF ValueFrom
    <2>3. Sets(k, v)
      BY <1>1, <1>2, <1>5, <2>2, GivenLine DEF Sets, SetNetwork
    <2>4. QED
      BY <1>2, <2>3, SetsIInv
  <1>6. CASE /\ v # NoSlash
             /\ attrs' = [attrs EXCEPT ![k].bits = v.bits]
             /\ Ends("exit")
    <2>1. v.bits \in Nat
      BY <1>6, FilesAssumption
    <2>2. QED
      BY <1>3, <1>6, <2>1, FailureIInv DEF Ends
  <1>7. QED
    BY <1>1, <1>4, <1>5, <1>6

\* The parser stops before the line `at`, which is none that it could take.
LEMMA StopIInv == IInv /\ StopQuietly => IInv'
  <1> SUFFICES ASSUME IInv, StopQuietly PROVE IInv'
    OBVIOUS
  <1>1. /\ result = "parsing" /\ result' = "normal"
        /\ UNCHANGED <<at, fileVars, sniffVars, attrs>>
    BY DEF StopQuietly, Ends
  <1>2. TypeOK'
    BY <1>1 DEF IInv, TypeOK, fileVars, sniffVars
  <1>3. Len(file) \in Nat /\ at \in 1..(Len(file) + 1)
    BY FileLength DEF IInv, TypeOK
  <1>4. PICK n \in Nat : n = at - 1
    BY <1>3
  <1>5. Parsed(n) /\ n \in 0..Len(file)
    BY <1>1, <1>3, <1>4 DEF IInv, ParserInv
  <1>6. Taken = 1..n
    <2>1. 1..n \subseteq Taken
      BY <1>5 DEF Taken, Parsed, PrefixTaken
    <2>2. at > Len(file) \/ ~Understood(file[at])
      BY <1>3 DEF StopQuietly, Line, Understood
    <2>3. Taken \subseteq 1..n
      BY <1>3, <1>4, <2>2 DEF Taken
    <2>4. QED
      BY <2>1, <2>3
  <1>7. Parsed(n)' /\ Taken' = 1..n /\ Len(file') = Len(file)
    <2>1. UNCHANGED <<file, attrs>>
      BY <1>1 DEF fileVars
    <2>2. Taken' = Taken
      BY <2>1 DEF Taken, Understood
    <2>3. Parsed(n)'
      BY <1>5, <2>1, <2>2 DEF Parsed, PrefixTaken, Reflects, LengthHasCause,
         Before, AsWritten, Giving, Understood
    <2>4. QED
      BY <1>6, <2>1, <2>2, <2>3
  <1>8. ParserInv'
    BY <1>1, <1>5, <1>7 DEF ParserInv
  <1>9. QED
    BY <1>1, <1>2, <1>8 DEF IInv, SniffInv

\* No file, a line that is too long, or a scan that leaves the heap.
LEMMA ErrorIInv == IInv /\ (CannotOpen \/ LineTooLong \/ MemoryError) => IInv'
  <1> SUFFICES ASSUME IInv, CannotOpen \/ LineTooLong \/ MemoryError PROVE IInv'
    OBVIOUS
  <1>1. /\ result = "parsing" /\ result' \in {"error", "crashed"}
        /\ UNCHANGED <<at, fileVars, sniffVars, attrs>>
    BY DEF CannotOpen, LineTooLong, MemoryError, Ends
  <1>2. QED
    BY <1>1, FailureIInv

\* Steps that leave the file and the attributes alone, after the parser has ended.
LEMMA LaterIInv ==
  ASSUME IInv, UNCHANGED <<fileVars, at, attrs>>, TypeOK', SniffInv',
         \/ result' = result
         \/ result = "normal" /\ result' = "sniffing"
  PROVE  IInv'
  <1>1. UNCHANGED <<file, newline, attrs, at>>
    BY DEF fileVars
  <1>2. Taken' = Taken
    BY <1>1 DEF Taken, Understood
  <1>3. \A n : Parsed(n)' <=> Parsed(n)
    BY <1>1, <1>2 DEF Parsed, PrefixTaken, Reflects, LengthHasCause,
       Before, AsWritten, Giving, Understood
  <1>4. Parsed(at - 1)' <=> Parsed(at - 1)
    BY <1>1, <1>2 DEF Parsed, PrefixTaken, Reflects, LengthHasCause,
       Before, AsWritten, Giving, Understood
  <1>5. ParserInv'
    BY <1>1, <1>2, <1>3, <1>4 DEF IInv, ParserInv
  <1>6. QED
    BY <1>5 DEF IInv

\* start() of the firewall and fw_got_packet.
LEMMA SniffIInv == IInv /\ (StartSniffing \/ GotPacket) => IInv'
  <1> SUFFICES ASSUME IInv, StartSniffing \/ GotPacket PROVE IInv'
    OBVIOUS
  <1>1. CASE StartSniffing
    <2>1. attrs["untrusted_net"] \in Networks
      BY DEF IInv, TypeOK, NetworkKeys
    <2>2. \A ip \in Addresses : \A b : Mask(ip, b) \in Addresses
      BY DEF Mask, Addresses
    <2>3. net_bits' \in Addresses /\ netmask' \in Addresses
      BY <1>1, <2>1, <2>2 DEF StartSniffing, Networks
    <2>4. TypeOK'
      BY <1>1, <2>3 DEF IInv, TypeOK, StartSniffing, fileVars
    <2>5. SniffInv'
      BY <1>1 DEF SniffInv, StartSniffing
    <2>6. QED
      BY <1>1, <2>4, <2>5, LaterIInv DEF StartSniffing, fileVars
  <1>2. CASE GotPacket
    <2>1. MaxPackets \in Nat
      BY FilesAssumption
    <2>2. TypeOK'
      BY <1>2, <2>1 DEF IInv, TypeOK, GotPacket, fileVars
    <2>3. SniffInv'
      BY <1>2 DEF IInv, SniffInv, GotPacket
    <2>4. QED
      BY <1>2, <2>2, <2>3, LaterIInv DEF GotPacket, fileVars
  <1>3. QED
    BY <1>1, <1>2

LEMMA NextIInv == IInv /\ [Next]_vars => IInv'
  <1> SUFFICES ASSUME IInv, [Next]_vars PROVE IInv'
    OBVIOUS
  <1>1. CASE UNCHANGED vars
    <2>1. TypeOK' /\ SniffInv'
      BY <1>1 DEF IInv, TypeOK, SniffInv, vars
    <2>2. QED
      BY <1>1, <2>1, LaterIInv DEF vars, fileVars
  <1>2. CASE TakeText
    BY <1>2, TakeTextSets, SetsIInv DEF IInv
  <1>3. CASE TakeNumber
    BY <1>3, TakeNumberSets, SetsIInv DEF IInv
  <1>4. QED
    BY <1>1, <1>2, <1>3, ErrorIInv, StopIInv, TakeDirectoryIInv, TakeNetworkIInv, SniffIInv
       DEF Next

-----------------------------------------------------------------------------
(***************************************************************************)
(* The theorems.                                                           *)
(***************************************************************************)

\* Every attribute keeps its type, and the line read is one of the file or the one
\* behind it.
THEOREM TypeCorrect == Spec => []TypeOK
  <1>1. IInv => TypeOK
    BY DEF IInv
  <1>2. QED
    BY <1>1, InitIInv, NextIInv, PTL DEF Spec

\* For any file: what a service runs with is what its configuration says down to the
\* first line that is not understood, up to texts that got shorter.
THEOREM WrittenIsApplied == Spec => []AttributesAsWritten
  <1>1. ASSUME IInv PROVE AttributesAsWritten
    <2>1. SUFFICES ASSUME result \in {"normal", "sniffing"}, NEW k \in Keys
                   PROVE  /\ Giving(k) = {} => attrs[k] = Defaults[k]
                          /\ \A i \in Giving(k) :
                               (\A j \in Giving(k) : j <= i) /\ file[i].value # Missing
                                 => AsWritten(k, i)
      BY DEF AttributesAsWritten, Keys
    <2>2. PICK n \in 0..Len(file) : Parsed(n) /\ Taken = 1..n
      BY <1>1, <2>1 DEF IInv, ParserInv
    <2>3. Giving(k) = Before(n, k)
      BY <2>2 DEF Giving, Before
    <2>4. QED
      BY <2>2, <2>3 DEF Parsed, Reflects
  <1>2. QED
    BY <1>1, InitIInv, NextIInv, PTL DEF Spec

\* For addresses of any width: the packets of the untrusted network are counted all or
\* not at all, and all if its prefix ends with an octet before the last one.
THEOREM MembersCounted == Spec => []MembersAreCounted
  <1>1. ASSUME IInv PROVE MembersAreCounted
    <2> DEFINE net  == attrs["untrusted_net"].ip
               bits == attrs["untrusted_net"].bits
    <2>1. SUFFICES ASSUME result = "sniffing", Canonical(net, bits)
                   PROVE  /\ \/ \A a \in Members(net, bits) : Matches(a, netmask, net_bits)
                             \/ \A a \in Addresses : ~Matches(a, netmask, net_bits)
                          /\ bits % Octet = 0 /\ bits < Width =>
                               \A a \in Members(net, bits) : Matches(a, netmask, net_bits)
      BY DEF MembersAreCounted
    <2>2. net \in Addresses /\ bits \in Nat
      BY <1>1 DEF IInv, TypeOK, Networks, NetworkKeys
    <2>3. net_bits = net /\ netmask = Mask(net, bits)
      BY <1>1, <2>1 DEF IInv, SniffInv
    <2> HIDE DEF net, bits
    <2>4. CASE Mask(net, bits) = net
      BY <2>1, <2>2, <2>3, <2>4, WholeMask
    <2>5. CASE Mask(net, bits) # net
      BY <2>1, <2>2, <2>3, <2>5, BrokenMask, OctetMask
    <2>6. QED
      BY <2>4, <2>5
  <1>2. QED
    BY <1>1, InitIInv, NextIInv, PTL DEF Spec
=============================================================================
