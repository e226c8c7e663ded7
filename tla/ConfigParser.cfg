SPECIFICATION Spec
CONSTANTS
  Octet = 2
  Octets = 2
  MaxLines = 3
  MaxPackets = 1
  FirewallFiles <- SmallFirewallFiles
  BackupFiles <- SmallBackupFiles
  Texts <- SmallTexts
  PacketNumbers <- SmallNumbers
  NetworkValues <- AllNetworks
  StaleNetworks <- SmallNetworks
  Directories <- DirectoryTexts
  StatFails <- NoSuchTexts
  FullPrefixes = {{1, 3}}
  LongPrefixes <- TooLongPrefixes
  Long = Long
  Bare = Bare
  Unknown = Unknown
  Missing = Missing
  Inf = Inf
  Junk = Junk
  NoSlash = NoSlash
  BadPrefix = BadPrefix
  NUL = NUL
INVARIANTS
  TypeOK
  AttributesAsWritten
  MembersAreCounted
CHECK_DEADLOCK FALSE
