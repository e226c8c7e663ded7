SPECIFICATION Spec
CONSTANTS
  root = root
  sub = sub
  a = a
  ab = ab
  c = c
  Root = root
  Subs <- OneSub
  Names <- ThreeNames
  Files <- ApartFiles
  NoName = NoName
  Hidden <- NothingHidden
  Contains <- Substrings
  Key <- SomeKeys
  Worlds <- OnlyPlain
  MaxDirFds = 6
  MaxQueued = 3
  MaxRead = 3
  MaxWrites = 2
  Disturbances <- Undisturbed
INVARIANT OneInotifyInstance
CHECK_DEADLOCK FALSE
