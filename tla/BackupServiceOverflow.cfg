SPECIFICATION Spec
CONSTANTS
  root = root
  sub = sub
  a = a
  ab = ab
  c = c
  Root = root
  Subs <- OneSub
  Names <- ThreeNames
  Files <- ApartFiles
  NoName = NoName
  Hidden <- NothingHidden
  Contains <- Substrings
  Key <- SomeKeys
  Worlds <- OnlyPlain
  MaxDirFds = 6
  MaxQueued = 1
  MaxRead = 2
  MaxWrites = 2
  Disturbances <- Undisturbed
INVARIANT EventsHandled
CHECK_DEADLOCK FALSE
