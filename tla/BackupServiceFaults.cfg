SPECIFICATION Spec
CONSTANTS
  root = root
  sub = sub
  a = a
  ab = ab
  c = c
  Root = root
  Subs <- OneSub
  Names <- ThreeNames
  Files <- ApartFiles
  NoName = NoName
  Hidden <- OneHidden
  Contains <- Substrings
  Key <- SomeKeys
  Worlds <- FaultWorlds
  MaxDirFds = 1
  MaxQueued = 1
  MaxRead = 1
  MaxWrites = 1
  Disturbances <- EveryDisturbance
CHECK_DEADLOCK FALSE
INVARIANT TypeOK
INVARIANT DoubleFreeHasCause
INVARIANT UseAfterFreeHasCause
INVARIANT DirectoriesSearchedFirst
