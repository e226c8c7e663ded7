SPECIFICATION Spec
CONSTANTS
  root = root
  sub = sub
  a = a
  ab = ab
  c = c
  Root = root
  Subs <- OneSub
  Names <- ThreeNames
  Files <- SubstringFiles
  NoName = NoName
  Hidden <- NothingHidden
  Contains <- Substrings
  Key <- CollidingKeys
  Worlds <- SafetyWorlds
  MaxDirFds = 4
  MaxQueued = 2
  MaxRead = 1
  MaxWrites = 1
  Disturbances <- CtrlC
INVARIANT NoUseAfterFree
CHECK_DEADLOCK FALSE
PROPERTY WatcherRunsUntilSigint
PROPERTY SigintTerminates
