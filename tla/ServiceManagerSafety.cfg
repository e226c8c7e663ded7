SPECIFICATION Spec
CONSTANTS
  b1 = b1
  b2 = b2
  f1 = f1
  f2 = f2
  NoService = NoService
  BackupServices <- TwoBackups
  FirewallServices <- OneFirewall
  MaxConnectionNum = 1
  MaxProcs = 5
  MsgLen = 3
  Fragmented = TRUE
  MaxExits = 1
SYMMETRY BackupSymmetry
INVARIANT TypeOK
INVARIANT RunningHasHandler
PROPERTY NoRelaunchWhileServiceRuns
CHECK_DEADLOCK FALSE
PROPERTY ImplementsAdmission
