SPECIFICATION Spec
CONSTANTS
  b1 = b1
  b2 = b2
  f1 = f1
  f2 = f2
  NoService = NoService
  BackupServices <- OneBackup
  FirewallServices <- OneFirewall
  MaxConnectionNum = 1
  MaxProcs = 7
  MsgLen = 3
  Fragmented = FALSE
  MaxExits = 1
PROPERTY WaitingIsServed
CHECK_DEADLOCK FALSE
