SPECIFICATION Spec
CONSTANTS
  f1 = f1
  f2 = f2
  Instances = {f1, f2}
  Devices = 2
  MaxStarts = 2
  AllOptions <- FirstEither
  Faults <- FirstOnly
INVARIANTS
  TypeOK
  RulesHoldWhileSniffing
  CleanAfterRun
  ThreadsOpenBeforeFree
PROPERTY SigintTerminates
CHECK_DEADLOCK FALSE
