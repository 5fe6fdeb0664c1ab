SPECIFICATION FairSpec
CONSTANTS
  op1 = op1
  op2 = op2
  service = service
  Operator = {op1, op2}
  Service = service
  Supervisor = "pebble"
  Patience = 2
  VaultStates = {"up", "sealed", "denied", "unreachable"}
  MaxFaults = 2
INVARIANTS TypeOK RestMeansOpen BootInv
PROPERTIES ExitZeroMeansOpen UnlockedInTheEnd QuietInTheEnd
