SPECIFICATION FairSpec
CONSTANTS
  op1 = op1
  op2 = op2
  service = service
  Operator = {}
  Service = service
  Supervisor = "pebble"
  Patience = 2
  VaultStates = {"up", "unreachable"}
  MaxFaults = 0
PROPERTY GivesUpOnlyLate
