SPECIFICATION FairSpec
CONSTANTS
  op1 = op1
  op2 = op2
  service = service
  Operator = {}
  Service = service
  Supervisor = "systemd"
  Patience = 2
  VaultStates = {"up", "sealed"}
  MaxFaults = 0
PROPERTY UnlockedInTheEnd
