SPECIFICATION Spec
CONSTANTS
  p1 = p1
  p2 = p2
  p3 = p3
  d1 = d1
  d2 = d2
  n1 = n1
  n2 = n2
  k1 = k1
  k2 = k2
  c1 = c1
  c2 = c2
  Invocation = {p1, p2, p3}
  Device = {d1, d2}
  NamedUuid = {n1, n2}
  ExternalKey = {k1, k2}
  Config = {c1, c2}
  CommandLines <- EncryptLines
  Origins <- EncryptOrigins
  MaxRetries = 1
  Serialised = TRUE
  NoUuid = NoUuid
  NoKey = NoKey
  NoDevice = NoDevice
  NoConfig = NoConfig
  NoCommand = NoCommand
  Absent = Absent
  Malformed = Malformed
INVARIANTS Escrowed BootUnlockable RetryStartsClean IndInv
PROPERTIES SuccessOpensDevice ImplementsEscrow
