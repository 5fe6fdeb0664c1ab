SPECIFICATION Spec
CONSTANTS
  w1 = w1
  w2 = w2
  w3 = w3
  l1 = l1
  l2 = l2
  c1 = c1
  c2 = c2
  Writer = {w1, w2}
  Label = {l1}
  Config = {c1, c2}
  DefaultConfig = c1
  Serialised = TRUE
  NoFile = NoFile
  Empty = Empty
  NoConfig = NoConfig
  NoRequest = NoRequest
PROPERTY ImplementsRegistry
