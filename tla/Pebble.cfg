SPECIFICATION FairSpec
CONSTANTS
  w1 = w1
  w2 = w2
  w3 = w3
  l1 = l1
  l2 = l2
  c1 = c1
  c2 = c2
  Writer = {w1, w2, w3}
  Label = {l1, l2}
  Config = {c1, c2}
  Asks <- AllAsks
  FirstPrefix = 100
  LastPrefix = 102
  NoFile = NoFile
  Torn = Torn
  NoConfig = NoConfig
  NoWriter = NoWriter
  NoRequest = NoRequest
INVARIANTS TypeOK LayersLoadable Settled PebbleInv
PROPERTIES ImplementsRegistry CallsEnd
