------------------------- MODULE VaultlockerRaceProofs -------------------------
(* Theorems about encrypts that nobody orders, for any number of them. *)
EXTENDS VaultlockerRace, VaultlockerProofs

-----------------------------------------------------------------------------
(* What a step of one run leaves to the others. *)

\* A key in Vault, a header that is not one of the runs', and a mapping stay.
StoresGrow ==
  /\ \A c \in Config, u \in Uuid : vault[c][u] \in Key => vault'[c][u] = vault[c][u]
  /\ \A d \in Device :
       /\ header[d] \notin NamedUuid => header'[d] \notin NamedUuid
       /\ header[d] \in NamedUuid => header'[d] = header[d] /\ slots'[d] = slots[d]
  /\ \A u \in Uuid : mapper[u] # NoDevice => mapper'[u] # NoDevice

StoresInv == /\ PathsOwn /\ SlotsOwn /\ HeadersAtHome /\ HeadersKept
             /\ MappingsNamedByHeader /\ MappingsOpened /\ Booted

KnownInRace(p) ==
  Busy(p) => /\ RaceKnown(p)
             /\ luks[p] # NoUuid => IsHome(luks[p], cmd[p].device)

LEMMA RaceOneRun ==
  ASSUME RaceInv, TypeInv', NEW p \in Invocation, Active(p), OnlyRun(p), cmd' = cmd,
         StoresGrow, StoresInv', KnownInRace(p)',
         pc'[p] \in BeforeStore /\ Provisions(p) => pc[p] \in BeforeStore,
         \A q \in Invocation :
           (pc'[p] \notin BeforeStore /\ Provisions(p) => q # p) /\ Unused(q) =>
             Unused(q)'
  PROVE  RaceInv'
  <1>1. \A q \in Invocation : q # p =>
          /\ pc'[q] = pc[q] /\ cmd'[q] = cmd[q] /\ luks'[q] = luks[q]
          /\ key'[q] = key[q]
    BY DEF RaceInv, TypeInv, TypeOK, OnlyRun
  <1>2. \A q \in Invocation : Busy(q)' => Busy(q)
    BY <1>1 DEF Busy, Active, Provisions
  <1>3. KeysFresh'
    BY <1>1 DEF RaceInv, KeysFresh, Active, Provisions
  <1>4. RunsAtHome'
    BY <1>1, <1>2 DEF RaceInv, RunsAtHome, KnownInRace, IsHome
  <1>5. EnrolledGenerated'
    BY LineType DEF RaceInv, EnrolledGenerated, StoresGrow
  <1>6. RunsKnowInRace'
    <2> SUFFICES ASSUME NEW q \in Invocation, Busy(q)'
                 PROVE  RaceKnown(q)'
      BY DEF RunsKnowInRace
    <2>1. CASE q = p
      BY <2>1 DEF KnownInRace
    <2>2. CASE q # p
      <3>1. /\ Busy(q) /\ RaceKnown(q)
            /\ cmd[q].config \in Config /\ cmd[q].device \in Device
            /\ pc[q] \notin {"login", "probe"} => luks[q] \in Uuid
        BY <1>2, RunFacts DEF RaceInv, RunsKnowInRace, Busy
      <3> QED
        BY <1>1, <2>2, <3>1
           DEF RaceKnown, StoresGrow, SecretAt, Forming, WithSecret, WithSlot
    <2> QED
      BY <2>1, <2>2
  <1> QED
    BY <1>3, <1>4, <1>5, <1>6 DEF RaceInv, StoresInv

LEMMA RaceQuiet ==
  ASSUME RaceInv, TypeInv', NEW p \in Invocation, Active(p), OnlyRun(p),
         UNCHANGED <<vault, header, slots, mapper, boot, cmd>>,
         pc'[p] \in BeforeStore /\ Provisions(p) => pc[p] \in BeforeStore,
         Forming(p)' => Forming(p) \/ header[cmd[p].device] = NoUuid,
         KnownInRace(p)'
  PROVE  RaceInv'
  <1>1. PathsOwn' /\ SlotsOwn' /\ HeadersAtHome' /\ HeadersKept'
    BY DEF RaceInv, PathsOwn, SlotsOwn, HeadersAtHome, HeadersKept, IsHome
  <1>2. MappingsNamedByHeader' /\ MappingsOpened'
    BY DEF RaceInv, MappingsNamedByHeader, MappingsOpened
  <1>3. Booted'
    <2>1. \A q \in Invocation : q # p => pc'[q] = pc[q]
      BY DEF RaceInv, TypeInv, TypeOK, OnlyRun
    <2> QED
      BY <2>1, SentinelsDiffer DEF RaceInv, Booted, Forming
  <1>4. StoresGrow /\ \A q \in Invocation : Unused(q) => Unused(q)'
    BY DEF StoresGrow, Unused
  <1> QED
    BY <1>1, <1>2, <1>3, <1>4, RaceOneRun DEF StoresInv

LEMMA RaceLeave ==
  ASSUME RaceInv, TypeInv', NEW p \in Invocation, Active(p), OnlyRun(p),
         UNCHANGED <<vault, header, slots, mapper, boot, cmd>>,
         NEW label \in {"ok", "failed"}, Leave(p, label)
  PROVE  RaceInv'
  <1>1. pc'[p] = label
    BY DEF Leave, Goto, RaceInv, TypeInv, TypeOK
  <1>2. KnownInRace(p)' /\ pc'[p] \notin BeforeStore /\ ~ Forming(p)'
    BY <1>1 DEF KnownInRace, Busy, Active, BeforeStore, Forming
  <1> QED
    BY <1>2, RaceQuiet

LEMMA RaceDecide ==
  ASSUME RaceInv, TypeInv', NEW p \in Invocation, Active(p), OnlyRun(p),
         NEW label, Decide(p, label), cmd' = cmd,
         label \in BeforeStore /\ Provisions(p) => pc[p] \in BeforeStore,
         label \in {"ensure", "write", "confirm", "format"} => Forming(p),
         label \notin {"ok", "failed"} /\ pc'[p] = label
           /\ UNCHANGED <<vault, header, slots, mapper, cmd, luks, key>>
           => KnownInRace(p)'
  PROVE  RaceInv'
  <1>1. UNCHANGED <<vault, header, slots, mapper, boot>>
    BY DEF Decide, stores
  <1>2. CASE label \in {"ok", "failed"}
    BY <1>1, <1>2, RaceLeave DEF Decide
  <1>3. CASE label \notin {"ok", "failed"}
    <2>1. pc'[p] = label /\ UNCHANGED <<luks, key>>
      BY <1>3 DEF Decide, Goto, locals, RaceInv, TypeInv, TypeOK
    <2> QED
      BY <1>1, <1>3, <2>1, RaceQuiet DEF Forming
  <1> QED
    BY <1>2, <1>3

-----------------------------------------------------------------------------
(* The calls that change no store. *)

\* What RaceInv says of a run that is going on.
LEMMA RaceRun ==
  ASSUME RaceInv, NEW p \in Invocation, Active(p)
  PROVE  /\ Provisions(p) => RaceKnown(p) /\ KnownInRace(p)
         /\ pc[p] \in BeforeStore => Unused(p)
  BY DEF RaceInv, Busy, RunsKnowInRace, RunsAtHome, KeysFresh, KnownInRace

LEMMA RaceQuietCalls ==
  ASSUME RaceInv, GeneratedUuids, NEW p \in Invocation, QuietCall(p)
  PROVE  RaceInv'
  <1> USE DEF stores, locals
  <1>a. TypeInv' /\ OnlyRun(p) /\ Active(p) /\ cmd' = cmd
    BY StepType DEF QuietCall, Step, RaceInv
  <1>b. /\ cmd[p] \in CommandLines /\ cmd[p].config \in Config
        /\ Provisions(p) => cmd[p].device \in Device /\ cmd[p].op # "decrypt"
        /\ ~ Provisions(p) => /\ cmd[p].op = "decrypt"
                              /\ pc[p] \in {"login", "present", "read", "open"}
        /\ pc[p] \notin {"login", "probe"} => luks[p] \in Uuid
    BY <1>a, RunFacts DEF RaceInv
  <1>c. Provisions(p) => RaceKnown(p) /\ KnownInRace(p)
    BY <1>a, RaceRun
  <1>d. Busy(p)' => Provisions(p)
    BY <1>a DEF Busy, Provisions
  <1>e. /\ pc \in [Invocation -> Labels] /\ luks \in [Invocation -> Uuid \cup {NoUuid}]
        /\ key \in [Invocation -> Key \cup {NoKey}]
        /\ header \in [Device -> Uuid \cup {NoUuid}]
    BY DEF RaceInv, TypeInv, TypeOK
  <1>1. CASE Login(p)
    <2>1. /\ pc'[p] = IF cmd[p].op = "decrypt" THEN "present" ELSE "probe"
          /\ luks'[p] = IF cmd[p].op = "decrypt" THEN cmd[p].uuid ELSE NoUuid
          /\ UNCHANGED <<vault, header, slots, mapper, boot>>
          /\ pc[p] = "login"
      BY <1>1, <1>e DEF Login, Goto
    <2>2. KnownInRace(p)' /\ ~ Forming(p)'
      BY <1>a, <1>b, <1>d, <2>1, SentinelsDiffer
         DEF KnownInRace, RaceKnown, Forming, WithSecret, WithSlot, Uuid
    <2> QED
      BY <1>a, <2>1, <2>2, RaceQuiet DEF BeforeStore
  <1>2. CASE VaultDown(p)
    <2>1. /\ pc'[p] = "login" /\ luks'[p] = NoUuid /\ pc[p] \in BeforeStore
          /\ UNCHANGED <<vault, header, slots, mapper, boot>>
      BY <1>2, <1>e DEF VaultDown, Goto, BeforeStore
    <2>2. KnownInRace(p)' /\ ~ Forming(p)'
      BY <2>1, SentinelsDiffer
         DEF KnownInRace, RaceKnown, Forming, WithSecret, WithSlot, Uuid
    <2> QED
      BY <1>a, <2>1, <2>2, RaceQuiet
  <1>3. CASE ProbeDevice(p)
    <2> DEFINE d     == cmd[p].device
               found == header[d]
    <2>1. CASE Leave(p, "failed")
      BY <1>3, <1>a, <2>1, RaceLeave DEF ProbeDevice, LuksUuid
    <2>2. CASE ~ Leave(p, "failed")
      <3>1. /\ Provisions(p) /\ pc[p] = "probe" /\ d \in Device
            /\ UNCHANGED <<vault, header, slots, mapper, boot>>
            /\ pc'[p] \in {"ensure", "read"}
            /\ pc'[p] = "ensure" => /\ luks'[p] = NewUuid(p) /\ key'[p] = p
                                    /\ found = NoUuid /\ cmd[p].op = "encrypt"
            /\ pc'[p] = "read" => luks'[p] = found /\ found # NoUuid
        BY <1>3, <1>b, <1>e, <2>2 DEF ProbeDevice, Goto, LuksUuid
      <3>2. CASE pc'[p] = "ensure"
        <4>1. NewUuid(p) = p /\ NoUuid \notin NamedUuid
          BY <1>b, <3>1, <3>2, SentinelsDiffer DEF GeneratedUuids, NewUuid, Uuid
        <4>2. IsHome(p, d) /\ cmd[p] # NoCommand
          BY <1>b, <3>1, <3>2, LineType DEF IsHome
        <4>3. KnownInRace(p)'
          BY <1>a, <3>1, <3>2, <4>1, <4>2, OwnNames
             DEF KnownInRace, RaceKnown, Forming, WithSecret, WithSlot, IsHome
        <4> QED
          BY <1>a, <3>1, <3>2, <4>3, RaceQuiet DEF BeforeStore
      <3>3. CASE pc'[p] = "read"
        <4>1. IsHome(found, d)
          BY <1>b, <3>1, <3>3 DEF RaceInv, HeadersAtHome
        <4>2. KnownInRace(p)' /\ ~ Forming(p)'
          BY <1>a, <3>1, <3>3, <4>1
             DEF KnownInRace, RaceKnown, Forming, WithSecret, WithSlot, IsHome
        <4> QED
          BY <1>a, <3>1, <4>2, RaceQuiet DEF BeforeStore
      <3> QED
        BY <3>1, <3>2, <3>3
    <2> QED
      BY <2>1, <2>2
  <1>4. CASE ReadVaultKey(p)
    <2>1. CASE Leave(p, "failed")
      BY <1>4, <1>a, <2>1, RaceLeave DEF ReadVaultKey
    <2>2. CASE ~ Leave(p, "failed")
      <3>1. /\ pc[p] = "read" /\ SecretAt(p) # Malformed
            /\ UNCHANGED <<vault, header, slots, mapper, boot, luks>>
            /\ pc'[p] \in {"credential", "open", "test"}
            /\ pc'[p] = "credential" => cmd[p].op = "enroll"
            /\ pc'[p] # "credential" => SecretAt(p) # Absent /\ key'[p] = SecretAt(p)
            /\ pc'[p] = "open" => ~ Provisions(p)
        BY <1>4, <1>b, <1>e, <2>2 DEF ReadVaultKey, Goto
      <3>2. SecretAt(p) \in Secret
        BY <1>b, <3>1 DEF SecretAt, RaceInv, TypeInv, TypeOK
      <3>3. KnownInRace(p)' /\ ~ Forming(p)'
        BY <1>a, <1>b, <1>c, <1>d, <3>1, <3>2
           DEF KnownInRace, RaceKnown, Forming, WithSecret, WithSlot, SecretAt,
               IsHome, Secret, Busy
      <3> QED
        BY <1>a, <3>1, <3>3, RaceQuiet DEF BeforeStore
    <2> QED
      BY <2>1, <2>2
  <1>5. CASE TestManagedKey(p)
    <2> DEFINE label == IF key[p] \in slots[cmd[p].device] THEN "present"
                        ELSE IF cmd[p].op = "enroll" THEN "credential" ELSE "failed"
    <2>1. /\ Decide(p, label) /\ pc[p] = "test" /\ Provisions(p)
          /\ label \in {"present", "credential", "failed"}
          /\ label = "present" => key[p] \in slots[cmd[p].device]
          /\ label = "credential" => cmd[p].op = "enroll"
      BY <1>5, <1>b DEF TestManagedKey, LuksTestKey
    <2> HIDE DEF label
    <2>2. ASSUME label # "failed", pc'[p] = label,
                 UNCHANGED <<vault, header, slots, mapper, cmd, luks, key>>
          PROVE  KnownInRace(p)'
      BY <1>a, <1>c, <2>1, <2>2
         DEF KnownInRace, RaceKnown, Forming, WithSecret, WithSlot, SecretAt, IsHome, Busy
    <2> QED
      BY <1>a, <2>1, <2>2, RaceDecide DEF BeforeStore
  <1>6. CASE ReadExistingKey(p)
    \* An enrolled device has no slot but those of generated keys, and none of these
    \* is answered to the prompt.
    <2> DEFINE d == cmd[p].device
    <2>1. /\ pc[p] = "credential" /\ Provisions(p) /\ d \in Device
          /\ cmd[p].op = "enroll" /\ header[d] \notin NamedUuid
      BY <1>6, <1>b, <1>c DEF ReadExistingKey, RaceKnown, RaceInv, EnrolledGenerated
    <2>2. slots[d] \subseteq Invocation
      BY <1>e, <2>1 DEF RaceInv, SlotsOwn, Uuid
    <2>3. cmd[p].existing \notin Invocation
      BY <1>b, <2>1 DEF GeneratedUuids
    <2>4. Leave(p, "failed") /\ UNCHANGED <<vault, header, slots, mapper, boot>>
      BY <1>6, <2>2, <2>3 DEF ReadExistingKey, LuksTestKey
    <2> QED
      BY <1>a, <2>4, RaceLeave
  <1>7. CASE EnsureVaultKey(p)
    <2> DEFINE label == IF SecretAt(p) = Absent THEN "write"
                        ELSE IF SecretAt(p) = key[p] THEN "format" ELSE "failed"
    <2>1. /\ Decide(p, label) /\ Provisions(p)
          /\ pc[p] = "ensure"
          /\ label = "format" => SecretAt(p) = key[p]
          /\ label \in {"write", "format", "failed"}
      BY <1>7, <1>b DEF EnsureVaultKey
    <2> HIDE DEF label
    <2>2. ASSUME label # "failed", pc'[p] = label,
                 UNCHANGED <<vault, header, slots, mapper, cmd, luks, key>>
          PROVE  KnownInRace(p)'
      BY <1>a, <1>c, <2>1, <2>2, OwnNames
         DEF KnownInRace, RaceKnown, Forming, WithSecret, WithSlot, SecretAt, IsHome, Busy
    <2> QED
      BY <1>a, <2>1, <2>2, RaceDecide DEF BeforeStore, Forming
  <1>8. CASE ConfirmKey(p)
    <2> DEFINE label == IF SecretAt(p) # key[p] THEN "failed"
                        ELSE IF cmd[p].op = "encrypt" THEN "format" ELSE "addkey"
    <2>1. /\ Decide(p, label) /\ Provisions(p)
          /\ pc[p] = "confirm"
          /\ label # "failed" => SecretAt(p) = key[p]
          /\ label = "addkey" => cmd[p].op = "enroll"
          /\ label \in {"format", "addkey", "failed"}
      BY <1>8, <1>b DEF ConfirmKey, Provisions
    <2> HIDE DEF label
    <2>2. ASSUME label # "failed", pc'[p] = label,
                 UNCHANGED <<vault, header, slots, mapper, cmd, luks, key>>
          PROVE  KnownInRace(p)'
      BY <1>a, <1>c, <2>1, <2>2, OwnNames
         DEF KnownInRace, RaceKnown, Forming, WithSecret, WithSlot, SecretAt, IsHome, Busy
    <2> QED
      BY <1>a, <2>1, <2>2, RaceDecide DEF BeforeStore, Forming
  <1>9. CASE VerifyUuid(p)
    <2> DEFINE label == IF header[cmd[p].device] = luks[p] THEN "verifykey"
                        ELSE "failed"
    <2>1. /\ Decide(p, label) /\ Provisions(p)
          /\ pc[p] = "verify"
          /\ label \in {"verifykey", "failed"}
      BY <1>9, <1>b DEF VerifyUuid, LuksUuid
    <2> HIDE DEF label
    <2>2. ASSUME label # "failed", pc'[p] = label,
                 UNCHANGED <<vault, header, slots, mapper, cmd, luks, key>>
          PROVE  KnownInRace(p)'
      BY <1>a, <1>c, <2>1, <2>2, OwnNames
         DEF KnownInRace, RaceKnown, Forming, WithSecret, WithSlot, SecretAt, IsHome, Busy
    <2> QED
      BY <1>a, <2>1, <2>2, RaceDecide DEF BeforeStore, Forming
  <1>10. CASE VerifyKey(p)
    <2> DEFINE label == IF key[p] \in slots[cmd[p].device] THEN "present"
                        ELSE "failed"
    <2>1. /\ Decide(p, label) /\ Provisions(p)
          /\ pc[p] = "verifykey"
          /\ label = "present" => key[p] \in slots[cmd[p].device]
          /\ label \in {"present", "failed"}
      BY <1>10, <1>b DEF VerifyKey, LuksTestKey
    <2> HIDE DEF label
    <2>2. ASSUME label # "failed", pc'[p] = label,
                 UNCHANGED <<vault, header, slots, mapper, cmd, luks, key>>
          PROVE  KnownInRace(p)'
      BY <1>a, <1>c, <2>1, <2>2, OwnNames
         DEF KnownInRace, RaceKnown, Forming, WithSecret, WithSlot, SecretAt, IsHome, Busy
    <2> QED
      BY <1>a, <2>1, <2>2, RaceDecide DEF BeforeStore, Forming
  <1>11. CASE DeviceExists(p)
    <2> DEFINE exists == mapper[luks[p]] # NoDevice
               label == IF cmd[p].op = "decrypt"
                        THEN IF exists THEN "ok" ELSE "read"
                        ELSE IF exists THEN "register" ELSE "open"
    <2>1. /\ Decide(p, label) /\ pc[p] = "present"
          /\ label \in {"ok", "read", "register", "open"}
          /\ Provisions(p) => label \in {"register", "open"}
          /\ label = "register" => mapper[luks[p]] # NoDevice
      BY <1>11, <1>b DEF DeviceExists
    <2> HIDE DEF exists, label
    <2>2. ASSUME pc'[p] = label,
                 UNCHANGED <<vault, header, slots, mapper, cmd, luks, key>>
          PROVE  KnownInRace(p)'
      BY <1>a, <1>c, <1>d, <2>1, <2>2
         DEF KnownInRace, RaceKnown, Forming, WithSecret, WithSlot, SecretAt, IsHome, Busy
    <2> QED
      BY <1>a, <2>1, <2>2, RaceDecide DEF BeforeStore
  <1>12. CASE Abort(p)
    BY <1>12, <1>a, RaceLeave DEF Abort
  <1> QED
    BY <1>1, <1>2, <1>3, <1>4, <1>5, <1>6, <1>7, <1>8, <1>9, <1>10, <1>11, <1>12
       DEF QuietCall

-----------------------------------------------------------------------------
(* The calls that change a store. *)

\* A key goes to the path of the UUID made with it, where nothing was.
LEMMA RaceWriteKey ==
  ASSUME RaceInv, NEW p \in Invocation, WriteKey(p)
  PROVE  RaceInv' /\ SecretAt(p) = Absent
  <1> DEFINE c == cmd[p].config
  <1>a. TypeInv' /\ OnlyRun(p) /\ Active(p) /\ cmd' = cmd
    BY StepType DEF Step, RaceInv
  <1>b. /\ Busy(p) /\ c \in Config /\ pc[p] = "write" /\ cmd[p].op = "encrypt"
        /\ luks[p] = p /\ key[p] = p /\ header[cmd[p].device] \notin NamedUuid
        /\ IsHome(p, cmd[p].device) /\ Unused(p)
    BY <1>a, RunFacts, RaceRun, OwnNames
       DEF RaceInv, WriteKey, Busy, RaceKnown, KnownInRace, Forming, BeforeStore
  <1>c. vault[c][p] = Absent /\ p \in Uuid /\ p \in Key /\ p \notin NamedUuid
    BY <1>b, OwnNames DEF RaceInv, PathsOwn, Unused
  <1>d. /\ \A c2 \in Config, u2 \in Uuid :
             vault'[c2][u2] = IF c2 = c /\ u2 = p THEN p ELSE vault[c2][u2]
        /\ UNCHANGED <<header, slots, mapper, boot>>
    BY <1>b, <1>c DEF WriteKey, RaceInv, TypeInv, TypeOK
  <1>e. \/ pc'[p] = "failed"
        \/ pc'[p] = "confirm" /\ luks' = luks /\ key' = key
    BY DEF WriteKey, Leave, Goto, locals, RaceInv, TypeInv, TypeOK
  <1>1. SlotsOwn' /\ HeadersAtHome' /\ MappingsNamedByHeader' /\ MappingsOpened'
    BY <1>a, <1>d DEF RaceInv, SlotsOwn, HeadersAtHome, MappingsNamedByHeader,
                      MappingsOpened, IsHome
  <1>2. PathsOwn'
    BY <1>d DEF RaceInv, PathsOwn
  <1>3. HeadersKept'
    <2> SUFFICES ASSUME NEW d \in Device, header[d] \in Invocation
                 PROVE  vault'[cmd[header[d]].config][header[d]] = header[d]
      BY <1>a, <1>d DEF HeadersKept
    <2>1. /\ cmd[header[d]] \in CommandLines /\ header[d] \in Uuid
          /\ vault[cmd[header[d]].config][header[d]] = header[d]
      BY OwnNames DEF RaceInv, HeadersAtHome, HeadersKept, IsHome, TypeInv, TypeOK
    <2> QED
      BY <1>d, <2>1, LineType
  <1>4. StoresGrow
    BY <1>c, <1>d, SentinelsDiffer DEF StoresGrow
  <1>5. Booted'
    <2> SUFFICES ASSUME NEW u \in Uuid, boot[u] # NoConfig
                 PROVE  \E d \in Device :
                          /\ header[d] = u /\ vault'[boot[u]][u] \in slots[d]
                          /\ \/ mapper[u] = d
                             \/ \A q \in Invocation : Forming(q)' => cmd[q].device # d
      BY <1>a, <1>d DEF Booted
    <2>1. PICK d \in Device :
            /\ header[d] = u /\ vault[boot[u]][u] \in slots[d]
            /\ mapper[u] = d \/ \A q \in Invocation : Forming(q) => cmd[q].device # d
      BY DEF RaceInv, Booted
    <2>2. vault[boot[u]][u] \in Key /\ boot[u] \in Config
      BY <2>1 DEF RaceInv, TypeInv, TypeOK
    <2>3. \A q \in Invocation : Forming(q)' => Forming(q)
      BY <1>b, <1>e DEF Forming, RaceInv, TypeInv, TypeOK, OnlyRun, WriteKey, Goto, Leave
    <2> QED
      BY <1>4, <2>1, <2>2, <2>3 DEF StoresGrow
  <1>6. \A q \in Invocation : q # p /\ Unused(q) => Unused(q)'
    BY <1>d DEF Unused
  <1>7. KnownInRace(p)' /\ pc'[p] \notin BeforeStore
    BY <1>a, <1>b, <1>c, <1>d, <1>e
       DEF KnownInRace, RaceKnown, Forming, WithSecret, WithSlot, IsHome, Busy, Active,
           BeforeStore
  <1>8. SecretAt(p) = Absent
    BY <1>b, <1>c DEF SecretAt
  <1> QED
    BY <1>a, <1>b, <1>1, <1>2, <1>3, <1>4, <1>5, <1>6, <1>7, <1>8, RaceOneRun
       DEF StoresInv, Busy

\* luksFormat takes a device from whoever formatted it before, but not one that
\* is open, nor one that is registered.
LEMMA RaceLuksFormat ==
  ASSUME RaceInv, NEW p \in Invocation, LuksFormat(p)
  PROVE  RaceInv'
  <1> DEFINE d == cmd[p].device
             c == cmd[p].config
  <1>a. TypeInv' /\ OnlyRun(p) /\ Active(p) /\ cmd' = cmd
    BY StepType DEF Step, RaceInv
  <1>b. /\ Busy(p) /\ c \in Config /\ d \in Device /\ pc[p] = "format" /\ Forming(p)
        /\ cmd[p].op = "encrypt" /\ luks[p] = p /\ key[p] = p
        /\ header[d] \notin NamedUuid /\ IsHome(p, d) /\ vault[c][p] = p
    BY <1>a, RunFacts, RaceRun, OwnNames
       DEF RaceInv, LuksFormat, Busy, RaceKnown, KnownInRace, Forming, WithSecret,
           SecretAt, LuksFormats
  <1>c. p \in Uuid /\ p \in Key /\ p # NoUuid /\ p \notin NamedUuid
    BY OwnNames
  <1>d. /\ UNCHANGED <<vault, mapper, boot, luks, key>>
        /\ pc'[p] \in {"present", "verify"}
        /\ \/ UNCHANGED <<header, slots>>
           \/ /\ \A u \in Uuid : mapper[u] # d
              /\ header' = [header EXCEPT ![d] = p]
              /\ \/ slots' = [slots EXCEPT ![d] = {p}]
                 \/ slots' = [slots EXCEPT ![d] = {}]
    BY <1>b DEF LuksFormat, Goto, locals, RaceInv, TypeInv, TypeOK, LuksFormats, InUse
  <1>1. KnownInRace(p)' /\ pc'[p] \notin BeforeStore /\ ~ Forming(p)'
    BY <1>a, <1>b, <1>c, <1>d
       DEF KnownInRace, RaceKnown, Forming, WithSecret, WithSlot, SecretAt, IsHome,
           BeforeStore
  <1>2. CASE UNCHANGED <<header, slots>>
    BY <1>a, <1>d, <1>1, <1>2, RaceQuiet
  <1>3. ASSUME \A u \in Uuid : mapper[u] # d,
               header' = [header EXCEPT ![d] = p],
               \/ slots' = [slots EXCEPT ![d] = {p}]
               \/ slots' = [slots EXCEPT ![d] = {}]
        PROVE  RaceInv'
    <2>1. /\ header'[d] = p /\ slots'[d] \subseteq {p}
          /\ \A e \in Device : e # d => header'[e] = header[e] /\ slots'[e] = slots[e]
      BY <1>b, <1>3 DEF RaceInv, TypeInv, TypeOK
    <2>2. PathsOwn'
      BY <1>d DEF RaceInv, PathsOwn
    <2>3. SlotsOwn'
      BY <1>c, <2>1 DEF RaceInv, SlotsOwn
    <2>4. HeadersAtHome' /\ HeadersKept'
      BY <1>a, <1>b, <1>d, <2>1 DEF RaceInv, HeadersAtHome, HeadersKept, IsHome
    <2>5. MappingsNamedByHeader' /\ MappingsOpened'
      BY <1>b, <1>c, <1>d, <1>3, <2>1, OwnNames
         DEF RaceInv, MappingsNamedByHeader, MappingsOpened
    <2>6. StoresGrow
      BY <1>b, <1>c, <1>d, <2>1 DEF StoresGrow
    <2>7. Booted'
      <3> SUFFICES ASSUME NEW u \in Uuid, boot[u] # NoConfig
                   PROVE  \E e \in Device :
                            /\ header'[e] = u /\ vault[boot[u]][u] \in slots'[e]
                            /\ \/ mapper[u] = e
                               \/ \A q \in Invocation : Forming(q)' => cmd[q].device # e
        BY <1>a, <1>d DEF Booted
      <3>1. PICK e \in Device :
              /\ header[e] = u /\ vault[boot[u]][u] \in slots[e]
              /\ mapper[u] = e \/ \A q \in Invocation : Forming(q) => cmd[q].device # e
        BY DEF RaceInv, Booted
      <3>2. e # d
        BY <1>b, <1>3, <3>1
      <3>3. \A q \in Invocation : Forming(q)' => Forming(q)
        <4>1. \A q \in Invocation : q # p => pc'[q] = pc[q]
          BY <1>a DEF RaceInv, TypeInv, TypeOK, OnlyRun
        <4> QED
          BY <1>1, <4>1 DEF Forming
      <3> QED
        BY <2>1, <3>1, <3>2, <3>3
    <2>8. \A q \in Invocation : q # p /\ Unused(q) => Unused(q)'
      BY <1>d, <2>1 DEF Unused
    <2> QED
      BY <1>a, <1>b, <1>1, <2>2, <2>3, <2>4, <2>5, <2>6, <2>7, <2>8, RaceOneRun
         DEF StoresInv, Busy
  <1> QED
    BY <1>d, <1>2, <1>3

\* The device that key opens has the header that its run takes it to have.
LEMMA OpensOwnHeader ==
  ASSUME RaceInv, NEW p \in Invocation, Busy(p), pc[p] = "open",
         key[p] \in slots[cmd[p].device]
  PROVE  header[cmd[p].device] = luks[p]
  <1> DEFINE d == cmd[p].device
  <1>1. /\ d \in Device /\ luks[p] \in Uuid /\ cmd[p].config \in Config
        /\ key[p] \in Key /\ vault[cmd[p].config][luks[p]] = key[p]
        /\ luks[p] \in NamedUuid => header[d] = luks[p]
    BY RunFacts, RaceRun DEF RaceInv, Busy, RaceKnown, WithSecret, SecretAt
  <1>2. CASE luks[p] \in Invocation
    <2>1. key[p] = luks[p]
      BY <1>1, <1>2, SentinelsDiffer DEF RaceInv, PathsOwn
    <2>2. slots[d] \subseteq ExternalKey \/ slots[d] \subseteq {header[d]}
      BY <1>1 DEF RaceInv, SlotsOwn
    <2> QED
      BY <1>2, <2>1, <2>2, NamesDiffer
  <1> QED
    BY <1>1, <1>2 DEF Uuid

LEMMA RaceLuksOpen ==
  ASSUME RaceInv, NEW p \in Invocation, LuksOpen(p)
  PROVE  RaceInv'
  <1> DEFINE u == luks[p]
  <1>a. TypeInv' /\ OnlyRun(p) /\ Active(p) /\ cmd' = cmd
    BY StepType DEF Step, RaceInv
  <1>b. /\ u \in Uuid /\ u # NoUuid /\ pc[p] = "open"
        /\ Provisions(p) => Busy(p) /\ cmd[p].device \in Device /\ cmd[p].op # "decrypt"
        /\ ~ Provisions(p) => cmd[p].op = "decrypt"
    BY <1>a, RunFacts, SentinelsDiffer DEF RaceInv, LuksOpen, Busy
  <1>c. Provisions(p) => RaceKnown(p) /\ KnownInRace(p)
    BY <1>a, RaceRun
  <1>d. /\ UNCHANGED <<vault, header, slots, boot>>
        /\ \/ mapper' = mapper /\ Leave(p, "failed")
           \/ /\ \E d \in OpenSources(p) :
                   /\ key[p] \in slots[d] /\ mapper[u] = NoDevice
                   /\ mapper' = [mapper EXCEPT ![u] = d]
              /\ \/ pc'[p] \in {"ok", "failed"}
                 \/ pc'[p] = "register" /\ UNCHANGED <<luks, key>>
    BY DEF LuksOpen, Leave, Goto, locals, stores, RaceInv, TypeInv, TypeOK
  <1>1. CASE mapper' = mapper /\ Leave(p, "failed")
    BY <1>a, <1>d, <1>1, RaceLeave
  <1>2. ASSUME NEW d \in OpenSources(p),
               key[p] \in slots[d], mapper[u] = NoDevice,
               mapper' = [mapper EXCEPT ![u] = d],
               \/ pc'[p] \in {"ok", "failed"}
               \/ pc'[p] = "register" /\ UNCHANGED <<luks, key>>
        PROVE  RaceInv'
    <2>1. d \in Device /\ header[d] = u
      BY <1>b, <1>2, OpensOwnHeader DEF OpenSources
    <2>2. /\ \A v \in Uuid : mapper'[v] = IF v = u THEN d ELSE mapper[v]
          /\ d # NoDevice
      BY <1>b, <1>2, <2>1, SentinelsDiffer DEF RaceInv, TypeInv, TypeOK
    <2>3. PathsOwn' /\ SlotsOwn' /\ HeadersAtHome' /\ HeadersKept'
      BY <1>a, <1>d DEF RaceInv, PathsOwn, SlotsOwn, HeadersAtHome, HeadersKept, IsHome
    <2>4. MappingsNamedByHeader'
      BY <1>d, <2>1, <2>2 DEF RaceInv, MappingsNamedByHeader
    <2>5. MappingsOpened'
      BY <1>b, <1>d, <1>2, <2>1, <2>2, OwnNames DEF RaceInv, MappingsOpened, SlotsOwn
    <2>6. StoresGrow
      BY <1>d, <2>2 DEF StoresGrow
    <2>7. ~ Forming(p)' /\ pc'[p] \notin BeforeStore
      BY <1>2 DEF Forming, BeforeStore
    <2>8. Booted'
      <3>1. \A q \in Invocation : Forming(q)' => Forming(q)
        <4>1. \A q \in Invocation : q # p => pc'[q] = pc[q]
          BY <1>a DEF RaceInv, TypeInv, TypeOK, OnlyRun
        <4> QED
          BY <2>7, <4>1 DEF Forming
      <3>2. \A v \in Uuid, e \in Device : mapper[v] = e => mapper'[v] = e
        BY <1>2, <2>2, SentinelsDiffer
      <3> QED
        BY <1>a, <1>d, <3>1, <3>2 DEF RaceInv, Booted
    <2>9. KnownInRace(p)'
      BY <1>a, <1>b, <1>c, <1>d, <1>2, <2>2
         DEF KnownInRace, RaceKnown, Forming, WithSecret, WithSlot, SecretAt, IsHome,
             Busy, Active, Provisions
    <2>10. \A q \in Invocation : Unused(q) => Unused(q)'
      BY <1>d DEF Unused
    <2> QED
      BY <1>a, <2>3, <2>4, <2>5, <2>6, <2>7, <2>8, <2>9, <2>10, RaceOneRun DEF StoresInv
  <1> QED
    BY <1>d, <1>1, <1>2

\* At the registration the run's own device is the one that is open, and its key
\* in Vault opens it.
LEMMA RegistersOwnDevice ==
  ASSUME RaceInv, UuidNamesOneDevice, NEW p \in Invocation, RegisterBootUnlock(p)
  PROVE  /\ cmd[p].device \in Device /\ cmd[p].config \in Config /\ luks[p] \in Uuid
         /\ mapper[luks[p]] = cmd[p].device /\ header[cmd[p].device] = luks[p]
         /\ vault[cmd[p].config][luks[p]] \in slots[cmd[p].device]
  <1> DEFINE u == luks[p]
             d == cmd[p].device
  <1>1. Active(p) /\ Provisions(p) /\ pc[p] = "register"
    BY RunFacts DEF RaceInv, RegisterBootUnlock, Active
  <1>2. /\ d \in Device /\ cmd[p].config \in Config /\ u \in Uuid /\ u # NoUuid
        /\ RaceKnown(p) /\ IsHome(u, d)
    BY <1>1, RunFacts, RaceRun, SentinelsDiffer DEF RaceInv, KnownInRace, Busy
  <1>3. /\ key[p] \in Key /\ vault[cmd[p].config][u] = key[p] /\ mapper[u] # NoDevice
        /\ u \in NamedUuid => key[p] \in slots[d]
    BY <1>1, <1>2 DEF RaceKnown, WithSecret, WithSlot, SecretAt
  <1>4. mapper[u] \in Device /\ header[mapper[u]] = u /\ IsHome(u, mapper[u])
    BY <1>2, <1>3 DEF RaceInv, TypeInv, TypeOK, MappingsNamedByHeader, HeadersAtHome
  <1>5. mapper[u] = d
    BY <1>2, <1>4, HomesDiffer
  <1>6. ASSUME u \in Invocation PROVE key[p] = u /\ u \in slots[d]
    BY <1>2, <1>3, <1>5, <1>6, SentinelsDiffer DEF RaceInv, PathsOwn, MappingsOpened
  <1> QED
    BY <1>2, <1>3, <1>4, <1>5, <1>6 DEF Uuid

LEMMA RaceRegister ==
  ASSUME RaceInv, UuidNamesOneDevice, NEW p \in Invocation, RegisterBootUnlock(p)
  PROVE  RaceInv'
  <1> DEFINE d == cmd[p].device
             u == luks[p]
             c == cmd[p].config
  <1>a. TypeInv' /\ OnlyRun(p) /\ Active(p) /\ cmd' = cmd
    BY StepType DEF Step, RaceInv
  <1>b. /\ d \in Device /\ c \in Config /\ u \in Uuid
        /\ mapper[u] = d /\ header[d] = u /\ vault[c][u] \in slots[d]
    BY RegistersOwnDevice
  <1>c. /\ UNCHANGED <<vault, header, slots, mapper>>
        /\ \A v \in Uuid : boot'[v] = IF v = u THEN c ELSE boot[v]
        /\ pc'[p] \in {"ok", "failed"}
    BY <1>b DEF RegisterBootUnlock, Leave, Goto, RaceInv, TypeInv, TypeOK
  <1>1. /\ PathsOwn' /\ SlotsOwn' /\ HeadersAtHome' /\ HeadersKept'
        /\ MappingsNamedByHeader' /\ MappingsOpened'
    BY <1>a, <1>c DEF RaceInv, PathsOwn, SlotsOwn, HeadersAtHome, HeadersKept,
                      MappingsNamedByHeader, MappingsOpened, IsHome
  <1>2. Booted'
    <2>1. \A q \in Invocation : Forming(q)' => Forming(q)
      <3>1. \A q \in Invocation : q # p => pc'[q] = pc[q]
        BY <1>a DEF RaceInv, TypeInv, TypeOK, OnlyRun
      <3> QED
        BY <1>c, <3>1 DEF Forming
    <2> QED
      BY <1>a, <1>b, <1>c, <2>1 DEF RaceInv, Booted
  <1>3. StoresGrow /\ \A q \in Invocation : Unused(q) => Unused(q)'
    BY <1>c DEF StoresGrow, Unused
  <1>4. KnownInRace(p)' /\ pc'[p] \notin BeforeStore
    BY <1>c DEF KnownInRace, Busy, Active, BeforeStore
  <1> QED
    BY <1>a, <1>1, <1>2, <1>3, <1>4, RaceOneRun DEF StoresInv

-----------------------------------------------------------------------------
(* The invariant. *)

LEMMA RaceStart ==
  ASSUME RaceInv, NEW p \in Invocation, NEW line \in CommandLines, Start(p, line)
  PROVE  RaceInv'
  <1>1. TypeInv'
    BY StartType DEF RaceInv
  <1>2. /\ pc[p] = "idle" /\ cmd[p] = NoCommand /\ pc'[p] = "login" /\ cmd'[p] = line
        /\ \A q \in Invocation : q # p => pc'[q] = pc[q] /\ cmd'[q] = cmd[q]
        /\ UNCHANGED <<vault, header, slots, mapper, boot, luks, key>>
        /\ luks[p] = NoUuid
    BY DEF Start, Goto, stores, locals, RaceInv, TypeInv, TypeOK, CommandsKnown
  <1>3. PathsOwn' /\ SlotsOwn' /\ MappingsNamedByHeader' /\ MappingsOpened'
        /\ EnrolledGenerated'
    BY <1>2 DEF RaceInv, PathsOwn, SlotsOwn, MappingsNamedByHeader, MappingsOpened,
                EnrolledGenerated
  <1>4. HeadersAtHome' /\ HeadersKept'
    <2>1. \A d \in Device : header[d] # NoUuid => IsHome(header[d], d) /\ header[d] # p
      BY <1>2 DEF RaceInv, HeadersAtHome, IsHome
    <2>2. HeadersAtHome'
      BY <1>2, <2>1 DEF HeadersAtHome, IsHome
    <2>3. HeadersKept'
      BY <1>2, <2>1, OwnNames DEF RaceInv, HeadersKept
    <2> QED
      BY <2>2, <2>3
  <1>5. Booted'
    BY <1>2 DEF RaceInv, Booted, Forming
  <1>6. KeysFresh'
    BY <1>2 DEF RaceInv, KeysFresh, Unused, BeforeStore, Active, Provisions
  <1>7. RunsAtHome'
    BY <1>2 DEF RaceInv, RunsAtHome, IsHome, Busy, Active, Provisions
  <1>8. RunsKnowInRace'
    <2> SUFFICES ASSUME NEW q \in Invocation, Busy(q)'
                 PROVE  RaceKnown(q)'
      BY DEF RunsKnowInRace
    <2>1. CASE q = p
      BY <1>2, <2>1, SentinelsDiffer
         DEF RaceKnown, Forming, WithSecret, WithSlot, Uuid
    <2>2. CASE q # p
      BY <1>2, <2>2 DEF RaceInv, RunsKnowInRace, RaceKnown, Forming, SecretAt, Busy,
                        Active, Provisions
    <2> QED
      BY <2>1, <2>2
  <1> QED
    BY <1>1, <1>3, <1>4, <1>5, <1>6, <1>7, <1>8 DEF RaceInv

LEMMA RaceReboot == ASSUME RaceInv, Reboot PROVE RaceInv'
  <1>1. TypeInv'
    BY RebootType DEF RaceInv
  <1>2. /\ UNCHANGED <<vault, header, slots, boot, cmd>>
        /\ \A u \in Uuid : mapper'[u] = NoDevice
        /\ \A p \in Invocation :
             /\ ~ Busy(p)' /\ ~ Forming(p)'
             /\ pc'[p] \in BeforeStore \/ (Active(p) /\ ~ Provisions(p))' =>
                  pc[p] \in BeforeStore
    BY DEF Reboot, stores, Busy, Active, Forming, BeforeStore, RaceInv, TypeInv, TypeOK
  <1>3. PathsOwn' /\ SlotsOwn' /\ HeadersAtHome' /\ HeadersKept' /\ EnrolledGenerated'
    BY <1>2 DEF RaceInv, PathsOwn, SlotsOwn, HeadersAtHome, HeadersKept, IsHome,
                EnrolledGenerated
  <1>4. MappingsNamedByHeader' /\ MappingsOpened'
    BY <1>2, SentinelsDiffer, OwnNames DEF MappingsNamedByHeader, MappingsOpened
  <1>5. Booted'
    BY <1>2 DEF RaceInv, Booted
  <1>6. KeysFresh'
    BY <1>2 DEF RaceInv, KeysFresh, Unused
  <1>7. RunsAtHome' /\ RunsKnowInRace'
    BY <1>2 DEF RunsAtHome, RunsKnowInRace
  <1> QED
    BY <1>1, <1>3, <1>4, <1>5, <1>6, <1>7 DEF RaceInv

LEMMA RaceInit == ASSUME GeneratedUuids PROVE Init => RaceInv
  <1> SUFFICES ASSUME Init PROVE RaceInv
    OBVIOUS
  <1>1. TypeInv
    BY InitType DEF Init, TypeInv, CommandsKnown, DecryptOnlyOpens, KeysMade, Active
  <1>2. PICK o \in Origins : vault = o.vault /\ header = o.header /\ slots = o.slots
    BY DEF Init
  <1>3. /\ \A d \in Device : /\ header[d] = NoUuid => slots[d] = {}
                             /\ header[d] \in NamedUuid \cup {NoUuid}
                             /\ slots[d] \subseteq ExternalKey
        /\ \A c \in Config, u \in Uuid :
             vault[c][u] \in ExternalKey \cup {Absent, Malformed}
        /\ \A c \in Config, p \in Invocation : vault[c][p] = Absent
    BY <1>2, OriginsWellFormed DEF Origin
  <1>4. /\ \A p \in Invocation : pc[p] = "idle"
        /\ \A u \in Uuid : mapper[u] = NoDevice /\ boot[u] = NoConfig
    BY DEF Init
  <1>5. PathsOwn /\ SlotsOwn /\ HeadersKept
    BY <1>3, NamesDiffer, OwnNames DEF PathsOwn, SlotsOwn, HeadersKept
  <1>6. HeadersAtHome
    BY <1>2, <1>3, NamesDiffer DEF HeadersAtHome, IsHome, HomeOf
  <1>7. MappingsNamedByHeader /\ MappingsOpened /\ Booted
    BY <1>4, SentinelsDiffer, OwnNames DEF MappingsNamedByHeader, MappingsOpened, Booted
  <1>8. EnrolledGenerated
    BY <1>2, SentinelsDiffer DEF GeneratedUuids, EnrolledGenerated, Uuid
  <1>9. KeysFresh
    BY <1>3, OwnNames, NamesDiffer DEF KeysFresh, Unused
  <1>10. RunsAtHome /\ RunsKnowInRace
    BY <1>4 DEF RunsAtHome, RunsKnowInRace, Busy, Active
  <1> QED
    BY <1>1, <1>5, <1>6, <1>7, <1>8, <1>9, <1>10 DEF RaceInv

LEMMA RaceNext == ASSUME GeneratedUuids, RaceInv, [Next]_vars PROVE RaceInv'
  <1>1. CASE \E p \in Invocation : Step(p) \/ Abort(p)
    <2>1. \A p \in Invocation : ~ LuksAddKey(p)
      BY StepType, RunFacts, RaceRun
         DEF Step, LuksAddKey, LuksAddsKey, RaceKnown, RaceInv
    <2> QED
      BY <1>1, <2>1, RaceQuietCalls, RaceWriteKey, RaceLuksFormat, RaceLuksOpen,
         RaceRegister DEF Step, QuietCall, GeneratedUuids
  <1>2. CASE \E p \in Invocation, line \in CommandLines : Start(p, line)
    BY <1>2, RaceStart
  <1>3. CASE Reboot
    BY <1>3, RaceReboot
  <1>4. CASE UNCHANGED vars
    <2>1. TypeInv'
      BY <1>4, NextType DEF RaceInv
    <2>2. /\ PathsOwn' /\ SlotsOwn' /\ HeadersAtHome' /\ HeadersKept'
          /\ MappingsNamedByHeader' /\ MappingsOpened' /\ EnrolledGenerated' /\ Booted'
      BY <1>4 DEF vars, RaceInv, PathsOwn, SlotsOwn, HeadersAtHome, HeadersKept, IsHome,
                  MappingsNamedByHeader, MappingsOpened, EnrolledGenerated, Booted,
                  Forming
    <2>3. KeysFresh' /\ RunsAtHome' /\ RunsKnowInRace'
      BY <1>4 DEF vars, RaceInv, KeysFresh, Unused, RunsAtHome, RunsKnowInRace,
                  RaceKnown, Forming, SecretAt, IsHome, Busy, Active, Provisions
    <2> QED
      BY <2>1, <2>2, <2>3 DEF RaceInv
  <1> QED
    BY <1>1, <1>2, <1>3, <1>4 DEF Next

\* However many encrypts of one device overlap, whatever is retried, fails or is
\* killed: stores and runs keep RaceInv, if each makes its own UUID.  The enrolls
\* among them are restricted by GeneratedUuids to reusing the key that Vault has.
THEOREM RaceInvariant == ASSUME GeneratedUuids PROVE Spec => []RaceInv
  <1>1. RaceInv /\ [Next]_vars => RaceInv'
    BY RaceNext
  <1> QED
    BY <1>1, RaceInit, PTL DEF Spec

-----------------------------------------------------------------------------
(* What survives a race. *)

\* Encrypts that format over each other never give a device a key that Vault does
\* not have under the device's UUID, and enrolls that only reuse what Vault has do
\* not change that.
THEOREM RaceKeepsEscrow == ASSUME GeneratedUuids PROVE Spec => []Escrowed
  <1>1. RaceInv => Escrowed
    <2> SUFFICES ASSUME RaceInv, NEW d \in Device, NEW k \in slots[d] \cap Invocation
                 PROVE  \E c \in Config : vault[c][header[d]] = k
      BY DEF Escrowed
    <2>1. header[d] = k
      BY NamesDiffer DEF RaceInv, SlotsOwn
    <2>2. vault[cmd[k].config][k] = k /\ cmd[k] \in CommandLines
      BY <2>1, OwnNames DEF RaceInv, HeadersKept, HeadersAtHome, IsHome, TypeInv, TypeOK
    <2> QED
      BY <2>1, <2>2, LineType
  <1> QED
    BY <1>1, RaceInvariant, PTL

\* Boot is never registered, by encrypts or by enrolls that reuse the key Vault has,
\* for a device that an encrypt goes on to format.
THEOREM RaceKeepsBoot == ASSUME GeneratedUuids PROVE Spec => []BootUnlockable
  <1>1. RaceInv => BootUnlockable
    BY DEF RaceInv, Booted, BootUnlockable
  <1> QED
    BY <1>1, RaceInvariant, PTL
=============================================================================
