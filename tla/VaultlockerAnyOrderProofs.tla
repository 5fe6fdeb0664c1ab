----------------------- MODULE VaultlockerAnyOrderProofs -----------------------
(* Theorems about any commands in any order, with any UUIDs. *)
EXTENDS VaultlockerAnyOrder, VaultlockerProofs

-----------------------------------------------------------------------------
(* What a step of one run leaves to the others. *)

\* A device that has a header goes on having one, and a mapping stays.
StoresSettle ==
  /\ \A d \in Device : header[d] # NoUuid => header'[d] # NoUuid
  /\ \A u \in Uuid : mapper[u] # NoDevice => mapper'[u] = mapper[u]

\* The run's new key is its old one, its own, one that Vault has, or none.
TakesKey(p) ==
  \/ key'[p] \in {NoKey, key[p], p}
  \/ \E c \in Config, u \in Uuid : key'[p] = vault[c][u]

\* Only a plain device becomes one that the run will format.
LooksFirst(p) ==
  \A d \in Device : Formatting(p, d)' => Formatting(p, d) \/ header[d] = NoUuid

KnownAnyOrder(p) ==
  Busy(p) => /\ AlwaysKnown(p)
             /\ luks[p] # NoUuid => IsHome(luks[p], cmd[p].device)

\* What a step of one run has to see to; the rest follows for all the others.
LEMMA AnyOneRun ==
  ASSUME AnyOrderInv, TypeInv', NEW p \in Invocation, Active(p), OnlyRun(p), cmd' = cmd,
         StoresSettle, PlainHasNoSlots', HeadersAtHome', MappingsAtHome',
         KnownAnyOrder(p)', TakesKey(p), LooksFirst(p),
         pc'[p] \in BeforeStore /\ Provisions(p) => pc[p] \in BeforeStore,
         \A u \in Uuid : boot'[u] # NoConfig => boot[u] # NoConfig \/ mapper[u] # NoDevice,
         \A q \in Invocation :
           /\ pc'[p] \notin BeforeStore /\ Provisions(p) => q # p
           /\ Unused(q) /\ \A r \in Invocation \ {q} : key[r] # q
           => Unused(q)'
  PROVE  AnyOrderInv'
  <1>1. \A q \in Invocation : q # p =>
          /\ pc'[q] = pc[q] /\ cmd'[q] = cmd[q] /\ luks'[q] = luks[q]
          /\ key'[q] = key[q]
    BY DEF AnyOrderInv, TypeInv, TypeOK, OnlyRun
  <1>2. \A q \in Invocation : Busy(q)' => Busy(q)
    BY <1>1 DEF Busy, Active, Provisions
  <1>3. ASSUME NEW q \in Invocation, q # p, Unused(q), key[p] # q
        PROVE  key'[p] # q
    BY <1>3, OwnNames DEF TakesKey, Unused
  <1>4. KeysOwn'
    <2> SUFFICES ASSUME NEW q \in Invocation,
                        pc'[q] \in BeforeStore \/ (Active(q) /\ ~ Provisions(q))'
                 PROVE  Unused(q)' /\ \A r \in Invocation \ {q} : key'[r] # q
      BY DEF KeysOwn
    <2>1. pc[q] \in BeforeStore \/ (Active(q) /\ ~ Provisions(q))
      BY <1>1 DEF Active, Provisions
    <2>2. Unused(q) /\ \A r \in Invocation \ {q} : key[r] # q
      BY <2>1 DEF AnyOrderInv, KeysOwn
    <2>3. Unused(q)'
      BY <2>2 DEF Active, Provisions
    <2> QED
      BY <1>1, <1>3, <2>2, <2>3
  <1>5. RunsAtHome'
    BY <1>1, <1>2 DEF AnyOrderInv, RunsAtHome, KnownAnyOrder, IsHome
  <1>6. RunsAlwaysKnow'
    <2> SUFFICES ASSUME NEW q \in Invocation, Busy(q)'
                 PROVE  AlwaysKnown(q)'
      BY DEF RunsAlwaysKnow
    <2>1. CASE q = p
      BY <2>1 DEF KnownAnyOrder
    <2>2. CASE q # p
      <3>1. /\ Busy(q) /\ AlwaysKnown(q)
            /\ pc[q] \notin {"login", "probe"} => luks[q] \in Uuid
        BY <1>2, RunFacts DEF AnyOrderInv, RunsAlwaysKnow, Busy
      <3> QED
        BY <1>1, <2>2, <3>1 DEF AlwaysKnown, StoresSettle
    <2> QED
      BY <2>1, <2>2
  <1>7. RegisteredSettled'
    <2> SUFFICES ASSUME NEW u \in Uuid, boot'[u] # NoConfig
                 PROVE  \E d \in Device : IsHome(u, d)' /\ FormattedForGood(d)'
      BY DEF RegisteredSettled
    <2>1. ASSUME NEW d \in Device, FormattedForGood(d) PROVE FormattedForGood(d)'
      <3>1. InUse(d) => InUse(d)'
        BY SentinelsDiffer DEF InUse, StoresSettle
      <3>2. \A q \in Invocation : Formatting(q, d)' => Formatting(q, d)
        BY <1>1, <2>1 DEF Formatting, LooksFirst, FormattedForGood
      <3> QED
        BY <2>1, <3>1, <3>2 DEF FormattedForGood, StoresSettle
    <2>2. CASE boot[u] # NoConfig
      BY <2>1, <2>2 DEF AnyOrderInv, RegisteredSettled, IsHome
    <2>3. CASE mapper[u] # NoDevice
      <3>1. PICK d \in Device : mapper[u] = d
        BY <2>3 DEF AnyOrderInv, TypeInv, TypeOK
      <3>2. IsHome(u, d) /\ header[d] # NoUuid /\ InUse(d)
        BY <3>1 DEF AnyOrderInv, MappingsAtHome, InUse
      <3> QED
        BY <2>1, <3>2 DEF FormattedForGood, IsHome
    <2> QED
      BY <2>2, <2>3
  <1> QED
    BY <1>4, <1>5, <1>6, <1>7 DEF AnyOrderInv

LEMMA AnyQuiet ==
  ASSUME AnyOrderInv, TypeInv', NEW p \in Invocation, Active(p), OnlyRun(p),
         UNCHANGED <<vault, header, slots, mapper, boot, cmd>>,
         pc'[p] \in BeforeStore /\ Provisions(p) => pc[p] \in BeforeStore,
         TakesKey(p), LooksFirst(p), KnownAnyOrder(p)'
  PROVE  AnyOrderInv'
  <1>1. PlainHasNoSlots' /\ HeadersAtHome' /\ MappingsAtHome'
    BY DEF AnyOrderInv, PlainHasNoSlots, HeadersAtHome, MappingsAtHome, IsHome
  <1>2. StoresSettle
    BY DEF StoresSettle
  <1>3. \A q \in Invocation : Unused(q) => Unused(q)'
    BY DEF Unused
  <1> QED
    BY <1>1, <1>2, <1>3, AnyOneRun

LEMMA AnyLeave ==
  ASSUME AnyOrderInv, TypeInv', NEW p \in Invocation, Active(p), OnlyRun(p),
         UNCHANGED <<vault, header, slots, mapper, boot, cmd>>,
         NEW label \in {"ok", "failed"}, Leave(p, label)
  PROVE  AnyOrderInv'
  <1>1. pc'[p] = label /\ key'[p] = NoKey
    BY DEF Leave, Goto, AnyOrderInv, TypeInv, TypeOK
  <1>2. KnownAnyOrder(p)' /\ pc'[p] \notin BeforeStore /\ LooksFirst(p)
    BY <1>1 DEF KnownAnyOrder, Busy, Active, BeforeStore, LooksFirst, Formatting
  <1> QED
    BY <1>1, <1>2, AnyQuiet DEF TakesKey

LEMMA AnyDecide ==
  ASSUME AnyOrderInv, TypeInv', NEW p \in Invocation, Active(p), OnlyRun(p),
         NEW label, Decide(p, label), cmd' = cmd, label # "login",
         label \in BeforeStore /\ Provisions(p) => pc[p] \in BeforeStore,
         label \in {"ensure", "write", "confirm", "format"} =>
           pc[p] \in {"ensure", "write", "confirm", "format"},
         label \notin {"ok", "failed"} /\ pc'[p] = label
           /\ UNCHANGED <<header, slots, mapper, cmd, luks, key>>
           => KnownAnyOrder(p)'
  PROVE  AnyOrderInv'
  <1>1. UNCHANGED <<vault, header, slots, mapper, boot>>
    BY DEF Decide, stores
  <1>2. CASE label \in {"ok", "failed"}
    BY <1>1, <1>2, AnyLeave DEF Decide
  <1>3. CASE label \notin {"ok", "failed"}
    <2>1. pc'[p] = label /\ UNCHANGED <<luks, key>>
      BY <1>3 DEF Decide, Goto, locals, AnyOrderInv, TypeInv, TypeOK
    <2>2. LooksFirst(p)
      BY <2>1 DEF LooksFirst, Formatting
    <2> QED
      BY <1>1, <1>3, <2>1, <2>2, AnyQuiet DEF TakesKey
  <1> QED
    BY <1>2, <1>3

-----------------------------------------------------------------------------
(* The calls that change no store. *)

LEMMA AnyRun ==
  ASSUME AnyOrderInv, NEW p \in Invocation, Active(p)
  PROVE  /\ Provisions(p) => AlwaysKnown(p) /\ KnownAnyOrder(p)
         /\ pc[p] \in BeforeStore => Unused(p)
  BY DEF AnyOrderInv, Busy, RunsAlwaysKnow, RunsAtHome, KeysOwn, KnownAnyOrder

LEMMA AnyQuietCalls ==
  ASSUME AnyOrderInv, NEW p \in Invocation, QuietCall(p)
  PROVE  AnyOrderInv'
  <1> USE DEF stores, locals
  <1>a. TypeInv' /\ OnlyRun(p) /\ Active(p) /\ cmd' = cmd
    BY StepType DEF QuietCall, Step, AnyOrderInv
  <1>b. /\ cmd[p] \in CommandLines /\ cmd[p].config \in Config
        /\ Provisions(p) => /\ cmd[p].device \in Device /\ cmd[p].op # "decrypt"
                            /\ cmd[p].op \in {"encrypt", "enroll"}
                            /\ cmd[p].uuid \in NamedUuid \cup {NoUuid}
        /\ ~ Provisions(p) => /\ cmd[p].op = "decrypt"
                              /\ pc[p] \in {"login", "present", "read", "open"}
        /\ pc[p] \notin {"login", "probe"} => luks[p] \in Uuid
    BY <1>a, RunFacts DEF AnyOrderInv, Provisions
  <1>c. Provisions(p) => AlwaysKnown(p) /\ KnownAnyOrder(p)
    BY <1>a, AnyRun
  <1>d. Busy(p)' => Provisions(p) /\ Busy(p)
    BY <1>a DEF Busy, Provisions
  <1>e. /\ pc \in [Invocation -> Labels] /\ luks \in [Invocation -> Uuid \cup {NoUuid}]
        /\ key \in [Invocation -> Key \cup {NoKey}]
        /\ header \in [Device -> Uuid \cup {NoUuid}]
    BY DEF AnyOrderInv, TypeInv, TypeOK
  <1>1. CASE Login(p)
    <2>1. /\ pc'[p] = IF cmd[p].op = "decrypt" THEN "present" ELSE "probe"
          /\ luks'[p] = IF cmd[p].op = "decrypt" THEN cmd[p].uuid ELSE NoUuid
          /\ UNCHANGED <<vault, header, slots, mapper, boot, key>>
          /\ pc[p] = "login"
      BY <1>1, <1>e DEF Login, Goto
    <2>2. KnownAnyOrder(p)'
      BY <1>a, <1>b, <1>d, <2>1 DEF KnownAnyOrder, AlwaysKnown
    <2> QED
      BY <1>a, <2>1, <2>2, AnyQuiet DEF BeforeStore, TakesKey, LooksFirst, Formatting
  <1>2. CASE VaultDown(p)
    <2>1. /\ pc'[p] = "login" /\ luks'[p] = NoUuid /\ pc[p] \in BeforeStore
          /\ key'[p] = NoKey /\ UNCHANGED <<vault, header, slots, mapper, boot>>
      BY <1>2, <1>e DEF VaultDown, Goto, BeforeStore
    <2>2. KnownAnyOrder(p)'
      BY <2>1 DEF KnownAnyOrder, AlwaysKnown
    <2> QED
      BY <1>a, <2>1, <2>2, AnyQuiet DEF TakesKey, LooksFirst, Formatting
  <1>3. CASE ProbeDevice(p)
    <2> DEFINE d     == cmd[p].device
               found == header[d]
    <2>1. CASE Leave(p, "failed")
      BY <1>3, <1>a, <2>1, AnyLeave DEF ProbeDevice, LuksUuid
    <2>2. CASE ~ Leave(p, "failed")
      <3>1. /\ Provisions(p) /\ pc[p] = "probe" /\ d \in Device
            /\ UNCHANGED <<vault, header, slots, mapper, boot>>
            /\ pc'[p] \in {"ensure", "read"}
            /\ pc'[p] = "ensure" => /\ luks'[p] = NewUuid(p) /\ key'[p] = p
                                    /\ found = NoUuid /\ cmd[p].op = "encrypt"
            /\ pc'[p] = "read" => /\ luks'[p] = found /\ found # NoUuid
                                  /\ key'[p] = NoKey
        BY <1>3, <1>b, <1>e, <2>2 DEF ProbeDevice, Goto, LuksUuid
      <3>2. CASE pc'[p] = "ensure"
        <4>1. IsHome(NewUuid(p), d)
          BY <1>b, <3>1, <3>2, LineType, NamesDiffer, OwnNames
             DEF NewUuid, IsHome, HomeOf
        <4>2. KnownAnyOrder(p)'
          BY <1>a, <3>1, <3>2, <4>1 DEF KnownAnyOrder, AlwaysKnown, IsHome
        <4>3. LooksFirst(p)
          BY <1>a, <3>1, <3>2 DEF LooksFirst, Formatting
        <4> QED
          BY <1>a, <3>1, <3>2, <4>2, <4>3, AnyQuiet DEF BeforeStore, TakesKey
      <3>3. CASE pc'[p] = "read"
        <4>1. IsHome(found, d)
          BY <1>b, <3>1, <3>3 DEF AnyOrderInv, HeadersAtHome
        <4>2. KnownAnyOrder(p)'
          BY <1>a, <3>1, <3>3, <4>1 DEF KnownAnyOrder, AlwaysKnown, IsHome
        <4>3. LooksFirst(p)
          BY <3>3 DEF LooksFirst, Formatting
        <4> QED
          BY <1>a, <3>1, <3>3, <4>2, <4>3, AnyQuiet DEF BeforeStore, TakesKey
      <3> QED
        BY <3>1, <3>2, <3>3
    <2> QED
      BY <2>1, <2>2
  <1>4. CASE ReadVaultKey(p)
    <2>1. CASE Leave(p, "failed")
      BY <1>4, <1>a, <2>1, AnyLeave DEF ReadVaultKey
    <2>2. CASE ~ Leave(p, "failed")
      <3>1. /\ pc[p] = "read"
            /\ UNCHANGED <<vault, header, slots, mapper, boot, luks>>
            /\ pc'[p] \in {"credential", "open", "test"}
            /\ pc'[p] = "credential" => cmd[p].op = "enroll"
            /\ key'[p] \in {NoKey, SecretAt(p)}
        BY <1>4, <1>b, <1>e, <2>2 DEF ReadVaultKey, Goto
      <3>2. KnownAnyOrder(p)'
        BY <1>a, <1>b, <1>c, <1>d, <3>1 DEF KnownAnyOrder, AlwaysKnown, IsHome
      <3>3. TakesKey(p) /\ LooksFirst(p)
        BY <1>b, <3>1, RunFacts, <1>a
           DEF TakesKey, SecretAt, LooksFirst, Formatting, AnyOrderInv
      <3> QED
        BY <1>a, <3>1, <3>2, <3>3, AnyQuiet DEF BeforeStore
    <2> QED
      BY <2>1, <2>2
  <1>5. CASE TestManagedKey(p)
    <2> DEFINE label == IF key[p] \in slots[cmd[p].device] THEN "present"
                        ELSE IF cmd[p].op = "enroll" THEN "credential" ELSE "failed"
    <2>1. /\ Decide(p, label) /\ pc[p] = "test"
          /\ label \in {"present", "credential", "failed"}
          /\ label = "credential" => cmd[p].op = "enroll"
      BY <1>5 DEF TestManagedKey, LuksTestKey
    <2> HIDE DEF label
    <2>2. ASSUME label # "failed", pc'[p] = label,
                 UNCHANGED <<header, slots, mapper, cmd, luks, key>>
          PROVE  KnownAnyOrder(p)'
      BY <1>c, <1>d, <2>1, <2>2 DEF KnownAnyOrder, AlwaysKnown, IsHome
    <2> QED
      BY <1>a, <2>1, <2>2, AnyDecide DEF BeforeStore
  <1>6. CASE ReadExistingKey(p)
    <2>1. CASE Leave(p, "failed")
      BY <1>6, <1>a, <2>1, AnyLeave DEF ReadExistingKey, LuksTestKey
    <2>2. CASE ~ Leave(p, "failed")
      <3>1. /\ pc[p] = "credential" /\ Provisions(p) /\ cmd[p].op = "enroll"
            /\ UNCHANGED <<vault, header, slots, mapper, boot, luks>>
            /\ pc'[p] \in {"write", "addkey"}
            /\ key'[p] \in {p, key[p]}
        BY <1>6, <1>b, <1>c, <1>e, <2>2 DEF ReadExistingKey, Goto, LuksTestKey, AlwaysKnown
      <3>2. KnownAnyOrder(p)'
        BY <1>a, <1>c, <1>d, <3>1 DEF KnownAnyOrder, AlwaysKnown, IsHome
      <3>3. TakesKey(p) /\ LooksFirst(p)
        BY <1>a, <3>1 DEF TakesKey, LooksFirst, Formatting
      <3> QED
        BY <1>a, <3>1, <3>2, <3>3, AnyQuiet DEF BeforeStore
    <2> QED
      BY <2>1, <2>2
  <1>7. CASE EnsureVaultKey(p)
    <2> DEFINE label == IF SecretAt(p) = Absent THEN "write"
                        ELSE IF SecretAt(p) = key[p] THEN "format" ELSE "failed"
    <2>1. Decide(p, label) /\ pc[p] = "ensure" /\ label \in {"write", "format", "failed"}
      BY <1>7 DEF EnsureVaultKey
    <2> HIDE DEF label
    <2>2. ASSUME label # "failed", pc'[p] = label,
                 UNCHANGED <<header, slots, mapper, cmd, luks, key>>
          PROVE  KnownAnyOrder(p)'
      BY <1>c, <1>d, <2>1, <2>2 DEF KnownAnyOrder, AlwaysKnown, IsHome
    <2> QED
      BY <1>a, <2>1, <2>2, AnyDecide DEF BeforeStore
  <1>8. CASE ConfirmKey(p)
    <2> DEFINE label == IF SecretAt(p) # key[p] THEN "failed"
                        ELSE IF cmd[p].op = "encrypt" THEN "format" ELSE "addkey"
    <2>1. /\ Decide(p, label) /\ pc[p] = "confirm"
          /\ label \in {"format", "addkey", "failed"}
          /\ label = "format" => cmd[p].op = "encrypt"
          /\ label = "addkey" => cmd[p].op # "encrypt"
      BY <1>8 DEF ConfirmKey
    <2> HIDE DEF label
    <2>2. ASSUME label # "failed", pc'[p] = label,
                 UNCHANGED <<header, slots, mapper, cmd, luks, key>>
          PROVE  KnownAnyOrder(p)'
      BY <1>b, <1>c, <1>d, <2>1, <2>2 DEF KnownAnyOrder, AlwaysKnown, IsHome
    <2> QED
      BY <1>a, <2>1, <2>2, AnyDecide DEF BeforeStore
  <1>9. CASE VerifyUuid(p)
    <2> DEFINE label == IF header[cmd[p].device] = luks[p] THEN "verifykey" ELSE "failed"
    <2>1. Decide(p, label) /\ label \in {"verifykey", "failed"} /\ pc[p] = "verify"
      BY <1>9 DEF VerifyUuid, LuksUuid
    <2> HIDE DEF label
    <2>2. ASSUME label # "failed", pc'[p] = label,
                 UNCHANGED <<header, slots, mapper, cmd, luks, key>>
          PROVE  KnownAnyOrder(p)'
      BY <1>c, <1>d, <2>1, <2>2 DEF KnownAnyOrder, AlwaysKnown, IsHome
    <2> QED
      BY <1>a, <2>1, <2>2, AnyDecide DEF BeforeStore
  <1>10. CASE VerifyKey(p)
    <2> DEFINE label == IF key[p] \in slots[cmd[p].device] THEN "present" ELSE "failed"
    <2>1. Decide(p, label) /\ label \in {"present", "failed"} /\ pc[p] = "verifykey"
      BY <1>10 DEF VerifyKey, LuksTestKey
    <2> HIDE DEF label
    <2>2. ASSUME label # "failed", pc'[p] = label,
                 UNCHANGED <<header, slots, mapper, cmd, luks, key>>
          PROVE  KnownAnyOrder(p)'
      BY <1>c, <1>d, <2>1, <2>2 DEF KnownAnyOrder, AlwaysKnown, IsHome
    <2> QED
      BY <1>a, <2>1, <2>2, AnyDecide DEF BeforeStore
  <1>11. CASE DeviceExists(p)
    <2> DEFINE exists == mapper[luks[p]] # NoDevice
               label  == IF cmd[p].op = "decrypt" THEN IF exists THEN "ok" ELSE "read"
                         ELSE IF exists THEN "register" ELSE "open"
    <2>1. /\ Decide(p, label) /\ label \in {"ok", "read", "register", "open"}
          /\ label = "register" => mapper[luks[p]] # NoDevice
          /\ label = "read" => ~ Provisions(p)
          /\ pc[p] = "present"
      BY <1>11, <1>b DEF DeviceExists
    <2> HIDE DEF label
    <2>2. ASSUME label \notin {"ok", "failed"}, pc'[p] = label,
                 UNCHANGED <<header, slots, mapper, cmd, luks, key>>
          PROVE  KnownAnyOrder(p)'
      BY <1>c, <1>d, <2>1, <2>2 DEF KnownAnyOrder, AlwaysKnown, IsHome
    <2> QED
      BY <1>a, <2>1, <2>2, AnyDecide DEF BeforeStore
  <1>12. CASE Abort(p)
    BY <1>12, <1>a, AnyLeave DEF Abort
  <1> QED
    BY <1>1, <1>2, <1>3, <1>4, <1>5, <1>6, <1>7, <1>8, <1>9, <1>10, <1>11, <1>12
       DEF QuietCall

-----------------------------------------------------------------------------
(* The calls that change a store. *)

LEMMA AnyWriteKey ==
  ASSUME AnyOrderInv, NEW p \in Invocation, WriteKey(p)
  PROVE  AnyOrderInv'
  <1> DEFINE c == cmd[p].config
  <1>a. TypeInv' /\ OnlyRun(p) /\ Active(p) /\ cmd' = cmd
    BY StepType DEF Step, AnyOrderInv
  <1>b. /\ Busy(p) /\ c \in Config /\ pc[p] = "write" /\ Provisions(p)
        /\ luks[p] \in Uuid /\ AlwaysKnown(p) /\ KnownAnyOrder(p)
    BY <1>a, RunFacts, AnyRun DEF AnyOrderInv, WriteKey, Busy
  <1>c. /\ \A c2 \in Config, u2 \in Uuid :
             vault'[c2][u2] = IF c2 = c /\ u2 = luks[p] THEN key[p] ELSE vault[c2][u2]
        /\ UNCHANGED <<header, slots, mapper, boot>>
    BY <1>b DEF WriteKey, AnyOrderInv, TypeInv, TypeOK
  <1>d. \/ pc'[p] = "failed" /\ key'[p] = NoKey
        \/ pc'[p] = "confirm" /\ luks' = luks /\ key' = key
    BY DEF WriteKey, Leave, Goto, locals, AnyOrderInv, TypeInv, TypeOK
  <1>1. StoresSettle /\ PlainHasNoSlots' /\ HeadersAtHome' /\ MappingsAtHome'
    BY <1>a, <1>c DEF AnyOrderInv, StoresSettle, PlainHasNoSlots, HeadersAtHome,
                      MappingsAtHome, IsHome
  <1>2. KnownAnyOrder(p)' /\ pc'[p] \notin BeforeStore
    BY <1>a, <1>b, <1>c, <1>d
       DEF KnownAnyOrder, AlwaysKnown, IsHome, Busy, Active, BeforeStore
  <1>3. TakesKey(p) /\ LooksFirst(p)
    BY <1>a, <1>b, <1>d DEF TakesKey, LooksFirst, Formatting
  <1>4. ASSUME NEW q \in Invocation, q # p, Unused(q), key[p] # q
        PROVE  Unused(q)'
    BY <1>c, <1>4 DEF Unused
  <1> QED
    BY <1>a, <1>b, <1>c, <1>1, <1>2, <1>3, <1>4, AnyOneRun

\* What a run that formats knows, and that its device is not in use.
LEMMA FormatsFree ==
  ASSUME AnyOrderInv, NEW p \in Invocation, LuksFormat(p)
  PROVE  /\ Busy(p) /\ cmd[p].device \in Device /\ luks[p] \in Uuid
         /\ Formatting(p, cmd[p].device) /\ IsHome(luks[p], cmd[p].device)
         /\ ~ UNCHANGED <<header, slots>> => ~ InUse(cmd[p].device)
  <1>1. Active(p) /\ Provisions(p) /\ pc[p] = "format"
    BY RunFacts DEF AnyOrderInv, LuksFormat, Active, LuksFormats
  <1>2. ~ UNCHANGED <<header, slots>> => ~ InUse(cmd[p].device)
    BY DEF LuksFormat, LuksFormats
  <1> QED
    BY <1>1, <1>2, RunFacts, AnyRun, SentinelsDiffer
       DEF AnyOrderInv, AlwaysKnown, KnownAnyOrder, Busy, Formatting

LEMMA AnyLuksFormat ==
  ASSUME AnyOrderInv, NEW p \in Invocation, LuksFormat(p)
  PROVE  AnyOrderInv'
  <1> DEFINE d == cmd[p].device
             u == luks[p]
  <1>a. TypeInv' /\ OnlyRun(p) /\ Active(p) /\ cmd' = cmd
    BY StepType DEF Step, AnyOrderInv
  <1>b. /\ Busy(p) /\ d \in Device /\ u \in Uuid /\ u # NoUuid /\ IsHome(u, d)
        /\ Provisions(p) /\ KnownAnyOrder(p) /\ AlwaysKnown(p)
    BY <1>a, AnyRun, FormatsFree, SentinelsDiffer DEF Busy
  <1>c. /\ UNCHANGED <<vault, mapper, boot, luks, key>>
        /\ pc'[p] \in {"present", "verify"}
        /\ \/ UNCHANGED <<header, slots>>
           \/ /\ \A v \in Uuid : mapper[v] # d
              /\ header' = [header EXCEPT ![d] = u]
              /\ \/ slots' = [slots EXCEPT ![d] = {key[p]}]
                 \/ slots' = [slots EXCEPT ![d] = {}]
    BY <1>b DEF LuksFormat, Goto, locals, AnyOrderInv, TypeInv, TypeOK, LuksFormats, InUse
  <1>1. pc'[p] \notin BeforeStore /\ TakesKey(p) /\ LooksFirst(p)
    BY <1>c DEF BeforeStore, TakesKey, LooksFirst, Formatting
  <1>2. KnownAnyOrder(p)'
    BY <1>a, <1>b, <1>c DEF KnownAnyOrder, AlwaysKnown, IsHome
  <1>3. CASE UNCHANGED <<header, slots>>
    BY <1>a, <1>c, <1>1, <1>2, <1>3, AnyQuiet
  <1>4. ASSUME \A v \in Uuid : mapper[v] # d,
               header' = [header EXCEPT ![d] = u],
               \/ slots' = [slots EXCEPT ![d] = {key[p]}]
               \/ slots' = [slots EXCEPT ![d] = {}]
        PROVE  AnyOrderInv'
    <2>1. /\ header'[d] = u /\ slots'[d] \subseteq {key[p]}
          /\ \A e \in Device : e # d => header'[e] = header[e] /\ slots'[e] = slots[e]
      BY <1>b, <1>4 DEF AnyOrderInv, TypeInv, TypeOK
    <2>2. StoresSettle
      BY <1>b, <1>c, <2>1 DEF StoresSettle
    <2>3. PlainHasNoSlots' /\ HeadersAtHome' /\ MappingsAtHome'
      BY <1>a, <1>b, <1>c, <1>4, <2>1
         DEF AnyOrderInv, PlainHasNoSlots, HeadersAtHome, MappingsAtHome, IsHome
    <2>4. ASSUME NEW q \in Invocation, q # p, Unused(q), key[p] # q PROVE Unused(q)'
      BY <1>c, <2>1, <2>4 DEF Unused
    <2> QED
      BY <1>a, <1>b, <1>c, <1>1, <1>2, <2>2, <2>3, <2>4, AnyOneRun
  <1> QED
    BY <1>c, <1>3, <1>4

LEMMA AnyLuksAddKey ==
  ASSUME AnyOrderInv, NEW p \in Invocation, LuksAddKey(p)
  PROVE  AnyOrderInv'
  <1> DEFINE d == cmd[p].device
  <1>a. TypeInv' /\ OnlyRun(p) /\ Active(p) /\ cmd' = cmd
    BY StepType DEF Step, AnyOrderInv
  <1>b. /\ Busy(p) /\ Provisions(p) /\ d \in Device
        /\ AlwaysKnown(p) /\ KnownAnyOrder(p)
    BY <1>a, RunFacts, AnyRun DEF AnyOrderInv, LuksAddKey, Busy
  <1>c. /\ UNCHANGED <<vault, header, mapper, boot, luks, key>> /\ pc'[p] = "verifykey"
        /\ \/ slots' = slots
           \/ /\ cmd[p].existing \in slots[d]
              /\ slots' = [slots EXCEPT ![d] = @ \cup {key[p]}]
    BY DEF LuksAddKey, LuksAddsKey, Goto, locals, AnyOrderInv, TypeInv, TypeOK
  <1>1. pc'[p] \notin BeforeStore /\ TakesKey(p) /\ LooksFirst(p)
    BY <1>c DEF BeforeStore, TakesKey, LooksFirst, Formatting
  <1>2. KnownAnyOrder(p)'
    BY <1>a, <1>b, <1>c DEF KnownAnyOrder, AlwaysKnown, IsHome, Busy
  <1>3. CASE slots' = slots
    BY <1>a, <1>c, <1>1, <1>2, <1>3, AnyQuiet
  <1>4. ASSUME cmd[p].existing \in slots[d],
               slots' = [slots EXCEPT ![d] = @ \cup {key[p]}]
        PROVE  AnyOrderInv'
    <2>1. \A e \in Device : slots'[e] = IF e = d THEN slots[d] \cup {key[p]} ELSE slots[e]
      BY <1>b, <1>4 DEF AnyOrderInv, TypeInv, TypeOK
    <2>2. StoresSettle
      BY <1>c DEF StoresSettle
    <2>3. PlainHasNoSlots' /\ HeadersAtHome' /\ MappingsAtHome'
      BY <1>a, <1>b, <1>c, <1>4, <2>1
         DEF AnyOrderInv, PlainHasNoSlots, HeadersAtHome, MappingsAtHome, IsHome
    <2>4. ASSUME NEW q \in Invocation, q # p, Unused(q), key[p] # q PROVE Unused(q)'
      BY <1>c, <2>1, <2>4 DEF Unused
    <2> QED
      BY <1>a, <1>b, <1>c, <1>1, <1>2, <2>2, <2>3, <2>4, AnyOneRun
  <1> QED
    BY <1>c, <1>3, <1>4

LEMMA AnyLuksOpen ==
  ASSUME AnyOrderInv, NEW p \in Invocation, LuksOpen(p)
  PROVE  AnyOrderInv'
  <1> DEFINE u == luks[p]
  <1>a. TypeInv' /\ OnlyRun(p) /\ Active(p) /\ cmd' = cmd
    BY StepType DEF Step, AnyOrderInv
  <1>b. /\ u \in Uuid /\ u # NoUuid /\ pc[p] = "open"
        /\ Provisions(p) => /\ Busy(p) /\ cmd[p].device \in Device
                            /\ cmd[p].op # "decrypt"
                            /\ AlwaysKnown(p) /\ KnownAnyOrder(p)
        /\ ~ Provisions(p) => cmd[p].op = "decrypt"
    BY <1>a, RunFacts, AnyRun, SentinelsDiffer DEF AnyOrderInv, LuksOpen, Busy
  <1>c. /\ UNCHANGED <<vault, header, slots, boot>>
        /\ \/ mapper' = mapper /\ Leave(p, "failed")
           \/ /\ \E d \in OpenSources(p) :
                   /\ key[p] \in slots[d] /\ mapper[u] = NoDevice
                   /\ mapper' = [mapper EXCEPT ![u] = d]
              /\ \/ pc'[p] \in {"ok", "failed"} /\ key'[p] = NoKey
                 \/ pc'[p] = "register" /\ Provisions(p) /\ UNCHANGED <<luks, key>>
    BY <1>b DEF LuksOpen, Leave, Goto, locals, stores, AnyOrderInv, TypeInv, TypeOK
  <1>1. CASE mapper' = mapper /\ Leave(p, "failed")
    BY <1>a, <1>c, <1>1, AnyLeave
  <1>2. ASSUME NEW d \in OpenSources(p),
               key[p] \in slots[d], mapper[u] = NoDevice,
               mapper' = [mapper EXCEPT ![u] = d],
               \/ pc'[p] \in {"ok", "failed"} /\ key'[p] = NoKey
               \/ pc'[p] = "register" /\ Provisions(p) /\ UNCHANGED <<luks, key>>
        PROVE  AnyOrderInv'
    \* decrypt opens a device that has the header now, the others their own.
    <2>1. d \in Device /\ IsHome(u, d)
      BY <1>b, <1>2 DEF OpenSources, AnyOrderInv, HeadersAtHome, KnownAnyOrder
    <2>2. header[d] # NoUuid
      BY <1>2, <2>1 DEF AnyOrderInv, PlainHasNoSlots
    <2>3. /\ \A v \in Uuid : mapper'[v] = IF v = u THEN d ELSE mapper[v]
          /\ d # NoDevice
      BY <1>b, <1>2, <2>1, SentinelsDiffer DEF AnyOrderInv, TypeInv, TypeOK
    <2>4. StoresSettle
      BY <1>c, <1>2, <2>3 DEF StoresSettle
    <2>5. PlainHasNoSlots' /\ HeadersAtHome'
      BY <1>a, <1>c DEF AnyOrderInv, PlainHasNoSlots, HeadersAtHome, IsHome
    <2>6. MappingsAtHome'
      BY <1>a, <1>c, <2>1, <2>2, <2>3 DEF AnyOrderInv, MappingsAtHome, IsHome
    <2>7. KnownAnyOrder(p)'
      BY <1>a, <1>b, <1>2, <2>3 DEF KnownAnyOrder, AlwaysKnown, IsHome, Busy, Active
    <2>8. pc'[p] \notin BeforeStore /\ TakesKey(p) /\ LooksFirst(p)
      BY <1>2 DEF BeforeStore, TakesKey, LooksFirst, Formatting
    <2>9. \A q \in Invocation : Unused(q) => Unused(q)'
      BY <1>c DEF Unused
    <2> QED
      BY <1>a, <1>c, <2>4, <2>5, <2>6, <2>7, <2>8, <2>9, AnyOneRun
  <1> QED
    BY <1>c, <1>1, <1>2

LEMMA AnyRegister ==
  ASSUME AnyOrderInv, NEW p \in Invocation, RegisterBootUnlock(p)
  PROVE  AnyOrderInv'
  <1>a. TypeInv' /\ OnlyRun(p) /\ Active(p) /\ cmd' = cmd
    BY StepType DEF Step, AnyOrderInv
  <1>1. /\ UNCHANGED <<vault, header, slots, mapper>>
        /\ pc'[p] \in {"ok", "failed"} /\ key'[p] = NoKey
        /\ \A u \in Uuid : u # luks[p] => boot'[u] = boot[u]
    BY DEF RegisterBootUnlock, Leave, Goto, AnyOrderInv, TypeInv, TypeOK
  <1>2. StoresSettle /\ PlainHasNoSlots' /\ HeadersAtHome' /\ MappingsAtHome'
    BY <1>a, <1>1 DEF AnyOrderInv, StoresSettle, PlainHasNoSlots, HeadersAtHome,
                      MappingsAtHome, IsHome
  <1>3. KnownAnyOrder(p)' /\ pc'[p] \notin BeforeStore /\ TakesKey(p) /\ LooksFirst(p)
    BY <1>1 DEF KnownAnyOrder, Busy, Active, BeforeStore, TakesKey, LooksFirst, Formatting
  <1>4. mapper[luks[p]] # NoDevice
    BY <1>a, RunFacts, AnyRun DEF AnyOrderInv, RegisterBootUnlock, AlwaysKnown
  <1>5. \A q \in Invocation : Unused(q) => Unused(q)'
    BY <1>1 DEF Unused
  <1> QED
    BY <1>a, <1>1, <1>2, <1>3, <1>4, <1>5, AnyOneRun

-----------------------------------------------------------------------------
(* The invariant. *)

LEMMA AnyStart ==
  ASSUME AnyOrderInv, NEW p \in Invocation, NEW line \in CommandLines, Start(p, line)
  PROVE  AnyOrderInv'
  <1>1. TypeInv'
    BY StartType DEF AnyOrderInv
  <1>2. /\ pc[p] = "idle" /\ cmd[p] = NoCommand /\ pc'[p] = "login" /\ cmd'[p] = line
        /\ \A q \in Invocation : q # p => pc'[q] = pc[q] /\ cmd'[q] = cmd[q]
        /\ UNCHANGED <<vault, header, slots, mapper, boot, luks, key>>
        /\ luks[p] = NoUuid
    BY DEF Start, Goto, stores, locals, AnyOrderInv, TypeInv, TypeOK, CommandsKnown
  <1>3. \A u \in Uuid, d \in Device : IsHome(u, d) => IsHome(u, d)'
    BY <1>2 DEF IsHome
  <1>4. PlainHasNoSlots' /\ MappingsAtHome'
    BY <1>2, <1>3 DEF AnyOrderInv, PlainHasNoSlots, MappingsAtHome
  <1>5. HeadersAtHome'
    <2>1. \A d \in Device : header[d] # NoUuid => header[d] \in Uuid /\ IsHome(header[d], d)
      BY DEF AnyOrderInv, HeadersAtHome, TypeInv, TypeOK
    <2> QED
      BY <1>2, <1>3, <2>1 DEF HeadersAtHome
  <1>6. KeysOwn'
    BY <1>2 DEF AnyOrderInv, KeysOwn, Unused, BeforeStore, Active, Provisions
  <1>7. RunsAtHome'
    BY <1>2 DEF AnyOrderInv, RunsAtHome, IsHome, Busy, Active, Provisions
  <1>8. RunsAlwaysKnow'
    <2> SUFFICES ASSUME NEW q \in Invocation, Busy(q)'
                 PROVE  AlwaysKnown(q)'
      BY DEF RunsAlwaysKnow
    <2>1. CASE q = p
      BY <1>2, <2>1 DEF AlwaysKnown
    <2>2. CASE q # p
      BY <1>2, <2>2 DEF AnyOrderInv, RunsAlwaysKnow, AlwaysKnown, Busy, Active, Provisions
    <2> QED
      BY <2>1, <2>2
  <1>9. RegisteredSettled'
    <2>1. \A d \in Device : FormattedForGood(d) => FormattedForGood(d)'
      BY <1>2 DEF FormattedForGood, InUse, Formatting
    <2> QED
      BY <1>2, <1>3, <2>1 DEF AnyOrderInv, RegisteredSettled
  <1> QED
    BY <1>1, <1>4, <1>5, <1>6, <1>7, <1>8, <1>9 DEF AnyOrderInv

\* A restart ends the mappings that keep devices from being formatted, and with them
\* every run that might do it.
LEMMA AnyReboot == ASSUME AnyOrderInv, Reboot PROVE AnyOrderInv'
  <1>1. TypeInv'
    BY RebootType DEF AnyOrderInv
  <1>2. /\ UNCHANGED <<vault, header, slots, boot, cmd>>
        /\ \A u \in Uuid : mapper'[u] = NoDevice
        /\ \A p \in Invocation :
             /\ ~ Active(p)' /\ key'[p] = NoKey
             /\ pc'[p] \in BeforeStore => pc[p] \in BeforeStore
    BY DEF Reboot, stores, Active, BeforeStore, AnyOrderInv, TypeInv, TypeOK
  <1>3. PlainHasNoSlots' /\ HeadersAtHome'
    BY <1>2 DEF AnyOrderInv, PlainHasNoSlots, HeadersAtHome, IsHome
  <1>4. MappingsAtHome'
    BY <1>2, SentinelsDiffer DEF MappingsAtHome
  <1>5. KeysOwn'
    BY <1>2, OwnNames DEF AnyOrderInv, KeysOwn, Unused
  <1>6. RunsAtHome' /\ RunsAlwaysKnow'
    BY <1>2 DEF RunsAtHome, RunsAlwaysKnow, Busy
  <1>7. RegisteredSettled'
    <2>1. \A d \in Device : FormattedForGood(d) => FormattedForGood(d)'
      BY <1>2 DEF FormattedForGood, Formatting, Active
    <2> QED
      BY <1>2, <2>1 DEF AnyOrderInv, RegisteredSettled, IsHome
  <1> QED
    BY <1>1, <1>3, <1>4, <1>5, <1>6, <1>7 DEF AnyOrderInv

LEMMA AnyInit == Init => AnyOrderInv
  <1> SUFFICES ASSUME Init PROVE AnyOrderInv
    OBVIOUS
  <1>1. TypeInv
    BY InitType DEF Init, TypeInv, CommandsKnown, DecryptOnlyOpens, KeysMade, Active
  <1>2. PICK o \in Origins : vault = o.vault /\ header = o.header /\ slots = o.slots
    BY DEF Init
  <1>3. /\ \A d \in Device : /\ header[d] = NoUuid => slots[d] = {}
                             /\ header[d] \in NamedUuid \cup {NoUuid}
                             /\ slots[d] \subseteq ExternalKey
        /\ \A c \in Config, u \in Uuid :
             vault[c][u] \in ExternalKey \cup {Absent, Malformed}
    BY <1>2, OriginsWellFormed DEF Origin
  <1>4. /\ \A p \in Invocation : pc[p] = "idle" /\ key[p] = NoKey /\ luks[p] = NoUuid
        /\ \A u \in Uuid : mapper[u] = NoDevice /\ boot[u] = NoConfig
    BY DEF Init
  <1>5. \A p \in Invocation : Unused(p)
    BY <1>3, OwnNames, NamesDiffer DEF Unused
  <1>6. PlainHasNoSlots /\ HeadersAtHome /\ MappingsAtHome
    BY <1>2, <1>3, <1>4, NamesDiffer, SentinelsDiffer
       DEF PlainHasNoSlots, HeadersAtHome, MappingsAtHome, IsHome, HomeOf
  <1>7. KeysOwn
    BY <1>4, <1>5, OwnNames DEF KeysOwn
  <1>8. RunsAtHome /\ RunsAlwaysKnow /\ RegisteredSettled
    BY <1>4 DEF RunsAtHome, RunsAlwaysKnow, RegisteredSettled, Busy, Active
  <1> QED
    BY <1>1, <1>6, <1>7, <1>8 DEF AnyOrderInv

LEMMA AnyNext == ASSUME AnyOrderInv, [Next]_vars PROVE AnyOrderInv'
  <1>1. CASE \E p \in Invocation : Step(p) \/ Abort(p)
    BY <1>1, AnyQuietCalls, AnyWriteKey, AnyLuksFormat, AnyLuksAddKey, AnyLuksOpen,
       AnyRegister DEF Step, QuietCall
  <1>2. CASE \E p \in Invocation, line \in CommandLines : Start(p, line)
    BY <1>2, AnyStart
  <1>3. CASE Reboot
    BY <1>3, AnyReboot
  <1>4. CASE UNCHANGED vars
    <2>1. TypeInv'
      BY <1>4, NextType DEF AnyOrderInv
    <2>2. PlainHasNoSlots' /\ HeadersAtHome' /\ MappingsAtHome' /\ KeysOwn'
      BY <1>4 DEF vars, AnyOrderInv, PlainHasNoSlots, HeadersAtHome, MappingsAtHome,
                  KeysOwn, Unused, IsHome, Active, Provisions
    <2>3. RunsAtHome' /\ RunsAlwaysKnow' /\ RegisteredSettled'
      BY <1>4 DEF vars, AnyOrderInv, RunsAtHome, RunsAlwaysKnow, AlwaysKnown,
                  RegisteredSettled, FormattedForGood, Formatting, InUse, IsHome, Busy,
                  Active, Provisions
    <2> QED
      BY <2>1, <2>2, <2>3 DEF AnyOrderInv
  <1> QED
    BY <1>1, <1>2, <1>3, <1>4 DEF Next

\* Whatever commands run, with whatever UUIDs and answers and however they overlap,
\* fail and are killed, stores and runs keep AnyOrderInv.
THEOREM AnyOrderInvariant == Spec => []AnyOrderInv
  <1>1. AnyOrderInv /\ [Next]_vars => AnyOrderInv'
    BY AnyNext
  <1> QED
    BY <1>1, AnyInit, PTL DEF Spec

-----------------------------------------------------------------------------
(* What needs no order of the commands. *)

\* Every attempt of --retry starts with the run's key in no store, also when other
\* runs work on the same device and path.
THEOREM RetriesAlwaysClean == Spec => []RetryStartsClean
  <1>1. AnyOrderInv => RetryStartsClean
    BY DEF AnyOrderInv, KeysOwn, RetryStartsClean, Unused, BeforeStore
  <1> QED
    BY <1>1, AnyOrderInvariant, PTL

\* If no two devices are given the same UUID, a device that is registered for boot is
\* never formatted again and loses no slot, in any race: an encrypt that looked at
\* it before meets it open, or has not survived the restart that closed it.
THEOREM RegisteredAlwaysKept ==
  ASSUME UuidNamesOneDevice PROVE Spec => RegisteredKept
  <1>1. ASSUME AnyOrderInv, [Next]_vars, NEW d \in Device, header[d] \in Uuid,
               boot[header[d]] # NoConfig
        PROVE  header'[d] = header[d] /\ slots[d] \subseteq slots'[d]
    <2>1. FormattedForGood(d)
      <3>1. PICK e \in Device : IsHome(header[d], e) /\ FormattedForGood(e)
        BY <1>1 DEF AnyOrderInv, RegisteredSettled
      <3>2. IsHome(header[d], d)
        BY <1>1, SentinelsDiffer DEF AnyOrderInv, HeadersAtHome
      <3> QED
        BY <1>1, <3>1, <3>2, HomesDiffer
    <2>2. ASSUME NEW p \in Invocation, LuksFormat(p)
          PROVE  header'[d] = header[d] /\ slots'[d] = slots[d]
      <3>1. UNCHANGED <<header, slots>> \/ cmd[p].device # d
        BY <1>1, <2>1, <2>2, FormatsFree DEF FormattedForGood
      <3> QED
        BY <1>1, <2>2, <3>1
           DEF LuksFormat, LuksFormats, AnyOrderInv, TypeInv, TypeOK
    <2>3. ASSUME NEW p \in Invocation, LuksAddKey(p)
          PROVE  header' = header /\ slots[d] \subseteq slots'[d]
      BY <1>1, <2>3 DEF LuksAddKey, LuksAddsKey, AnyOrderInv, TypeInv, TypeOK
    <2>4. ASSUME NEW p \in Invocation, Step(p) \/ Abort(p),
                 ~ LuksFormat(p), ~ LuksAddKey(p)
          PROVE  UNCHANGED <<header, slots>>
      BY <2>4 DEF Step, Abort, Login, VaultDown, ProbeDevice, ReadVaultKey,
                  TestManagedKey, ReadExistingKey, EnsureVaultKey, WriteKey, ConfirmKey,
                  VerifyUuid, VerifyKey, DeviceExists, LuksOpen, RegisterBootUnlock,
                  Decide, stores
    <2>5. ASSUME NEW p \in Invocation, NEW line \in CommandLines, Start(p, line)
          PROVE  UNCHANGED <<header, slots>>
      BY <2>5 DEF Start, stores
    <2> QED
      BY <1>1, <2>2, <2>3, <2>4, <2>5 DEF Next, Reboot, stores, vars
  <1>2. AnyOrderInv /\ [Next]_vars =>
          [\A d \in Device :
             header[d] \in Uuid /\ boot[header[d]] # NoConfig =>
               header'[d] = header[d] /\ slots[d] \subseteq slots'[d]]_vars
    BY <1>1
  <1> QED
    BY <1>2, AnyOrderInvariant, PTL DEF Spec, RegisteredKept

\* If no two devices are given the same UUID, encrypt and enroll report success only
\* for a device that is open under the UUID they report, in any race.
THEOREM SuccessAlwaysOpen ==
  ASSUME UuidNamesOneDevice PROVE Spec => SuccessOpensDevice
  <1>1. AnyOrderInv /\ [Next]_vars => [SuccessStep]_vars
    <2> SUFFICES ASSUME AnyOrderInv, Next, NEW p \in Invocation, Provisions(p), Active(p),
                        pc'[p] = "ok"
                 PROVE  mapper'[luks[p]] = cmd[p].device /\ boot'[luks[p]] = cmd[p].config
      BY DEF SuccessStep
    <2>1. Step(p) \/ Abort(p)
      BY OwnStep DEF AnyOrderInv
    <2>2. RegisterBootUnlock(p)
      BY <2>1, SuccessIsRegister DEF AnyOrderInv
    <2>3. /\ luks[p] \in Uuid /\ luks[p] # NoUuid /\ pc[p] = "register"
          /\ mapper[luks[p]] # NoDevice /\ IsHome(luks[p], cmd[p].device)
      BY <2>2, RunFacts, AnyRun, SentinelsDiffer
         DEF RegisterBootUnlock, AlwaysKnown, KnownAnyOrder, Busy, AnyOrderInv
    <2>4. mapper[luks[p]] \in Device /\ IsHome(luks[p], mapper[luks[p]])
      BY <2>3 DEF AnyOrderInv, MappingsAtHome, TypeInv, TypeOK
    <2>5. mapper[luks[p]] = cmd[p].device
      BY <2>3, <2>4, HomesDiffer
    <2> QED
      BY <2>2, <2>3, <2>5 DEF RegisterBootUnlock, AnyOrderInv, TypeInv, TypeOK
  <1> QED
    BY <1>1, AnyOrderInvariant, PTL DEF Spec, SuccessOpensDevice
=============================================================================
