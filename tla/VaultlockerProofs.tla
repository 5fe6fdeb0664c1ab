-------------------------- MODULE VaultlockerProofs --------------------------
(* Theorems about Vaultlocker, for any number of runs, devices and keys. *)
EXTENDS VaultlockerInvariant, TLAPS

-----------------------------------------------------------------------------
(* Lemmas about the constants. *)

\* What the argument parser guarantees of a command line.
LEMMA LineType ==
  ASSUME NEW line \in CommandLines
  PROVE  /\ line.op \in Ops
         /\ line.config \in Config
         /\ line.op = "decrypt" => line.device = NoDevice /\ line.uuid \in Uuid
         /\ line.op # "decrypt" => /\ line.device \in Device
                                   /\ line.uuid \in NamedUuid \cup {NoUuid}
         /\ line # NoCommand
  BY LinesWellFormed, SentinelsDiffer DEF Command, WellFormed

\* The run's own UUID and key are UUIDs and keys.
LEMMA OwnNames ==
  ASSUME NEW p \in Invocation
  PROVE  p \in Uuid /\ p \in Key /\ p # NoUuid /\ p # NoKey /\ p # Absent
         /\ p # Malformed /\ p \notin NamedUuid
  BY SentinelsDiffer, NamesDiffer DEF Uuid, Key

-----------------------------------------------------------------------------
(* Type correctness. *)

LEMMA InitType == Init => TypeOK
  <1> SUFFICES ASSUME Init PROVE TypeOK
    OBVIOUS
  <1>1. PICK o \in Origins : vault = o.vault /\ header = o.header /\ slots = o.slots
    BY DEF Init
  <1>2. o \in Origin
    BY OriginsWellFormed
  <1>3. vault \in [Config -> [Uuid -> Secret]]
    <2>1. \A c \in Config : vault[c] \in [Uuid -> Secret]
      BY <1>1, <1>2 DEF Origin, Key, Secret
    <2> QED
      BY <1>1, <1>2, <2>1 DEF Origin
  <1>4. header \in [Device -> Uuid \cup {NoUuid}]
    BY <1>1, <1>2 DEF Origin, Uuid
  <1>5. slots \in [Device -> SUBSET Key]
    <2>1. \A d \in Device : slots[d] \in SUBSET Key
      BY <1>1, <1>2 DEF Origin, Key
    <2> QED
      BY <1>1, <1>2, <2>1 DEF Origin
  <1>6. 0 \in 0..MaxRetries
    BY RetriesNat
  <1> QED
    BY <1>3, <1>4, <1>5, <1>6 DEF Init, TypeOK, Labels

\* What TypeInv says of one run, for a step of that run alone.
RunTyped(p) ==
  /\ pc[p] \in Labels
  /\ cmd[p] \in CommandLines
  /\ luks[p] \in Uuid \cup {NoUuid}
  /\ key[p] \in Key \cup {NoKey}
  /\ retries[p] \in 0..MaxRetries
  /\ pc[p] \notin {"idle", "login", "probe", "ok", "failed"} => luks[p] \in Uuid
  /\ pc[p] # "idle"
  /\ Active(p) /\ ~ Provisions(p) => pc[p] \in {"login", "present", "read", "open"}
  /\ pc[p] \in {"ensure", "write", "confirm", "format", "addkey"} => key[p] \in Key

StoresTyped ==
  /\ vault \in [Config -> [Uuid -> Secret]]
  /\ header \in [Device -> Uuid \cup {NoUuid}]
  /\ slots \in [Device -> SUBSET Key]
  /\ mapper \in [Uuid -> Device \cup {NoDevice}]
  /\ boot \in [Uuid -> Config \cup {NoConfig}]

\* The locals of the other runs are what they were.
OnlyRun(p) ==
  /\ pc' = [pc EXCEPT ![p] = pc'[p]]
  /\ cmd' = [cmd EXCEPT ![p] = cmd'[p]]
  /\ luks' = [luks EXCEPT ![p] = luks'[p]]
  /\ key' = [key EXCEPT ![p] = key'[p]]
  /\ retries' = [retries EXCEPT ![p] = retries'[p]]

\* A step of one run keeps the types if it keeps that run's and the stores'.
LEMMA OneRunType ==
  ASSUME TypeInv, NEW p \in Invocation,
         OnlyRun(p), RunTyped(p)', StoresTyped'
  PROVE  TypeInv'
  <1>1. /\ pc' \in [Invocation -> Labels]
        /\ cmd' \in [Invocation -> CommandLines \cup {NoCommand}]
        /\ luks' \in [Invocation -> Uuid \cup {NoUuid}]
        /\ key' \in [Invocation -> Key \cup {NoKey}]
        /\ retries' \in [Invocation -> 0..MaxRetries]
    BY DEF TypeInv, TypeOK, RunTyped, OnlyRun
  <1>2. \A q \in Invocation : q # p =>
          /\ pc'[q] = pc[q] /\ cmd'[q] = cmd[q] /\ luks'[q] = luks[q]
          /\ key'[q] = key[q]
    BY DEF TypeInv, TypeOK, OnlyRun
  <1>3. TypeOK'
    BY <1>1, <1>2 DEF TypeInv, TypeOK, RunTyped, StoresTyped
  <1>4. CommandsKnown'
    BY <1>2, LineType DEF TypeInv, CommandsKnown, RunTyped
  <1>5. DecryptOnlyOpens'
    BY <1>2 DEF TypeInv, DecryptOnlyOpens, RunTyped, Active, Provisions
  <1>6. KeysMade'
    BY <1>2 DEF TypeInv, KeysMade, RunTyped
  <1> QED
    BY <1>3, <1>4, <1>5, <1>6 DEF TypeInv

LEMMA LeaveRun ==
  ASSUME TypeInv, NEW p \in Invocation, Active(p), UNCHANGED cmd,
         NEW label \in {"ok", "failed"}, Leave(p, label)
  PROVE  OnlyRun(p) /\ RunTyped(p)' /\ pc'[p] = label
  <1>1. /\ pc'[p] = label /\ luks'[p] = NoUuid /\ key'[p] = NoKey
        /\ retries'[p] = 0 /\ cmd'[p] = cmd[p]
    BY DEF Leave, Goto, TypeInv, TypeOK
  <1>2. OnlyRun(p)
    BY <1>1 DEF Leave, Goto, TypeInv, TypeOK, OnlyRun
  <1>3. cmd[p] \in CommandLines /\ 0 \in 0..MaxRetries
    BY RetriesNat DEF TypeInv, TypeOK, CommandsKnown, Active
  <1> QED
    BY <1>1, <1>2, <1>3 DEF RunTyped, Active, Labels

LEMMA DecideRun ==
  ASSUME TypeInv, NEW p \in Invocation, Active(p),
         NEW label \in Labels \ {"idle", "probe", "login"}, Decide(p, label),
         label \notin {"ok", "failed"} => luks[p] \in Uuid,
         ~ Provisions(p) => label \in {"present", "read", "open", "ok", "failed"},
         label \in {"ensure", "write", "confirm", "format", "addkey"} =>
           key[p] \in Key
  PROVE  TypeInv' /\ OnlyRun(p) /\ pc'[p] = label
  <1>1. StoresTyped' /\ cmd' = cmd
    BY DEF Decide, stores, StoresTyped, TypeInv, TypeOK
  <1>2. CASE label \in {"ok", "failed"}
    BY <1>1, <1>2, LeaveRun, OneRunType DEF Decide
  <1>3. CASE label \notin {"ok", "failed"}
    <2>1. /\ pc'[p] = label /\ pc' = [pc EXCEPT ![p] = label]
          /\ UNCHANGED <<luks, key, retries>>
      BY <1>3 DEF Decide, Goto, locals, TypeInv, TypeOK
    <2>2. OnlyRun(p)
      BY <1>1, <2>1 DEF OnlyRun, TypeInv, TypeOK
    <2>3. RunTyped(p)'
      BY <1>1, <1>3, <2>1 DEF RunTyped, Active, Provisions, TypeInv, TypeOK, CommandsKnown
    <2> QED
      BY <1>1, <2>1, <2>2, <2>3, OneRunType
  <1> QED
    BY <1>2, <1>3

\* Under TypeInv a run that is going on has a command line, and the calls that
\* only encrypt and enroll make have a device.
LEMMA RunFacts ==
  ASSUME TypeInv, NEW p \in Invocation, Active(p)
  PROVE  /\ cmd[p] \in CommandLines /\ cmd[p].config \in Config
         /\ Provisions(p) => cmd[p].device \in Device /\ cmd[p].op # "decrypt"
                             /\ cmd[p].uuid \in NamedUuid \cup {NoUuid}
         /\ ~ Provisions(p) => /\ cmd[p].op = "decrypt" /\ cmd[p].uuid \in Uuid
                               /\ pc[p] \in {"login", "present", "read", "open"}
         /\ pc[p] \notin {"login", "probe"} => luks[p] \in Uuid
  <1>1. cmd[p] \in CommandLines
    BY DEF TypeInv, TypeOK, CommandsKnown, Active
  <1> QED
    BY <1>1, LineType
       DEF TypeInv, TypeOK, DecryptOnlyOpens, Active, Provisions, Ops

\* One lemma for the steps of a run, one step of the proof for each call.
LEMMA StepType ==
  ASSUME TypeInv, NEW p \in Invocation, Step(p) \/ Abort(p)
  PROVE  TypeInv' /\ OnlyRun(p) /\ Active(p) /\ cmd' = cmd
  <1> USE DEF stores, locals
  <1>a. Active(p) /\ cmd' = cmd
    BY DEF Step, Abort, Login, VaultDown, ProbeDevice, ReadVaultKey,
           TestManagedKey, ReadExistingKey, EnsureVaultKey, WriteKey, ConfirmKey,
           LuksFormat, VerifyUuid, LuksAddKey, VerifyKey, DeviceExists, LuksOpen,
           RegisterBootUnlock, Decide, Active, LuksUuid, LuksTestKey, LuksFormats, LuksAddsKey
  <1>b. /\ cmd[p] \in CommandLines /\ cmd[p].config \in Config
        /\ Provisions(p) => cmd[p].device \in Device /\ cmd[p].op # "decrypt"
                            /\ cmd[p].uuid \in NamedUuid \cup {NoUuid}
        /\ ~ Provisions(p) => /\ cmd[p].op = "decrypt" /\ cmd[p].uuid \in Uuid
                              /\ pc[p] \in {"login", "present", "read", "open"}
        /\ pc[p] \notin {"login", "probe"} => luks[p] \in Uuid
    BY <1>a, RunFacts
  <1>c. /\ pc[p] \in Labels /\ luks[p] \in Uuid \cup {NoUuid}
        /\ key[p] \in Key \cup {NoKey} /\ retries[p] \in 0..MaxRetries
        /\ StoresTyped
    BY DEF TypeInv, TypeOK, StoresTyped
  <1>1. CASE Login(p)
    <2>1. /\ pc'[p] = IF cmd[p].op = "decrypt" THEN "present" ELSE "probe"
          /\ luks'[p] = IF cmd[p].op = "decrypt" THEN cmd[p].uuid ELSE NoUuid
          /\ UNCHANGED <<vault, header, slots, mapper, boot, key, retries>>
          /\ OnlyRun(p)
      BY <1>1, <1>a DEF Login, Goto, OnlyRun, TypeInv, TypeOK
    <2>2. RunTyped(p)' /\ StoresTyped'
      BY <2>1, <1>a, <1>b, <1>c DEF RunTyped, StoresTyped, Labels, Active, Provisions
    <2> QED
      BY <1>a, <2>1, <2>2, OneRunType
  <1>2. CASE VaultDown(p)
    <2>1. /\ pc'[p] = "login" /\ luks'[p] = NoUuid /\ key'[p] = NoKey
          /\ retries'[p] = retries[p] + 1 /\ retries[p] < MaxRetries
          /\ UNCHANGED <<vault, header, slots, mapper, boot>>
          /\ OnlyRun(p)
      BY <1>2, <1>a DEF VaultDown, Goto, OnlyRun, TypeInv, TypeOK
    <2>2. retries'[p] \in 0..MaxRetries
      BY <2>1, <1>c, RetriesNat
    <2>3. RunTyped(p)' /\ StoresTyped'
      BY <2>1, <2>2, <1>a, <1>b, <1>c DEF RunTyped, StoresTyped, Labels, Active, Provisions
    <2> QED
      BY <1>a, <2>1, <2>3, OneRunType
  <1>3. CASE ProbeDevice(p)
    <2>1. CASE Leave(p, "failed")
      <3>1. StoresTyped'
        BY <1>3, <1>c DEF ProbeDevice, StoresTyped, LuksUuid
      <3> QED
        BY <1>a, <2>1, <3>1, LeaveRun, OneRunType
    <2>2. CASE ~ Leave(p, "failed")
      <3>1. /\ Provisions(p) /\ header[cmd[p].device] \in Uuid \cup {NoUuid}
        BY <1>3, <1>b, <1>c DEF ProbeDevice, StoresTyped, LuksUuid
      <3>2. NewUuid(p) \in Uuid /\ p \in Key
        BY <3>1, <1>b, OwnNames DEF NewUuid, Uuid
      <3>3. /\ pc'[p] \in {"ensure", "read"}
            /\ pc'[p] = "ensure" => luks'[p] = NewUuid(p) /\ key'[p] = p
            /\ pc'[p] = "read" => /\ luks'[p] = header[cmd[p].device]
                                  /\ luks'[p] # NoUuid /\ key'[p] = NoKey
            /\ UNCHANGED <<vault, header, slots, mapper, boot, retries>>
            /\ OnlyRun(p)
        BY <1>3, <2>2, <1>a DEF ProbeDevice, Goto, OnlyRun, TypeInv, TypeOK, LuksUuid
      <3>4. RunTyped(p)' /\ StoresTyped'
        BY <1>a, <1>b, <1>c, <3>1, <3>2, <3>3 DEF RunTyped, StoresTyped, Labels, Active, Provisions
      <3> QED
        BY <1>a, <3>3, <3>4, OneRunType
    <2> QED
      BY <2>1, <2>2
  <1>4. CASE ReadVaultKey(p)
    <2>1. CASE Leave(p, "failed")
      <3>1. StoresTyped'
        BY <1>4, <1>c DEF ReadVaultKey, StoresTyped
      <3> QED
        BY <1>a, <2>1, <3>1, LeaveRun, OneRunType
    <2>2. CASE ~ Leave(p, "failed")
      <3>1. SecretAt(p) \in Secret
        BY <1>4, <1>b, <1>c DEF ReadVaultKey, SecretAt, StoresTyped
      <3>2. /\ pc'[p] \in {"credential", "open", "test"}
            /\ cmd[p].op = "decrypt" => pc'[p] = "open"
            /\ key'[p] = IF SecretAt(p) = Absent THEN NoKey ELSE SecretAt(p)
            /\ SecretAt(p) # Malformed
            /\ UNCHANGED <<vault, header, slots, mapper, boot, luks, retries>>
            /\ OnlyRun(p)
        BY <1>4, <2>2, <1>a DEF ReadVaultKey, Goto, OnlyRun, TypeInv, TypeOK
      <3>3. RunTyped(p)' /\ StoresTyped'
        BY <1>4, <1>a, <1>b, <1>c, <3>1, <3>2
           DEF ReadVaultKey, RunTyped, StoresTyped, Labels, Active, Provisions, Secret
      <3> QED
        BY <1>a, <3>2, <3>3, OneRunType
    <2> QED
      BY <2>1, <2>2
  <1>5. CASE TestManagedKey(p)
    <2> DEFINE label == IF key[p] \in slots[cmd[p].device] THEN "present"
                        ELSE IF cmd[p].op = "enroll" THEN "credential" ELSE "failed"
    <2>1. Decide(p, label) /\ luks[p] \in Uuid /\ label \in {"present", "credential", "failed"}
          /\ Provisions(p)
      BY <1>5, <1>b DEF TestManagedKey, LuksTestKey
    <2> HIDE DEF label
    <2> QED
      BY <1>a, <2>1, DecideRun DEF Labels
  <1>6. CASE ReadExistingKey(p)
    <2>1. CASE Leave(p, "failed")
      <3>1. StoresTyped'
        BY <1>6, <1>c DEF ReadExistingKey, StoresTyped, LuksTestKey
      <3> QED
        BY <1>a, <2>1, <3>1, LeaveRun, OneRunType
    <2>2. CASE ~ Leave(p, "failed")
      <3>1. /\ pc'[p] \in {"write", "addkey"}
            /\ key'[p] = IF key[p] = NoKey THEN p ELSE key[p]
            /\ UNCHANGED <<vault, header, slots, mapper, boot, luks, retries>>
            /\ OnlyRun(p)
        BY <1>6, <2>2, <1>a DEF ReadExistingKey, Goto, OnlyRun, TypeInv, TypeOK, LuksTestKey
      <3>2. RunTyped(p)' /\ StoresTyped'
        BY <1>6, <1>a, <1>b, <1>c, <3>1, OwnNames
           DEF ReadExistingKey, RunTyped, StoresTyped, Labels, Active, Provisions, LuksTestKey
      <3> QED
        BY <1>a, <3>1, <3>2, OneRunType
    <2> QED
      BY <2>1, <2>2
  <1>7. CASE EnsureVaultKey(p)
    <2> DEFINE label == IF SecretAt(p) = Absent THEN "write"
                        ELSE IF SecretAt(p) = key[p] THEN "format" ELSE "failed"
    <2>1. /\ Decide(p, label) /\ luks[p] \in Uuid /\ key[p] \in Key
          /\ label \in {"write", "format", "failed"}
          /\ Provisions(p)
      BY <1>7, <1>b DEF EnsureVaultKey, TypeInv, KeysMade
    <2> HIDE DEF label
    <2> QED
      BY <1>a, <2>1, DecideRun DEF Labels
  <1>8. CASE WriteKey(p)
    <2>1. /\ Provisions(p) /\ luks[p] \in Uuid /\ key[p] \in Key
          /\ vault' = [vault EXCEPT ![cmd[p].config][luks[p]] = key[p]]
          /\ UNCHANGED <<header, slots, mapper, boot>>
      BY <1>8, <1>b DEF WriteKey, TypeInv, KeysMade
    <2>2. StoresTyped'
      <3>1. \A c \in Config : vault'[c] \in [Uuid -> Secret]
        BY <2>1, <1>b, <1>c DEF StoresTyped, Secret
      <3> QED
        BY <2>1, <1>b, <1>c, <3>1 DEF StoresTyped
    <2>3. CASE Leave(p, "failed")
      BY <1>a, <2>2, <2>3, LeaveRun, OneRunType
    <2>4. CASE Goto(p, "confirm") /\ UNCHANGED <<luks, key, retries>>
      <3>1. pc'[p] = "confirm" /\ OnlyRun(p)
        BY <2>4, <1>a DEF Goto, OnlyRun, TypeInv, TypeOK
      <3>2. RunTyped(p)'
        BY <2>1, <2>4, <3>1, <1>a, <1>b, <1>c DEF RunTyped, Labels, Active, Provisions
      <3> QED
        BY <1>a, <2>2, <3>1, <3>2, OneRunType
    <2> QED
      BY <1>8, <2>3, <2>4 DEF WriteKey
  <1>9. CASE ConfirmKey(p)
    <2> DEFINE label == IF SecretAt(p) # key[p] THEN "failed"
                        ELSE IF cmd[p].op = "encrypt" THEN "format" ELSE "addkey"
    <2>1. /\ Decide(p, label) /\ luks[p] \in Uuid /\ key[p] \in Key
          /\ label \in {"addkey", "format", "failed"}
          /\ Provisions(p)
      BY <1>9, <1>b DEF ConfirmKey, TypeInv, KeysMade
    <2> HIDE DEF label
    <2> QED
      BY <1>a, <2>1, DecideRun DEF Labels
  <1>10. CASE LuksFormat(p)
    <2>1. /\ Provisions(p) /\ luks[p] \in Uuid /\ key[p] \in Key
          /\ UNCHANGED <<vault, mapper, boot, luks, key, retries>>
          /\ header' = header \/ header' = [header EXCEPT ![cmd[p].device] = luks[p]]
          /\ \/ slots' = slots
             \/ slots' = [slots EXCEPT ![cmd[p].device] = {key[p]}]
             \/ slots' = [slots EXCEPT ![cmd[p].device] = {}]
      BY <1>10, <1>b DEF LuksFormat, TypeInv, KeysMade, LuksFormats
    <2>2. /\ pc'[p] \in {"present", "verify"} /\ OnlyRun(p)
      BY <1>10, <1>a DEF LuksFormat, Goto, OnlyRun, TypeInv, TypeOK, LuksFormats
    <2>3. RunTyped(p)' /\ StoresTyped'
      BY <2>1, <2>2, <1>a, <1>b, <1>c DEF RunTyped, StoresTyped, Labels, Active, Provisions
    <2> QED
      BY <1>a, <2>2, <2>3, OneRunType
  <1>11. CASE LuksAddKey(p)
    <2>1. /\ Provisions(p) /\ luks[p] \in Uuid /\ key[p] \in Key
          /\ UNCHANGED <<vault, header, mapper, boot, luks, key, retries>>
          /\ \/ slots' = slots
             \/ slots' = [slots EXCEPT ![cmd[p].device] = @ \cup {key[p]}]
      BY <1>11, <1>b DEF LuksAddKey, TypeInv, KeysMade, LuksAddsKey
    <2>2. /\ pc'[p] = "verifykey" /\ OnlyRun(p)
      BY <1>11, <1>a DEF LuksAddKey, Goto, OnlyRun, TypeInv, TypeOK, LuksAddsKey
    <2>3. RunTyped(p)' /\ StoresTyped'
      BY <2>1, <2>2, <1>a, <1>b, <1>c DEF RunTyped, StoresTyped, Labels, Active, Provisions
    <2> QED
      BY <1>a, <2>2, <2>3, OneRunType
  <1>12. CASE VerifyUuid(p)
    <2> DEFINE label == IF header[cmd[p].device] = luks[p] THEN "verifykey"
                        ELSE "failed"
    <2>1. /\ Decide(p, label) /\ luks[p] \in Uuid
          /\ label \in {"verifykey", "failed"}
          /\ Provisions(p)
      BY <1>12, <1>b DEF VerifyUuid, LuksUuid
    <2> HIDE DEF label
    <2> QED
      BY <1>a, <2>1, DecideRun DEF Labels
  <1>13. CASE VerifyKey(p)
    <2> DEFINE label == IF key[p] \in slots[cmd[p].device] THEN "present"
                        ELSE "failed"
    <2>1. /\ Decide(p, label) /\ luks[p] \in Uuid
          /\ label \in {"present", "failed"}
          /\ Provisions(p)
      BY <1>13, <1>b DEF VerifyKey, LuksTestKey
    <2> HIDE DEF label
    <2> QED
      BY <1>a, <2>1, DecideRun DEF Labels
  <1>14. CASE DeviceExists(p)
    <2> DEFINE exists == mapper[luks[p]] # NoDevice
               label == IF cmd[p].op = "decrypt"
                        THEN IF exists THEN "ok" ELSE "read"
                        ELSE IF exists THEN "register" ELSE "open"
    <2>1. /\ Decide(p, label) /\ luks[p] \in Uuid
          /\ label \in {"ok", "read", "register", "open"}
          /\ ~ Provisions(p) => label \in {"ok", "read"}
      BY <1>14, <1>b DEF DeviceExists
    <2> HIDE DEF label
    <2> QED
      BY <1>a, <2>1, DecideRun DEF Labels
  <1>15. CASE LuksOpen(p)
    <2>1. /\ luks[p] \in Uuid
          /\ UNCHANGED <<vault, header, slots, boot>>
          /\ \/ mapper' = mapper
             \/ \E d \in OpenSources(p) : mapper' = [mapper EXCEPT ![luks[p]] = d]
      BY <1>15, <1>b DEF LuksOpen
    <2>2. OpenSources(p) \subseteq Device
      BY <1>b DEF OpenSources
    <2>3. StoresTyped'
      BY <2>1, <2>2, <1>c DEF StoresTyped
    <2>4. CASE Leave(p, "failed") \/ Leave(p, "ok")
      BY <1>a, <2>3, <2>4, LeaveRun, OneRunType
    <2>5. CASE ~ (Leave(p, "failed") \/ Leave(p, "ok"))
      <3>1. /\ Goto(p, "register") /\ UNCHANGED <<luks, key, retries>>
            /\ cmd[p].op # "decrypt"
        BY <1>15, <2>5 DEF LuksOpen
      <3>2. pc'[p] = "register" /\ OnlyRun(p)
        BY <3>1, <1>a DEF Goto, OnlyRun, TypeInv, TypeOK
      <3>3. RunTyped(p)'
        BY <2>1, <3>1, <3>2, <1>a, <1>b, <1>c DEF RunTyped, Labels, Active, Provisions
      <3> QED
        BY <1>a, <2>3, <3>2, <3>3, OneRunType
    <2> QED
      BY <2>4, <2>5
  <1>16. CASE RegisterBootUnlock(p)
    <2>1. StoresTyped'
      BY <1>16, <1>b, <1>c DEF RegisterBootUnlock, StoresTyped
    <2>2. PICK label \in {"ok", "failed"} : Leave(p, label)
      BY <1>16 DEF RegisterBootUnlock
    <2> QED
      BY <1>a, <2>1, <2>2, LeaveRun, OneRunType
  <1>17. CASE Abort(p)
    <2>1. StoresTyped' /\ Leave(p, "failed")
      BY <1>17, <1>c DEF Abort, StoresTyped
    <2> QED
      BY <1>a, <2>1, LeaveRun, OneRunType
  <1> QED
    BY <1>a, <1>1, <1>2, <1>3, <1>4, <1>5, <1>6, <1>7, <1>8, <1>9, <1>10, <1>11,
       <1>12, <1>13, <1>14, <1>15, <1>16, <1>17 DEF Step

LEMMA StartType ==
  ASSUME TypeInv, NEW p \in Invocation, NEW line \in CommandLines, Start(p, line)
  PROVE  TypeInv'
  <1>1. /\ pc'[p] = "login" /\ cmd'[p] = line
        /\ UNCHANGED <<vault, header, slots, mapper, boot, luks, key, retries>>
        /\ OnlyRun(p)
    BY DEF Start, stores, locals, Goto, OnlyRun, TypeInv, TypeOK
  <1>2. RunTyped(p)' /\ StoresTyped'
    BY <1>1 DEF TypeInv, TypeOK, RunTyped, StoresTyped, Labels, Active, Provisions
  <1> QED
    BY <1>1, <1>2, OneRunType

LEMMA RebootType == ASSUME TypeInv, Reboot PROVE TypeInv'
  <1>1. \A p \in Invocation :
          /\ pc'[p] = IF Active(p) THEN "failed" ELSE pc[p]
          /\ cmd'[p] = cmd[p] /\ luks'[p] = NoUuid
    BY DEF Reboot, TypeInv, TypeOK
  <1>2. TypeOK'
    BY <1>1, RetriesNat DEF Reboot, stores, TypeInv, TypeOK, Labels, Active
  <1>3. CommandsKnown' /\ DecryptOnlyOpens' /\ KeysMade'
    BY <1>1 DEF TypeInv, CommandsKnown, DecryptOnlyOpens, KeysMade, Active, Provisions
  <1> QED
    BY <1>2, <1>3 DEF TypeInv

LEMMA NextType == TypeInv /\ [Next]_vars => TypeInv'
  <1> SUFFICES ASSUME TypeInv, [Next]_vars PROVE TypeInv'
    OBVIOUS
  <1>1. CASE Next
    BY <1>1, StepType, StartType, RebootType DEF Next
  <1>2. CASE UNCHANGED vars
    BY <1>2 DEF vars, TypeInv, TypeOK, CommandsKnown, DecryptOnlyOpens, KeysMade,
                Active, Provisions
  <1> QED
    BY <1>1, <1>2

\* The values of every store and every local keep to their types, and a run that
\* reached a call that takes a UUID, a device or a key has one.  This holds for
\* any command lines and any interleaving of them.
THEOREM TypeCorrect == Spec => []TypeOK
  <1>1. Init => TypeInv
    BY InitType DEF Init, TypeInv, CommandsKnown, DecryptOnlyOpens, KeysMade, Active
  <1>2. TypeInv => TypeOK
    BY DEF TypeInv
  <1> QED
    BY <1>1, <1>2, NextType, PTL DEF Spec

\* The strengthened form, for the theorems below.
LEMMA TypeInvariant == Spec => []TypeInv
  <1>1. Init => TypeInv
    BY InitType DEF Init, TypeInv, CommandsKnown, DecryptOnlyOpens, KeysMade, Active
  <1> QED
    BY <1>1, NextType, PTL DEF Spec

-----------------------------------------------------------------------------
(* The safety invariant, for a program used as Disciplined says. *)

\* What IndInv says of one run that is going on.
RunKnows(p) ==
  Busy(p) => /\ HeaderKnown(p) /\ SecretKnown(p) /\ DeviceKnown(p)
             /\ luks[p] # NoUuid => IsHome(luks[p], cmd[p].device)

\* A step of one run keeps what the other runs know when it leaves
\* their devices, and the Vault path and mapping of their UUIDs, alone.
LEMMA OneRunStep ==
  ASSUME IndInv, TypeInv', NEW p \in Invocation, Active(p), OnlyRun(p), cmd' = cmd,
         pc'[p] \in BeforeStore /\ Provisions(p) => pc[p] \in BeforeStore,
         RunKnows(p)',
         (PlainHasNoSlots /\ HeadersAtHome /\ MappingsNamedByHeader)',
         (Escrowed /\ BootUnlockable)',
         \A q \in Invocation :
           (pc'[p] \notin BeforeStore /\ Provisions(p) => q # p) /\ Unused(q) =>
             Unused(q)',
         \A q \in Invocation : q # p /\ Busy(q) =>
           /\ header'[cmd[q].device] = header[cmd[q].device]
           /\ slots'[cmd[q].device] = slots[cmd[q].device]
           /\ luks[q] \in Uuid =>
                /\ vault'[cmd[q].config][luks[q]] = vault[cmd[q].config][luks[q]]
                /\ mapper[luks[q]] # NoDevice => mapper'[luks[q]] # NoDevice
  PROVE  IndInv'
  <1>1. \A q \in Invocation : q # p =>
          /\ pc'[q] = pc[q] /\ cmd'[q] = cmd[q] /\ luks'[q] = luks[q]
          /\ key'[q] = key[q]
    BY DEF IndInv, TypeInv, TypeOK, OnlyRun
  <1>2. \A q \in Invocation : Busy(q)' => Busy(q)
    BY <1>1 DEF Busy, Active, Provisions
  <1>3. KeysFresh'
    BY <1>1 DEF IndInv, KeysFresh, Active, Provisions, Busy
  <1>4. OnePerDevice'
    BY <1>2 DEF IndInv, OnePerDevice
  <1>5. RunsAtHome'
    BY <1>1, <1>2 DEF IndInv, RunsAtHome, RunKnows, IsHome
  <1>6. RunsKnow'
    <2> SUFFICES ASSUME NEW q \in Invocation, Busy(q)'
                 PROVE  (HeaderKnown(q) /\ SecretKnown(q) /\ DeviceKnown(q))'
      BY DEF RunsKnow
    <2>1. CASE q = p
      BY <2>1 DEF RunKnows
    <2>2. CASE q # p
      <3>1. /\ Busy(q) /\ HeaderKnown(q) /\ SecretKnown(q) /\ DeviceKnown(q)
            /\ pc[q] \notin {"idle", "login", "probe", "ok", "failed"} =>
                 luks[q] \in Uuid
        BY <1>2 DEF IndInv, RunsKnow, TypeInv, TypeOK
      <3> QED
        BY <1>1, <2>2, <3>1
           DEF HeaderKnown, SecretKnown, DeviceKnown, SecretAt, WithHeader,
               WithSecret, WithSlot
    <2> QED
      BY <2>1, <2>2
  <1> QED
    BY <1>3, <1>4, <1>5, <1>6 DEF IndInv

\* A step that changes no store has only its own run to answer for.
LEMMA QuietStep ==
  ASSUME IndInv, TypeInv', NEW p \in Invocation, Active(p), OnlyRun(p),
         UNCHANGED <<vault, header, slots, mapper, boot, cmd>>,
         pc'[p] \in BeforeStore /\ Provisions(p) => pc[p] \in BeforeStore,
         RunKnows(p)'
  PROVE  IndInv'
  <1>1. PlainHasNoSlots' /\ HeadersAtHome' /\ MappingsNamedByHeader'
    BY DEF IndInv, PlainHasNoSlots, HeadersAtHome, MappingsNamedByHeader, IsHome
  <1>2. Escrowed' /\ BootUnlockable'
    BY DEF IndInv, Escrowed, BootUnlockable
  <1>3. \A q \in Invocation : Unused(q) => Unused(q)'
    BY DEF Unused
  <1> QED
    BY <1>1, <1>2, <1>3, OneRunStep

\* A run that leaves has nothing more to know.
LEMMA QuietLeave ==
  ASSUME IndInv, TypeInv', NEW p \in Invocation, Active(p), OnlyRun(p),
         UNCHANGED <<vault, header, slots, mapper, boot, cmd>>,
         NEW label \in {"ok", "failed"}, Leave(p, label)
  PROVE  IndInv'
  <1>1. pc'[p] = label
    BY DEF Leave, Goto, IndInv, TypeInv, TypeOK
  <1>2. RunKnows(p)' /\ pc'[p] \notin BeforeStore
    BY <1>1 DEF RunKnows, Busy, Active, BeforeStore
  <1> QED
    BY <1>2, QuietStep

LEMMA QuietDecide ==
  ASSUME IndInv, TypeInv', NEW p \in Invocation, Active(p), OnlyRun(p),
         NEW label, Decide(p, label), cmd' = cmd,
         label \in BeforeStore => pc[p] \in BeforeStore,
         label \notin {"ok", "failed"} /\ pc'[p] = label
           /\ UNCHANGED <<vault, header, slots, mapper, cmd, luks, key>>
           => RunKnows(p)'
  PROVE  IndInv'
  <1>1. UNCHANGED <<vault, header, slots, mapper, boot>>
    BY DEF Decide, stores
  <1>2. CASE label \in {"ok", "failed"}
    BY <1>1, <1>2, QuietLeave DEF Decide
  <1>3. CASE label \notin {"ok", "failed"}
    <2>1. pc'[p] = label /\ UNCHANGED <<luks, key>>
      BY <1>3 DEF Decide, Goto, locals, IndInv, TypeInv, TypeOK
    <2> QED
      BY <1>1, <1>3, <2>1, QuietStep
  <1> QED
    BY <1>2, <1>3

LEMMA KnownRun ==
  ASSUME IndInv, NEW p \in Invocation, Active(p)
  PROVE  /\ Provisions(p) => /\ HeaderKnown(p) /\ SecretKnown(p) /\ DeviceKnown(p)
                             /\ luks[p] # NoUuid => IsHome(luks[p], cmd[p].device)
         /\ pc[p] \in BeforeStore => Unused(p)
  BY DEF IndInv, Busy, RunsKnow, RunsAtHome, KeysFresh

\* The steps that only look at a store.
QuietCall(p) ==
  \/ Login(p)          \/ VaultDown(p)       \/ ProbeDevice(p)
  \/ ReadVaultKey(p)   \/ TestManagedKey(p)  \/ ReadExistingKey(p)
  \/ EnsureVaultKey(p) \/ ConfirmKey(p)      \/ VerifyUuid(p)
  \/ VerifyKey(p)      \/ DeviceExists(p)    \/ Abort(p)

LEMMA QuietCalls ==
  ASSUME IndInv, NEW p \in Invocation, QuietCall(p)
  PROVE  IndInv'
  <1> USE DEF stores, locals
  <1>a. TypeInv' /\ OnlyRun(p) /\ Active(p) /\ cmd' = cmd
    BY StepType DEF QuietCall, Step, IndInv
  <1>b. /\ cmd[p] \in CommandLines /\ cmd[p].config \in Config
        /\ Provisions(p) => cmd[p].device \in Device /\ cmd[p].op # "decrypt"
                            /\ cmd[p].uuid \in NamedUuid \cup {NoUuid}
        /\ ~ Provisions(p) => /\ cmd[p].op = "decrypt" /\ cmd[p].uuid \in Uuid
                              /\ pc[p] \in {"login", "present", "read", "open"}
        /\ pc[p] \notin {"login", "probe"} => luks[p] \in Uuid
    BY <1>a, RunFacts DEF IndInv
  <1>c. /\ Provisions(p) => /\ HeaderKnown(p) /\ SecretKnown(p) /\ DeviceKnown(p)
                            /\ luks[p] # NoUuid => IsHome(luks[p], cmd[p].device)
        /\ pc[p] \in BeforeStore => Unused(p)
    BY <1>a, KnownRun
  <1>d. Busy(p)' => Provisions(p)
    BY <1>a DEF Busy, Provisions
  <1>e. /\ pc \in [Invocation -> Labels] /\ luks \in [Invocation -> Uuid \cup {NoUuid}]
        /\ key \in [Invocation -> Key \cup {NoKey}]
        /\ header \in [Device -> Uuid \cup {NoUuid}]
    BY DEF IndInv, TypeInv, TypeOK
  <1>1. CASE Login(p)
    <2>1. /\ pc'[p] = IF cmd[p].op = "decrypt" THEN "present" ELSE "probe"
          /\ luks'[p] = IF cmd[p].op = "decrypt" THEN cmd[p].uuid ELSE NoUuid
          /\ UNCHANGED <<vault, header, slots, mapper, boot>>
          /\ pc[p] = "login"
      BY <1>1, <1>e DEF Login, Goto
    <2>2. RunKnows(p)'
      BY <1>a, <1>b, <1>d, <2>1
         DEF RunKnows, HeaderKnown, SecretKnown, DeviceKnown, WithHeader, WithSecret, WithSlot
    <2> QED
      BY <1>a, <2>1, <2>2, QuietStep DEF BeforeStore
  <1>2. CASE VaultDown(p)
    <2>1. /\ pc'[p] = "login" /\ luks'[p] = NoUuid /\ pc[p] \in BeforeStore
          /\ UNCHANGED <<vault, header, slots, mapper, boot>>
      BY <1>2, <1>e DEF VaultDown, Goto, BeforeStore
    <2>2. RunKnows(p)'
      BY <2>1 DEF RunKnows, HeaderKnown, SecretKnown, DeviceKnown, WithHeader, WithSecret, WithSlot
    <2> QED
      BY <1>a, <2>1, <2>2, QuietStep
  <1>3. CASE ProbeDevice(p)
    <2> DEFINE found == header[cmd[p].device]
    <2>1. CASE Leave(p, "failed")
      BY <1>3, <1>a, <2>1, QuietLeave DEF ProbeDevice, LuksUuid
    <2>2. CASE ~ Leave(p, "failed")
      <3>1. /\ Provisions(p) /\ pc[p] = "probe"
            /\ UNCHANGED <<vault, header, slots, mapper, boot>>
            /\ pc'[p] \in {"ensure", "read"}
            /\ pc'[p] = "ensure" => /\ luks'[p] = NewUuid(p) /\ key'[p] = p
                                    /\ found = NoUuid /\ cmd[p].op = "encrypt"
            /\ pc'[p] = "read" => luks'[p] = found /\ found # NoUuid
        BY <1>3, <1>b, <1>e, <2>2 DEF ProbeDevice, Goto, LuksUuid
      <3>2. ASSUME pc'[p] = "ensure" PROVE IsHome(NewUuid(p), cmd[p].device)
        <4>1. CASE cmd[p].uuid = NoUuid
          BY <1>b, <3>1, <3>2, <4>1, LineType DEF NewUuid, IsHome
        <4>2. CASE cmd[p].uuid # NoUuid
          BY <1>b, <3>1, <3>2, <4>2, NamesDiffer DEF NewUuid, IsHome, HomeOf
        <4> QED
          BY <4>1, <4>2
      <3>3. ASSUME pc'[p] = "read" PROVE IsHome(found, cmd[p].device)
        BY <1>b, <3>1, <3>3 DEF IndInv, HeadersAtHome
      <3>4. RunKnows(p)'
        BY <1>a, <3>1, <3>2, <3>3
           DEF RunKnows, HeaderKnown, SecretKnown, DeviceKnown, WithHeader,
               WithSecret, WithSlot, IsHome
      <3> QED
        BY <1>a, <3>1, <3>4, QuietStep DEF BeforeStore
    <2> QED
      BY <2>1, <2>2
  <1>4. CASE ReadVaultKey(p)
    <2>1. CASE Leave(p, "failed")
      BY <1>4, <1>a, <2>1, QuietLeave DEF ReadVaultKey
    <2>2. CASE ~ Leave(p, "failed")
      <3>1. /\ pc[p] = "read" /\ SecretAt(p) # Malformed
            /\ UNCHANGED <<vault, header, slots, mapper, boot, luks>>
            /\ pc'[p] \in {"credential", "open", "test"}
            /\ pc'[p] = "credential" => /\ SecretAt(p) = Absent /\ key'[p] = NoKey
                                        /\ cmd[p].op = "enroll"
            /\ pc'[p] # "credential" => SecretAt(p) # Absent /\ key'[p] = SecretAt(p)
            /\ pc'[p] = "open" => ~ Provisions(p)
        BY <1>4, <1>b, <1>e, <2>2 DEF ReadVaultKey, Goto
      <3>2. SecretAt(p) \in Secret
        BY <1>b, <3>1 DEF SecretAt, IndInv, TypeInv, TypeOK
      <3>3. RunKnows(p)'
        BY <1>a, <1>b, <1>c, <1>d, <3>1, <3>2
           DEF RunKnows, HeaderKnown, SecretKnown, DeviceKnown, WithHeader, WithSecret,
               WithSlot, SecretAt, IsHome, Secret
      <3> QED
        BY <1>a, <3>1, <3>3, QuietStep DEF BeforeStore
    <2> QED
      BY <2>1, <2>2
  <1>5. CASE TestManagedKey(p)
    <2> DEFINE label == IF key[p] \in slots[cmd[p].device] THEN "present"
                        ELSE IF cmd[p].op = "enroll" THEN "credential" ELSE "failed"
    <2>1. /\ Decide(p, label) /\ pc[p] = "test" /\ Provisions(p)
          /\ label \in {"present", "credential", "failed"}
          /\ label = "present" => key[p] \in slots[cmd[p].device]
          /\ label = "credential" => cmd[p].op = "enroll"
      BY <1>5, <1>b DEF TestManagedKey, LuksTestKey
    <2> HIDE DEF label
    <2>2. ASSUME label # "failed", pc'[p] = label,
                 UNCHANGED <<vault, header, slots, mapper, cmd, luks, key>>
          PROVE  RunKnows(p)'
      BY <1>c, <2>1, <2>2
         DEF RunKnows, HeaderKnown, SecretKnown, DeviceKnown, WithHeader, WithSecret,
               WithSlot, SecretAt, IsHome
    <2> QED
      BY <1>a, <2>1, <2>2, QuietDecide DEF BeforeStore
  <1>6. CASE ReadExistingKey(p)
    <2>1. CASE Leave(p, "failed")
      BY <1>6, <1>a, <2>1, QuietLeave DEF ReadExistingKey, LuksTestKey
    <2>2. CASE ~ Leave(p, "failed")
      <3>1. /\ pc[p] = "credential" /\ Provisions(p)
            /\ UNCHANGED <<vault, header, slots, mapper, boot, luks>>
            /\ pc'[p] = IF key[p] = NoKey THEN "write" ELSE "addkey"
            /\ key'[p] = IF key[p] = NoKey THEN p ELSE key[p]
        BY <1>6, <1>b, <1>e, <2>2 DEF ReadExistingKey, Goto, LuksTestKey
      <3>3. RunKnows(p)'
        BY <1>a, <1>b, <1>c, <1>d, <3>1, SentinelsDiffer
           DEF RunKnows, HeaderKnown, SecretKnown, DeviceKnown, WithHeader, WithSecret,
               WithSlot, SecretAt, IsHome
      <3> QED
        BY <1>a, <3>1, <3>3, QuietStep DEF BeforeStore
    <2> QED
      BY <2>1, <2>2
  <1>7. CASE EnsureVaultKey(p)
    <2> DEFINE label == IF SecretAt(p) = Absent THEN "write"
                        ELSE IF SecretAt(p) = key[p] THEN "format" ELSE "failed"
    <2>1. /\ Decide(p, label) /\ pc[p] = "ensure" /\ Provisions(p)
          /\ label \in {"write", "format", "failed"}
          /\ label = "write" => SecretAt(p) = Absent
          /\ label = "format" => SecretAt(p) = key[p]
      BY <1>7, <1>b DEF EnsureVaultKey
    <2> HIDE DEF label
    <2>2. ASSUME label # "failed", pc'[p] = label,
                 UNCHANGED <<vault, header, slots, mapper, cmd, luks, key>>
          PROVE  RunKnows(p)'
      BY <1>c, <2>1, <2>2, OwnNames
         DEF RunKnows, HeaderKnown, SecretKnown, DeviceKnown, WithHeader, WithSecret,
               WithSlot, SecretAt, IsHome
    <2> QED
      BY <1>a, <2>1, <2>2, QuietDecide DEF BeforeStore
  <1>8. CASE ConfirmKey(p)
    <2> DEFINE label == IF SecretAt(p) # key[p] THEN "failed"
                        ELSE IF cmd[p].op = "encrypt" THEN "format" ELSE "addkey"
    <2>1. /\ Decide(p, label) /\ pc[p] = "confirm" /\ Provisions(p)
          /\ label \in {"format", "addkey", "failed"}
          /\ label = "format" => cmd[p].op = "encrypt"
          /\ label = "addkey" => cmd[p].op = "enroll"
      BY <1>8, <1>b DEF ConfirmKey, Provisions
    <2> HIDE DEF label
    <2>2. ASSUME label # "failed", pc'[p] = label,
                 UNCHANGED <<vault, header, slots, mapper, cmd, luks, key>>
          PROVE  RunKnows(p)'
      BY <1>c, <2>1, <2>2
         DEF RunKnows, HeaderKnown, SecretKnown, DeviceKnown, WithHeader, WithSecret,
               WithSlot, SecretAt, IsHome
    <2> QED
      BY <1>a, <2>1, <2>2, QuietDecide DEF BeforeStore
  <1>9. CASE VerifyUuid(p)
    <2> DEFINE label == IF header[cmd[p].device] = luks[p] THEN "verifykey"
                        ELSE "failed"
    <2>1. /\ Decide(p, label) /\ pc[p] = "verify" /\ Provisions(p)
          /\ label \in {"verifykey", "failed"}
          /\ label = "verifykey" => header[cmd[p].device] = luks[p]
      BY <1>9, <1>b DEF VerifyUuid, LuksUuid
    <2> HIDE DEF label
    <2>2. ASSUME label # "failed", pc'[p] = label,
                 UNCHANGED <<vault, header, slots, mapper, cmd, luks, key>>
          PROVE  RunKnows(p)'
      BY <1>c, <2>1, <2>2
         DEF RunKnows, HeaderKnown, SecretKnown, DeviceKnown, WithHeader, WithSecret,
               WithSlot, SecretAt, IsHome
    <2> QED
      BY <1>a, <2>1, <2>2, QuietDecide DEF BeforeStore
  <1>10. CASE VerifyKey(p)
    <2> DEFINE label == IF key[p] \in slots[cmd[p].device] THEN "present"
                        ELSE "failed"
    <2>1. /\ Decide(p, label) /\ pc[p] = "verifykey" /\ Provisions(p)
          /\ label \in {"present", "failed"}
          /\ label = "present" => key[p] \in slots[cmd[p].device]
      BY <1>10, <1>b DEF VerifyKey, LuksTestKey
    <2> HIDE DEF label
    <2>2. ASSUME label # "failed", pc'[p] = label,
                 UNCHANGED <<vault, header, slots, mapper, cmd, luks, key>>
          PROVE  RunKnows(p)'
      BY <1>c, <2>1, <2>2
         DEF RunKnows, HeaderKnown, SecretKnown, DeviceKnown, WithHeader, WithSecret,
               WithSlot, SecretAt, IsHome
    <2> QED
      BY <1>a, <2>1, <2>2, QuietDecide DEF BeforeStore
  <1>11. CASE DeviceExists(p)
    <2> DEFINE exists == mapper[luks[p]] # NoDevice
               label == IF cmd[p].op = "decrypt"
                        THEN IF exists THEN "ok" ELSE "read"
                        ELSE IF exists THEN "register" ELSE "open"
    <2>1. /\ Decide(p, label) /\ pc[p] = "present"
          /\ label \in {"ok", "read", "register", "open"}
          /\ Provisions(p) => label \in {"register", "open"}
          /\ label = "register" => mapper[luks[p]] # NoDevice
      BY <1>11, <1>b DEF DeviceExists
    <2> HIDE DEF exists, label
    <2>2. ASSUME pc'[p] = label,
                 UNCHANGED <<vault, header, slots, mapper, cmd, luks, key>>
          PROVE  RunKnows(p)'
      BY <1>c, <1>d, <2>1, <2>2
         DEF RunKnows, HeaderKnown, SecretKnown, DeviceKnown, WithHeader, WithSecret,
               WithSlot, SecretAt, IsHome
    <2>3. UNCHANGED <<vault, header, slots, mapper, boot, cmd>>
      BY <2>1, <1>a DEF Decide
    <2>4. CASE label = "ok"
      BY <1>a, <2>1, <2>3, <2>4, QuietLeave DEF Decide
    <2>5. CASE label # "ok"
      <3>1. pc'[p] = label /\ UNCHANGED <<luks, key>>
        BY <1>e, <2>1, <2>5 DEF Decide, Goto
      <3>2. pc'[p] \in BeforeStore => ~ Provisions(p)
        BY <2>1, <3>1 DEF BeforeStore
      <3> QED
        BY <1>a, <2>2, <2>3, <3>1, <3>2, QuietStep
    <2> QED
      BY <2>4, <2>5
  <1>12. CASE Abort(p)
    BY <1>12, <1>a, QuietLeave DEF Abort
  <1> QED
    BY <1>1, <1>2, <1>3, <1>4, <1>5, <1>6, <1>7, <1>8, <1>9, <1>10, <1>11, <1>12
       DEF QuietCall

\* A UUID has one device, and runs that are going on have one each.
LEMMA HomesDiffer ==
  ASSUME UuidNamesOneDevice, NEW u \in Uuid, NEW d, NEW e, IsHome(u, d), IsHome(u, e)
  PROVE  d = e
  BY DEF UuidNamesOneDevice, IsHome, Uuid

LEMMA RunsApart ==
  ASSUME IndInv, UuidNamesOneDevice, NEW p \in Invocation, NEW q \in Invocation,
         p # q, Busy(p), Busy(q), luks[p] \in Uuid
  PROVE  cmd[p].device # cmd[q].device /\ luks[p] # luks[q]
  <1>1. cmd[p].device # cmd[q].device
    BY DEF IndInv, OnePerDevice
  <1>2. ASSUME luks[p] = luks[q] PROVE FALSE
    <2>1. luks[p] # NoUuid
      BY SentinelsDiffer
    <2> QED
      BY <1>1, <1>2, <2>1, HomesDiffer DEF IndInv, RunsAtHome
  <1> QED
    BY <1>1, <1>2

LEMMA WriteKeyStep ==
  ASSUME IndInv, UuidNamesOneDevice, NEW p \in Invocation, WriteKey(p)
  PROVE  IndInv'
  <1> DEFINE c == cmd[p].config
             u == luks[p]
  <1>a. TypeInv' /\ OnlyRun(p) /\ Active(p) /\ cmd' = cmd
    BY StepType DEF Step, IndInv
  <1>b. /\ Busy(p) /\ c \in Config /\ u \in Uuid /\ cmd[p].device \in Device
        /\ pc[p] = "write"
    BY <1>a, RunFacts DEF IndInv, WriteKey, Busy
  <1>c. /\ vault[c][u] = Absent /\ key[p] = p /\ p \in Key /\ Unused(p)
        /\ HeaderKnown(p) /\ IsHome(u, cmd[p].device)
    BY <1>a, <1>b, KnownRun, OwnNames, SentinelsDiffer
       DEF SecretKnown, SecretAt, Busy, BeforeStore
  <1>d. /\ \A c2 \in Config, u2 \in Uuid :
             vault'[c2][u2] = IF c2 = c /\ u2 = u THEN p ELSE vault[c2][u2]
        /\ UNCHANGED <<header, slots, mapper, boot>>
    BY <1>b, <1>c DEF WriteKey, IndInv, TypeInv, TypeOK
  <1>1. PlainHasNoSlots' /\ HeadersAtHome' /\ MappingsNamedByHeader'
    BY <1>a, <1>d DEF IndInv, PlainHasNoSlots, HeadersAtHome, MappingsNamedByHeader, IsHome
  <1>2. Escrowed'
    <2> SUFFICES ASSUME NEW d \in Device, NEW k \in slots[d] \cap Invocation
                 PROVE  \E c2 \in Config : vault'[c2][header[d]] = k
      BY <1>d DEF Escrowed
    <2>1. header[d] \in Uuid
      BY DEF IndInv, PlainHasNoSlots, TypeInv, TypeOK
    <2>2. PICK c2 \in Config : vault[c2][header[d]] = k
      BY DEF IndInv, Escrowed
    <2>3. k # Absent
      BY OwnNames
    <2> QED
      BY <1>c, <1>d, <2>1, <2>2, <2>3
  <1>3. BootUnlockable'
    BY <1>c, <1>d, SentinelsDiffer DEF IndInv, BootUnlockable, TypeInv, TypeOK, Key
  <1>4. \A q \in Invocation : q # p /\ Unused(q) => Unused(q)'
    BY <1>d DEF Unused
  <1>5. RunKnows(p)' /\ pc'[p] \notin BeforeStore
    <2>1. \/ pc'[p] = "failed"
          \/ pc'[p] = "confirm" /\ luks' = luks /\ key' = key
      BY DEF WriteKey, Leave, Goto, locals, IndInv, TypeInv, TypeOK
    <2> QED
      BY <1>a, <1>b, <1>c, <1>d, <2>1
         DEF RunKnows, HeaderKnown, SecretKnown, DeviceKnown, WithHeader,
             WithSecret, WithSlot, SecretAt, IsHome, Busy, Active, BeforeStore
  <1>6. ASSUME NEW q \in Invocation, q # p, Busy(q), luks[q] \in Uuid
        PROVE  vault'[cmd[q].config][luks[q]] = vault[cmd[q].config][luks[q]]
    BY <1>b, <1>d, <1>6, RunsApart, RunFacts DEF IndInv, Busy
  <1> HIDE DEF c, u
  <1> QED
    BY <1>a, <1>b, <1>d, <1>1, <1>2, <1>3, <1>4, <1>5, <1>6, OneRunStep DEF Busy

LEMMA LuksFormatStep ==
  ASSUME IndInv, UuidNamesOneDevice, NEW p \in Invocation, LuksFormat(p)
  PROVE  IndInv'
  <1> DEFINE d == cmd[p].device
             u == luks[p]
             c == cmd[p].config
  <1>a. TypeInv' /\ OnlyRun(p) /\ Active(p) /\ cmd' = cmd
    BY StepType DEF Step, IndInv
  <1>b. /\ Busy(p) /\ c \in Config /\ u \in Uuid /\ d \in Device
        /\ pc[p] = "format" /\ u # NoUuid
    BY <1>a, RunFacts, SentinelsDiffer DEF IndInv, LuksFormat, Busy, LuksFormats
  <1>c. /\ header[d] = NoUuid /\ slots[d] = {}
        /\ key[p] \in Key /\ vault[c][u] = key[p] /\ IsHome(u, d)
    BY <1>a, <1>b, KnownRun
       DEF HeaderKnown, SecretKnown, SecretAt, WithSecret, Busy, IndInv, PlainHasNoSlots
  <1>d. /\ UNCHANGED <<vault, mapper, boot, luks, key>>
        /\ pc'[p] \in {"present", "verify"}
        /\ \/ UNCHANGED <<header, slots>> /\ pc'[p] = "verify"
           \/ /\ header' = [header EXCEPT ![d] = u]
              /\ \/ slots' = [slots EXCEPT ![d] = {key[p]}]
                 \/ slots' = [slots EXCEPT ![d] = {}] /\ pc'[p] = "verify"
    BY DEF LuksFormat, Goto, locals, IndInv, TypeInv, TypeOK, LuksFormats
  <1>1. CASE UNCHANGED <<header, slots>> /\ pc'[p] = "verify"
    <2>1. RunKnows(p)' /\ pc'[p] \notin BeforeStore
      BY <1>a, <1>b, <1>c, <1>d, <1>1
         DEF RunKnows, HeaderKnown, SecretKnown, DeviceKnown, WithHeader,
             WithSecret, WithSlot, SecretAt, IsHome, BeforeStore
    <2> QED
      BY <1>a, <1>d, <1>1, <2>1, QuietStep
  <1>2. CASE /\ header' = [header EXCEPT ![d] = u]
             /\ \/ slots' = [slots EXCEPT ![d] = {key[p]}]
                \/ slots' = [slots EXCEPT ![d] = {}] /\ pc'[p] = "verify"
    <2>1. /\ header'[d] = u /\ slots'[d] \subseteq {key[p]}
          /\ pc'[p] = "present" => key[p] \in slots'[d]
          /\ \A e \in Device : e # d => header'[e] = header[e] /\ slots'[e] = slots[e]
      BY <1>b, <1>2 DEF IndInv, TypeInv, TypeOK
    <2>2. PlainHasNoSlots' /\ HeadersAtHome'
      BY <1>a, <1>b, <1>c, <2>1 DEF IndInv, PlainHasNoSlots, HeadersAtHome, IsHome
    <2>3. MappingsNamedByHeader'
      BY <1>b, <1>c, <1>d, <2>1, SentinelsDiffer DEF IndInv, MappingsNamedByHeader
    <2>4. Escrowed'
      BY <1>b, <1>c, <1>d, <2>1 DEF IndInv, Escrowed
    <2>5. BootUnlockable'
      BY <1>c, <1>d, <2>1, SentinelsDiffer DEF IndInv, BootUnlockable
    <2>6. RunKnows(p)' /\ pc'[p] \notin BeforeStore
      BY <1>a, <1>b, <1>c, <1>d, <2>1
         DEF RunKnows, HeaderKnown, SecretKnown, DeviceKnown, WithHeader,
             WithSecret, WithSlot, SecretAt, IsHome, BeforeStore
    <2>7. \A q \in Invocation : q # p /\ Unused(q) => Unused(q)'
      BY <1>b, <1>c, <1>d, <2>1 DEF Unused
    <2>8. ASSUME NEW q \in Invocation, q # p, Busy(q)
          PROVE  /\ header'[cmd[q].device] = header[cmd[q].device]
                 /\ slots'[cmd[q].device] = slots[cmd[q].device]
      BY <1>b, <2>1, <2>8, RunsApart, RunFacts DEF IndInv, Busy
    <2> HIDE DEF d, u, c
    <2> QED
      BY <1>a, <1>b, <1>d, <2>2, <2>3, <2>4, <2>5, <2>6, <2>7, <2>8, OneRunStep
       DEF Busy
  <1> QED
    BY <1>d, <1>1, <1>2

LEMMA LuksAddKeyStep ==
  ASSUME IndInv, UuidNamesOneDevice, NEW p \in Invocation, LuksAddKey(p)
  PROVE  IndInv'
  <1> DEFINE d == cmd[p].device
             u == luks[p]
             c == cmd[p].config
  <1>a. TypeInv' /\ OnlyRun(p) /\ Active(p) /\ cmd' = cmd
    BY StepType DEF Step, IndInv
  <1>b. /\ Busy(p) /\ c \in Config /\ u \in Uuid /\ d \in Device
        /\ pc[p] = "addkey" /\ u # NoUuid
    BY <1>a, RunFacts, SentinelsDiffer DEF IndInv, LuksAddKey, Busy, LuksAddsKey
  <1>c. /\ header[d] = u /\ key[p] \in Key /\ vault[c][u] = key[p] /\ IsHome(u, d)
    BY <1>a, <1>b, KnownRun
       DEF HeaderKnown, SecretKnown, SecretAt, WithSecret, WithHeader, Busy
  <1>d. /\ UNCHANGED <<vault, header, mapper, boot, luks, key>>
        /\ pc'[p] = "verifykey"
        /\ \A e \in Device : e # d => slots'[e] = slots[e]
        /\ slots[d] \subseteq slots'[d] /\ slots'[d] \subseteq slots[d] \cup {key[p]}
    BY <1>b DEF LuksAddKey, Goto, locals, IndInv, TypeInv, TypeOK, LuksAddsKey
  <1>1. PlainHasNoSlots' /\ HeadersAtHome' /\ MappingsNamedByHeader'
    BY <1>a, <1>b, <1>c, <1>d
       DEF IndInv, PlainHasNoSlots, HeadersAtHome, MappingsNamedByHeader, IsHome
  <1>2. Escrowed'
    BY <1>b, <1>c, <1>d DEF IndInv, Escrowed
  <1>3. BootUnlockable'
    BY <1>c, <1>d DEF IndInv, BootUnlockable
  <1>4. RunKnows(p)' /\ pc'[p] \notin BeforeStore
    BY <1>a, <1>b, <1>c, <1>d
       DEF RunKnows, HeaderKnown, SecretKnown, DeviceKnown, WithHeader,
           WithSecret, WithSlot, SecretAt, IsHome, BeforeStore
  <1>5. \A q \in Invocation : q # p /\ Unused(q) => Unused(q)'
    BY <1>b, <1>c, <1>d DEF Unused
  <1>6. ASSUME NEW q \in Invocation, q # p, Busy(q)
        PROVE  slots'[cmd[q].device] = slots[cmd[q].device]
    BY <1>b, <1>d, <1>6, RunsApart, RunFacts DEF IndInv, Busy
  <1> HIDE DEF d, u, c
  <1> QED
    BY <1>a, <1>b, <1>d, <1>1, <1>2, <1>3, <1>4, <1>5, <1>6, OneRunStep DEF Busy

LEMMA RegisterStep ==
  ASSUME IndInv, NEW p \in Invocation, RegisterBootUnlock(p)
  PROVE  IndInv'
  <1> DEFINE d == cmd[p].device
             u == luks[p]
             c == cmd[p].config
  <1>a. TypeInv' /\ OnlyRun(p) /\ Active(p) /\ cmd' = cmd
    BY StepType DEF Step, IndInv
  <1>b. /\ Busy(p) /\ c \in Config /\ u \in Uuid /\ d \in Device
        /\ pc[p] = "register"
    BY <1>a, RunFacts DEF IndInv, RegisterBootUnlock, Busy
  <1>c. header[d] = u /\ vault[c][u] = key[p] /\ key[p] \in slots[d]
    BY <1>a, <1>b, KnownRun
       DEF HeaderKnown, SecretKnown, DeviceKnown, SecretAt, WithSecret,
           WithHeader, WithSlot, Busy
  <1>d. /\ UNCHANGED <<vault, header, slots, mapper>>
        /\ \A v \in Uuid : boot'[v] = IF v = u THEN c ELSE boot[v]
        /\ pc'[p] \in {"ok", "failed"}
    BY <1>b DEF RegisterBootUnlock, Leave, Goto, IndInv, TypeInv, TypeOK
  <1>1. PlainHasNoSlots' /\ HeadersAtHome' /\ MappingsNamedByHeader'
    BY <1>a, <1>d
       DEF IndInv, PlainHasNoSlots, HeadersAtHome, MappingsNamedByHeader, IsHome
  <1>2. Escrowed'
    BY <1>d DEF IndInv, Escrowed
  <1>3. BootUnlockable'
    BY <1>b, <1>c, <1>d DEF IndInv, BootUnlockable
  <1>4. RunKnows(p)' /\ pc'[p] \notin BeforeStore
    BY <1>d DEF RunKnows, Busy, Active, BeforeStore
  <1>5. \A q \in Invocation : Unused(q) => Unused(q)'
    BY <1>d DEF Unused
  <1> HIDE DEF d, u, c
  <1> QED
    BY <1>a, <1>b, <1>d, <1>1, <1>2, <1>3, <1>4, <1>5, OneRunStep

LEMMA LuksOpenStep ==
  ASSUME IndInv, NEW p \in Invocation, LuksOpen(p)
  PROVE  IndInv'
  <1> DEFINE u == luks[p]
  <1>a. TypeInv' /\ OnlyRun(p) /\ Active(p) /\ cmd' = cmd
    BY StepType DEF Step, IndInv
  <1>b. /\ u \in Uuid /\ u # NoUuid /\ pc[p] = "open"
        /\ Provisions(p) => cmd[p].device \in Device /\ cmd[p].op # "decrypt"
        /\ ~ Provisions(p) => cmd[p].op = "decrypt"
    BY <1>a, RunFacts, SentinelsDiffer DEF IndInv, LuksOpen
  <1>c. /\ Provisions(p) => HeaderKnown(p) /\ SecretKnown(p) /\ DeviceKnown(p)
        /\ Provisions(p) => IsHome(u, cmd[p].device)
    BY <1>a, <1>b, KnownRun
  <1>d. /\ UNCHANGED <<vault, header, slots, boot>>
        /\ \/ mapper' = mapper /\ pc'[p] = "failed"
           \/ /\ \E d \in OpenSources(p) : mapper' = [mapper EXCEPT ![u] = d]
              /\ \/ pc'[p] \in {"ok", "failed"}
                 \/ pc'[p] = "register" /\ UNCHANGED <<luks, key>>
    BY DEF LuksOpen, Leave, Goto, locals, stores, IndInv, TypeInv, TypeOK
  <1>e. \A d \in OpenSources(p) : d \in Device /\ header[d] = u
    BY <1>b, <1>c DEF OpenSources, HeaderKnown, WithHeader
  <1>1. CASE mapper' = mapper /\ pc'[p] = "failed"
    <2>1. RunKnows(p)' /\ pc'[p] \notin BeforeStore
      BY <1>1 DEF RunKnows, Busy, Active, BeforeStore
    <2> QED
      BY <1>a, <1>d, <1>1, <2>1, QuietStep
  <1>2. ASSUME NEW d \in OpenSources(p), mapper' = [mapper EXCEPT ![u] = d],
               \/ pc'[p] \in {"ok", "failed"}
               \/ pc'[p] = "register" /\ UNCHANGED <<luks, key>>
        PROVE  IndInv'
    <2>1. /\ \A v \in Uuid : mapper'[v] = IF v = u THEN d ELSE mapper[v]
          /\ d \in Device /\ header[d] = u /\ d # NoDevice
      BY <1>b, <1>e, <1>2, SentinelsDiffer DEF IndInv, TypeInv, TypeOK
    <2>2. PlainHasNoSlots' /\ HeadersAtHome'
      BY <1>a, <1>d DEF IndInv, PlainHasNoSlots, HeadersAtHome, IsHome
    <2>3. MappingsNamedByHeader'
      BY <1>d, <2>1 DEF IndInv, MappingsNamedByHeader
    <2>4. Escrowed' /\ BootUnlockable'
      BY <1>d DEF IndInv, Escrowed, BootUnlockable
    <2>5. RunKnows(p)' /\ pc'[p] \notin BeforeStore
      BY <1>a, <1>b, <1>c, <1>d, <1>2, <2>1
         DEF RunKnows, HeaderKnown, SecretKnown, DeviceKnown, WithHeader,
             WithSecret, WithSlot, SecretAt, IsHome, BeforeStore, Busy, Active, Provisions
    <2>6. \A q \in Invocation : Unused(q) => Unused(q)'
      BY <1>d DEF Unused
    <2>7. \A v \in Uuid : mapper[v] # NoDevice => mapper'[v] # NoDevice
      BY <2>1
    <2> QED
      BY <1>a, <1>d, <2>2, <2>3, <2>4, <2>5, <2>6, <2>7, OneRunStep
  <1> QED
    BY <1>d, <1>1, <1>2

LEMMA StartStep ==
  ASSUME IndInv, Disciplined, NEW p \in Invocation, NEW line \in CommandLines,
         Start(p, line)
  PROVE  IndInv'
  <1>1. TypeInv'
    BY StartType DEF IndInv
  <1>2. /\ pc[p] = "idle" /\ cmd[p] = NoCommand /\ pc'[p] = "login" /\ cmd'[p] = line
        /\ \A q \in Invocation : q # p => pc'[q] = pc[q] /\ cmd'[q] = cmd[q]
        /\ UNCHANGED <<vault, header, slots, mapper, boot, luks, key>>
        /\ luks[p] = NoUuid
    BY DEF Start, Goto, stores, locals, IndInv, TypeInv, TypeOK, CommandsKnown
  <1>3. PlainHasNoSlots' /\ MappingsNamedByHeader' /\ Escrowed' /\ BootUnlockable'
    BY <1>2
       DEF IndInv, PlainHasNoSlots, MappingsNamedByHeader, Escrowed, BootUnlockable
  <1>4. HeadersAtHome'
    <2> SUFFICES ASSUME NEW d \in Device, header[d] # NoUuid
                 PROVE  IsHome(header[d], d)'
      BY <1>2 DEF HeadersAtHome
    <2>1. IsHome(header[d], d) /\ header[d] # p
      BY <1>2 DEF IndInv, HeadersAtHome, IsHome
    <2> QED
      BY <1>2, <2>1 DEF IsHome
  <1>5. KeysFresh'
    BY <1>2 DEF IndInv, KeysFresh, Unused, BeforeStore, Active, Provisions
  <1>6. OnePerDevice'
    BY <1>2, LineType
       DEF Disciplined, Start, IndInv, OnePerDevice, Busy, Active, Provisions
  <1>7. RunsAtHome'
    BY <1>2 DEF IndInv, RunsAtHome, IsHome, Busy, Active, Provisions
  <1>8. RunsKnow'
    <2> SUFFICES ASSUME NEW q \in Invocation, Busy(q)'
                 PROVE  (HeaderKnown(q) /\ SecretKnown(q) /\ DeviceKnown(q))'
      BY DEF RunsKnow
    <2>1. CASE q = p
      BY <1>2, <2>1 DEF HeaderKnown, SecretKnown, DeviceKnown, WithHeader,
                        WithSecret, WithSlot
    <2>2. CASE q # p
      BY <1>2, <2>2 DEF IndInv, RunsKnow, HeaderKnown, SecretKnown, DeviceKnown,
                        SecretAt, Busy, Active, Provisions
    <2> QED
      BY <2>1, <2>2
  <1> QED
    BY <1>1, <1>3, <1>4, <1>5, <1>6, <1>7, <1>8 DEF IndInv

LEMMA RebootStep == ASSUME IndInv, Reboot PROVE IndInv'
  <1>1. TypeInv'
    BY RebootType DEF IndInv
  <1>2. /\ UNCHANGED <<vault, header, slots, boot, cmd>>
        /\ \A u \in Uuid : mapper'[u] = NoDevice
        /\ \A p \in Invocation :
             /\ ~ Busy(p)'
             /\ pc'[p] \in BeforeStore \/ (Active(p) /\ ~ Provisions(p))' =>
                  pc[p] \in BeforeStore
    BY DEF Reboot, stores, Busy, Active, BeforeStore, IndInv, TypeInv, TypeOK
  <1>3. PlainHasNoSlots' /\ HeadersAtHome' /\ Escrowed' /\ BootUnlockable'
    BY <1>2
       DEF IndInv, PlainHasNoSlots, HeadersAtHome, IsHome, Escrowed, BootUnlockable
  <1>4. MappingsNamedByHeader'
    BY <1>2, SentinelsDiffer DEF MappingsNamedByHeader
  <1>5. KeysFresh'
    BY <1>2 DEF IndInv, KeysFresh, Unused
  <1>6. OnePerDevice' /\ RunsAtHome' /\ RunsKnow'
    BY <1>2 DEF OnePerDevice, RunsAtHome, RunsKnow
  <1> QED
    BY <1>1, <1>3, <1>4, <1>5, <1>6 DEF IndInv

LEMMA InitInv == Init => IndInv
  <1> SUFFICES ASSUME Init PROVE IndInv
    OBVIOUS
  <1>1. TypeInv
    BY InitType DEF Init, TypeInv, CommandsKnown, DecryptOnlyOpens, KeysMade, Active
  <1>2. PICK o \in Origins : vault = o.vault /\ header = o.header /\ slots = o.slots
    BY DEF Init
  <1>3. /\ \A d \in Device : /\ header[d] = NoUuid => slots[d] = {}
                             /\ header[d] \in NamedUuid \cup {NoUuid}
                             /\ slots[d] \subseteq ExternalKey
        /\ \A c \in Config, u \in Uuid :
             vault[c][u] \in ExternalKey \cup {Absent, Malformed}
    BY <1>2, OriginsWellFormed DEF Origin
  <1>4. /\ \A p \in Invocation : pc[p] = "idle"
        /\ \A u \in Uuid : mapper[u] = NoDevice /\ boot[u] = NoConfig
    BY DEF Init
  <1>5. PlainHasNoSlots
    BY <1>3 DEF PlainHasNoSlots
  <1>6. HeadersAtHome
    BY <1>2, <1>3, NamesDiffer DEF HeadersAtHome, IsHome, HomeOf
  <1>7. MappingsNamedByHeader /\ BootUnlockable
    BY <1>4, SentinelsDiffer DEF MappingsNamedByHeader, BootUnlockable
  <1>8. KeysFresh /\ Escrowed
    BY <1>3, OwnNames, NamesDiffer DEF KeysFresh, Unused, Escrowed
  <1>9. OnePerDevice /\ RunsAtHome /\ RunsKnow
    BY <1>4 DEF OnePerDevice, RunsAtHome, RunsKnow, Busy, Active
  <1> QED
    BY <1>1, <1>5, <1>6, <1>7, <1>8, <1>9 DEF IndInv

LEMMA NextInv == Disciplined /\ IndInv /\ [Next]_vars => IndInv'
  <1> SUFFICES ASSUME Disciplined, IndInv, [Next]_vars PROVE IndInv'
    OBVIOUS
  <1>1. CASE \E p \in Invocation : Step(p) \/ Abort(p)
    BY <1>1, QuietCalls, WriteKeyStep, LuksFormatStep, LuksAddKeyStep, LuksOpenStep,
       RegisterStep DEF Step, QuietCall, Disciplined
  <1>2. CASE \E p \in Invocation, line \in CommandLines : Start(p, line)
    BY <1>2, StartStep
  <1>3. CASE Reboot
    BY <1>3, RebootStep
  <1>4. CASE UNCHANGED vars
    BY <1>4
       DEF vars, IndInv, TypeInv, TypeOK, CommandsKnown, DecryptOnlyOpens, KeysMade,
           PlainHasNoSlots, HeadersAtHome, MappingsNamedByHeader, KeysFresh, Unused,
           OnePerDevice, RunsAtHome, RunsKnow, HeaderKnown, SecretKnown, DeviceKnown,
           SecretAt, IsHome, Busy, Active, Provisions, Escrowed, BootUnlockable
  <1> QED
    BY <1>1, <1>2, <1>3, <1>4 DEF Next

LEMMA Invariance == ASSUME Disciplined PROVE Spec => []IndInv
  <1>1. IndInv /\ [Next]_vars => IndInv'
    BY NextInv
  <1> QED
    BY <1>1, InitInv, PTL DEF Spec

\* Whatever fails, is killed, or runs on other devices at the same time, a key
\* that vaultlocker made and that opens a device is in Vault under its UUID.
THEOREM KeysStayEscrowed == ASSUME Disciplined PROVE Spec => []Escrowed
  <1>1. IndInv => Escrowed
    BY DEF IndInv
  <1> QED
    BY <1>1, Invariance, PTL

\* A registered UUID can be unlocked: a failed, killed or repeated encrypt or
\* enroll never leaves boot with a key that does not open the device.
THEOREM BootStaysUnlockable == ASSUME Disciplined PROVE Spec => []BootUnlockable
  <1>1. IndInv => BootUnlockable
    BY DEF IndInv
  <1> QED
    BY <1>1, Invariance, PTL

-----------------------------------------------------------------------------
(* How a run succeeds, and what the stores may undergo. *)

\* encrypt and enroll have one way to report success.
LEMMA SuccessIsRegister ==
  ASSUME TypeInv, NEW p \in Invocation, Provisions(p), Step(p) \/ Abort(p),
         pc'[p] = "ok"
  PROVE  RegisterBootUnlock(p)
  <1>1. pc \in [Invocation -> Labels] /\ cmd[p].op # "decrypt"
    BY StepType, RunFacts DEF TypeInv, TypeOK
  <1>2. \A label : Decide(p, label) => pc'[p] = label
    BY <1>1 DEF Decide, Leave, Goto
  <1>3. ~ Login(p) /\ ~ VaultDown(p) /\ ~ ReadVaultKey(p) /\ ~ ReadExistingKey(p)
    BY <1>1 DEF Login, VaultDown, ReadVaultKey, ReadExistingKey, Goto, Leave, LuksTestKey
  <1>4. ~ WriteKey(p) /\ ~ LuksFormat(p) /\ ~ LuksAddKey(p) /\ ~ LuksOpen(p) /\ ~ Abort(p)
    BY <1>1 DEF WriteKey, LuksFormat, LuksAddKey, LuksOpen, Abort, Goto, Leave,
                   LuksFormats, LuksAddsKey
  <1>5. ~ TestManagedKey(p) /\ ~ EnsureVaultKey(p) /\ ~ ConfirmKey(p)
        /\ ~ VerifyUuid(p) /\ ~ VerifyKey(p) /\ ~ DeviceExists(p)
    BY <1>1, <1>2 DEF TestManagedKey, EnsureVaultKey, ConfirmKey, VerifyUuid,
                      VerifyKey, DeviceExists, LuksTestKey, LuksUuid
  <1>6. ~ ProbeDevice(p)
    BY <1>1 DEF ProbeDevice, Goto, Leave, LuksUuid
  <1> QED
    BY <1>3, <1>4, <1>5, <1>6 DEF Step

\* A run that was going on and has succeeded made the step itself.
LEMMA OwnStep ==
  ASSUME TypeInv, Next, NEW p \in Invocation, Active(p), pc'[p] = "ok"
  PROVE  Step(p) \/ Abort(p)
  <1>1. ~ Reboot
    BY DEF Reboot, TypeInv, TypeOK
  <1>2. ASSUME NEW q \in Invocation, NEW line \in CommandLines, Start(q, line)
        PROVE  FALSE
    BY <1>2 DEF Start, Goto, Active, TypeInv, TypeOK
  <1>3. ASSUME NEW q \in Invocation, Step(q) \/ Abort(q), q # p
        PROVE  FALSE
    BY <1>3, StepType DEF OnlyRun, Active, TypeInv, TypeOK
  <1> QED
    BY <1>1, <1>2, <1>3 DEF Next

\* Every step of every command, with any outcome, is a step that key escrow
\* allows or changes none of its stores.
THEOREM RefinesEscrow == ASSUME Disciplined PROVE Spec => ImplementsEscrow
  <1>1. Init => Escrow!Init
    BY InitType DEF Init, Escrow!Init, TypeOK, Secret
  <1>2. IndInv /\ [Next]_vars => [Escrow!Next]_(Escrow!vars)
    <2> SUFFICES ASSUME IndInv, [Next]_vars
                 PROVE  Escrow!Next \/ UNCHANGED <<vault, header, slots, boot>>
      BY DEF Escrow!vars
    <2>1. ASSUME NEW p \in Invocation, WriteKey(p) PROVE Escrow!Store
      <3>1. /\ cmd[p].config \in Config /\ luks[p] \in Uuid /\ key[p] \in Key
            /\ vault[cmd[p].config][luks[p]] = Absent
        BY <2>1, RunFacts, KnownRun, OwnNames
           DEF WriteKey, Active, SecretKnown, SecretAt, IndInv
      <3> QED
        BY <2>1, <3>1 DEF WriteKey, Escrow!Store
    <2>2. ASSUME NEW p \in Invocation, LuksFormat(p)
          PROVE  Escrow!Format \/ UNCHANGED <<vault, header, slots, boot>>
      <3>1. /\ cmd[p].config \in Config /\ luks[p] \in Uuid /\ key[p] \in Key
            /\ cmd[p].device \in Device /\ header[cmd[p].device] = NoUuid
            /\ vault[cmd[p].config][luks[p]] = key[p]
        BY <2>2, RunFacts, KnownRun
           DEF LuksFormat, Active, HeaderKnown, SecretKnown, SecretAt, WithSecret, IndInv,
               LuksFormats
      <3>2. /\ UNCHANGED <<vault, boot>>
            /\ \/ UNCHANGED <<header, slots>>
               \/ /\ header' = [header EXCEPT ![cmd[p].device] = luks[p]]
                  /\ \E written \in SUBSET {key[p]} :
                       slots' = [slots EXCEPT ![cmd[p].device] = written]
        BY <2>2 DEF LuksFormat, LuksFormats
      <3>3. Escrow!InEscrow(key[p], luks[p])
        BY <3>1 DEF Escrow!InEscrow
      <3> QED
        BY <3>1, <3>2, <3>3 DEF Escrow!Format
    <2>3. ASSUME NEW p \in Invocation, LuksAddKey(p)
          PROVE  Escrow!AddSlot \/ UNCHANGED <<vault, header, slots, boot>>
      <3>1. /\ cmd[p].config \in Config /\ luks[p] \in Uuid /\ key[p] \in Key
            /\ cmd[p].device \in Device /\ header[cmd[p].device] = luks[p]
            /\ luks[p] # NoUuid /\ vault[cmd[p].config][luks[p]] = key[p]
        BY <2>3, RunFacts, KnownRun, SentinelsDiffer
           DEF LuksAddKey, Active, HeaderKnown, SecretKnown, SecretAt, WithHeader,
               WithSecret, IndInv, LuksAddsKey
      <3>2. Escrow!InEscrow(key[p], header[cmd[p].device])
        BY <3>1 DEF Escrow!InEscrow
      <3> QED
        BY <2>3, <3>1, <3>2 DEF LuksAddKey, Escrow!AddSlot, LuksAddsKey
    <2>4. ASSUME NEW p \in Invocation, RegisterBootUnlock(p) PROVE Escrow!Register
      <3>1. /\ cmd[p].config \in Config /\ luks[p] \in Uuid
            /\ cmd[p].device \in Device /\ header[cmd[p].device] = luks[p]
            /\ vault[cmd[p].config][luks[p]] \in slots[cmd[p].device]
        BY <2>4, RunFacts, KnownRun
           DEF RegisterBootUnlock, Active, HeaderKnown, SecretKnown, DeviceKnown,
               SecretAt, WithHeader, WithSecret, WithSlot, IndInv
      <3>2. Escrow!Unlockable(luks[p], cmd[p].config)
        BY <3>1 DEF Escrow!Unlockable
      <3> QED
        BY <2>4, <3>1, <3>2 DEF RegisterBootUnlock, Escrow!Register
    <2>5. ASSUME NEW p \in Invocation, QuietCall(p) \/ LuksOpen(p)
          PROVE  UNCHANGED <<vault, header, slots, boot>>
      BY <2>5 DEF QuietCall, Login, VaultDown, ProbeDevice, ReadVaultKey,
                  TestManagedKey, ReadExistingKey, EnsureVaultKey, ConfirmKey,
                  VerifyUuid, VerifyKey, DeviceExists, Abort, LuksOpen, Decide, stores,
                  LuksUuid, LuksTestKey
    <2>6. ASSUME NEW p \in Invocation, NEW line \in CommandLines, Start(p, line)
          PROVE  UNCHANGED <<vault, header, slots, boot>>
      BY <2>6 DEF Start, stores
    <2>7. Reboot => UNCHANGED <<vault, header, slots, boot>>
      BY DEF Reboot, stores
    <2>8. UNCHANGED vars => UNCHANGED <<vault, header, slots, boot>>
      BY DEF vars
    <2> QED
      BY <2>1, <2>2, <2>3, <2>4, <2>5, <2>6, <2>7, <2>8
         DEF Next, Step, QuietCall, Escrow!Next
  <1> QED
    BY <1>1, <1>2, Invariance, PTL DEF Spec, ImplementsEscrow, Escrow!Spec

\* What escrow is for: a key that Vault holds is never replaced, whatever commands
\* run, fail and are retried.
THEOREM KeysNeverReplaced == ASSUME Disciplined PROVE Spec => KeyNeverOverwritten
  <1>1. ASSUME IndInv, [Escrow!Next]_(Escrow!vars),
               NEW c \in Config, NEW u \in Uuid, vault[c][u] \in Key
        PROVE  vault'[c][u] = vault[c][u]
    <2>1. vault \in [Config -> [Uuid -> Secret]] /\ vault[c][u] # Absent
      BY <1>1, SentinelsDiffer DEF IndInv, TypeInv, TypeOK
    <2>2. CASE Escrow!Store
      BY <2>1, <2>2 DEF Escrow!Store
    <2>3. CASE UNCHANGED vault
      BY <2>3
    <2> QED
      BY <1>1, <2>2, <2>3
         DEF Escrow!Next, Escrow!Format, Escrow!AddSlot, Escrow!Register, Escrow!vars
  <1>2. IndInv /\ [Escrow!Next]_(Escrow!vars) =>
          [\A c \in Config, u \in Uuid :
             vault[c][u] \in Key => vault'[c][u] = vault[c][u]]_vars
    BY <1>1
  <1> QED
    BY <1>2, RefinesEscrow, Invariance, PTL
       DEF KeyNeverOverwritten, ImplementsEscrow, Escrow!Spec
=============================================================================
