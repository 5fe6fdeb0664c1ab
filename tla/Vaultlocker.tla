----------------------------- MODULE Vaultlocker -----------------------------
(***************************************************************************)
(* The encrypt, enroll and decrypt commands of vaultlocker/shell.py, over   *)
(* the four stores they change: the Vault KV mount, the LUKS header and     *)
(* slots of each device, the open device-mapper mappings, and the boot      *)
(* registration of each UUID.                                               *)
(*                                                                         *)
(* A command is a process.  It takes one step for each call that leaves the *)
(* process (hvac, cryptsetup, the boot registration), so commands on the    *)
(* same or on different devices, and the decrypt commands that boot starts, *)
(* interleave at every call.  A call can fail without effect (Abort), with  *)
(* its effect (the answer was lost or came after the timeout), or half way  *)
(* (luksFormat); the process can be killed and the machine can restart.     *)
(*                                                                         *)
(* An invocation names the UUID (uuid.uuid4) and the key (generate_key) it  *)
(* makes: both are fresh, so the invocation itself stands for each of them. *)
(***************************************************************************)
EXTENDS Naturals, FiniteSets

CONSTANTS
  Invocation,    \* runs of the vaultlocker program
  Device,        \* block devices
  NamedUuid,     \* UUIDs given with --uuid or already on a device
  ExternalKey,   \* keys not made here: passphrases, provisioned Vault keys
  Config,        \* configuration files: each its own Vault path per UUID
  CommandLines,  \* the commands that may be started
  Origins,       \* the states the stores may start in
  MaxRetries,    \* attempts that --retry leaves time for, after the first
  Serialised,    \* TRUE: one encrypt or enroll at a time on a device
  NoUuid, NoKey, NoDevice, NoConfig, NoCommand,
  Absent,        \* the Vault path does not exist (InvalidPath)
  Malformed      \* the Vault path has no usable dmcrypt_key

Uuid   == Invocation \cup NamedUuid
Key    == Invocation \cup ExternalKey
Secret == Key \cup {Absent, Malformed}

Ops == {"encrypt", "enroll", "decrypt"}

\* device is BLOCK_DEVICE (decrypt has none), uuid is --uuid or decrypt's UUID,
\* existing is what the operator answers when enroll asks for the current key: any
\* key, a managed one read out of Vault included.
Command == [op : Ops, device : Device \cup {NoDevice},
            uuid : NamedUuid \cup Invocation \cup {NoUuid},
            config : Config, existing : Key \cup {NoKey}]

Origin == [vault  : [Config -> [Uuid -> ExternalKey \cup {Absent, Malformed}]],
           header : [Device -> NamedUuid \cup {NoUuid}],
           slots  : [Device -> SUBSET ExternalKey]]

\* A line the argument parser accepts: encrypt and enroll name a device, decrypt
\* a UUID; nobody can name a UUID for encrypt before it exists.
WellFormed(line) ==
  IF line.op = "decrypt" THEN line.device = NoDevice /\ line.uuid \in Uuid
  ELSE line.device \in Device /\ line.uuid \in NamedUuid \cup {NoUuid}

ASSUME SentinelsDiffer ==
  /\ NoUuid \notin Uuid /\ NoKey \notin Key /\ NoDevice \notin Device
  /\ NoConfig \notin Config /\ NoCommand \notin Command
  /\ Key \cap {Absent, Malformed, NoKey} = {} /\ Absent # Malformed
ASSUME NamesDiffer == Invocation \cap (NamedUuid \cup ExternalKey) = {}
ASSUME LinesWellFormed ==
  CommandLines \subseteq Command /\ \A line \in CommandLines : WellFormed(line)
ASSUME OriginsWellFormed ==
  /\ Origins \subseteq Origin
  /\ \A o \in Origins, d \in Device : o.header[d] = NoUuid => o.slots[d] = {}
  \* the path of a UUID not yet made holds nothing
  /\ \A o \in Origins, c \in Config, p \in Invocation : o.vault[c][p] = Absent
ASSUME RetriesNat == MaxRetries \in Nat /\ Serialised \in BOOLEAN

VARIABLES
  vault,    \* [Config -> [Uuid -> Secret]]
  header,   \* [Device -> UUID of the LUKS header, NoUuid on a plain device]
  slots,    \* [Device -> keys that open it]
  mapper,   \* [Uuid -> the device open as /dev/mapper/crypt-<uuid>]
  boot,     \* [Uuid -> the configuration its boot unlock uses]
  pc,       \* [Invocation -> the next call of the run]
  cmd,      \* [Invocation -> the command line]
  luks,     \* [Invocation -> block_uuid]
  key,      \* [Invocation -> vault_key / new_key]
  retries   \* [Invocation -> attempts made after the first]

stores == <<vault, header, slots, boot>>
locals == <<luks, key, retries>>
vars   == <<vault, header, slots, mapper, boot, pc, cmd, luks, key, retries>>

Labels == {"idle", "login", "probe", "read", "test", "credential", "ensure",
           "write", "confirm", "format", "verify", "verifykey", "addkey",
           "present", "open", "register", "ok", "failed"}

Active(p) == pc[p] \notin {"idle", "ok", "failed"}
Provisions(p) == cmd[p] # NoCommand /\ cmd[p].op \in {"encrypt", "enroll"}

\* new_uuid of shell.encrypt: the one asked for, else the one just made.
NewUuid(p) == IF cmd[p].uuid = NoUuid THEN p ELSE cmd[p].uuid

\* What the KV path of the run's configuration, host and UUID holds.
SecretAt(p) == vault[cmd[p].config][luks[p]]

\* cryptsetup opens a device exclusively: luksFormat and open refuse one that
\* is behind a mapping.
InUse(d) == \E u \in Uuid : mapper[u] = d

\* Every variable has its type, and no run reaches a call that needs block_uuid
\* with a device on which _get_existing_luks_uuid or luks_uuid found none.
TypeOK ==
  /\ vault \in [Config -> [Uuid -> Secret]]
  /\ header \in [Device -> Uuid \cup {NoUuid}]
  /\ slots \in [Device -> SUBSET Key]
  /\ mapper \in [Uuid -> Device \cup {NoDevice}]
  /\ boot \in [Uuid -> Config \cup {NoConfig}]
  /\ pc \in [Invocation -> Labels]
  /\ cmd \in [Invocation -> CommandLines \cup {NoCommand}]
  /\ luks \in [Invocation -> Uuid \cup {NoUuid}]
  /\ key \in [Invocation -> Key \cup {NoKey}]
  /\ retries \in [Invocation -> 0..MaxRetries]
  \* a run that got past its first look at the device or the mapping has a UUID
  /\ \A p \in Invocation :
       pc[p] \notin {"idle", "login", "probe", "ok", "failed"} =>
         luks[p] \in Uuid

Init ==
  /\ \E o \in Origins : vault = o.vault /\ header = o.header /\ slots = o.slots
  /\ mapper  = [u \in Uuid |-> NoDevice]
  /\ boot    = [u \in Uuid |-> NoConfig]
  /\ pc      = [p \in Invocation |-> "idle"]
  /\ cmd     = [p \in Invocation |-> NoCommand]
  /\ luks    = [p \in Invocation |-> NoUuid]
  /\ key     = [p \in Invocation |-> NoKey]
  /\ retries = [p \in Invocation |-> 0]

-----------------------------------------------------------------------------
(* How a run moves on. *)

Goto(p, label) == pc' = [pc EXCEPT ![p] = label]

\* The run is over: main exits with the result or with an error's code.
Leave(p, label) ==
  /\ Goto(p, label)
  /\ luks'    = [luks EXCEPT ![p] = NoUuid]
  /\ key'     = [key EXCEPT ![p] = NoKey]
  /\ retries' = [retries EXCEPT ![p] = 0]

\* A step that reads a store and only decides what comes next.
Decide(p, label) ==
  /\ IF label \in {"ok", "failed"} THEN Leave(p, label)
     ELSE Goto(p, label) /\ UNCHANGED locals
  /\ UNCHANGED <<stores, mapper, cmd>>

\* main parses the arguments, reads the configuration and calls the handler.
Start(p, line) ==
  /\ pc[p] = "idle"
  /\ Serialised /\ line.op # "decrypt" =>
       \A q \in Invocation :
         Active(q) /\ Provisions(q) => cmd[q].device # line.device
  /\ cmd' = [cmd EXCEPT ![p] = line]
  /\ Goto(p, "login")
  /\ UNCHANGED <<stores, mapper, locals>>

\* The start of an attempt: AppRole login.
Login(p) ==
  /\ pc[p] = "login"
  /\ Goto(p, IF cmd[p].op = "decrypt" THEN "present" ELSE "probe")
  /\ luks' = [luks EXCEPT ![p] =
                IF cmd[p].op = "decrypt" THEN cmd[p].uuid ELSE NoUuid]
  /\ UNCHANGED <<stores, mapper, cmd, key, retries>>

\* Slip: stop conditions of the retry forgotten.
VaultDownForever(p) ==
  /\ pc[p] \in {"login", "read", "ensure"}
  /\ Goto(p, "login")
  /\ luks' = [luks EXCEPT ![p] = NoUuid]
  /\ key'  = [key EXCEPT ![p] = NoKey]
  /\ UNCHANGED <<stores, mapper, cmd, retries>>

\* Login or a read of Vault raised VaultDown or VaultNotInitialized: another
\* attempt while --retry lasts.  _store_and_validate_key turns the same errors
\* of its write and its read-back into VaultWriteError and VaultReadError.
VaultDown(p) ==
  /\ pc[p] \in {"login", "read", "ensure"}
  /\ retries[p] < MaxRetries
  /\ Goto(p, "login")
  /\ luks'    = [luks EXCEPT ![p] = NoUuid]
  /\ key'     = [key EXCEPT ![p] = NoKey]
  /\ retries' = [retries EXCEPT ![p] = @ + 1]
  /\ UNCHANGED <<stores, mapper, cmd>>

-----------------------------------------------------------------------------
(* cryptsetup: what it says of a device and what it does to one. *)

\* luksUUID; exit code 1, for a device without a header, is NoUuid here.
LuksUuid(d) == header[d]

\* open --test-passphrase; every exit code but 0 and 2 is Abort.
LuksTestKey(k, d) == k \in slots[d]

\* luksFormat --batch-mode formats whatever is there, and removes its slots.
LuksFormats(d, u, written) ==
  /\ ~ InUse(d)
  /\ header' = [header EXCEPT ![d] = u]
  /\ slots'  = [slots EXCEPT ![d] = written]

\* luksAddKey needs a key that opens the device, and removes none.
LuksAddsKey(d, existing, new) ==
  /\ existing \in slots[d]
  /\ slots' = [slots EXCEPT ![d] = @ \cup {new}]

-----------------------------------------------------------------------------
(* The decisions: what a run finds, and what it does next. *)

\* Slip: enroll takes a device without a LUKS header for one it can enroll.
ProbeTrustsDevice(p) ==
  LET found == LuksUuid(cmd[p].device)
      plain == found = NoUuid /\ cmd[p].op = "encrypt"
  IN /\ pc[p] = "probe"
     /\ Goto(p, IF plain THEN "ensure" ELSE "read")
     /\ luks' = [luks EXCEPT ![p] = IF plain THEN NewUuid(p) ELSE found]
     /\ key'  = [key EXCEPT ![p] = IF plain THEN p ELSE NoKey]
     /\ UNCHANGED <<stores, mapper, cmd, retries>>

\* Slip: encrypt takes every failure of luksUUID, its timeout included, for the
\* exit code that says there is no header.
ProbeInconclusive(p) ==
  /\ pc[p] = "probe"
  /\ \E found \in {LuksUuid(cmd[p].device), NoUuid} :
       LET plain == found = NoUuid /\ cmd[p].op = "encrypt"
       IN IF found = NoUuid /\ ~ plain THEN Leave(p, "failed")
          ELSE /\ Goto(p, IF plain THEN "ensure" ELSE "read")
               /\ luks' = [luks EXCEPT ![p] = IF plain THEN NewUuid(p) ELSE found]
               /\ key'  = [key EXCEPT ![p] = IF plain THEN p ELSE NoKey]
               /\ UNCHANGED retries
  /\ UNCHANGED <<stores, mapper, cmd>>

\* encrypt and enroll look for a LUKS header.  A plain device is for encrypt to
\* format and for enroll to refuse; encrypt refuses a header whose UUID is not
\* the one asked for.
ProbeDevice(p) ==
  LET found == LuksUuid(cmd[p].device)
      plain == found = NoUuid
      next  == IF cmd[p].op = "encrypt"
               THEN IF plain THEN "ensure"
                    ELSE IF cmd[p].uuid \in {NoUuid, found} THEN "read"
                    ELSE "failed"
               ELSE IF plain THEN "failed" ELSE "read"
  IN /\ pc[p] = "probe"
     /\ IF next = "failed" THEN Leave(p, "failed")
        ELSE /\ Goto(p, next)
             /\ luks' = [luks EXCEPT ![p] = IF plain THEN NewUuid(p) ELSE found]
             /\ key'  = [key EXCEPT ![p] = IF plain THEN p ELSE NoKey]
             /\ UNCHANGED retries
     /\ UNCHANGED <<stores, mapper, cmd>>

\* The managed key of a device that has a header.  Only enroll goes on without.
ReadVaultKey(p) ==
  LET found   == SecretAt(p)
      missing == found = Absent
  IN /\ pc[p] = "read"
     /\ IF found = Malformed \/ (missing /\ cmd[p].op # "enroll")
        THEN Leave(p, "failed")
        ELSE /\ Goto(p, IF missing THEN "credential"
                        ELSE IF cmd[p].op = "decrypt" THEN "open" ELSE "test")
             /\ key' = [key EXCEPT ![p] = IF missing THEN NoKey ELSE found]
             /\ UNCHANGED <<luks, retries>>
     /\ UNCHANGED <<stores, mapper, cmd>>

\* Does the managed key open the device already?
TestManagedKey(p) ==
  /\ pc[p] = "test"
  /\ Decide(p, IF LuksTestKey(key[p], cmd[p].device) THEN "present"
               ELSE IF cmd[p].op = "enroll" THEN "credential" ELSE "failed")

\* Slip: the new key goes on the device and Vault is left out.
ExistingKeySkipsVault(p) ==
  /\ pc[p] = "credential"
  /\ IF LuksTestKey(cmd[p].existing, cmd[p].device)
     THEN /\ Goto(p, "addkey")
          /\ key' = [key EXCEPT ![p] = IF key[p] = NoKey THEN p ELSE @]
          /\ UNCHANGED <<luks, retries>>
     ELSE Leave(p, "failed")
  /\ UNCHANGED <<stores, mapper, cmd>>

\* enroll asks for the current key and tries it; a key that Vault already has is
\* used again, otherwise one is generated and goes to Vault first.
ReadExistingKey(p) ==
  /\ pc[p] = "credential"
  /\ IF LuksTestKey(cmd[p].existing, cmd[p].device)
     THEN /\ Goto(p, IF key[p] = NoKey THEN "write" ELSE "addkey")
          /\ key' = [key EXCEPT ![p] = IF key[p] = NoKey THEN p ELSE @]
          /\ UNCHANGED <<luks, retries>>
     ELSE Leave(p, "failed")
  /\ UNCHANGED <<stores, mapper, cmd>>

\* Slip: the device is formatted before the key is in Vault.
EnsureSkipsWrite(p) ==
  /\ pc[p] = "ensure"
  /\ Decide(p, IF SecretAt(p) \in {Absent, key[p]} THEN "format" ELSE "failed")

\* Slip: what the path holds is not compared.
EnsureOverwrites(p) ==
  /\ pc[p] = "ensure"
  /\ Decide(p, IF SecretAt(p) = key[p] THEN "format" ELSE "write")

\* encrypt may write the path only if nothing is there.
EnsureVaultKey(p) ==
  /\ pc[p] = "ensure"
  /\ Decide(p, IF SecretAt(p) = Absent THEN "write"
               ELSE IF SecretAt(p) = key[p] THEN "format" ELSE "failed")

\* The read-back of what was written.
ConfirmKey(p) ==
  /\ pc[p] = "confirm"
  /\ Decide(p, IF SecretAt(p) # key[p] THEN "failed"
               ELSE IF cmd[p].op = "encrypt" THEN "format" ELSE "addkey")

\* After luksFormat failed or timed out: is the header there nevertheless?
VerifyUuid(p) ==
  /\ pc[p] = "verify"
  /\ Decide(p, IF LuksUuid(cmd[p].device) = luks[p] THEN "verifykey" ELSE "failed")

\* Slip: the exit code of luksAddKey is trusted, and it was lost.
VerifyKeyNever(p) == pc[p] = "verifykey" /\ Decide(p, "present")

\* After that, and after luksAddKey whatever it answered: does the key open it?
VerifyKey(p) ==
  /\ pc[p] = "verifykey"
  /\ Decide(p, IF LuksTestKey(key[p], cmd[p].device) THEN "present" ELSE "failed")

\* Slip: the test for the mapping is the wrong way round.
DeviceExistsInverted(p) ==
  LET exists == mapper[luks[p]] = NoDevice
  IN /\ pc[p] = "present"
     /\ Decide(p, IF cmd[p].op = "decrypt" THEN IF exists THEN "ok" ELSE "read"
                  ELSE IF exists THEN "register" ELSE "open")

\* Slip: encrypt and enroll register the device and leave it to boot to open it.
OpenLeftToBoot(p) ==
  LET exists == mapper[luks[p]] # NoDevice
  IN /\ pc[p] = "present"
     /\ Decide(p, IF cmd[p].op = "decrypt" THEN IF exists THEN "ok" ELSE "read"
                  ELSE "register")

\* A mapping of that name is left alone; decrypt has then nothing to do.
DeviceExists(p) ==
  LET exists == mapper[luks[p]] # NoDevice
  IN /\ pc[p] = "present"
     /\ Decide(p, IF cmd[p].op = "decrypt" THEN IF exists THEN "ok" ELSE "read"
                  ELSE IF exists THEN "register" ELSE "open")

-----------------------------------------------------------------------------
(* The calls that change a store.  The answer of each may be lost: then the  *)
(* store has changed and the run goes where its error handling sends it.     *)

\* Slip: an error of the write is retried like one of the reads.
WriteKeyRetried(p) ==
  /\ pc[p] = "write"
  /\ vault' = [vault EXCEPT ![cmd[p].config][luks[p]] = key[p]]
  /\ Goto(p, "confirm") \/ Goto(p, "login")
  /\ UNCHANGED <<header, slots, mapper, boot, cmd, locals>>

\* Both KV versions create or overwrite; neither is asked to check-and-set.
WriteKey(p) ==
  /\ pc[p] = "write"
  /\ vault' = [vault EXCEPT ![cmd[p].config][luks[p]] = key[p]]
  /\ \/ Goto(p, "confirm") /\ UNCHANGED locals
     \/ Leave(p, "failed")
  /\ UNCHANGED <<header, slots, mapper, boot, cmd>>

\* Interrupted, luksFormat may have written the header and not the slot.  An error
\* leads to _format_completed.
LuksFormat(p) ==
  LET d == cmd[p].device
  IN /\ pc[p] = "format"
     /\ \/ UNCHANGED <<header, slots>> /\ Goto(p, "verify")
        \/ /\ LuksFormats(d, luks[p], {key[p]})
           /\ \E label \in {"present", "verify"} : Goto(p, label)
        \/ LuksFormats(d, luks[p], {}) /\ Goto(p, "verify")
     /\ UNCHANGED <<vault, mapper, boot, cmd, locals>>

\* The answer of luksAddKey is not trusted either way, the key is tried after it.
LuksAddKey(p) ==
  /\ pc[p] = "addkey"
  /\ UNCHANGED slots \/ LuksAddsKey(cmd[p].device, cmd[p].existing, key[p])
  /\ Goto(p, "verifykey")
  /\ UNCHANGED <<vault, header, mapper, boot, cmd, locals>>

\* decrypt lets cryptsetup find a device by UUID, the others name theirs.
OpenSources(p) == IF cmd[p].op = "decrypt"
                  THEN {d \in Device : header[d] = luks[p]} ELSE {cmd[p].device}

\* Slip: a failed open is logged and the device registered all the same.
LuksOpenIgnored(p) ==
  LET able == {d \in OpenSources(p) :
                 key[p] \in slots[d] /\ ~ InUse(d) /\ mapper[luks[p]] = NoDevice}
  IN /\ pc[p] = "open"
     /\ IF able = {} THEN UNCHANGED mapper
        ELSE \E d \in able : mapper' = [mapper EXCEPT ![luks[p]] = d]
     /\ IF cmd[p].op = "decrypt" THEN Leave(p, "ok")
        ELSE Goto(p, "register") /\ UNCHANGED locals
     /\ UNCHANGED <<stores, cmd>>

\* cryptsetup open: the key must open the device, the device must be free, and
\* so must the name.  If the answer was lost the mapping stays and the run fails.
LuksOpen(p) ==
  LET able == {d \in OpenSources(p) :
                 /\ key[p] \in slots[d]
                 /\ ~ InUse(d)
                 /\ mapper[luks[p]] = NoDevice}
  IN /\ pc[p] = "open"
     /\ IF able = {} THEN Leave(p, "failed") /\ UNCHANGED mapper
        ELSE /\ \E d \in able : mapper' = [mapper EXCEPT ![luks[p]] = d]
             /\ \/ Leave(p, "failed")
                \/ IF cmd[p].op = "decrypt" THEN Leave(p, "ok")
                   ELSE Goto(p, "register") /\ UNCHANGED locals
     /\ UNCHANGED <<stores, cmd>>

\* Slip: every unlock unit keeps the default configuration file.
RegisterDefaultConfig(p) ==
  /\ pc[p] = "register"
  /\ boot' = [boot EXCEPT ![luks[p]] = CHOOSE c \in Config : TRUE]
  /\ \E label \in {"ok", "failed"} : Leave(p, label)
  /\ UNCHANGED <<vault, header, slots, mapper, cmd>>

\* Writing the unit drop-in or the Pebble layer; enabling it may still fail.
RegisterBootUnlock(p) ==
  /\ pc[p] = "register"
  /\ boot' = [boot EXCEPT ![luks[p]] = cmd[p].config]
  /\ \E label \in {"ok", "failed"} : Leave(p, label)
  /\ UNCHANGED <<vault, header, slots, mapper, cmd>>

-----------------------------------------------------------------------------
\* Any call may fail without effect in a way the run does not recover from, and
\* the process may be killed between any two calls.
Abort(p) ==
  /\ Active(p)
  /\ Leave(p, "failed")
  /\ UNCHANGED <<stores, mapper, cmd>>

\* The machine restarts: every run and every mapping is gone.  What boot starts
\* for the registered UUIDs are decrypt commands like any other.
Reboot ==
  /\ pc'      = [p \in Invocation |-> IF Active(p) THEN "failed" ELSE pc[p]]
  /\ mapper'  = [u \in Uuid |-> NoDevice]
  /\ luks'    = [p \in Invocation |-> NoUuid]
  /\ key'     = [p \in Invocation |-> NoKey]
  /\ retries' = [p \in Invocation |-> 0]
  /\ UNCHANGED <<stores, cmd>>

\* One call of the run, with any of its outcomes.
Step(p) ==
  \/ Login(p)          \/ VaultDown(p)       \/ ProbeDevice(p)
  \/ ReadVaultKey(p)   \/ TestManagedKey(p)  \/ ReadExistingKey(p)
  \/ EnsureVaultKey(p) \/ WriteKey(p)        \/ ConfirmKey(p)
  \/ LuksFormat(p)     \/ VerifyUuid(p)      \/ LuksAddKey(p)
  \/ VerifyKey(p)      \/ DeviceExists(p)    \/ LuksOpen(p)
  \/ RegisterBootUnlock(p)

Next ==
  \/ \E p \in Invocation : \/ \E line \in CommandLines : Start(p, line)
                           \/ Step(p)
                           \/ Abort(p)
  \/ Reboot

Spec == Init /\ [][Next]_vars

\* A command that runs goes on running: each of its calls has a timeout or an
\* answer.  Nothing makes an operator start one or the machine restart.
FairSpec == Spec /\ \A p \in Invocation : WF_vars(Step(p) \/ Abort(p))

-----------------------------------------------------------------------------
(* How the program has to be used for the safety properties to hold. *)

\* The devices that are to carry a UUID someone chose.
HomeOf(u) ==
  {line.device : line \in {l \in CommandLines : l.op = "encrypt" /\ l.uuid = u}}
    \cup {d \in Device : \E o \in Origins : o.header[d] = u}

\* No two devices are given the same UUID, by --uuid or by cloning a header.
UuidNamesOneDevice ==
  \A u \in NamedUuid : \A d, e \in HomeOf(u) : d = e

Disciplined == Serialised /\ UuidNamesOneDevice

-----------------------------------------------------------------------------
(* The properties. *)

\* A key vaultlocker made that opens a device can be recovered: it is in Vault,
\* under the UUID the device has now, in some configuration's path.
Escrowed ==
  \A d \in Device : \A k \in slots[d] \cap Invocation :
    \E c \in Config : vault[c][header[d]] = k

\* What boot is registered to do can succeed: the path that the registered
\* configuration leads to holds a key that opens a device with that UUID.
BootUnlockable ==
  \A u \in Uuid : boot[u] # NoConfig =>
    \E d \in Device : header[d] = u /\ vault[boot[u]][u] \in slots[d]

SuccessStep ==
  \A p \in Invocation :
    Provisions(p) /\ Active(p) /\ pc'[p] = "ok" =>
      /\ mapper'[luks[p]] = cmd[p].device
      /\ boot'[luks[p]] = cmd[p].config

\* encrypt and enroll report success only when the device they were given is
\* the one open under the UUID they report, and boot will use their own
\* configuration for it, after a reused mapping as after one they opened.
SuccessOpensDevice == [][SuccessStep]_vars

\* An attempt that --retry makes starts where the first one did: no store holds
\* a key of the run, so it cannot meet or strand what it left itself.
RetryStartsClean ==
  \A p \in Invocation : pc[p] = "login" =>
    /\ \A c \in Config, u \in Uuid : vault[c][u] # p
    /\ \A d \in Device : p \notin slots[d]

\* The stores only change in the ways key escrow allows.
Escrow == INSTANCE KeyEscrow
ImplementsEscrow == Escrow!Spec

\* A path of Vault that holds a key goes on holding that key.
KeyNeverOverwritten ==
  [][\A c \in Config, u \in Uuid :
       vault[c][u] \in Key => vault'[c][u] = vault[c][u]]_vars

\* A device that boot is registered to unlock keeps its header and all its slots.
\* encrypt looks for a header once and formats many calls later: no run whose look
\* is older than the device formats over what others have set up and registered.
RegisteredKept ==
  [][\A d \in Device :
       header[d] \in Uuid /\ boot[header[d]] # NoConfig =>
         header'[d] = header[d] /\ slots[d] \subseteq slots'[d]]_vars

\* Every command that starts ends, with or without Vault.
CommandsEnd == \A p \in Invocation : Active(p) ~> ~ Active(p)
=============================================================================
