# A verification development of vaultlocker

vaultlocker encrypts block devices with dm-crypt/LUKS and keeps their keys in
HashiCorp Vault.  This directory models the parts of it where an order of calls,
a failure or a second process can cost data or leave a machine that does not
boot; checks the models with TLC; and proves the central safety properties with
TLAPS for any number of runs, devices, UUIDs and configurations.

## 1. The system

| Component | State it keeps | Operations | Source |
|---|---|---|---|
| Commands | per run: `block_uuid`, the key, the attempt | `encrypt`, `enroll`, `decrypt`; retry wrapper | `vaultlocker/shell.py` |
| Vault access | KV paths `<backend>/<host>/<uuid>` | `read`, `write` (v1 and v2), `delete` (no caller) | `vaultlocker/vault.py` |
| cryptsetup, udev | LUKS header, key slots, device-mapper names | `luks_uuid`, `luks_test_key`, `luks_format`, `luks_add_key`, `luks_open`, `udevadm_*` | `vaultlocker/dmcrypt.py` |
| Boot registration, host | drop-in file, enabled unit | `register_decrypt_service` | `vaultlocker/systemd.py` |
| Boot registration, snap | layer files, lock, Pebble's plan and services | `register_boot_unlock` | `vaultlocker/pebble_layers.py` |
| Boot unlock | which UUIDs are unlocked, and when | `vaultlocker decrypt` under systemd or Pebble | `vaultlocker/boot_unlock.py`, `tools/vaultlocker-decrypt@.service` |
| Configuration | Vault address, backend, host name | `get_config`, `get_hostname` | `vaultlocker/shell.py` |
| Errors | exit code, JSON | exception classes | `vaultlocker/exceptions.py`, `exit_codes.py` |
| Tests, packaging | none at run time | | `vaultlocker/tests`, `snap`, `gate` |

**How they interact.**  A command is a process of its own.  It logs in to Vault,
then calls Vault, cryptsetup and the boot registration one after the other, each
a request with an answer; between two calls any other process may run.  Nothing
is shared in memory.  The shared state is outside: Vault, the devices, the
mappings, and the files of the boot registration.  There is one lock in the
program, the `flock` of `pebble_layers.py:203`; nothing orders two commands on
one device.  At boot, systemd or Pebble starts a `decrypt` for each registered
UUID, also next to a command that an operator (or a charm hook) starts.

**What is hard.**  Four stores have to agree and no transaction spans them, so
the order of the calls is the design: key to Vault, read it back, key to the
device, try it, open, register.  Each call can fail before or after its effect
(a lost answer, cryptsetup killed at its 300 s timeout), the process can be
killed, the machine can stop, and an operator then runs the command again, with
the same or with other arguments.  `--retry` runs the whole handler again inside
one process.  The hazards this leads to are listed, each at its line, in
`PROJECT.json`; sections 3 and 6 say which are covered.

**What makes each component correct.**

* Commands: no device opens with a key that vaultlocker made and Vault does not
  have; no key in Vault is overwritten; no device with a header, and none that is
  registered, is formatted;
  success means that the device is open and registered; a run that was cut off
  can be run again; a command ends.
* Boot registration: what the next boot finds is a complete registration that
  somebody asked for; once it is there, it is not lost; concurrent registrations
  do not disturb one another.
* Boot unlock: a registered device whose key is in Vault is opened in the end.

## 2. The modules

| Module | What it is |
|---|---|
| `KeyEscrow` | Abstract specification of the commands: Vault only grows, a plain device is formatted and a slot added only for a key in escrow, boot is registered only for what can be unlocked. |
| `Vaultlocker` | The three commands over Vault, headers, slots, mappings and boot registration; all outcomes of each call; kills and restarts; the properties. |
| `VaultlockerInvariant` | The inductive invariant. |
| `VaultlockerProofs` | Theorems and proofs about `Vaultlocker`. |
| `VaultlockerRace` | The inductive invariant for encrypts that nobody orders, when UUIDs are generated and enroll is not answered with a managed key (`GeneratedUuids`). |
| `VaultlockerRaceProofs` | The theorems about these. |
| `VaultlockerAnyOrder` | The inductive invariant for any commands in any order, with nothing assumed. |
| `VaultlockerAnyOrderProofs` | The theorems that follow from it. |
| `MCVaultlocker` | Command lines and starting states for TLC. |
| `BootRegistry` | Abstract specification of a boot registration. |
| `PebbleLayers` | `register_boot_unlock` of the snap: lock, files, Pebble's plan and services; kills and restarts of Pebble; its inductive invariant. |
| `PebbleLayersProofs` | Theorems and proofs about `PebbleLayers`. |
| `MCPebbleLayers` | The requests for TLC. |
| `SystemdUnits` | `register_decrypt_service` of the host: drop-in, enablement; failures, kills, restarts; its inductive invariant. |
| `SystemdUnitsProofs` | Theorems and proofs about `SystemdUnits`. |
| `MCSystemdUnits` | Names for TLC. |
| `BootUnlock` | The unlock service of one registered device under Pebble or systemd, next to decrypts by hand; Vault, the device, faults; its inductive invariant. |
| `BootUnlockProofs` | Theorems and proofs about `BootUnlock`. |
| `MCBootUnlock` | Names for TLC. |

How they fit together.  `Vaultlocker` has the boot registration as one step and its
`BootUnlockable` says that what is registered has its key in Vault.  `PebbleLayers` and
`SystemdUnits` are that step in full, in the snap and on a host, both against the same
`BootRegistry`, which the first implements and the second does not.  `BootUnlock`
starts where `BootUnlockable` ends: the key is there; is the device opened?

### `Vaultlocker` and the code

State.  `vault[c][u]` is what the KV path of configuration `c` and UUID `u`
holds: a key, `Absent` (hvac raises `InvalidPath`) or `Malformed` (data without a
usable `dmcrypt_key`).  `header[d]` and `slots[d]` are what `cryptsetup luksUUID`
and `open --test-passphrase` find out about a device (`LuksUuid`, `LuksTestKey`) and
what `luksFormat` and `luksAddKey` change (`LuksFormats`, `LuksAddsKey`).  `mapper[u]` is the
device behind `/dev/mapper/crypt-<u>`.  `boot[u]` is the configuration that the
unlock of `u` was registered with.  `pc`, `cmd`, `luks`, `key`, `retries` are the
run's own: the next call, the command line, `block_uuid`, the key in hand, and
the attempts so far.  `encrypt` makes its UUID and key before its first attempt,
so they survive a retry: an invocation *is* its fresh UUID and its fresh key.
`enroll` makes a key only at `shell.py:525`, in an attempt that no retry follows,
so there too one key for each invocation is enough.  `cmd[p].existing` is the answer to
enroll's question for the current key (`_read_existing_key`): any key, one that vaultlocker
made and somebody has read out of Vault included, which is the only kind of key that a
device made by `encrypt` has.

Actions.  One for each call that leaves the process, together with all the code
up to the next one:

| Label | Action | Code |
|---|---|---|
| `login` | `Login` | `_vault_client`, at the start of each attempt |
| `probe` | `ProbeDevice` | `shell.py:477-485`, `499-505` |
| `read` | `ReadVaultKey` | `_read_vault_key` as called at 376, 509, 570 |
| `test` | `TestManagedKey` | 385, 511 |
| `credential` | `ReadExistingKey` | 518-526 |
| `ensure` | `EnsureVaultKey` | `_ensure_vault_key` |
| `write`, `confirm` | `WriteKey`, `ConfirmKey` | the two halves of `_store_and_validate_key` |
| `format` | `LuksFormat` | 417-436 |
| `verify`, `verifykey` | `VerifyUuid`, `VerifyKey` | `_format_completed`; 538 |
| `addkey` | `LuksAddKey` | 528-536 |
| `present` | `DeviceExists` | `_device_exists` at 347, 560 |
| `open` | `LuksOpen` | `dmcrypt.luks_open` at 349, 577 |
| `register` | `RegisterBootUnlock` | `_register_boot_unlock` |

A call that changes a store has up to three outcomes: nothing happened (`Abort`,
or the failure branch where the code goes on), it happened and the answer came,
it happened and the answer was lost.  `LuksFormat` has a fourth: the header was
written and the slot was not.  `VaultDown` is the retry; it applies to the login
and to reads, not to the write and its read-back, whose errors
`_store_and_validate_key` turns into classes that are not retried.  `Abort` also
stands for a kill between two calls.  `Reboot` ends every run and every mapping.

Each invocation starts once; a rerun of a command is another invocation, so
three invocations give two reruns.

Taken for granted about what is not in this repository: cryptsetup opens a
device exclusively, so it refuses to format or open one that is behind a mapping;
it refuses a mapper name that is taken; `luksFormat --batch-mode` formats whatever
is there; Vault reads return the last write; `uuid4` and `generate_key` never
repeat.  Left out: what udev does (`udevadm_rescan` and `udevadm_settle` change
nothing the program reads to decide), a cryptsetup that works on after the
process that started it was killed, an operator who closes a mapping or deletes
a Vault path by hand, and the order in which a disk makes writes durable.
`boot` changes in one step: `PebbleLayers` shows why this is right in the snap;
for the host it leaves out a window, which `SystemdUnits` has (section 4, number 6).

Two restrictions on how the program is used are stated as such. `Serialised`
(a constant) makes `Start` wait while another encrypt or enroll of the same device
is running; `UuidNamesOneDevice` says that no UUID is meant for two devices.
Together they are `Disciplined`.  **The program enforces neither.**  A first group of
theorems assumes them, and three runs show what happens without.  A second group does
without `Serialised` and assumes `GeneratedUuids` in its place (`VaultlockerRace`): no
`--uuid`, no copied headers, enroll only of devices that had no header at first, and no
managed key as the answer to enroll's prompt.  The last clause means that an enroll there
can reuse the key that Vault has and cannot make one, so that this group is about
overlapping encrypts; section 4 tells, with number 2, what enrolls with such an answer can
do when nobody orders them.  A third group assumes nothing of the order or the answers
(`VaultlockerAnyOrder`).

### `PebbleLayers` and the code

A writer is one call of `register_boot_unlock`.  Its steps are the lock, the
choice of the path, `open` of the temporary file, the write, `os.replace`, the
read and the send halves of `pebble add`, and `replan`, which is after the lock
is released.  A name that a killed writer left (`NNN-label.yaml.tmp`) counts for
the next number, because `LAYER_PREFIX_PATTERN` matches the beginning of the name
only, and does not count as the label's layer.  `Pebble` loads `*.yaml` and
nothing else.

### `SystemdUnits` and the code

A writer is one call of `register_decrypt_service`: `Begin`, `OpenDropin` (`makedirs`
and `open(..., 'w')`, after which the file exists and is empty), `WriteDropin`,
`Enable` (`systemctl enable`, whose answer may be lost).  `AtBoot` is what systemd makes
of it: a unit that is not enabled is not started; one whose drop-in says nothing has the
`VAULTLOCKER_CONFIG` of the template unit (`DefaultConfig`).  Content is taken to be on
the disk once the file is closed, although the code does not `fsync`; `Reboot` loses calls
and no content.  `Serialised` has the same meaning as in `Vaultlocker`, where a
registration is the last call of a command that has the device for itself.

### `BootUnlock` and the code

`unit` is the service as its supervisor sees it: enabled at boot, running, waiting for
Pebble's backoff, done, failed.  A run is the service's decrypt or one of an operator; its
calls are the login, the look at `/dev/mapper`, the read and `cryptsetup open`, in the
code's order: the login comes first in every attempt, also when the mapping exists.  `vault`
says how a call to Vault ends: `sealed` is the pair of errors that tenacity retries,
`denied` is every other `VaultError`, `unreachable` an error of the connection, which
is not a `VaultError` and leaves `main` by its last `except`.  `left` is the time that
`--retry` still has, in its one second waits; an attempt may use up any part of it.
`PebbleAfterExit` is `on-success: ignore`, `on-failure: restart` of `render_layer`;
`SystemdAfterExit` is a oneshot without `Restart=`.  `Replan` is a registration of the
same device while its decrypt runs, and a restart of Pebble: both kill and start it.

Taken for granted: Pebble restarts a service whenever it ends with a failure, also one that
ends within a second of its start.

## 3. What the runs check

| Run | Question | Bounds | Result |
|---|---|---|---|
| `Encrypt` | Do encrypt, its reruns, other arguments, an enroll under a second configuration with the managed key, and boot's decrypts keep the keys, and implement `KeyEscrow`? Is `IndInv` true? | 3 invocations, 1 retry, 2 configurations, with and without `--uuid` | holds |
| `Enroll` | The same for a device with a header. | as above; 3 starting states (nothing, a provisioned key, a spoiled entry in Vault), right and wrong passphrase | holds |
| `Race` | What survives when encrypts of one plain device overlap, each with a UUID of its own, with enrolls that reuse the key of what they leave half made? Is a registered device safe from an encrypt that looked before? Does every command end? Are `RaceInv` and `AnyOrderInv` true? | 3 invocations, not serialised, 1 retry, fairness | holds |
| `SameUuid` | Is a key in Vault never overwritten? | 2 encrypts, same `--uuid` | violated |
| `RaceEnroll` | Is boot always registered for what it can unlock? | 2 enrolls of one device | violated |
| `Clone` | Does success mean that this device is open? | a device and its copy | violated |
| `Pebble` | Do concurrent registrations keep the layers loadable, file, plan and service in agreement, and implement `BootRegistry`? Does each of them end? Is `PebbleInv` true? | 3 writers, 2 devices, 2 configurations, fairness | holds |
| `Units` | Does a first registration never lead boot to another configuration, and does a successful one decide what boot does? | 3 calls, 2 units, 2 configurations | holds |
| `DropIn` | Does a registration on a host implement `BootRegistry`? | 2 calls of one unit | violated |
| `Boot` | Is a registered device opened in the end under Pebble, and does its service rest then and not before? Is `BootInv` true? | service, 2 operators, 4 states of Vault, 2 faults, fairness | holds |
| `SystemdOutage` | The first of these under systemd. | service alone, Vault up or sealed, no fault | violated |
| `Refused` | Does a run that cannot connect go on while `--retry` lasts? | service alone, Vault up or unreachable | violated |

The properties:

* `Escrowed`: a key made by vaultlocker that opens a device is in Vault, under the
  UUID the device has now.  Broken by any order that gives a device a key before
  Vault has it, by overwriting, by formatting again under another UUID.
* `BootUnlockable`: the configuration that boot is registered with leads to a key
  that opens a device with that UUID.  It relates three stores and the choice of a
  configuration made perhaps two commands ago.
* `SuccessOpensDevice` (action property): when encrypt or enroll exits with 0,
  *its* device is behind the mapping of the UUID it reports, and boot will use
  *its* configuration, also when the mapping was there already.
* `RetryStartsClean`: when `--retry` starts over, no store holds a key of this
  run.  This is why it is right that `_store_and_validate_key` converts its errors:
  were they retried, `enroll` would meet its own leftovers.
* `RegisteredKept` (action property): a device that boot is registered to unlock keeps
  its header and all its slots.  encrypt looks for a header once and formats many calls
  later, without looking again; what saves a device that another run has formatted and
  registered meanwhile is that it was opened first and cryptsetup refuses one in use, and
  that the restart which ends this also ends every run with an old look.  It would be
  broken by registering before opening, or by taking a `luksUUID` that failed for a
  plain device.
* `ImplementsEscrow`: every step is a step of `KeyEscrow` or changes none of its
  variables.
* `CommandsEnd` (liveness): every command that starts ends, although Vault may be
  down at each read.
* `LayersLoadable`, `Settled`, `ImplementsRegistry`: no two layers share a number
  or a label; when all the writers of a device succeeded, its file, Pebble's plan
  and the running service agree; what the next boot would load goes from one
  complete registration to another, at once.

* `CallsEnd` (liveness): a registration that waits for the lock gets through or
  fails, whoever held the lock and however that ended.
* `FirstRegistration`, `SuccessTakesEffect` (action property): a registration that
  was cut off anywhere leaves the unit off or with its own configuration, if it is the
  first; one that succeeds settles what boot does, whatever an earlier one left.
* `UnlockedInTheEnd`, `QuietInTheEnd` (liveness): if Vault answers and the device is
  there for good from some time on, the mapping is there for good and the service is no
  longer started.
* `RestMeansOpen`: the service is done only while the device is open, whoever opened it.
  Broken by a supervisor that lets some end of a decrypt pass that should be retried.
* `ExitZeroMeansOpen` (action property): no decrypt exits with 0 and leaves the device
  closed, also not the one that lost the race for the mapping.
* `GivesUpOnlyLate` (action property, violated): a run that cannot connect ends only when
  `--retry` has run out.

In `Vaultlocker`, `TypeOK` is more than typing in one respect: a run that is past its first look at
the device has a UUID, which is what an enroll of a plain device must not get
around.

**Why the bounds are enough.**  A property here is broken by a run that leaves
something behind and a later or overlapping one that builds on it: two runs, and
a third that meets the consequence (a rerun after a rerun, or boot's decrypt).
Devices are coupled by a shared UUID only (`Clone`), and the theorems cover any number; a
configuration matters only by being another one.  One retry shows everything
that starting over can meet, because an attempt that was retried has changed no
store (`RetryStartsClean`).  For safety these are only a first check: the theorems
have no bounds.  Every action and every disjunct is taken in some passing run.
In `Pebble`, three writers are the least with which two queue for the lock while
a third has died in it, and `LastPrefix` leaves each writer a number, so that the
bound excludes no behaviour.  Its requests (`AllAsks`) stand for all others: writers,
labels and configurations are interchangeable.  In `Units`, a third call is a rerun of a
rerun.  In `Boot`, two operators can lose the mapping to one another and to the service;
`MaxFaults` is two, so that a fault can hit the recovery from another; how long Vault and the
device are away is not bounded at all.

Deadlock is checked everywhere: the machine, Pebble or Vault can always change, so
this says little; that nothing gets stuck is `CommandsEnd`, `CallsEnd` and
`UnlockedInTheEnd`.

**Fairness.**  `FairSpec` of `Vaultlocker` has weak fairness for each run: if it has a call to make,
it eventually makes it, with any outcome, or ends.  Nothing forces an operator to start
a run, the machine to restart, or Vault to be up.  The code justifies this where
it bounds its calls: cryptsetup has a timeout of 300 s, `udevadm` of 60 s
(`dmcrypt.py:26-29`), hvac one of its own, and tenacity stops after `--retry`
seconds (`MaxRetries`).  It does not for four calls that have no timeout: the passphrase
prompt, `systemctl`, `pebble` and the `flock`.  For these it is an assumption
about the operator and the service managers.  `FairSpec` of `PebbleLayers` says that of each
writer: Pebble answers, and a free lock goes to one of those that wait.  `FairSpec` of
`BootUnlock` says it of each run and of the supervisor, which starts an enabled unit and
ends its backoff.  It does not make Vault come up or the device arrive, nor forbid that
they come and go for ever: the two liveness properties are about behaviours in which
they are there in the end.  No safety result uses fairness.

**Each property against a slip.**  Next to the operators of the
modules stand variants marked "Slip", each a plausible mistake in the code:
formatting before the key is stored, generating a second key, trusting an exit
code, ignoring a failed open, forgetting the lock.  No specification uses them;
`PROJECT.json` pairs each property with one that breaks it, so that none of the
properties holds for an empty reason.

## 4. What the violations show

1. `SameUuid`, `shell.py:334`.  The docstring of `_ensure_vault_key` says "Ensure
   Vault has the expected key without overwriting data."  It reads, and then
   writes if it read nothing.  Two encrypts with one `--uuid` both read nothing;
   the second write replaces the first key.  The KV v2 engine has a
   check-and-set that would close this; neither version asks for it.
2. `RaceEnroll`, `shell.py:526`.  Two enrolls of one device both read nothing; one
   finishes, with the device registered; the other then overwrites its key in
   Vault and stops before `luksAddKey`.  The first reported success, and boot
   can no longer unlock the device.  The operator's own passphrase still does.
   The same happens to a device made by `encrypt` that is enrolled under a second
   configuration, when both answer the prompt with its managed key.  And an enroll that
   looked at the header before an overlapping encrypt formatted over it, and is answered
   with the new key, adds the old UUID's key to the device of the new one, which breaks
   `Escrowed`.  This is why `GeneratedUuids` has its clause on the answer.
3. `Clone`, `shell.py:347`.  A mapping of that name is taken for the device's own.
   For a block copy of an open device, enroll reports success with the mapper
   path of the original and opens nothing.

4. `SystemdOutage`, `vaultlocker-decrypt@.service:8`.  `boot_unlock.py:34` says of the
   timeout that it is for one attempt, "the unlock service is retried again afterwards",
   and `pebble_layers.py:94` that Pebble's restart on failure matches "the systemd-based
   behaviour used outside the snap".  The unit has no `Restart=`: an outage of
   Vault longer than `--retry`, or a device that arrives after the one `cryptsetup open`,
   leaves the device locked until somebody starts the unit.
5. `Refused`, `shell.py:608`.  `--retry` is "Time in seconds to continue retrying to connect
   to Vault".  A sealed Vault is retried; one that does not accept the connection is
   not, since hvac does not turn that error of `requests` into one of its own.  Under Pebble
   the restart makes up for it (`Boot` has that state of Vault), under systemd
   nothing does.
6. `DropIn`, `systemd.py:68`.  When a device is registered again, its enabled unit has the
   default configuration from the truncation of its drop-in until the write.  A kill or a
   restart in between leaves it so, and boot looks for the key in the wrong place.
   The docstring promises the configuration that managed the device.  A temporary file and
   `os.replace`, as in `pebble_layers.py:206-211`, would make `SystemdUnits` implement
   `BootRegistry` as `PebbleLayers` does.

`Race` shows the limit of the damage when the UUIDs are generated: concurrent
encrypts of one device may format over one another before anything is open, but
none of them reports success or registers a device that its key does not open.
Nor does an enroll that meets such a device half made and uses the key that Vault has.
The run has three commands on one device; `VaultlockerRaceProofs` proves the same for any number of them.

## 5. What is proved

**`VaultlockerProofs`**, for all values of the constants that satisfy the assumptions
named in `Vaultlocker` (sentinels differ, command lines and starting states are
well formed, `MaxRetries` is a natural number):

| Theorem | States | Assumes |
|---|---|---|
| `TypeCorrect` | `Spec => []TypeOK` | nothing more |
| `KeysStayEscrowed` | `Spec => []Escrowed` | `Disciplined` |
| `BootStaysUnlockable` | `Spec => []BootUnlockable` | `Disciplined` |
| `RefinesEscrow` | `Spec => ImplementsEscrow` | `Disciplined` |
| `KeysNeverReplaced` | `Spec => KeyNeverOverwritten` | `Disciplined` |

`Invariance` (`Spec => []IndInv`) is what they rest on.

**The argument.**  `TypeInv` is `TypeOK` and what typing needs to be inductive: a run
that has started has a command, a decrypt reaches only its own calls, a run has a
key at each call that uses one.  `Escrowed` and `BootUnlockable` are not
inductive: `LuksFormat` keeps `Escrowed` only because the run that formats knows
that its key is in Vault and its device still plain.  `IndInv` says what each run
knows at each of its calls (`HeaderKnown`, `SecretKnown`, `DeviceKnown`), that a key is
nowhere before its run stores it (`KeysFresh`), and that a UUID has one home
(`RunsAtHome`, `HeadersAtHome`, `OnePerDevice`, `MappingsNamedByHeader`), by which no
other run can make that knowledge false: a run changes the path of its own UUID
and the header and slots of its own device, and two runs share neither
(`RunsApart`).  The 16 calls that a run makes fall into two kinds.  Those
that change no store follow from `QuietStep`; each of the five that do has a lemma
of its own with one step for each conjunct it can disturb.  `NextInv` puts them together;
the theorems follow with PTL.

`KeysNeverReplaced` follows from the abstract
specification: the only step of `KeyEscrow` that changes Vault writes an absent path.

`Disciplined` enters at `Start` (two runs on one device) and at `HomesDiffer` (two
devices for one UUID).  Neither half can be spared: `SameUuid` and `RaceEnroll` show it
of the first, and two encrypts of two devices with one `--uuid`, which `Serialised`
lets through, meet on one Vault path as in `SameUuid`.

**`VaultlockerRaceProofs`**, for the same constants, any number of encrypts and decrypts
in any order and at the same time, and enrolls that are not answered with a managed key:

| Theorem | States | Assumes |
|---|---|---|
| `RaceInvariant` | `Spec => []RaceInv` | `GeneratedUuids` |
| `RaceKeepsEscrow` | `Spec => []Escrowed` | `GeneratedUuids` |
| `RaceKeepsBoot` | `Spec => []BootUnlockable` | `GeneratedUuids` |

Here a run cannot know its device from one call to the next: another may format it.
What takes the place of that knowledge is that everything made with a generated UUID
names it.  Its path in Vault is absent or has the key made with it (`PathsOwn`), and a
device with that header opens with that key or with none (`SlotsOwn`).  So a run whose key
opens its device has, at that moment, the device with its own header
(`OpensOwnHeader`), and the mapping it makes then keeps others from formatting, since
cryptsetup refuses a device in use.  `Booted` carries this past a restart, which ends the
mapping and all runs that were on their way to format (`Forming`); a later run finds a
header and does not format.  `StoresGrow` is what every step leaves to the other runs.
`RefinesEscrow` has no counterpart: a second format is not a step of `KeyEscrow`.
The clauses on `--uuid` and on enroll are needed: `SameUuid` breaks `KeyNeverOverwritten`
with `--uuid`, `RaceEnroll` breaks `BootUnlockable` with a header that was there before, and
section 4 has what a managed key as the answer leads to.  With these clauses an enroll never
gets past its prompt (`RaceKnown` has no `addkey`): it opens and registers a device whose
key Vault has, and competes with the encrypts in that, but makes no key.

**`VaultlockerAnyOrderProofs`**, for the same constants, any commands at any time:

| Theorem | States | Assumes |
|---|---|---|
| `AnyOrderInvariant` | `Spec => []AnyOrderInv` | nothing more |
| `RetriesAlwaysClean` | `Spec => []RetryStartsClean` | nothing more |
| `RegisteredAlwaysKept` | `Spec => RegisteredKept` | `UuidNamesOneDevice` |
| `SuccessAlwaysOpen` | `Spec => SuccessOpensDevice` | `UuidNamesOneDevice` |

Keys may be overwritten here, devices formatted over and keys added under the wrong
UUID (`SameUuid`, `RaceEnroll`), so little is left of what a run knows of its device.  What
is left is where a UUID belongs: headers and mappings are only on devices it is meant for
(`HeadersAtHome`, `MappingsAtHome`, `RunsAtHome`), and with one home for each UUID
(`HomesDiffer`; `Clone` shows that this is needed) the mapping that a run finds before it
registers, the one way to succeed (`SuccessIsRegister`), is of its own device.
`RegisteredKept` needs more than that registering comes after opening: `RegisteredSettled`
says that a registered UUID has a device with a header which is in use or has nobody left
that looked at it before (`Formatting`, `FormattedForGood`).  A step of a run keeps this
because only a plain device gets a new run that will format it (`LooksFirst`), and a
restart because it ends these runs together with the mappings.  `KeysOwn` says that nobody
has a run's key before the run stores it, which makes `RetryStartsClean` inductive.
`RegisteredAlwaysKept` is about the steps of this program: an operator who closes a mapping
by hand while an encrypt with an old look is running is not in the model.

**`SystemdUnitsProofs`**, for any number of calls, units and configurations:

| Theorem | States | Assumes |
|---|---|---|
| `UnitsInvariant` | `Spec => []UnitsInv` | nothing more |
| `FirstStaysItsOwn` | `Spec => []FirstRegistration` | nothing more |
| `SuccessDecides` | `Spec => SuccessTakesEffect` | `Serialised` |
| `UnitsTyped` | `Spec => []TypeOK` | nothing more |
| `DefaultOnlyRefines` | `Spec => ImplementsRegistry` | `Config = {DefaultConfig}` |

`FirstRegistration` alone is not inductive: enabling keeps it only because the call
knows that the drop-in is its own (`DropinKept`), and beginning only because a unit that
nobody asked for is untouched (`Unasked`).  The three calls that change a unit share
one lemma, `OwnUnit`; kills and restarts share `EndStep`.

`DefaultOnlyRefines` is the other side of the run `DropIn`: a host on which all
commands use the default configuration is not affected, because a drop-in that is cut off
then means the same as a complete one.

**`PebbleLayersProofs`**, for any number of writers, devices and configurations (finitely
many writers, and at least as many numbers as writers, `PrefixesEnough`: the code has no
upper bound on a number, so this bounds the model only):

| Theorem | States |
|---|---|
| `PebbleInvariant` | `Spec => []PebbleInv` |
| `NumbersSuffice` | `Spec => []TypeOK` |
| `LayersStayLoadable` | `Spec => []LayersLoadable` |
| `WritersSettle` | `Spec => []Settled` |
| `RefinesRegistry` | `Spec => ImplementsRegistry` |

`LayersLoadable` is not inductive: `os.replace` keeps it only because the chosen path is
still the label's own or still free (`PathFree`), which holds because nobody else is in
the `with` block (`LockHeld`).  That the next number is free needs that it is above every
file, the temporary files of killed writers included (`MaxIsGreatest`: the maximum of
a finite set of numbers is its greatest element, proved from the well-foundedness of
the naturals).  That it exists at all needs a count: a number is used up only by a writer
that got as far as its file (`NumbersLeft`, by which `TypeOK` is inductive).  `Settled` needs
more than agreement in the end: the plan may differ from the file only while a writer of
that device, alive or dead, is between its `replace` and its `pebble add`
(`PlanCurrent`), and the service from the plan only while one is before its replan
(`ServicesCurrent`).  For the refinement every step but `ReplaceLayer` and `Begin` leaves
`AtBoot` and `Requested` alone; `ReplaceLayer` moves a body that is whole and was asked
for (`FilesKnown`, `WholeLayers`).

**`BootUnlockProofs`**, for any number of operators, any `Patience`, `MaxFaults` and
`VaultStates`, and either supervisor:

| Theorem | States |
|---|---|
| `BootInvariant` | `Spec => []BootInv` |
| `BootTyped` | `Spec => []TypeOK` |
| `RestsOnlyOpen` | `Spec => []RestMeansOpen` |
| `ZeroMeansOpen` | `Spec => ExitZeroMeansOpen` |

`RestMeansOpen` needs that the supervisor's state is what has become of the decrypt
(`ServiceFollowed`): a unit is not done by the end of a run that it did not start.

**Checked by TLC only.**  The liveness properties `CommandsEnd`, `CallsEnd`,
`UnlockedInTheEnd` and `QuietInTheEnd`, because liveness under fairness is out of the
prover's reach.  Every safety property of the passing runs is a theorem.

## 6. What is not modelled

* KV v2 versions and soft deletion: a path whose last version was deleted reads
  as absent.
* `vault.py` otherwise: its classes pass one call each to hvac, and `delete` has no
  caller.
* Content lost by a power failure after `close` or `rename` without `fsync`.
* What Pebble does with a service that ends within a second of its start.
* What a child does whose command was killed: a `cryptsetup` that works on, and a
  `pebble add` that reaches Pebble after the lock of its writer is free, and perhaps after
  the `pebble add` of the next one.
* The host name in the Vault path is part of `Config`: a host renamed between
  enroll and boot is not modelled.
* Parsing of arguments and configuration, exit codes, JSON and logging: no state
  depends on them.
* Tests, packaging and CI.
* Hazards in `PROJECT.json` without a property each have a note that says why.

## 7. Plan

Done: 1. `KeyEscrow`, `Vaultlocker` and its runs; 2. the proofs of `Vaultlocker`; 3.
`BootRegistry`, `PebbleLayers` and its run; 4. `SystemdUnits`, its runs and proofs; 5.
`BootUnlock` and its runs; 6. progress of `PebbleLayers`; 7. the proofs of `PebbleLayers`;
8. the proofs of `BootUnlock`; 9. the races of `Vaultlocker` for any number of commands, and what holds of any commands
whatsoever.

Next:

10. One condition that covers `Disciplined` and `GeneratedUuids`: enrolls, and encrypts with
    `--uuid`, have their device for themselves while encrypts with generated UUIDs overlap.
    `KeyEscrow` would then let a device be formatted again that nobody depends on yet.

Considered and left out: a module of the two KV versions.  The wrappers of `vault.py` hold no
state and make no decision, so that it would be a model of Vault.
