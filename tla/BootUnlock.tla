----------------------------- MODULE BootUnlock -----------------------------
(***************************************************************************)
(* Unlocking one registered device: `vaultlocker --retry T decrypt <uuid>`  *)
(* as systemd or Pebble runs it, next to the same command given by          *)
(* operators, while Vault comes and goes and the device may arrive late.    *)
(*                                                                         *)
(* Vault has a key that opens the device: that is what BootUnlockable of    *)
(* Vaultlocker says of a registered UUID.  What is left to ask is whether   *)
(* the device is opened in the end.                                         *)
(***************************************************************************)
EXTENDS Naturals

CONSTANTS
  Operator,     \* decrypt commands given by hand, one attempt each
  Service,      \* the decrypt of the unlock service
  Supervisor,   \* what runs the service: "pebble" in the snap, else "systemd"
  Patience,     \* the service's --retry, in waits of one second
  VaultStates,  \* the states Vault can be in
  MaxFaults     \* bound on kills, lost answers, restarts and replans

Run == Operator \cup {Service}

ASSUME ServiceApart == Service \notin Operator
ASSUME SupervisorKnown == Supervisor \in {"pebble", "systemd"}
ASSUME BootNumbers == Patience \in Nat /\ MaxFaults \in Nat
\* sealed: hvac raises VaultDown or VaultNotInitialized; denied: another
\* VaultError; unreachable: the connection is refused, an error of requests.
ASSUME VaultStatesKnown ==
  "up" \in VaultStates
    /\ VaultStates \subseteq {"up", "sealed", "denied", "unreachable"}

VARIABLES
  vault,     \* the state of Vault
  attached,  \* cryptsetup can find a device with the UUID
  mapper,    \* /dev/mapper/crypt-<uuid> exists
  unit,      \* the service, as its supervisor sees it
  pc,        \* [Run -> the next call]
  left,      \* [Run -> the waits that --retry has left]
  faults     \* faults so far

vars == <<vault, attached, mapper, unit, pc, left, faults>>

Calls == {"login", "exists", "read", "open"}
\* exit codes 0, 3 and 1, and the end by a signal
Ends  == {"ok", "handled", "unexpected", "killed"}
Units == {"enabled", "running", "backoff", "done", "failed"}

\* Every variable has its type: in particular no attempt follows one after which
\* --retry has run out.
TypeOK ==
  /\ vault \in VaultStates
  /\ attached \in BOOLEAN /\ mapper \in BOOLEAN
  /\ unit \in Units
  /\ pc \in [Run -> {"idle"} \cup Calls \cup Ends]
  /\ left \in [Run -> 0..Patience]
  /\ faults \in 0..MaxFaults

\* The machine has just started.
Init ==
  /\ vault \in VaultStates
  /\ attached \in BOOLEAN
  /\ mapper = FALSE
  /\ unit = "enabled"
  /\ pc = [r \in Run |-> "idle"]
  /\ left = [r \in Run |-> 0]
  /\ faults = 0

-----------------------------------------------------------------------------
(* The supervisor. *)

\* Slip: a decrypt that was killed, or ended by an error of its own, is let go.
AfterExitHandled(end) == IF end = "handled" THEN "backoff" ELSE "done"

\* Pebble: on-success: ignore, on-failure: restart after the backoff delay.
PebbleAfterExit(end) == IF end = "ok" THEN "done" ELSE "backoff"

\* systemd: a oneshot without Restart= stays as it ended.
SystemdAfterExit(end) == IF end = "ok" THEN "done" ELSE "failed"

AfterExit(end) == IF Supervisor = "pebble" THEN PebbleAfterExit(end)
                  ELSE SystemdAfterExit(end)

Launch ==
  /\ unit' = "running"
  /\ pc' = [pc EXCEPT ![Service] = "login"]
  /\ left' = [left EXCEPT ![Service] = Patience]

\* startup: enabled of the layer, WantedBy= of the unit.
StartUnit ==
  /\ unit = "enabled"
  /\ Launch
  /\ UNCHANGED <<vault, attached, mapper, faults>>

\* The backoff delay is over.
Restart ==
  /\ unit = "backoff"
  /\ Launch
  /\ UNCHANGED <<vault, attached, mapper, faults>>

-----------------------------------------------------------------------------
(* The decrypt command. *)

\* The process is gone; the supervisor of the service sees how it ended.
End(r, end) ==
  /\ pc' = [pc EXCEPT ![r] = end]
  /\ unit' = IF r = Service THEN AfterExit(end) ELSE unit

Goto(r, call) == pc' = [pc EXCEPT ![r] = call] /\ UNCHANGED unit

\* An operator gives no --retry: its default is a single attempt.
Start(r) ==
  /\ pc[r] = "idle"
  /\ Goto(r, "login")
  /\ UNCHANGED <<vault, attached, mapper, left, faults>>

\* _vault_client, at the start of every attempt.
Login(r) ==
  /\ pc[r] = "login"
  /\ vault = "up"
  /\ Goto(r, "exists")
  /\ UNCHANGED <<vault, attached, mapper, left, faults>>

\* Slip: an attempt is made after the time has run out.
SealedOnceMore(r) ==
  /\ pc[r] \in {"login", "read"}
  /\ vault = "sealed"
  /\ Goto(r, "login")
  /\ left' = [left EXCEPT ![r] = @ - 1]
  /\ UNCHANGED <<vault, attached, mapper, faults>>

\* tenacity makes another attempt a second later if the time, of which this one
\* took some, has not run out; else VaultError becomes VaultConnectionError.
Sealed(r) ==
  /\ pc[r] \in {"login", "read"}
  /\ vault = "sealed"
  /\ \E time \in 0..left[r] :
       \/ /\ time = 0
          /\ End(r, "handled")
          /\ left' = [left EXCEPT ![r] = 0]
       \/ /\ time > 0
          /\ Goto(r, "login")
          /\ left' = [left EXCEPT ![r] = time - 1]
  /\ UNCHANGED <<vault, attached, mapper, faults>>

\* Every other error of Vault or of the connection ends the run at once.
Refused(r) ==
  /\ pc[r] \in {"login", "read"}
  /\ \/ vault = "denied" /\ End(r, "handled")
     \/ vault = "unreachable" /\ End(r, "unexpected")
  /\ UNCHANGED <<vault, attached, mapper, left, faults>>

\* Slip: whether the mapping exists is not looked at.
ExistsSkipped(r) ==
  /\ pc[r] = "exists"
  /\ Goto(r, "read")
  /\ UNCHANGED <<vault, attached, mapper, left, faults>>

\* _device_exists: there is nothing to do for a device that is open.
Exists(r) ==
  /\ pc[r] = "exists"
  /\ IF mapper THEN End(r, "ok") ELSE Goto(r, "read")
  /\ UNCHANGED <<vault, attached, mapper, left, faults>>

Read(r) ==
  /\ pc[r] = "read"
  /\ vault = "up"
  /\ Goto(r, "open")
  /\ UNCHANGED <<vault, attached, mapper, left, faults>>

\* Slip: an error of cryptsetup is logged only.
OpenUnchecked(r) ==
  /\ pc[r] = "open"
  /\ mapper' = (mapper \/ attached)
  /\ End(r, "ok")
  /\ UNCHANGED <<vault, attached, left, faults>>

\* cryptsetup open UUID=...: it fails if udev has not seen the device, and if
\* another decrypt has taken the name since.
Open(r) ==
  LET able == attached /\ ~ mapper
  IN /\ pc[r] = "open"
     /\ mapper' = (mapper \/ able)
     /\ End(r, IF able THEN "ok" ELSE "handled")
     /\ UNCHANGED <<vault, attached, left, faults>>

Step(r) == Login(r) \/ Sealed(r) \/ Refused(r) \/ Exists(r) \/ Read(r) \/ Open(r)

-----------------------------------------------------------------------------
(* What goes wrong around them. *)

Fault == faults < MaxFaults /\ faults' = faults + 1

\* cryptsetup makes the mapping after its timeout, which kills it too late.
OpenLate(r) ==
  /\ Fault
  /\ pc[r] = "open" /\ attached /\ ~ mapper
  /\ mapper' = TRUE
  /\ End(r, "handled")
  /\ UNCHANGED <<vault, attached, left>>

Kill(r) ==
  /\ Fault
  /\ pc[r] \in Calls
  /\ End(r, "killed")
  /\ UNCHANGED <<vault, attached, mapper, left>>

\* A registration of this device replans with a changed layer, or Pebble itself
\* restarts, as in a refresh of the snap: a running decrypt is killed, and the
\* service is started whatever became of it before.
Replan ==
  /\ Supervisor = "pebble"
  /\ Fault
  /\ Launch
  /\ UNCHANGED <<vault, attached, mapper>>

Reboot ==
  /\ Fault
  /\ mapper' = FALSE
  /\ unit' = "enabled"
  /\ pc' = [r \in Run |-> IF r = Service THEN "idle"
                          ELSE IF pc[r] \in Calls THEN "killed" ELSE pc[r]]
  /\ left' = [r \in Run |-> 0]
  /\ UNCHANGED <<vault, attached>>

\* Vault is sealed, unsealed, stopped, started, or changes its policies.
VaultChange ==
  /\ vault' \in VaultStates \ {vault}
  /\ UNCHANGED <<attached, mapper, unit, pc, left, faults>>

\* The device arrives, or goes while it is not open.
Plug ==
  /\ attached => ~ mapper
  /\ attached' = ~ attached
  /\ UNCHANGED <<vault, mapper, unit, pc, left, faults>>

Next ==
  \/ \E r \in Operator : Start(r)
  \/ \E r \in Run : Step(r) \/ OpenLate(r) \/ Kill(r)
  \/ StartUnit \/ Restart \/ Replan \/ Reboot
  \/ VaultChange \/ Plug

Spec == Init /\ [][Next]_vars

\* A run that goes on makes its next call, and a supervisor does what it was
\* configured to do.  Nothing makes Vault come up or the device arrive.
FairSpec ==
  /\ Spec
  /\ \A r \in Run : WF_vars(Step(r))
  /\ WF_vars(StartUnit) /\ WF_vars(Restart)

-----------------------------------------------------------------------------

\* From some time on Vault answers and the device is there.
Reachable == vault = "up" /\ attached

\* A device whose Vault and disk are there for good is opened for good, however
\* long they were away, and whatever was killed, lost or restarted before.
UnlockedInTheEnd == <>[]Reachable => <>[]mapper

\* And then the service rests: it is not started again and again for a device
\* that is open, whoever opened it.
QuietInTheEnd == <>[]Reachable => <>[](unit = "done")

\* The service comes to rest as done only while the device is open: no order of
\* other decrypts, kills, late answers and restarts makes it stop too early.
RestMeansOpen == unit = "done" => mapper

\* A decrypt that exits with 0 leaves the device open, also when it lost the race
\* for the mapping to another decrypt.
ExitZeroMeansOpen ==
  [][\A r \in Run : pc[r] \in Calls /\ pc'[r] = "ok" => mapper']_vars

\* A run that could not connect to Vault gives up only when --retry has run out.
GivesUpOnlyLate ==
  [][\A r \in Run :
       /\ pc[r] \in {"login", "read"} /\ pc'[r] \in {"handled", "unexpected"}
       /\ vault \in {"sealed", "unreachable"}
       => left'[r] = 0]_vars

-----------------------------------------------------------------------------
(* The inductive invariant behind the proofs. *)

\* What the supervisor thinks of the service is what has become of its decrypt.
ServiceFollowed ==
  LET end == pc[Service]
  IN /\ unit = "enabled" <=> end = "idle"
     /\ unit = "running" <=> end \in Calls
     /\ unit = "done" <=> end = "ok"
     /\ unit = "backoff" => Supervisor = "pebble"
     /\ unit = "failed" => Supervisor = "systemd"

\* Only the service waits for Vault, and only while it runs.
WaitsOfServiceOnly ==
  \A r \in Run : left[r] > 0 => r = Service /\ unit # "enabled"

\* The supervisor, the processes and the mapping agree.
BootInv == TypeOK /\ ServiceFollowed /\ WaitsOfServiceOnly /\ RestMeansOpen
=============================================================================
