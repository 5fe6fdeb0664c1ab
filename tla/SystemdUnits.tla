---------------------------- MODULE SystemdUnits ----------------------------
(***************************************************************************)
(* vaultlocker/systemd.py: how a command registers a device on a host.  The *)
(* drop-in pins the unit of the device to the configuration that manages    *)
(* the device; a unit without one, or with an empty one, has the            *)
(* configuration file that the template unit names.                         *)
(*                                                                         *)
(* A writer is one call of register_decrypt_service.  It can fail or be     *)
(* killed between any two of its calls, and the machine can restart.        *)
(***************************************************************************)
CONSTANTS
  Writer,         \* calls of register_decrypt_service
  Label,          \* units, one for each device
  Config,         \* configuration files
  DefaultConfig,  \* Environment=VAULTLOCKER_CONFIG= of the template unit
  Serialised,     \* TRUE: one call at a time for each device
  NoFile, Empty,  \* a drop-in that does not exist; one that says nothing
  NoConfig, NoRequest

Request == [label : Label, config : Config]

ASSUME DefaultIsConfig == DefaultConfig \in Config
ASSUME UnitSentinels ==
  /\ Config \cap {NoFile, Empty, NoConfig} = {} /\ NoFile # Empty
  /\ NoRequest \notin Request
ASSUME SerialisedBoolean == Serialised \in BOOLEAN

VARIABLES
  dropin,   \* [Label -> what <unit>.d/config.conf holds]
  enabled,  \* [Label -> the unit is wanted by multi-user.target]
  pc,       \* [Writer -> the next call]
  req       \* [Writer -> block_uuid's unit and config_path]

vars == <<dropin, enabled, pc, req>>

Steps == {"idle", "open", "write", "enable", "ok", "failed"}

Running(w) == pc[w] \in {"open", "write", "enable"}
Asked(w)   == req[w] # NoRequest

\* Every variable has its type, and a call has begun exactly if it has something
\* to register, through every kill and restart.
TypeOK ==
  /\ dropin \in [Label -> Config \cup {NoFile, Empty}]
  /\ enabled \in [Label -> BOOLEAN]
  /\ pc \in [Writer -> Steps]
  /\ req \in [Writer -> Request \cup {NoRequest}]
  /\ \A w \in Writer : pc[w] # "idle" <=> Asked(w)

Init ==
  /\ dropin  = [l \in Label |-> NoFile]
  /\ enabled = [l \in Label |-> FALSE]
  /\ pc      = [w \in Writer |-> "idle"]
  /\ req     = [w \in Writer |-> NoRequest]

Moves(w, from, to) == pc[w] = from /\ pc' = [pc EXCEPT ![w] = to]

\* The command that registers r.label got here.
Begin(w, r) ==
  /\ Moves(w, "idle", "open")
  /\ Serialised => \A v \in Writer : Running(v) => req[v].label # r.label
  /\ req' = [req EXCEPT ![w] = r]
  /\ UNCHANGED <<dropin, enabled>>

\* Slip: a drop-in that says the right thing is taken for a finished
\* registration.
OpenDropinTrusted(w) ==
  LET l == req[w].label
  IN /\ pc[w] = "open"
     /\ IF dropin[l] = req[w].config
        THEN pc' = [pc EXCEPT ![w] = "ok"] /\ UNCHANGED dropin
        ELSE /\ pc' = [pc EXCEPT ![w] = "write"]
             /\ dropin' = [dropin EXCEPT ![l] = Empty]
     /\ UNCHANGED <<enabled, req>>

\* Slip: the unit is enabled first.
OpenDropinEnabled(w) ==
  /\ Moves(w, "open", "write")
  /\ dropin' = [dropin EXCEPT ![req[w].label] = Empty]
  /\ enabled' = [enabled EXCEPT ![req[w].label] = TRUE]
  /\ UNCHANGED req

\* makedirs, then open(dropin_path, 'w'), which creates or truncates.
OpenDropin(w) ==
  /\ Moves(w, "open", "write")
  /\ dropin' = [dropin EXCEPT ![req[w].label] = Empty]
  /\ UNCHANGED <<enabled, req>>

\* The file has its content when it is closed.
WriteDropin(w) ==
  /\ Moves(w, "write", "enable")
  /\ dropin' = [dropin EXCEPT ![req[w].label] = req[w].config]
  /\ UNCHANGED <<enabled, req>>

\* Slip: after an enable without an answer the same registration is begun again.
EnableBeginsAgain(w) ==
  /\ \E next \in {"ok", "idle"} : Moves(w, "enable", next)
  /\ enabled' = [enabled EXCEPT ![req[w].label] = TRUE]
  /\ UNCHANGED <<dropin, req>>

\* systemctl enable.  Its answer may be lost.
Enable(w) ==
  /\ \E next \in {"ok", "failed"} : Moves(w, "enable", next)
  /\ enabled' = [enabled EXCEPT ![req[w].label] = TRUE]
  /\ UNCHANGED <<dropin, req>>

\* An error of the next call, or a kill: what was done stays.
Die(w) ==
  /\ Running(w)
  /\ pc' = [pc EXCEPT ![w] = "failed"]
  /\ UNCHANGED <<dropin, enabled, req>>

\* The machine restarts: every call is gone, the files are as they were left.
Reboot ==
  /\ pc' = [w \in Writer |-> IF Running(w) THEN "failed" ELSE pc[w]]
  /\ UNCHANGED <<dropin, enabled, req>>

Next ==
  \/ \E w \in Writer : \/ \E r \in Request : Begin(w, r)
                       \/ OpenDropin(w) \/ WriteDropin(w) \/ Enable(w)
                       \/ Die(w)
  \/ Reboot

Spec == Init /\ [][Next]_vars

-----------------------------------------------------------------------------

\* The configuration with which the next boot starts the unit of a device.
AtBoot == [l \in Label |-> IF ~ enabled[l] THEN NoConfig
                           ELSE IF dropin[l] \in Config THEN dropin[l]
                           ELSE DefaultConfig]

\* w is the only call so far that registers its unit.
First(w) ==
  Asked(w) /\ \A v \in Writer \ {w} : Asked(v) => req[v].label # req[w].label

\* The first registration of a device, wherever it stops, leaves a unit that is
\* off or one that uses the configuration it was asked for, never the default.
FirstRegistration ==
  \A w \in Writer :
    First(w) => AtBoot[req[w].label] \in {NoConfig, req[w].config}

\* A registration that succeeds decides what the next boot does, also when it
\* had to finish or to replace what an earlier one left.
SuccessTakesEffect ==
  [][\A w \in Writer : Running(w) /\ pc'[w] = "ok"
       => AtBoot'[req[w].label] = req[w].config]_vars

\* What the next boot finds changes from one complete registration to another at
\* once, and a registered device stays registered.
Requested == {<<req[w].label, req[w].config>> : w \in {x \in Writer : Asked(x)}}
Registry == INSTANCE BootRegistry WITH atBoot <- AtBoot, asked <- Requested
ImplementsRegistry == Registry!Spec

-----------------------------------------------------------------------------
(* The inductive invariant behind the proofs. *)

\* Nothing is known of a unit that nobody asked for, and what a first call has
\* done by each of its steps, and no more, is there.
Untouched(l) == dropin[l] = NoFile /\ ~ enabled[l]

Unasked ==
  \A l \in Label :
    (\A w \in Writer : Asked(w) => req[w].label # l) => Untouched(l)

FirstKnows ==
  \A w \in Writer : First(w) =>
    LET l == req[w].label
    IN /\ pc[w] = "open" => Untouched(l)
       /\ enabled[l] => pc[w] \in {"ok", "failed"} /\ dropin[l] = req[w].config

\* A call that has its unit for itself finds the drop-in as it wrote it.
OnePerUnit ==
  Serialised => \A v, w \in Writer :
    v # w /\ Running(v) /\ Running(w) => req[v].label # req[w].label

DropinKept ==
  \A w \in Writer :
    pc[w] = "enable" /\ (Serialised \/ First(w)) => dropin[req[w].label] = req[w].config

\* What each call knows of its unit, and that no other call makes it false.
UnitsInv == TypeOK /\ Unasked /\ FirstKnows /\ OnePerUnit /\ DropinKept
=============================================================================
