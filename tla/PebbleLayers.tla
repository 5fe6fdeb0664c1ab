---------------------------- MODULE PebbleLayers ----------------------------
(***************************************************************************)
(* vaultlocker/pebble_layers.py: how commands that run at the same time     *)
(* register devices with Pebble, which starts the unlock service of each    *)
(* device it finds in its layers directory.                                 *)
(*                                                                         *)
(* A writer is one call of register_boot_unlock.  It can be killed at any   *)
(* point, which frees the lock and leaves the files; Pebble can restart at  *)
(* any point, and then knows what the files say and nothing else.           *)
(***************************************************************************)
EXTENDS Integers, FiniteSets, FiniteSetsExt

CONSTANTS
  Writer,       \* calls of register_boot_unlock
  Label,        \* layer labels, one for each device
  Config,       \* rendered layers: they differ in their --config
  Asks,         \* the calls there may be: writers with what they register
  FirstPrefix,  \* LAYER_PREFIX_START
  LastPrefix,   \* bound on the prefixes that the files of a run can use
  NoFile, Torn, \* a name with no file; a file that is not written completely
  NoConfig, NoWriter, NoRequest

Prefix   == FirstPrefix..LastPrefix
FileName == [prefix : Prefix, label : Label, tmp : BOOLEAN]
Request  == [label : Label, config : Config]

ASSUME PrefixesEnough ==
  /\ FirstPrefix \in Nat /\ LastPrefix \in Nat
  /\ IsFiniteSet(Writer) /\ LastPrefix >= FirstPrefix + Cardinality(Writer) - 1
ASSUME PebbleSentinels ==
  /\ Config \cap {NoFile, Torn, NoConfig} = {}
  /\ NoFile # Torn /\ NoFile # NoConfig /\ Torn # NoConfig
  /\ NoWriter \notin Writer /\ NoRequest \notin Request
ASSUME AsksTyped == Asks \subseteq Writer \X Request

VARIABLES
  body,     \* [FileName -> what the file holds]
  lock,     \* who holds the flock
  plan,     \* [Label -> the layer in the running Pebble's plan]
  service,  \* [Label -> the layer the running service was started with]
  pc,       \* [Writer -> the next step of the call]
  req,      \* [Writer -> block_uuid's label and config_path]
  path,     \* [Writer -> the prefix of layer_path]
  sent      \* [Writer -> the layer that `pebble add` read from the file]

vars == <<body, lock, plan, service, pc, req, path, sent>>

Steps == {"idle", "lock", "choose", "open", "write", "replace", "read", "add",
          "replan", "ok", "failed"}

Yaml(p, l) == [prefix |-> p, label |-> l, tmp |-> FALSE]
Tmp(p, l)  == [prefix |-> p, label |-> l, tmp |-> TRUE]
Existing   == {name \in FileName : body[name] # NoFile}
Layers     == {name \in Existing : ~ name.tmp}
LayersOf(l) == {name \in Layers : name.label = l}

\* Every variable has its type: a layer number that _next_layer_prefix gives out
\* is always one of the numbers this model has room for, never an earlier one.
TypeOK ==
  /\ body \in [FileName -> Config \cup {NoFile, Torn}]
  /\ lock \in Writer \cup {NoWriter}
  /\ plan \in [Label -> Config \cup {Torn, NoConfig}]
  /\ service \in [Label -> Config \cup {Torn, NoConfig}]
  /\ pc \in [Writer -> Steps]
  /\ req \in [Writer -> Request \cup {NoRequest}]
  /\ path \in [Writer -> Prefix]
  /\ sent \in [Writer -> Config \cup {Torn, NoConfig}]

Init ==
  /\ body = [name \in FileName |-> NoFile]
  /\ lock = NoWriter
  /\ plan = [l \in Label |-> NoConfig]
  /\ service = [l \in Label |-> NoConfig]
  /\ pc = [w \in Writer |-> "idle"]
  /\ req = [w \in Writer |-> NoRequest]
  /\ path = [w \in Writer |-> FirstPrefix]
  /\ sent = [w \in Writer |-> NoConfig]

Moves(w, from, to) == pc[w] = from /\ pc' = [pc EXCEPT ![w] = to]

\* The layer's file names for a writer that has chosen its path.
Target(w)  == Yaml(path[w], req[w].label)
Scratch(w) == Tmp(path[w], req[w].label)

\* Slip: the lock outlives the writer.
FreedNever(w) == lock

\* The lock once the writer's lock file is closed.
Freed(w) == IF lock = w THEN NoWriter ELSE lock

Begin(w, r) ==
  /\ <<w, r>> \in Asks
  /\ Moves(w, "idle", "lock")
  /\ req' = [req EXCEPT ![w] = r]
  /\ UNCHANGED <<body, lock, plan, service, path, sent>>

\* Slip: the lock file is opened and not locked.
TakeLockOpenOnly(w) ==
  /\ Moves(w, "lock", "choose")
  /\ UNCHANGED <<body, lock, plan, service, req, path, sent>>

TakeLock(w) ==
  /\ Moves(w, "lock", "choose")
  /\ lock = NoWriter
  /\ lock' = w
  /\ UNCHANGED <<body, plan, service, req, path, sent>>

\* Slip: the highest prefix, instead of the one after it.
LayerPrefixInUse(l) ==
  IF LayersOf(l) # {} THEN {name.prefix : name \in LayersOf(l)}
  ELSE {Max({name.prefix : name \in Existing} \cup {FirstPrefix - 1})}

\* The prefix of the file the label has, else the first one after every file
\* whose name starts with a number, files left by a killed writer included.
LayerPrefix(l) ==
  IF LayersOf(l) # {} THEN {name.prefix : name \in LayersOf(l)}
  ELSE {Max({name.prefix : name \in Existing} \cup {FirstPrefix - 1}) + 1}

ChoosePath(w) ==
  /\ Moves(w, "choose", "open")
  /\ \E p \in LayerPrefix(req[w].label) : path' = [path EXCEPT ![w] = p]
  /\ UNCHANGED <<body, lock, plan, service, req, sent>>

\* Slip: the layer file itself is opened for writing.
OpenInPlace(w) ==
  /\ Moves(w, "open", "write")
  /\ body' = [body EXCEPT ![Target(w)] = Torn, ![Scratch(w)] = Torn]
  /\ UNCHANGED <<lock, plan, service, req, path, sent>>

\* open(temporary_path, 'w') creates or truncates.
OpenScratch(w) ==
  /\ Moves(w, "open", "write")
  /\ body' = [body EXCEPT ![Scratch(w)] = Torn]
  /\ UNCHANGED <<lock, plan, service, req, path, sent>>

WriteScratch(w) ==
  /\ Moves(w, "write", "replace")
  /\ body' = [body EXCEPT ![Scratch(w)] = req[w].config]
  /\ UNCHANGED <<lock, plan, service, req, path, sent>>

\* Slip: the with block ends here, before Pebble has the layer.
ReplaceLayerUnlocks(w) ==
  /\ Moves(w, "replace", "read")
  /\ body' = [body EXCEPT ![Target(w)] = body[Scratch(w)], ![Scratch(w)] = NoFile]
  /\ lock' = NoWriter
  /\ UNCHANGED <<plan, service, req, path, sent>>

\* os.replace.
ReplaceLayer(w) ==
  /\ Moves(w, "replace", "read")
  /\ body' = [body EXCEPT ![Target(w)] = body[Scratch(w)], ![Scratch(w)] = NoFile]
  /\ UNCHANGED <<lock, plan, service, req, path, sent>>

\* `pebble add --combine` reads the file and then sends it to the daemon.
ReadLayer(w) ==
  /\ Moves(w, "read", "add")
  /\ sent' = [sent EXCEPT ![w] = body[Target(w)]]
  /\ UNCHANGED <<body, lock, plan, service, req, path>>

\* The daemon has the layer; the end of the with block frees the lock.  The
\* answer may be lost.
AddLayer(w) ==
  /\ \E next \in {"replan", "failed"} : Moves(w, "add", next)
  /\ plan' = [plan EXCEPT ![req[w].label] = sent[w]]
  /\ lock' = Freed(w)
  /\ UNCHANGED <<body, service, req, path, sent>>

\* `pebble replan --no-wait`, without the lock: services whose layer changed are
\* started again.
Replan(w) ==
  /\ \E next \in {"ok", "failed"} : Moves(w, "replan", next)
  /\ service' = plan
  /\ UNCHANGED <<body, lock, plan, req, path, sent>>

\* An error or a kill: the lock goes with the process, the files stay.
Die(w) ==
  /\ pc[w] \notin {"idle", "ok", "failed"}
  /\ pc' = [pc EXCEPT ![w] = "failed"]
  /\ lock' = Freed(w)
  /\ UNCHANGED <<body, plan, service, req, path, sent>>

\* Pebble starts and reads its layers directory; files that are not *.yaml are
\* passed over.
PebbleRestart ==
  /\ \E load \in [Label -> Config \cup {Torn, NoConfig}] :
       /\ \A l \in Label : IF LayersOf(l) = {} THEN load[l] = NoConfig
                           ELSE \E name \in LayersOf(l) : load[l] = body[name]
       /\ plan' = load /\ service' = load
  /\ UNCHANGED <<body, lock, pc, req, path, sent>>

Call(w) ==
  \/ TakeLock(w)     \/ ChoosePath(w) \/ OpenScratch(w) \/ WriteScratch(w)
  \/ ReplaceLayer(w) \/ ReadLayer(w)  \/ AddLayer(w)    \/ Replan(w)

Next ==
  \/ \E w \in Writer : \/ \E r \in Request : Begin(w, r)
                       \/ Call(w)
                       \/ Die(w)
  \/ PebbleRestart

Spec == Init /\ [][Next]_vars

\* A writer that can make its next call makes it: Pebble answers, and the lock is
\* given to some waiting writer once it is free.  Nobody has to begin or to die.
FairSpec == Spec /\ \A w \in Writer : WF_vars(Call(w))

-----------------------------------------------------------------------------

\* Pebble refuses to start on two layers with one number or one label: no order
\* of writers and kills may ever leave them.
LayersLoadable ==
  \A m, n \in Layers : m # n => m.prefix # n.prefix /\ m.label # n.label

\* Once the writers of a device have all succeeded, its file, the running plan
\* and the running service agree, whichever of them came last.
Settled ==
  \A l \in Label :
    (\A w \in Writer : req[w] # NoRequest /\ req[w].label = l => pc[w] = "ok") =>
      /\ \A name \in LayersOf(l) : body[name] = plan[l]
      /\ LayersOf(l) = {} => plan[l] = NoConfig
      /\ service[l] = plan[l]

\* Every registration that begins ends: the lock is passed on whether its holder
\* finished, failed or was killed, and no writer waits for it for ever.
CallsEnd == \A w \in Writer : pc[w] = "lock" ~> pc[w] \in {"ok", "failed"}

\* What the next start of Pebble finds changes from one complete registration to
\* another at once, and a registered device stays registered.
Requested == {<<req[w].label, req[w].config>> : w \in {x \in Writer : req[x] # NoRequest}}
AtBoot == [l \in Label |-> IF LayersOf(l) = {} THEN NoConfig
                           ELSE body[CHOOSE name \in LayersOf(l) : TRUE]]
Registry == INSTANCE BootRegistry WITH atBoot <- AtBoot, asked <- Requested
ImplementsRegistry == Registry!Spec
-----------------------------------------------------------------------------
(* The inductive invariant behind the proofs. *)

Asked(w)      == req[w] # NoRequest
AsksFor(w, l) == Asked(w) /\ req[w].label = l

RequestsKnown == \A w \in Writer : pc[w] # "idle" <=> Asked(w)

\* Whoever is inside the with block holds the lock, and nobody else does.
Inside == {"choose", "open", "write", "replace", "read", "add"}
LockHeld == \A w \in Writer : pc[w] \in Inside <=> lock = w

\* Every number in use was the number of a writer that got as far as its file.
Spent == {w \in Writer : pc[w] \notin {"idle", "lock", "choose", "open"}}
NumbersLeft ==
  LET next == FirstPrefix + Cardinality(Spent)
  IN /\ \A name \in Existing : name.prefix < next
     /\ \A w \in Writer :
          /\ pc[w] = "open" => path[w] <= next
          /\ pc[w] \in {"write", "replace"} => path[w] < next

\* A chosen path is the file of the label, or its number and label are unused.
PathFree ==
  \A w \in Writer : pc[w] \in {"open", "write", "replace"} =>
    \A n \in Layers : n # Target(w) =>
      n.prefix # path[w] /\ n.label # req[w].label

\* Neither a layer file nor what Pebble knows is ever half of a layer.
WholeLayers ==
  /\ \A n \in Layers : body[n] \in Config
  /\ \A l \in Label : plan[l] # Torn /\ service[l] # Torn

\* What the writer inside knows of the files.
FilesKnown ==
  \A w \in Writer :
    /\ pc[w] = "replace" => body[Scratch(w)] = req[w].config
    /\ pc[w] \in {"read", "add"} => body[Target(w)] = req[w].config
    /\ pc[w] = "add" => sent[w] = req[w].config

\* The plan differs from the files only while a writer, alive or not, has
\* replaced a file that Pebble was not told of; the services differ from the
\* plan only while a replan is due.
PlanCurrent ==
  \A l \in Label :
    (\A w \in Writer : AsksFor(w, l) => pc[w] \notin {"read", "add", "failed"}) =>
      /\ \A name \in LayersOf(l) : body[name] = plan[l]
      /\ LayersOf(l) = {} => plan[l] = NoConfig

ServicesCurrent ==
  \A l \in Label :
    (\A w \in Writer : AsksFor(w, l) => pc[w] \notin {"replan", "failed"}) =>
      service[l] = plan[l]

\* What each writer knows while it is inside, and what the files and Pebble are
\* whoever is.
PebbleInv ==
  /\ TypeOK /\ RequestsKnown /\ LockHeld /\ NumbersLeft /\ LayersLoadable
  /\ PathFree /\ WholeLayers /\ FilesKnown /\ PlanCurrent /\ ServicesCurrent
=============================================================================
