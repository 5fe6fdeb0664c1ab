---------------------------- MODULE VaultlockerRace ----------------------------
(***************************************************************************)
(* What holds when nobody orders the commands: any number of encrypts of    *)
(* one device at the same time, if encrypt makes its UUIDs itself, next to  *)
(* decrypts and to enrolls that may reuse the key Vault has but make none.  *)
(* A run may format over what another has just formatted, so that what a    *)
(* run knows of its device ends as soon as it is known; this is the         *)
(* inductive invariant that is left.                                        *)
(***************************************************************************)
EXTENDS VaultlockerInvariant

\* No --uuid, no copied headers, and enroll only of what an encrypt has made and
\* without a managed key at the prompt.  enroll accepts one, and then writes another
\* configuration's path or adds a slot.  Two that do so overwrite one another; one
\* that looked at the device before somebody formatted it adds a slot to a device
\* that has another UUID by then.
GeneratedUuids ==
  /\ UuidNamesOneDevice
  /\ \A line \in CommandLines :
       /\ line.op = "encrypt" => line.uuid = NoUuid
       /\ line.op = "enroll" => /\ line.existing \notin Invocation
                                /\ \A o \in Origins : o.header[line.device] = NoUuid

\* The calls from which encrypt goes on to format, whatever others did since.
Forming(p) == pc[p] \in {"ensure", "write", "confirm", "format"}

\* The path of a generated UUID is for the key made with it; no other path ever
\* gets a key that was made here.
PathsOwn ==
  \A c \in Config, u \in Uuid :
    vault[c][u] \in IF u \in Invocation THEN {Absent, u}
                    ELSE ExternalKey \cup {Absent, Malformed}

\* Nor does a device open with a key that was not made with its UUID.
SlotsOwn ==
  \A d \in Device :
    slots[d] \subseteq IF header[d] = NoUuid THEN {}
                       ELSE IF header[d] \in Invocation THEN {header[d]}
                       ELSE ExternalKey

HeadersKept ==
  \A d \in Device : header[d] \in Invocation =>
    vault[cmd[header[d]].config][header[d]] = header[d]

MappingsOpened ==
  \A u \in Invocation, d \in Device : mapper[u] = d => u \in slots[d]

EnrolledGenerated ==
  \A line \in CommandLines :
    line.op = "enroll" => header[line.device] \notin NamedUuid

\* A registered device is open, which keeps it from being formatted, or nobody
\* who could format it is left.
Booted ==
  \A u \in Uuid : boot[u] # NoConfig =>
    \E d \in Device :
      /\ header[d] = u /\ vault[boot[u]][u] \in slots[d]
      /\ mapper[u] = d \/ \A p \in Invocation : Forming(p) => cmd[p].device # d

RaceKnown(p) ==
  LET d == cmd[p].device
  IN /\ Forming(p) => /\ cmd[p].op = "encrypt" /\ luks[p] = p /\ key[p] = p
                      /\ header[d] \notin NamedUuid
     /\ pc[p] # "addkey"
     /\ pc[p] = "credential" => cmd[p].op = "enroll"
     /\ pc[p] \in WithSecret \ {"confirm"} => key[p] \in Key /\ SecretAt(p) = key[p]
     /\ luks[p] \in NamedUuid => /\ header[d] = luks[p]
                                 /\ pc[p] \in WithSlot => key[p] \in slots[d]
     /\ pc[p] = "register" => mapper[luks[p]] # NoDevice

RunsKnowInRace == \A p \in Invocation : Busy(p) => RaceKnown(p)

\* What stays true of stores and runs however the runs overlap.
RaceInv ==
  /\ TypeInv
  /\ PathsOwn /\ SlotsOwn /\ HeadersAtHome /\ HeadersKept
  /\ MappingsNamedByHeader /\ MappingsOpened /\ EnrolledGenerated
  /\ KeysFresh /\ RunsAtHome /\ RunsKnowInRace /\ Booted
=============================================================================
