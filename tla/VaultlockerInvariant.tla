------------------------- MODULE VaultlockerInvariant -------------------------
(***************************************************************************)
(* The inductive invariant from which the safety properties of Vaultlocker  *)
(* follow when the program is used as Disciplined says.  Escrowed and       *)
(* BootUnlockable are not inductive: what keeps them true is what each run  *)
(* knows at each of its calls, and that no other run can make it false.     *)
(***************************************************************************)
EXTENDS Vaultlocker

Busy(p) == Active(p) /\ Provisions(p)

\* u is a UUID for d and for no other device.
IsHome(u, d) ==
  IF u \in Invocation
  THEN cmd[u] # NoCommand /\ cmd[u].op = "encrypt" /\ cmd[u].device = d
  ELSE d \in HomeOf(u)

\* The calls before which the run has not put its own key anywhere.
BeforeStore == {"idle", "login", "probe", "read", "test", "credential",
                "ensure", "write"}
\* The calls at which the device has the header of block_uuid.
WithHeader == {"read", "test", "credential", "addkey", "verifykey", "present",
               "open", "register"}
\* The calls at which the key in hand is the one Vault has.
WithSecret == {"test", "confirm", "format", "verify", "addkey", "verifykey",
               "present", "open", "register"}
\* The calls at which that key opens the device.
WithSlot == {"present", "open", "register"}

Unused(p) == /\ \A c \in Config, u \in Uuid : vault[c][u] # p
             /\ \A d \in Device : p \notin slots[d]

-----------------------------------------------------------------------------
(* What the stores always are. *)

PlainHasNoSlots == \A d \in Device : header[d] = NoUuid => slots[d] = {}

HeadersAtHome ==
  \A d \in Device : header[d] # NoUuid => IsHome(header[d], d)

MappingsNamedByHeader ==
  \A u \in Uuid, d \in Device : mapper[u] = d => header[d] = u

-----------------------------------------------------------------------------
(* What each run knows. *)

\* A run's key is nowhere until it stores it, and a decrypt has none to store.
KeysFresh ==
  \A p \in Invocation :
    pc[p] \in BeforeStore \/ (Active(p) /\ ~ Provisions(p)) => Unused(p)

CommandsKnown ==
  \A p \in Invocation : /\ pc[p] = "idle" <=> cmd[p] = NoCommand
                        /\ pc[p] = "idle" => luks[p] = NoUuid

\* decrypt makes none of the calls that change Vault or a device.
DecryptOnlyOpens ==
  \A p \in Invocation : Active(p) /\ ~ Provisions(p) =>
    pc[p] \in {"login", "present", "read", "open"}

\* A run has a key at each of the calls that need one.
KeysMade ==
  \A p \in Invocation :
    pc[p] \in {"ensure", "write", "confirm", "format", "addkey"} => key[p] \in Key

\* Type correctness, strengthened to be inductive; no discipline is needed.
TypeInv == TypeOK /\ CommandsKnown /\ DecryptOnlyOpens /\ KeysMade

OnePerDevice ==
  \A p, q \in Invocation :
    Busy(p) /\ Busy(q) /\ p # q => cmd[p].device # cmd[q].device

RunsAtHome ==
  \A p \in Invocation :
    Busy(p) /\ luks[p] # NoUuid => IsHome(luks[p], cmd[p].device)

HeaderKnown(p) ==
  LET found == header[cmd[p].device]
  IN /\ pc[p] \in WithHeader => found = luks[p]
     /\ pc[p] \in {"ensure", "format"} =>
          cmd[p].op = "encrypt" /\ found = NoUuid
     /\ pc[p] \in {"write", "confirm"} =>
          found = IF cmd[p].op = "encrypt" THEN NoUuid ELSE luks[p]
     /\ pc[p] \in {"credential", "addkey"} => cmd[p].op = "enroll"

SecretKnown(p) ==
  /\ pc[p] \in WithSecret => key[p] \in Key /\ SecretAt(p) = key[p]
  /\ pc[p] \in {"ensure", "write"} => key[p] = p
  /\ pc[p] = "write" => SecretAt(p) = Absent
  /\ pc[p] = "credential" => \/ key[p] = NoKey /\ SecretAt(p) = Absent
                             \/ key[p] \in Key /\ SecretAt(p) = key[p]

DeviceKnown(p) ==
  /\ pc[p] \in WithSlot => key[p] \in slots[cmd[p].device]
  /\ pc[p] = "register" => mapper[luks[p]] # NoDevice

RunsKnow ==
  \A p \in Invocation : Busy(p) =>
    HeaderKnown(p) /\ SecretKnown(p) /\ DeviceKnown(p)

\* The safety properties and what keeps them true.
IndInv ==
  /\ TypeInv
  /\ PlainHasNoSlots /\ HeadersAtHome /\ MappingsNamedByHeader
  /\ KeysFresh /\ OnePerDevice /\ RunsAtHome /\ RunsKnow
  /\ Escrowed /\ BootUnlockable
=============================================================================
