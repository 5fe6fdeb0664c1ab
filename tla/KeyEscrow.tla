------------------------------ MODULE KeyEscrow ------------------------------
(***************************************************************************)
(* What vaultlocker promises, whatever the order of its calls: the key that *)
(* opens a device is in Vault before it is on the device and stays there,   *)
(* a device that carries data is never formatted, and a device is set up    *)
(* for unlocking at boot only once the key that boot will fetch opens it.   *)
(*                                                                         *)
(* A step changes one store.  Losing a client, losing Vault, retrying and   *)
(* failing are stutters here: none of them may change a store any other way.*)
(***************************************************************************)
CONSTANTS Device, Uuid, Key, Config,
          NoUuid,     \* the header of a device that is not LUKS
          NoConfig,   \* the boot registration of a device that has none
          Absent,     \* a Vault path that was never written
          Malformed   \* a Vault path whose data holds no dmcrypt_key

VARIABLES vault,   \* [Config -> [Uuid -> what the Vault path holds]]
          header,  \* [Device -> the UUID in its LUKS header, or NoUuid]
          slots,   \* [Device -> the keys that open it]
          boot     \* [Uuid -> the configuration boot unlocks it with]

vars == <<vault, header, slots, boot>>

\* The key is in Vault, under the device's UUID, for some configuration.
InEscrow(k, u) == \E c \in Config : vault[c][u] = k

\* Unlocking u at boot with configuration c fetches a key that opens it.
Unlockable(u, c) == \E d \in Device : header[d] = u /\ vault[c][u] \in slots[d]

Init == /\ vault \in [Config -> [Uuid -> Key \cup {Absent, Malformed}]]
        /\ header \in [Device -> Uuid \cup {NoUuid}]
        /\ slots \in [Device -> SUBSET Key]
        /\ boot = [u \in Uuid |-> NoConfig]

\* Vault is only ever added to: no path that holds data is written.
Store == \E c \in Config, u \in Uuid, k \in Key :
  /\ vault[c][u] = Absent
  /\ vault' = [vault EXCEPT ![c][u] = k]
  /\ UNCHANGED <<header, slots, boot>>

\* Only a plain device is formatted, with a key that is in escrow; a format
\* that was interrupted leaves a header that no key opens.
Format == \E d \in Device, u \in Uuid, k \in Key :
  /\ header[d] = NoUuid
  /\ InEscrow(k, u)
  /\ header' = [header EXCEPT ![d] = u]
  /\ \E written \in SUBSET {k} : slots' = [slots EXCEPT ![d] = written]
  /\ UNCHANGED <<vault, boot>>

\* A slot is only added, for a key that is in escrow; none is removed.
AddSlot == \E d \in Device, k \in Key :
  /\ header[d] # NoUuid
  /\ InEscrow(k, header[d])
  /\ slots' = [slots EXCEPT ![d] = @ \cup {k}]
  /\ UNCHANGED <<vault, header, boot>>

\* Boot is only told to unlock what it can unlock.
Register == \E u \in Uuid, c \in Config :
  /\ Unlockable(u, c)
  /\ boot' = [boot EXCEPT ![u] = c]
  /\ UNCHANGED <<vault, header, slots>>

Next == Store \/ Format \/ AddSlot \/ Register

Spec == Init /\ [][Next]_vars
=============================================================================
