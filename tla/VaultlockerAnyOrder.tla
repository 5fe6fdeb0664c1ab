-------------------------- MODULE VaultlockerAnyOrder --------------------------
(***************************************************************************)
(* The inductive invariant of Vaultlocker for any commands in any order,    *)
(* with nothing assumed of how the program is used.                         *)
(***************************************************************************)
EXTENDS VaultlockerInvariant

\* Before its run stores it, nobody else has a key.
KeysOwn ==
  \A p \in Invocation :
    pc[p] \in BeforeStore \/ (Active(p) /\ ~ Provisions(p)) =>
      Unused(p) /\ \A q \in Invocation \ {p} : key[q] # p

\* A mapping is of a device that the UUID is meant for, whatever header that has
\* by now; and it has one.
MappingsAtHome ==
  \A u \in Uuid, d \in Device :
    mapper[u] = d => IsHome(u, d) /\ header[d] # NoUuid

\* encrypt has found no header on d and has not formatted it yet.
Formatting(p, d) ==
  /\ pc[p] \in {"ensure", "write", "confirm", "format"}
  /\ cmd[p].op = "encrypt" /\ cmd[p].device = d

\* Nobody will format d any more: its header is there to be seen, and who has
\* looked before it was there meets a device in use.
FormattedForGood(d) ==
  header[d] # NoUuid /\ (InUse(d) \/ \A p \in Invocation : ~ Formatting(p, d))

RegisteredSettled ==
  \A u \in Uuid : boot[u] # NoConfig =>
    \E d \in Device : IsHome(u, d) /\ FormattedForGood(d)

\* What a run knows, whoever else works on its device.
AlwaysKnown(p) ==
  /\ pc[p] \in {"ensure", "format"} => cmd[p].op = "encrypt"
  /\ pc[p] = "credential" => cmd[p].op = "enroll"
  /\ pc[p] = "register" => mapper[luks[p]] # NoDevice

RunsAlwaysKnow == \A p \in Invocation : Busy(p) => AlwaysKnown(p)

\* What is true of stores and runs whatever commands there are.
AnyOrderInv ==
  /\ TypeInv
  /\ PlainHasNoSlots /\ HeadersAtHome /\ MappingsAtHome
  /\ KeysOwn /\ RunsAtHome /\ RunsAlwaysKnow /\ RegisteredSettled
=============================================================================
