---------------------------- MODULE MCVaultlocker ----------------------------
(* Small instances of Vaultlocker: command lines and starting states. *)
EXTENDS VaultlockerRace, VaultlockerAnyOrder, TLC

CONSTANTS p1, p2, p3, d1, d2, n1, n2, k1, k2, c1, c2

Encrypt(d, u, c) == [op |-> "encrypt", device |-> d, uuid |-> u, config |-> c,
                     existing |-> NoKey]
Enroll(d, k, c)  == [op |-> "enroll", device |-> d, uuid |-> NoUuid, config |-> c,
                     existing |-> k]
Decrypt(u, c)    == [op |-> "decrypt", device |-> NoDevice, uuid |-> u,
                     config |-> c, existing |-> NoKey]

EmptyVault == [c \in Config |-> [u \in Uuid |-> Absent]]
PlainDevices == [d \in Device |-> NoUuid]
NoSlots == [d \in Device |-> {}]

\* Every device plain and Vault empty.
Blank == [vault |-> EmptyVault, header |-> PlainDevices, slots |-> NoSlots]

\* d2 is a LUKS device with an operator's passphrase.
Existing == [Blank EXCEPT !.header[d2] = n2, !.slots[d2] = {k1}]

\* d2 has a header and Vault a provisioned key for it that does not open it yet.
Provisioned == [Existing EXCEPT !.vault[c1][n2] = k2]

\* The path of d2's UUID holds no usable key.
Spoiled == [Existing EXCEPT !.vault[c1][n2] = Malformed]

\* Both devices carry n2: one is a copy of the other.
Cloned == [Existing EXCEPT !.header[d1] = n2, !.slots[d1] = {k1}]

\* One device to encrypt, with and without --uuid, with either configuration, and
\* to enroll under another one with the key that p1 has made for it.
EncryptLines == {Encrypt(d1, NoUuid, c1), Encrypt(d1, NoUuid, c2),
                 Encrypt(d1, n1, c1), Enroll(d1, p1, c2),
                 Decrypt(n1, c1), Decrypt(p1, c1)}
EncryptOrigins == {Blank}

\* A device that has a header: enroll with a right and a wrong passphrase, with
\* either configuration, encrypt of the same device, and decrypt.
EnrollLines == {Enroll(d2, k1, c1), Enroll(d2, k1, c2), Enroll(d2, k2, c1),
                Encrypt(d2, NoUuid, c1), Enroll(d1, k1, c1), Decrypt(n2, c1)}
EnrollOrigins == {Existing, Provisioned, Spoiled}

\* Operators encrypt one device at the same time, each with a UUID of its own,
\* while another takes what it sees half made for a device to enroll.
RaceLines == {Encrypt(d1, NoUuid, c1), Enroll(d1, k1, c1), Decrypt(p1, c1)}

\* The same, with the same --uuid.
SameUuidLines == {Encrypt(d1, n1, c1)}

\* Two operators enroll one device.
RaceEnrollLines == {Enroll(d2, k1, c1)}
RaceEnrollOrigins == {Existing}

\* A device and its copy are enrolled, one after the other.
CloneLines == {Enroll(d1, k1, c1), Enroll(d2, k1, c1)}
CloneOrigins == {Cloned}
=============================================================================
