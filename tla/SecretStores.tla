---------------------------- MODULE SecretStores ----------------------------
(***************************************************************************)
(* Two stores that split what they keep between a file of the host and the *)
(* credential store of the system: the encrypted storage of plugins, whose *)
(* ciphertext needs a key, and the cloud profiles, which need a password.  *)
(* Each has one lock, and neither the file nor the credential store knows  *)
(* of the other: a call that fails or a process that ends leaves whatever  *)
(* the order of the two writes leaves.  The file is replaced as a whole    *)
(* (SettingsFile.tla).                                                     *)
(***************************************************************************)
EXTENDS Naturals

CONSTANTS
    Owners,     \* plugins with encrypted storage
    Profiles,   \* cloud profiles; each id is used once
    MaxKeys     \* keys that are generated

ASSUME SecretAssumption == MaxKeys \in Nat

VARIABLES
    cipher,     \* the key each plugin's ciphertext in the file needs; 0 is none
    keyring,    \* the key the system keeps for each plugin; 0 is none
    keys,       \* keys generated
    profiles,   \* the profiles in the file
    passwords,  \* the profiles whose password the system keeps
    used,       \* history: ids of profiles given out
    deleted,    \* history: profiles whose deletion was begun, acknowledged
    secretOp    \* the call that holds a lock

secretVars == <<cipher, keyring, keys, profiles, passwords, used, deleted, secretOp>>

NoSecretOp == [pc |-> "idle", of |-> {}, created |-> FALSE]
SecretPc(pc) == secretOp.pc = pc
SecretEnds == secretOp' = NoSecretOp
SecretGoto(pc, S, new) == secretOp' = [pc |-> pc, of |-> S, created |-> new]
SameCrypto == UNCHANGED <<cipher, keyring, keys>>
SameCloud  == UNCHANGED <<profiles, passwords, used, deleted>>

-----------------------------------------------------------------------------
(* Encrypted storage *)

\* Ciphertext is only replaced under the key it was written with.
CryptoReads(p) == cipher[p] # 0 => keyring[p] = cipher[p]

\* The first value of a plugin creates its key, unless one is there.
CryptoSet(p) ==
    /\ SecretPc("idle") /\ CryptoReads(p)
    /\ \/ /\ cipher[p] # 0 \/ keyring[p] # 0
          /\ SecretGoto("encrypt", {p}, FALSE) /\ UNCHANGED <<keyring, keys>>
       \/ /\ cipher[p] = 0 /\ keyring[p] = 0 /\ keys < MaxKeys
          /\ keys' = keys + 1 /\ keyring' = [keyring EXCEPT ![p] = keys']
          /\ SecretGoto("encrypt", {p}, TRUE)
    /\ UNCHANGED cipher /\ SameCloud

\* The file is saved, or the new key is rolled back, if that works.
CryptoSave(p) ==
    /\ SecretPc("encrypt") /\ secretOp.of = {p}
    /\ \/ cipher' = [cipher EXCEPT ![p] = keyring[p]] /\ UNCHANGED keyring
       \/ /\ keyring' \in {keyring} \cup
                {[keyring EXCEPT ![p] = 0] : q \in IF secretOp.created THEN {p} ELSE {}}
          /\ UNCHANGED cipher
    /\ SecretEnds /\ UNCHANGED keys /\ SameCloud

\* Mutant: the key goes first.
CryptoForgetKeyFirst(p) ==
    /\ SecretPc("idle")
    /\ keyring' = [keyring EXCEPT ![p] = 0]
    /\ SecretGoto("forget", {p}, FALSE)
    /\ UNCHANGED <<cipher, keys>> /\ SameCloud

\* remove_plugin removes the ciphertext first.
CryptoForget(p) ==
    /\ SecretPc("idle")
    /\ \/ cipher' = [cipher EXCEPT ![p] = 0] /\ SecretGoto("forget", {p}, FALSE)
       \/ UNCHANGED <<cipher, secretOp>>
    /\ UNCHANGED <<keyring, keys>> /\ SameCloud

CryptoForgetKey(p) ==
    /\ SecretPc("forget") /\ secretOp.of = {p}
    /\ keyring' \in {keyring, [keyring EXCEPT ![p] = 0]}
    /\ SecretEnds /\ UNCHANGED <<cipher, keys>> /\ SameCloud

-----------------------------------------------------------------------------
(* Cloud profiles *)

\* A new profile's password is saved before the profile is.
CloudSave(c) ==
    /\ SecretPc("idle") /\ c \notin used
    /\ used' = used \cup {c} /\ passwords' = passwords \cup {c}
    /\ SecretGoto("profile", {c}, TRUE)
    /\ UNCHANGED <<profiles, deleted>> /\ SameCrypto

CloudSaveProfile(c) ==
    /\ SecretPc("profile") /\ secretOp.of = {c}
    /\ \/ profiles' = profiles \cup {c} /\ UNCHANGED passwords
       \/ passwords' \in {passwords, passwords \ {c}} /\ UNCHANGED profiles
    /\ SecretEnds /\ UNCHANGED <<used, deleted>> /\ SameCrypto

\* Mutant: a password that cannot be deleted does not stop the deletion.
CloudDeleteAnyway(c) ==
    /\ SecretPc("idle") /\ c \in used
    /\ passwords' \in {passwords, passwords \ {c}}
    /\ deleted' = [deleted EXCEPT !.begun = @ \cup {c}]
    /\ SecretGoto("drop", {c}, FALSE)
    /\ UNCHANGED <<profiles, used>> /\ SameCrypto

\* Deleting starts with the password, and stops there if that fails.
CloudDelete(c) ==
    /\ SecretPc("idle") /\ c \in used
    /\ passwords' = passwords \ {c}
    /\ deleted' = [deleted EXCEPT !.begun = @ \cup {c}]
    /\ SecretGoto("drop", {c}, FALSE)
    /\ UNCHANGED <<profiles, used>> /\ SameCrypto

CloudDropProfile(c) ==
    /\ SecretPc("drop") /\ secretOp.of = {c}
    /\ \/ /\ profiles' = profiles \ {c}
          /\ deleted' = [deleted EXCEPT !.acknowledged = @ \cup {c}]
       \/ UNCHANGED <<profiles, deleted>>
    /\ SecretEnds /\ UNCHANGED <<passwords, used>> /\ SameCrypto

-----------------------------------------------------------------------------

\* The process ends between the two writes of a call.
SecretCrash ==
    /\ ~SecretPc("idle") /\ SecretEnds
    /\ SameCrypto /\ SameCloud

SecretInit ==
    /\ cipher = [p \in Owners |-> 0] /\ keyring = [p \in Owners |-> 0] /\ keys = 0
    /\ profiles = {} /\ passwords = {} /\ used = {}
    /\ deleted = [begun |-> {}, acknowledged |-> {}] /\ secretOp = NoSecretOp

SecretNext ==
    \/ SecretCrash
    \/ \E p \in Owners : CryptoSet(p) \/ CryptoSave(p) \/ CryptoForget(p) \/ CryptoForgetKey(p)
    \/ \E c \in Profiles :
         CloudSave(c) \/ CloudSaveProfile(c) \/ CloudDelete(c) \/ CloudDropProfile(c)

SecretSpec == SecretInit /\ [][SecretNext]_secretVars

-----------------------------------------------------------------------------
(* Properties *)

\* Ciphertext in the file can always be read (plugin_crypto_storage.rs): its key
\* is never rolled back, replaced or deleted before it, whichever write of a
\* call fails and wherever the process ends.
CipherHasItsKey == \A p \in Owners : cipher[p] # 0 => keyring[p] = cipher[p]

\* A profile whose deletion was not begun has its password, and of one whose
\* deletion was acknowledged nothing is left (cloud_credentials.rs).
ProfilesAreWhole ==
    /\ profiles \subseteq passwords \cup deleted.begun
    /\ deleted.acknowledged \cap (profiles \cup passwords) = {}
=============================================================================
