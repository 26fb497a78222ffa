---------------------------- MODULE Files_proofs -----------------------------
(* What holds of the files the host keeps, whatever their number, content and owners. *)
EXTENDS SettingsFile, SecretStores, DocumentStore, HostLog, HostsFile,
        WellFoundedInduction, SequenceTheorems, TLAPS

------------------------------------------------------------------------------
(* The settings: a file and its backups *)

\* A backup is older than the file, and than the save that is being written.
BackupsAreOlder == primary # 0 => \A b \in backups : b < primary
SaveIsNewest ==
    SaveAt("aside") \/ SaveAt("promote") \/ SaveAt("cleanup") =>
        /\ saving.new # 0
        /\ ~SaveAt("cleanup") => /\ \A b \in backups : b < saving.new
                                 /\ primary < saving.new
\* At each step of a save the file is where the step leaves it.
AsideHasFile == SaveAt("aside") => primary # 0
StepsInPlace ==
    /\ SaveAt("promote") /\ saving.old # 0 => \A b \in backups : b <= saving.old
    /\ SaveAt("cleanup") => primary = saving.new

\* Where no load has passed anything over, nothing but the newest content is found.
Sound == store # LauncherHotkey /\ ~degraded =>
            BackupsAreOlder /\ SaveIsNewest /\ StepsInPlace

\* A start finds what is answered, or the save that was cut short.
Found == store # LauncherHotkey /\ ~degraded =>
            IF SaveAt("cleanup") THEN TRUE
            ELSE Durable = held \/ (SaveAt("off") /\ Durable = saving.new)

SettingsInv == SettingsTypeOK /\ AsideHasFile /\ Sound /\ Found

-----------------------------------------------------------------------------
(* The newest backup *)

\* Some numbers up to a limit have a largest one among them.
LEMMA NewestExists ==
  ASSUME NEW n \in Nat, NEW S, S \subseteq 1..n, S # {}
  PROVE  /\ NewestBackup(S) \in S
         /\ \A c \in S : c <= NewestBackup(S)
<1> DEFINE T == {n - b : b \in S}
<1>1. T \subseteq Nat /\ T # {}
  <2>1. \A b \in S : b \in Int /\ 1 <= b /\ b <= n
    OBVIOUS
  <2>2. \A b \in S : n - b \in Nat
    BY <2>1
  <2> QED
    BY <2>2
<1>2. PICK x \in T : \A y \in T : <<y, x>> \notin OpToRel(<, Nat)
  BY <1>1, NatLessThanWellFounded, WFMin
<1>3. PICK b \in S : x = n - b
  OBVIOUS
<1>4. ASSUME NEW c \in S PROVE c <= b
  <2>1. n - c \in T /\ n - c \in Nat /\ x \in Nat
    BY <1>1
  <2>2. ~(n - c < x)
    BY <1>2, <2>1 DEF OpToRel
  <2> QED
    BY <1>3, <2>2
<1> QED
  BY <1>4 DEF NewestBackup

\* What is larger than every other backup is the newest.
LEMMA NewestIs ==
  ASSUME NEW S, S \subseteq Nat, NEW b \in S, \A c \in S : c <= b
  PROVE  NewestBackup(S) = b
<1>1. NewestBackup(S) \in S /\ \A c \in S : c <= NewestBackup(S)
  BY DEF NewestBackup
<1>2. NewestBackup(S) <= b /\ b <= NewestBackup(S)
  BY <1>1
<1>3. NewestBackup(S) \in Nat /\ b \in Nat
  BY <1>1
<1> QED
  BY <1>2, <1>3

\* A start with a file finds it; without one it finds the newest backup.
LEMMA DurableFacts ==
  ASSUME SettingsTypeOK
  PROVE  /\ Durable \in 0..saves
         /\ primary # 0 => Durable = primary
         /\ primary = 0 /\ backups = {} => Durable = 0
         /\ primary = 0 /\ backups # {} => /\ Durable = NewestBackup(backups)
                                          /\ Durable \in backups
                                          /\ \A b \in backups : b <= Durable
<1>1. saves \in Nat /\ primary \in 0..saves /\ backups \subseteq 1..saves
  BY SettingsAssumption DEF SettingsTypeOK
<1>2. CASE primary # 0
  BY <1>1, <1>2 DEF Durable
<1>3. CASE primary = 0 /\ backups = {}
  BY <1>1, <1>3 DEF Durable
<1>4. CASE primary = 0 /\ backups # {}
  <2>1. NewestBackup(backups) \in backups /\ \A b \in backups : b <= NewestBackup(backups)
    BY <1>1, <1>4, NewestExists
  <2>2. primary = 0 /\ backups # {}
    BY <1>4
  <2>3. Durable = NewestBackup(backups)
    BY <2>2, Zenon DEF Durable
  <2>4. NewestBackup(backups) \in 0..saves
    <3>1. \A b \in backups : b \in 0..saves
      BY <1>1
    <3> QED
      BY <2>1, <3>1, Zenon
  <2> QED
    BY <2>1, <2>2, <2>3, <2>4, Zenon
<1> QED
  BY <1>2, <1>3, <1>4

-----------------------------------------------------------------------------
(* Types *)

\* Every step keeps the types.
LEMMA TypeStep ==
  ASSUME SettingsTypeOK, AsideHasFile, [SettingsNext]_settingsVars
  PROVE  SettingsTypeOK' /\ AsideHasFile'
<1> USE DEF SettingsTypeOK, AsideHasFile, SaveAt
<1>a. saves \in Nat /\ MaxSaves \in Nat /\ 0 \in 0..saves
  BY SettingsAssumption
<1>b. \A b \in backups : b \in 0..saves
  BY <1>a
<1>c. saving.pc \in {"idle", "aside", "promote", "cleanup", "off"}
        /\ saving.new \in 0..saves /\ saving.old \in 0..saves
  OBVIOUS
<1>d. saving = [pc |-> saving.pc, new |-> saving.new, old |-> saving.old]
  OBVIOUS
<1> USE <1>a
<1>1. CASE Loads
  <2>1. /\ store' = store /\ saves' = saves /\ saving.pc # "aside" /\ saving.pc # "promote"
        /\ primary' \in 0..saves /\ backups' \subseteq backups
    BY <1>1, <1>b DEF Loads, LoadReads, LoadOverlooks, LoadRecovers, LoadFindsNone
  <2>2. /\ saving' \in {NotSaving, saving} /\ held' \in 0..saves
        /\ degraded' \in BOOLEAN
    <3>1. ASSUME NEW d \in BOOLEAN, LoadFails(d)
          PROVE  saving' \in {NotSaving, saving} /\ held' \in 0..saves /\ degraded' \in BOOLEAN
      BY <3>1 DEF LoadFails, AnswersWith
    <3>2. ASSUME NEW d \in BOOLEAN, ReadsFile(d)
          PROVE  saving' \in {NotSaving, saving} /\ held' \in 0..saves /\ degraded' \in BOOLEAN
      BY <2>1, <3>1, <3>2 DEF ReadsFile, AnswersWith
    <3>3. CASE LoadReads
      BY <3>2, <3>3 DEF LoadReads
    <3>4. CASE LoadOverlooks
      BY <3>4 DEF LoadOverlooks, AnswersWith
    <3>5. CASE LoadRecovers
      <4>1. PICK b \in backups : ReadsFile(degraded \/ b # NewestBackup(backups))
        BY <3>5 DEF LoadRecovers
      <4>2. (degraded \/ b # NewestBackup(backups)) \in BOOLEAN
        OBVIOUS
      <4> QED
        BY <3>2, <4>1, <4>2
    <3>6. CASE LoadFindsNone
      BY <3>1, <3>6 DEF LoadFindsNone, AnswersWith
    <3> QED
      BY <1>1, <3>3, <3>4, <3>5, <3>6 DEF Loads
  <2> QED
    BY <2>1, <2>2 DEF NotSaving
<1>2. CASE Save
  BY <1>2, SettingsAssumption DEF Save
<1>3. CASE SetAside
  <2>2. CASE saving' = NotSaving /\ UNCHANGED <<primary, backups>>
    BY <1>3, <2>2 DEF SetAside, NotSaving
  <2>3. CASE /\ backups' = backups \cup {primary} /\ primary' = 0
             /\ saving' = [saving EXCEPT !.pc = "promote", !.old = primary]
    <3>1. saving.pc = "aside" /\ primary \in 1..saves
      BY <1>3 DEF SetAside
    <3>2. saving' = [pc |-> "promote", new |-> saving.new, old |-> primary]
      BY <1>d, <2>3
    <3> QED
      BY <1>3, <2>3, <3>1, <3>2 DEF SetAside
  <2> QED
    BY <1>3, <2>2, <2>3 DEF SetAside
<1>4. CASE Promote
  BY <1>4 DEF Promote, NotSaving
<1>5. CASE CleanUp
  BY <1>5 DEF CleanUp, NotSaving
<1>6. CASE ClearPreference
  BY <1>6 DEF ClearPreference
<1>7. CASE SettingsCrash
  <2>1. saving' = [saving EXCEPT !.pc = "off", !.old = 0]
    BY <1>7 DEF SettingsCrash
  <2>2. /\ saving' \in [pc : {"idle", "aside", "promote", "cleanup", "off"},
                        new : 0..saves, old : 0..saves]
        /\ saving'.pc = "off"
    BY <2>1
  <2> QED
    BY <1>7, <2>2 DEF SettingsCrash
<1>8. CASE UNCHANGED settingsVars
  BY <1>8 DEF settingsVars
<1> QED
  BY <1>1, <1>2, <1>3, <1>4, <1>5, <1>6, <1>7, <1>8 DEF SettingsNext

-----------------------------------------------------------------------------
(* What is found *)

\* Every step keeps the backups older than the file.
LEMMA SoundStep ==
  ASSUME SettingsInv, SettingsTypeOK', [SettingsNext]_settingsVars
  PROVE  Sound' /\ Found'
<1> SUFFICES ASSUME store' # LauncherHotkey, ~degraded'
             PROVE  /\ (BackupsAreOlder /\ SaveIsNewest /\ StepsInPlace)'
                    /\ ~SaveAt("cleanup")' =>
                         (Durable = held \/ (SaveAt("off") /\ Durable = saving.new))'
  BY DEF Sound, Found
<1> USE DEF SaveAt
<1>a. /\ saves \in Nat /\ primary \in 0..saves /\ held \in 0..saves
      /\ backups \subseteq 1..saves /\ backups \subseteq Nat
      /\ saving.pc \in {"idle", "aside", "promote", "cleanup", "off"}
      /\ saving.new \in 0..saves /\ saving.old \in 0..saves
      /\ saving = [pc |-> saving.pc, new |-> saving.new, old |-> saving.old]
  BY SettingsAssumption DEF SettingsInv, SettingsTypeOK
<1>b. store' = store /\ store # LauncherHotkey
  BY DEF SettingsNext, Loads, Save, SetAside, Promote, CleanUp, ClearPreference,
         SettingsCrash, settingsVars
<1>c. ~degraded
  BY <1>a DEF SettingsNext, Loads, LoadReads, LoadOverlooks, LoadRecovers, LoadFindsNone,
         ReadsFile, LoadFails, Save, SetAside, Promote, CleanUp, ClearPreference,
         SettingsCrash, settingsVars
<1>d. /\ BackupsAreOlder /\ SaveIsNewest /\ StepsInPlace /\ AsideHasFile
      /\ ~SaveAt("cleanup") =>
           Durable = held \/ (SaveAt("off") /\ Durable = saving.new)
  BY <1>b, <1>c DEF SettingsInv, Sound, Found
<1>e. /\ primary # 0 => Durable = primary
      /\ primary = 0 /\ backups = {} => Durable = 0
      /\ primary = 0 /\ backups # {} => /\ Durable = NewestBackup(backups)
                                         /\ Durable \in backups
                                         /\ \A b \in backups : b <= Durable
  BY DurableFacts DEF SettingsInv
<1>g. saving'.pc \in {"idle", "off"} => (SaveIsNewest /\ StepsInPlace)'
  BY DEF SaveIsNewest, StepsInPlace
<1>f. primary' # 0 => Durable' = primary'
  BY DEF Durable
<1>1. CASE Loads
  <2>1. saving.pc \in {"off", "idle"}
    BY <1>1 DEF Loads
  \* What is in place stays what a start would load, and is answered, or nothing is.
  <2>2. BackupsAreOlder' /\ Durable' = Durable
        /\ ((held' = Durable /\ saving' = NotSaving) \/ UNCHANGED <<held, saving>>)
    <3>2. CASE LoadReads
      <4>1. /\ primary' = primary /\ backups' = backups
            /\ (held' = primary /\ saving' = NotSaving) \/ UNCHANGED <<held, saving>>
        BY <3>2 DEF LoadReads, ReadsFile, LoadFails, AnswersWith
      <4>2. Durable = primary
        BY <1>e, <3>2 DEF LoadReads
      <4>3. Durable' = Durable
        BY <4>1 DEF Durable
      <4> QED
        BY <1>d, <4>1, <4>2, <4>3 DEF BackupsAreOlder
    <3>3. CASE LoadRecovers
      <4>1. PICK b \in backups :
              /\ primary = 0 /\ primary' = b /\ backups' = backups \ {b}
              /\ ReadsFile(degraded \/ b # NewestBackup(backups))
        BY <3>3 DEF LoadRecovers
      <4>2. b = NewestBackup(backups)
        BY <4>1 DEF ReadsFile, LoadFails
      <4>3. /\ b = Durable /\ b # 0 /\ \A c \in backups' : c < b
        BY <1>a, <1>e, <4>1, <4>2
      <4>4. (held' = b /\ saving' = NotSaving) \/ UNCHANGED <<held, saving>>
        BY <4>1 DEF ReadsFile, LoadFails, AnswersWith
      <4> QED
        BY <1>f, <4>1, <4>3, <4>4 DEF BackupsAreOlder
    <3>4. CASE LoadFindsNone
      <4>1. /\ primary = 0 /\ primary' = primary /\ backups' = backups
            /\ (backups = {} /\ held' = 0 /\ saving' = NotSaving) \/ UNCHANGED <<held, saving>>
        BY <3>4 DEF LoadFindsNone, LoadFails, AnswersWith
      <4>2. Durable' = Durable
        BY <4>1 DEF Durable
      <4> QED
        BY <1>d, <1>e, <4>1, <4>2 DEF BackupsAreOlder
    <3> QED
      BY <1>1, <3>2, <3>3, <3>4 DEF Loads, LoadOverlooks
  <2>3. saving' = NotSaving => saving'.pc = "idle"
    BY DEF NotSaving
  <2>4. saving'.pc \in {"idle", "off"}
    BY <2>1, <2>2, <2>3
  <2> QED
    BY <1>d, <1>g, <2>1, <2>2, <2>3, <2>4
<1>2. CASE Save
  <2>1. /\ primary' = primary /\ backups' = backups /\ held' = held
        /\ saving.pc = "idle" /\ saves' = saves + 1
        /\ saving' = [pc |-> IF primary = 0 THEN "promote" ELSE "aside", new |-> saves',
                      old |-> 0]
    BY <1>2 DEF Save
  <2>2. /\ saving'.new = saves + 1 /\ saving'.old = 0
        /\ saving'.pc \in {"promote", "aside"}
    BY <2>1
  <2>3. \A b \in backups : b < saves + 1
    BY <1>a
  <2>4. Durable' = Durable
    BY <2>1 DEF Durable
  <2> QED
    BY <1>a, <1>d, <2>1, <2>2, <2>3, <2>4 DEF BackupsAreOlder, SaveIsNewest, StepsInPlace
<1>3. CASE SetAside
  <2>0. saving.pc = "aside" /\ primary # 0 /\ Durable = primary /\ held' = held
    BY <1>3, <1>d, <1>e DEF SetAside, AsideHasFile
  <2>1. CASE /\ backups' = backups \cup {primary} /\ primary' = 0
             /\ saving' = [saving EXCEPT !.pc = "promote", !.old = primary]
    <3>1. saving'.pc = "promote" /\ saving'.old = primary /\ saving'.new = saving.new
      BY <1>a, <2>1
    <3>2. \A b \in backups' : b <= primary /\ b < saving.new
      BY <1>a, <1>d, <2>0, <2>1 DEF BackupsAreOlder, SaveIsNewest
    <3>3. NewestBackup(backups') = primary
      <4>1. backups' \subseteq Nat /\ primary \in backups'
        BY <1>a, <2>1
      <4> QED
        BY <3>2, <4>1, NewestIs
    <3>4. Durable' = primary
      BY <2>1, <3>3 DEF Durable
    <3> QED
      BY <1>a, <1>d, <2>0, <2>1, <3>1, <3>2, <3>4
         DEF BackupsAreOlder, SaveIsNewest, StepsInPlace
  <2>2. CASE saving' = NotSaving /\ UNCHANGED <<primary, backups>>
    <3>1. saving'.pc = "idle" /\ Durable' = Durable
      BY <2>2 DEF NotSaving, Durable
    <3> QED
      BY <1>g, <1>d, <2>0, <2>2, <3>1 DEF BackupsAreOlder
  <2> QED
    BY <1>3, <2>1, <2>2 DEF SetAside
<1>4. CASE Promote
  <2>0. /\ saving.pc = "promote" /\ primary = 0 /\ held' = held /\ Durable = held
        /\ saving.old # 0 => saving.old \in backups
    BY <1>4, <1>d DEF Promote, SettingsInv, SettingsTypeOK
  <2>1. CASE primary' = saving.new /\ saving' = [saving EXCEPT !.pc = "cleanup"] /\ backups' = backups
    <3>1. saving'.pc = "cleanup" /\ saving'.new = saving.new
      BY <1>a, <2>1
    <3> QED
      BY <1>d, <2>0, <2>1, <3>1 DEF BackupsAreOlder, SaveIsNewest, StepsInPlace
  <2>2. CASE saving' = NotSaving /\ UNCHANGED <<primary, backups>>
    <3>1. saving'.pc = "idle" /\ Durable' = Durable
      BY <2>2 DEF NotSaving, Durable
    <3> QED
      BY <1>g, <1>d, <2>0, <2>2, <3>1 DEF BackupsAreOlder
  <2>3. CASE /\ saving' = NotSaving
             /\ saving.old # 0 /\ primary' = saving.old /\ backups' = backups \ {saving.old}
    <3>1. saving'.pc = "idle"
      BY <2>3 DEF NotSaving
    <3>2. saving.old \in backups /\ \A b \in backups : b <= saving.old
      BY <1>d, <2>0, <2>3 DEF StepsInPlace
    <3>3. Durable = saving.old
      BY <1>a, <1>e, <2>0, <3>2
    <3>4. \A b \in backups' : b < primary'
      BY <1>a, <2>3, <3>2
    <3> QED
      BY <1>g, <1>f, <2>0, <2>3, <3>1, <3>3, <3>4 DEF BackupsAreOlder
  <2> QED
    BY <1>4, <2>1, <2>2, <2>3 DEF Promote
<1>5. CASE CleanUp
  <2>1. /\ saving.pc = "cleanup" /\ primary' = primary /\ held' = saving.new
        /\ saving' = NotSaving /\ saving'.pc = "idle" /\ backups' \subseteq backups
    BY <1>5 DEF CleanUp, NotSaving
  <2>2. primary = saving.new /\ primary # 0
    BY <1>d, <2>1 DEF SaveIsNewest, StepsInPlace
  <2> QED
    BY <1>g, <1>d, <1>f, <2>1, <2>2 DEF BackupsAreOlder
<1>6. CASE ClearPreference
  BY <1>b, <1>6 DEF ClearPreference
<1>7. CASE SettingsCrash
  <2>1. /\ saving' = [saving EXCEPT !.pc = "off", !.old = 0]
        /\ primary' = primary /\ backups' = backups /\ held' = held /\ saving.pc # "off"
    BY <1>7 DEF SettingsCrash
  <2>2. saving'.pc = "off" /\ saving'.new = saving.new
    BY <1>a, <2>1
  <2>3. Durable' = Durable
    BY <2>1 DEF Durable
  <2>4. saving.pc = "cleanup" => Durable = saving.new
    BY <1>d, <1>e DEF SaveIsNewest, StepsInPlace
  <2> QED
    BY <1>d, <2>1, <2>2, <2>3, <2>4 DEF BackupsAreOlder, SaveIsNewest, StepsInPlace
<1>8. CASE UNCHANGED settingsVars
  BY <1>d, <1>8 DEF settingsVars, BackupsAreOlder, SaveIsNewest, StepsInPlace, Durable
<1> QED
  BY <1>1, <1>2, <1>3, <1>4, <1>5, <1>6, <1>7, <1>8 DEF SettingsNext

-----------------------------------------------------------------------------
(* The theorems *)

\* The invariant holds from the start on.
LEMMA SettingsInvHolds == SettingsSpec => []SettingsInv
<1>1. SettingsInit => SettingsInv
  <2> SUFFICES ASSUME SettingsInit PROVE SettingsInv
    OBVIOUS
  <2>1. /\ primary = 0 /\ backups = {} /\ held = 0 /\ saves = 0 /\ degraded = FALSE
        /\ saving = NotSaving /\ saving.pc = "idle" /\ saving.new = 0 /\ saving.old = 0
        /\ store \in Stores
    BY DEF SettingsInit, NotSaving
  <2>2. Durable = 0
    BY <2>1 DEF Durable
  <2>3. SettingsTypeOK
    <3>1. saves \in 0..MaxSaves /\ 0 \in 0..saves /\ backups \subseteq 1..saves
      BY <2>1, SettingsAssumption
    <3>2. saving \in [pc : {"idle", "aside", "promote", "cleanup", "off"},
                      new : 0..saves, old : 0..saves]
      BY <2>1, <3>1, Zenon DEF NotSaving
    <3> QED
      BY <2>1, <3>1, <3>2 DEF SettingsTypeOK, SaveAt
  <2> QED
    BY <2>1, <2>2, <2>3 DEF SettingsInv, AsideHasFile, Sound, Found, BackupsAreOlder,
                            SaveIsNewest, StepsInPlace, SaveAt
<1>2. SettingsInv /\ [SettingsNext]_settingsVars => SettingsInv'
  BY TypeStep, SoundStep DEF SettingsInv
<1> QED
  BY <1>1, <1>2, PTL DEF SettingsSpec

\* In every store, at every step of a save, a staged file is renamed only where no file
\* is, and the file it replaces is a backup until the new one is in its place.
THEOREM SettingsTyped == SettingsSpec => []SettingsTypeOK
<1>1. SettingsInv => SettingsTypeOK
  BY DEF SettingsInv
<1> QED
  BY <1>1, SettingsInvHolds, PTL

\* Whatever renames and reads fail and wherever the process ends, the next start finds
\* what the program answers or the save that was cut short, for any number of saves: as
\* long as no load answers the default or an older backup in place of what is there.
THEOREM SavesAreFound == SettingsSpec => []SavedIsFound
<1>1. SettingsInv => SavedIsFound
  <2> SUFFICES ASSUME SettingsInv, store # LauncherHotkey, ~degraded
               PROVE  \/ Durable = held
                      \/ saving.pc \in {"cleanup", "off"} /\ Durable = saving.new
    BY DEF SavedIsFound
  <2>1. SaveIsNewest /\ StepsInPlace /\ (primary # 0 => Durable = primary)
    BY DurableFacts DEF SettingsInv, Sound
  <2>2. CASE SaveAt("cleanup")
    BY <2>1, <2>2 DEF SaveIsNewest, StepsInPlace, SaveAt
  <2>3. CASE ~SaveAt("cleanup")
    BY <2>3 DEF SettingsInv, Found, SaveAt
  <2> QED
    BY <2>2, <2>3
<1> QED
  BY <1>1, SettingsInvHolds, PTL

------------------------------------------------------------------------------
(* Ciphertexts and profiles with their keys *)

SecretTyped ==
    /\ cipher \in [Owners -> Nat] /\ keyring \in [Owners -> Nat] /\ keys \in Nat
    /\ secretOp \in [pc : {"idle", "encrypt", "forget", "profile", "drop"},
                     of : SUBSET (Owners \cup Profiles), created : BOOLEAN]
    /\ deleted = [begun |-> deleted.begun, acknowledged |-> deleted.acknowledged]

\* The two writes of a call are in the right order: a key is new only while there
\* is no ciphertext, and a key goes only when the ciphertext has gone.
CryptoInOrder ==
    \A p \in Owners : secretOp.of = {p} =>
        /\ SecretPc("encrypt") /\ secretOp.created => cipher[p] = 0
        /\ SecretPc("forget") => cipher[p] = 0

\* A profile that is being saved is a new one, with its password; one that is being
\* dropped has lost it.
CloudInOrder ==
    /\ profiles \cup deleted.begun \cup deleted.acknowledged \subseteq used
    /\ \A c \in Profiles : secretOp.of = {c} =>
        /\ SecretPc("profile") => /\ c \in passwords /\ c \in used
                                  /\ c \notin profiles \cup deleted.acknowledged
        /\ SecretPc("drop") => c \in deleted.begun /\ c \notin passwords

CryptoInv == SecretTyped /\ CryptoInOrder /\ CipherHasItsKey
CloudInv  == SecretTyped /\ CloudInOrder /\ ProfilesAreWhole

\* Every step keeps the types.
LEMMA SecretTypesKept ==
  ASSUME SecretTyped, [SecretNext]_secretVars
  PROVE  SecretTyped'
<1> USE DEF SecretTyped, SameCrypto, SameCloud, SecretEnds, SecretGoto, NoSecretOp, SecretPc
<1>1. CASE SecretCrash
  BY <1>1 DEF SecretCrash
<1>2. ASSUME NEW p \in Owners, CryptoSet(p) PROVE SecretTyped'
  <2>1. keys' \in Nat /\ keyring' \in [Owners -> Nat]
    <3>1. CASE UNCHANGED <<keyring, keys>>
      BY <3>1
    <3>2. CASE keys' = keys + 1 /\ keyring' = [keyring EXCEPT ![p] = keys']
      <4>1. keys' \in Nat
        BY <3>2
      <4> QED
        BY <3>2, <4>1
    <3> QED
      BY <1>2, <3>1, <3>2 DEF CryptoSet
  <2>2. secretOp' \in [pc : {"idle", "encrypt", "forget", "profile", "drop"},
                       of : SUBSET (Owners \cup Profiles), created : BOOLEAN]
    <3>1. PICK b \in BOOLEAN : secretOp' = [pc |-> "encrypt", of |-> {p}, created |-> b]
      BY <1>2, Zenon DEF CryptoSet
    <3> QED
      BY <3>1
  <2> QED
    BY <1>2, <2>1, <2>2 DEF CryptoSet
<1>3. ASSUME NEW p \in Owners, CryptoSave(p) PROVE SecretTyped'
  <2>1. cipher' \in [Owners -> Nat]
    BY <1>3 DEF CryptoSave
  <2>2. keyring' \in [Owners -> Nat]
    BY <1>3 DEF CryptoSave
  <2> QED
    BY <1>3, <2>1, <2>2 DEF CryptoSave
<1>4. ASSUME NEW p \in Owners, CryptoForget(p) PROVE SecretTyped'
  <2>1. CASE cipher' = [cipher EXCEPT ![p] = 0] /\ SecretGoto("forget", {p}, FALSE)
    BY <1>4, <2>1 DEF CryptoForget
  <2>2. CASE UNCHANGED <<cipher, secretOp>>
    BY <1>4, <2>2 DEF CryptoForget
  <2> QED
    BY <1>4, <2>1, <2>2 DEF CryptoForget
<1>5. ASSUME NEW p \in Owners, CryptoForgetKey(p) PROVE SecretTyped'
  BY <1>5 DEF CryptoForgetKey
<1>6. ASSUME NEW c \in Profiles, CloudSave(c) PROVE SecretTyped'
  BY <1>6 DEF CloudSave
<1>7. ASSUME NEW c \in Profiles, CloudSaveProfile(c) PROVE SecretTyped'
  BY <1>7 DEF CloudSaveProfile
<1>8. ASSUME NEW c \in Profiles, CloudDelete(c) PROVE SecretTyped'
  BY <1>8 DEF CloudDelete
<1>9. ASSUME NEW c \in Profiles, CloudDropProfile(c) PROVE SecretTyped'
  BY <1>9 DEF CloudDropProfile
<1>10. CASE UNCHANGED secretVars
  BY <1>10 DEF secretVars
<1> QED
  BY <1>1, <1>2, <1>3, <1>4, <1>5, <1>6, <1>7, <1>8, <1>9, <1>10 DEF SecretNext

-----------------------------------------------------------------------------
(* Encrypted storage *)

\* Every step keeps a ciphertext and its key in order...
LEMMA CryptoStep ==
  ASSUME CryptoInv, [SecretNext]_secretVars
  PROVE  CryptoInOrder' /\ CipherHasItsKey'
<1> USE DEF CryptoInv, CryptoInOrder, CipherHasItsKey, SecretPc
<1>a. cipher \in [Owners -> Nat] /\ keyring \in [Owners -> Nat] /\ keys \in Nat
  BY DEF SecretTyped
<1>1. CASE SecretCrash
  BY <1>1 DEF SecretCrash, SecretEnds, NoSecretOp, SameCrypto
<1>2. ASSUME NEW p \in Owners, CryptoSet(p) PROVE CryptoInOrder' /\ CipherHasItsKey'
  <2>1. cipher' = cipher /\ secretOp'.pc = "encrypt" /\ secretOp'.of = {p}
    BY <1>2 DEF CryptoSet, SecretGoto
  <2>2. CASE keyring' = keyring /\ secretOp'.created = FALSE
    BY <2>1, <2>2
  <2>3. CASE cipher[p] = 0 /\ keys' = keys + 1 /\ keyring' = [keyring EXCEPT ![p] = keys']
    BY <1>a, <2>1, <2>3
  <2> QED
    BY <1>2, <2>2, <2>3 DEF CryptoSet, SecretGoto
<1>3. ASSUME NEW p \in Owners, CryptoSave(p) PROVE CryptoInOrder' /\ CipherHasItsKey'
  <2>1. secretOp'.pc = "idle" /\ secretOp.pc = "encrypt" /\ secretOp.of = {p}
    BY <1>3 DEF CryptoSave, SecretEnds, NoSecretOp
  <2>2. CASE cipher' = [cipher EXCEPT ![p] = keyring[p]] /\ keyring' = keyring
    BY <1>a, <2>1, <2>2
  <2>3. CASE keyring' = keyring /\ cipher' = cipher
    BY <2>1, <2>3
  <2>4. CASE secretOp.created /\ keyring' = [keyring EXCEPT ![p] = 0] /\ cipher' = cipher
    BY <1>a, <2>1, <2>4
  <2> QED
    BY <1>3, <2>2, <2>3, <2>4 DEF CryptoSave
<1>4. ASSUME NEW p \in Owners, CryptoForget(p) PROVE CryptoInOrder' /\ CipherHasItsKey'
  BY <1>a, <1>4 DEF CryptoForget, SecretGoto
<1>5. ASSUME NEW p \in Owners, CryptoForgetKey(p) PROVE CryptoInOrder' /\ CipherHasItsKey'
  BY <1>a, <1>5 DEF CryptoForgetKey, SecretEnds, NoSecretOp
<1>6. ASSUME NEW c \in Profiles,
             CloudSave(c) \/ CloudSaveProfile(c) \/ CloudDelete(c) \/ CloudDropProfile(c)
      PROVE  CryptoInOrder' /\ CipherHasItsKey'
  <2>1. cipher' = cipher /\ keyring' = keyring /\ secretOp'.pc \in {"profile", "drop", "idle"}
    BY <1>6 DEF CloudSave, CloudSaveProfile, CloudDelete, CloudDropProfile, SameCrypto,
                SecretGoto, SecretEnds, NoSecretOp
  <2> QED
    BY <2>1
<1>7. CASE UNCHANGED secretVars
  BY <1>7 DEF secretVars
<1> QED
  BY <1>1, <1>2, <1>3, <1>4, <1>5, <1>6, <1>7 DEF SecretNext

\* The ciphertext of a plugin can be read at every moment, whichever write of a call
\* fails and wherever the process ends, for any plugins and any number of keys.
THEOREM CipherIsReadable == SecretSpec => []CipherHasItsKey
<1>1. SecretInit => CryptoInv
  BY DEF SecretInit, CryptoInv, SecretTyped, CryptoInOrder, CipherHasItsKey, NoSecretOp, SecretPc
<1>2. CryptoInv /\ [SecretNext]_secretVars => CryptoInv'
  BY SecretTypesKept, CryptoStep DEF CryptoInv
<1>3. CryptoInv => CipherHasItsKey
  BY DEF CryptoInv
<1> QED
  BY <1>1, <1>2, <1>3, PTL DEF SecretSpec

-----------------------------------------------------------------------------
(* Cloud profiles *)

\* ...and a profile and its password.
LEMMA CloudStep ==
  ASSUME CloudInv, [SecretNext]_secretVars
  PROVE  CloudInOrder' /\ ProfilesAreWhole'
<1> USE DEF CloudInv, CloudInOrder, ProfilesAreWhole, SecretPc
<1>a. deleted = [begun |-> deleted.begun, acknowledged |-> deleted.acknowledged]
  BY DEF SecretTyped
<1>1. CASE SecretCrash
  BY <1>1 DEF SecretCrash, SecretEnds, NoSecretOp, SameCloud
<1>2. ASSUME NEW p \in Owners,
             CryptoSet(p) \/ CryptoSave(p) \/ CryptoForget(p) \/ CryptoForgetKey(p)
      PROVE  CloudInOrder' /\ ProfilesAreWhole'
  <2>1. /\ UNCHANGED <<profiles, passwords, used, deleted>>
        /\ secretOp'.pc \in {"encrypt", "forget", "idle"}
    BY <1>2 DEF CryptoSet, CryptoSave, CryptoForget, CryptoForgetKey, SameCloud,
                SecretGoto, SecretEnds, NoSecretOp
  <2> QED
    BY <2>1
<1>3. ASSUME NEW c \in Profiles, CloudSave(c) PROVE CloudInOrder' /\ ProfilesAreWhole'
  BY <1>3 DEF CloudSave, SecretGoto
<1>4. ASSUME NEW c \in Profiles, CloudSaveProfile(c) PROVE CloudInOrder' /\ ProfilesAreWhole'
  BY <1>4 DEF CloudSaveProfile, SecretEnds, NoSecretOp
<1>5. ASSUME NEW c \in Profiles, CloudDelete(c) PROVE CloudInOrder' /\ ProfilesAreWhole'
  <2>1. deleted'.begun = deleted.begun \cup {c} /\ deleted'.acknowledged = deleted.acknowledged
    BY <1>a, <1>5 DEF CloudDelete
  <2> QED
    BY <1>5, <2>1 DEF CloudDelete, SecretGoto
<1>6. ASSUME NEW c \in Profiles, CloudDropProfile(c) PROVE CloudInOrder' /\ ProfilesAreWhole'
  <2>1. secretOp'.pc = "idle" /\ secretOp.pc = "drop" /\ secretOp.of = {c}
        /\ passwords' = passwords /\ used' = used
    BY <1>6 DEF CloudDropProfile, SecretEnds, NoSecretOp
  <2>2. CASE profiles' = profiles /\ deleted' = deleted
    BY <2>1, <2>2
  <2>3. CASE /\ profiles' = profiles \ {c}
             /\ deleted' = [deleted EXCEPT !.acknowledged = @ \cup {c}]
    <3>1. deleted'.begun = deleted.begun /\ deleted'.acknowledged = deleted.acknowledged \cup {c}
      BY <1>a, <2>3
    <3>2. c \in deleted.begun /\ c \notin passwords /\ c \in used
      BY <1>6, <2>1 DEF CloudDropProfile
    <3>3. CloudInOrder'
      BY <2>1, <2>3, <3>1, <3>2
    <3>4. profiles' \subseteq passwords' \cup deleted'.begun
      BY <2>1, <2>3, <3>1
    <3>5. deleted'.acknowledged \cap (profiles' \cup passwords') = {}
      <4>1. ASSUME NEW x \in deleted'.acknowledged PROVE x \notin profiles' \cup passwords'
        BY <2>1, <2>3, <3>1, <3>2, <4>1
      <4> QED
        BY <4>1
    <3> QED
      BY <3>3, <3>4, <3>5
  <2> QED
    BY <1>6, <2>2, <2>3 DEF CloudDropProfile
<1>7. CASE UNCHANGED secretVars
  BY <1>7 DEF secretVars
<1> QED
  BY <1>1, <1>2, <1>3, <1>4, <1>5, <1>6, <1>7 DEF SecretNext

\* A profile has its password until its deletion is begun, and nothing is left of one
\* whose deletion was acknowledged, for any profiles.
THEOREM ProfilesKeepPasswords == SecretSpec => []ProfilesAreWhole
<1>1. SecretInit => CloudInv
  BY DEF SecretInit, CloudInv, SecretTyped, CloudInOrder, ProfilesAreWhole, NoSecretOp, SecretPc
<1>2. CloudInv /\ [SecretNext]_secretVars => CloudInv'
  BY SecretTypesKept, CloudStep DEF CloudInv
<1>3. CloudInv => ProfilesAreWhole
  BY DEF CloudInv
<1> QED
  BY <1>1, <1>2, <1>3, PTL DEF SecretSpec

------------------------------------------------------------------------------
(* The documents of the plugins *)

Documents == [gen : Nat, rev : Nat, edits : SUBSET Nat, file : BOOLEAN]
Databases == [DocIds -> Documents \cup {NoDoc}]

\* What the cache holds is what is on the disk.  A revision has been given out, and
\* a surface that read the current one has read what is there.
DocInv ==
    /\ issued \in Nat /\ onDisk \in Databases /\ seen \in [Surfaces -> Databases]
    /\ written \in [DocIds -> SUBSET Nat]
    /\ cache \in {NotLoaded, Loaded(onDisk)}
    /\ ~intact => onDisk = Empty
    /\ ~wiped => FilesThere
    /\ \A d \in DocIds : onDisk[d] # NoDoc => onDisk[d].rev <= issued
    /\ \A s \in Surfaces, d \in DocIds : seen[s][d] # NoDoc => seen[s][d].rev <= issued
    /\ \A s \in Surfaces, d \in DocIds :
          onDisk[d] # NoDoc /\ seen[s][d] # NoDoc /\ onDisk[d].rev = seen[s][d].rev
             => onDisk[d] = seen[s][d]
    /\ \A d \in DocIds : written[d] # {} =>
          onDisk[d] # NoDoc /\ written[d] \subseteq onDisk[d].edits

\* A document is made of what it is given.
LEMMA NewDocument ==
  ASSUME NEW gen \in Nat, NEW rev \in Nat, NEW edits \in SUBSET Nat, NEW file \in BOOLEAN
  PROVE  /\ Doc(gen, rev, edits, file) \in Documents
         /\ Doc(gen, rev, edits, file) # NoDoc
         /\ Doc(gen, rev, edits, file).rev = rev
         /\ Doc(gen, rev, edits, file).edits = edits
         /\ Doc(gen, rev, edits, file).file = file
<1>1. Doc(gen, rev, edits, file) \in Documents
  BY Zenon DEF Doc, Documents
<1>2. Doc(gen, rev, edits, file) # NoDoc
  BY <1>1, DocumentAssumption, Zenon DEF Documents
<1>3. /\ Doc(gen, rev, edits, file).rev = rev
      /\ Doc(gen, rev, edits, file).edits = edits
  BY DEF Doc
<1>4. Doc(gen, rev, edits, file).file = file
  BY Zenon DEF Doc
<1> QED
  BY <1>1, <1>2, <1>3, <1>4

\* The database that a command works on is the one on the disk.
LEMMA CacheIsDisk ==
  ASSUME DocInv
  PROVE  Database = onDisk
<1>1. CASE cache = NotLoaded
  <2>1. cache.loaded = FALSE
    BY <1>1, Zenon DEF NotLoaded
  <2> QED
    BY <2>1, Zenon DEF DocInv, Database
<1>2. CASE cache = Loaded(onDisk)
  <2>1. cache.loaded = TRUE /\ cache.docs = onDisk
    BY <1>2 DEF Loaded
  <2> QED
    BY <2>1, Zenon DEF Database
<1> QED
  BY <1>1, <1>2 DEF DocInv

\* A new database has no documents.
LEMMA NothingStored == /\ Empty \in Databases /\ \A d \in DocIds : Empty[d] = NoDoc
                 /\ NeverRead \in [Surfaces -> Databases]
                 /\ \A s \in Surfaces, d \in DocIds : NeverRead[s][d] = NoDoc
BY DEF Empty, Databases, NeverRead

\* A put keeps the invariant: its document has the edits of the one it replaces.
LEMMA PutKeeps ==
  ASSUME DocInv, NEW s \in Surfaces, NEW d \in DocIds, Put(s, d)
  PROVE  DocInv'
<1> DEFINE old == onDisk[d]
           new == Doc(IF old = NoDoc THEN 1 ELSE old.gen + 1, issued + 1,
                      (IF seen[s][d] = NoDoc THEN {} ELSE seen[s][d].edits) \cup {issued + 1}, FALSE)
           db  == [onDisk EXCEPT ![d] = new]
<1>1. /\ SameRevision(old, seen[s][d]) /\ issued' = issued + 1
      /\ \/ Saved(db) /\ written' = [written EXCEPT ![d] = @ \cup {issued + 1}]
            /\ seen' = [seen EXCEPT ![s][d] = db[d]]
         \/ NotSaved /\ UNCHANGED <<written, seen>>
         \/ DocEnds(db) /\ UNCHANGED written
      /\ UNCHANGED <<attached, wiped>>
  BY CacheIsDisk DEF Put
<1>2. /\ old \in Documents \cup {NoDoc} /\ seen[s][d] \in Documents \cup {NoDoc}
      /\ issued \in Nat
  BY DEF DocInv, Databases
<1>3. old # NoDoc => old = seen[s][d]
  BY <1>1 DEF SameRevision, DocInv
<1>4. old = NoDoc => seen[s][d] = NoDoc
  BY <1>1 DEF SameRevision
<1>5. /\ new \in Documents /\ new # NoDoc /\ new.rev = issued + 1 /\ new.file = FALSE
      /\ new.edits = (IF old = NoDoc THEN {} ELSE old.edits) \cup {issued + 1}
  <2>1. (IF seen[s][d] = NoDoc THEN {} ELSE seen[s][d].edits) \cup {issued + 1} \in SUBSET Nat
    BY <1>2 DEF Documents
  <2>2. (IF old = NoDoc THEN 1 ELSE old.gen + 1) \in Nat
    BY <1>2 DEF Documents
  <2>3. issued + 1 \in Nat
    BY <1>2
  <2>4. /\ new \in Documents /\ new # NoDoc /\ new.rev = issued + 1 /\ new.file = FALSE
        /\ new.edits = (IF seen[s][d] = NoDoc THEN {} ELSE seen[s][d].edits) \cup {issued + 1}
    <3> DEFINE g == IF old = NoDoc THEN 1 ELSE old.gen + 1
               e == (IF seen[s][d] = NoDoc THEN {} ELSE seen[s][d].edits) \cup {issued + 1}
               rev == issued + 1
               no == FALSE
    <3>1. g \in Nat /\ rev \in Nat /\ e \in SUBSET Nat /\ no \in BOOLEAN /\ new = Doc(g, rev, e, no)
      BY <2>1, <2>2, <2>3
    <3> HIDE DEF g, new, e, rev, no
    <3>3. /\ Doc(g, rev, e, no) \in Documents /\ Doc(g, rev, e, no) # NoDoc
          /\ Doc(g, rev, e, no).rev = rev /\ Doc(g, rev, e, no).edits = e
          /\ Doc(g, rev, e, no).file = no
      BY <3>1, NewDocument
    <3>2. new \in Documents /\ new # NoDoc /\ new.rev = rev /\ new.file = no /\ new.edits = e
      BY <3>1, <3>3, Zenon
    <3> QED
      BY <3>2 DEF e, rev, no
  <2>5. (IF seen[s][d] = NoDoc THEN {} ELSE seen[s][d].edits) = (IF old = NoDoc THEN {} ELSE old.edits)
    <3>1. CASE old = NoDoc
      BY <3>1, <1>4
    <3>2. CASE old # NoDoc
      <4>1. old = seen[s][d]
        BY <3>2, <1>3
      <4> HIDE DEF old
      <4> QED
        BY <3>2, <4>1
    <3> QED
      BY <3>1, <3>2
  <2> QED
    BY <2>4, <2>5
<1> HIDE DEF new
<1>6. /\ db \in Databases /\ db[d] = new /\ \A e \in DocIds \ {d} : db[e] = onDisk[e]
  BY <1>5 DEF DocInv, Databases
<1> HIDE DEF db
<1>7. CASE Saved(db) /\ written' = [written EXCEPT ![d] = @ \cup {issued + 1}]
           /\ seen' = [seen EXCEPT ![s][d] = db[d]]
  <2>1. /\ onDisk' = db /\ intact' = TRUE /\ cache' = Loaded(db)
    BY <1>7 DEF Saved
  <2>2. /\ seen' \in [Surfaces -> Databases]
        /\ seen'[s][d] = new
        /\ \A t \in Surfaces, e \in DocIds : <<t, e>> # <<s, d>> => seen'[t][e] = seen[t][e]
    BY <1>7, <1>5, <1>6 DEF DocInv, Databases
  <2>3. /\ written' \in [DocIds -> SUBSET Nat] /\ written'[d] = written[d] \cup {issued + 1}
        /\ \A e \in DocIds \ {d} : written'[e] = written[e]
    BY <1>7, <1>2 DEF DocInv
  <2>4. written'[d] \subseteq new.edits
    BY <2>3, <1>5 DEF DocInv
  <2>5. ~wiped' => FilesThere'
    BY <1>1, <1>5, <1>6, <2>1 DEF FilesThere, DocInv
  <2>6. issued' \in Nat /\ issued < issued'
    BY <1>1, <1>2
  <2>7. \A e \in DocIds : onDisk'[e] # NoDoc => onDisk'[e].rev <= issued'
    BY <2>1, <2>6, <1>6, <1>5, <1>1 DEF DocInv, Databases, Documents
  <2>8. \A t \in Surfaces, e \in DocIds : seen'[t][e] # NoDoc => seen'[t][e].rev <= issued'
    BY <2>2, <2>6, <1>5, <1>1 DEF DocInv, Databases, Documents
  <2>9. ASSUME NEW t \in Surfaces, NEW e \in DocIds, onDisk'[e] # NoDoc, seen'[t][e] # NoDoc,
               onDisk'[e].rev = seen'[t][e].rev
        PROVE  onDisk'[e] = seen'[t][e]
    <3>1. CASE e # d
      BY <3>1, <2>1, <2>2, <2>9, <1>6 DEF DocInv
    <3>2. CASE e = d /\ t # s
      BY <3>2, <2>1, <2>2, <2>6, <2>9, <1>5, <1>6, <1>2 DEF DocInv, Databases, Documents
    <3>3. CASE e = d /\ t = s
      BY <3>3, <2>1, <2>2, <1>6
    <3> QED
      BY <3>1, <3>2, <3>3
  <2>10. \A e \in DocIds : written'[e] # {} =>
          onDisk'[e] # NoDoc /\ written'[e] \subseteq onDisk'[e].edits
    BY <2>1, <2>3, <2>4, <1>5, <1>6 DEF DocInv
  <2> QED
    BY <2>1, <2>2, <2>3, <2>5, <2>6, <2>7, <2>8, <2>9, <2>10, <1>6 DEF DocInv, Loaded
<1>8. CASE NotSaved /\ UNCHANGED <<written, seen>>
  <2>1. onDisk' = onDisk /\ intact' = intact /\ cache' = Loaded(onDisk)
    BY <1>8, CacheIsDisk DEF NotSaved
  <2> QED
    BY <1>1, <1>2, <1>8, <2>1 DEF DocInv, FilesThere, Loaded, Databases, Documents
<1>9. CASE DocEnds(db) /\ UNCHANGED written
  <2>1. /\ cache' = NotLoaded /\ seen' = NeverRead
        /\ \/ onDisk' = db /\ intact' = TRUE
           \/ UNCHANGED <<onDisk, intact>>
    BY <1>9 DEF DocEnds
  <2>2. \A e \in DocIds : written[e] # {} => db[e] # NoDoc /\ written[e] \subseteq db[e].edits
    BY <1>5, <1>6 DEF DocInv
  <2>3. \A e \in DocIds : db[e] # NoDoc => db[e].rev <= issued'
    BY <1>1, <1>2, <1>5, <1>6 DEF DocInv, Databases, Documents
  <2>4. \A e \in DocIds : onDisk[e] # NoDoc => onDisk[e].rev <= issued'
    BY <1>1, <1>2 DEF DocInv, Databases, Documents
  <2>5. ~wiped' => FilesThere'
    BY <1>1, <1>5, <1>6, <2>1 DEF FilesThere, DocInv
  <2> QED
    BY <1>1, <1>2, <1>6, <1>9, <2>1, <2>2, <2>3, <2>4, <2>5, NothingStored DEF DocInv
<1> QED
  BY <1>1, <1>7, <1>8, <1>9

\* So does a read, which gives a surface the current document.
LEMMA GetKeeps ==
  ASSUME DocInv, NEW s \in Surfaces, NEW d \in DocIds, Get(s, d)
  PROVE  DocInv'
<1>1. /\ cache' = Loaded(onDisk) /\ seen' = [seen EXCEPT ![s][d] = onDisk[d]]
      /\ UNCHANGED <<onDisk, intact, attached, issued, written, wiped>>
  BY CacheIsDisk DEF Get
<1>2. /\ seen' \in [Surfaces -> Databases] /\ seen'[s][d] = onDisk[d]
      /\ \A t \in Surfaces, e \in DocIds : <<t, e>> # <<s, d>> => seen'[t][e] = seen[t][e]
  BY <1>1 DEF DocInv, Databases
<1>3. ~wiped' => FilesThere'
  BY <1>1 DEF DocInv, FilesThere
<1>4. \A t \in Surfaces, e \in DocIds : seen'[t][e] # NoDoc => seen'[t][e].rev <= issued'
  BY <1>1, <1>2 DEF DocInv
<1>5. \A t \in Surfaces, e \in DocIds :
          onDisk'[e] # NoDoc /\ seen'[t][e] # NoDoc /\ onDisk'[e].rev = seen'[t][e].rev
             => onDisk'[e] = seen'[t][e]
  BY <1>1, <1>2 DEF DocInv
<1> QED
  BY <1>1, <1>2, <1>3, <1>4, <1>5 DEF DocInv, Loaded

\* So does a removal of a document.
LEMMA RemoveKeeps ==
  ASSUME DocInv, NEW d \in DocIds, Remove(d)
  PROVE  DocInv'
<1> DEFINE db == [onDisk EXCEPT ![d] = NoDoc]
<1>1. /\ issued' = issued /\ wiped' = wiped
      /\ \/ /\ Saved(db) /\ written' = [written EXCEPT ![d] = {}] /\ seen' = seen
            /\ attached' \in {attached \ {d}, attached}
         \/ NotSaved /\ UNCHANGED <<written, attached, seen>>
         \/ DocEnds(db) /\ attached' = attached /\ written' = [written EXCEPT ![d] = {}]
  BY CacheIsDisk DEF Remove
<1>2. /\ db \in Databases /\ db[d] = NoDoc /\ \A e \in DocIds \ {d} : db[e] = onDisk[e]
  BY DEF DocInv, Databases
<1> HIDE DEF db
<1>3. CASE /\ Saved(db) /\ written' = [written EXCEPT ![d] = {}] /\ seen' = seen
           /\ attached' \in {attached \ {d}, attached}
  <2>1. onDisk' = db /\ intact' = TRUE /\ cache' = Loaded(db)
    BY <1>3 DEF Saved
  <2>2. ~wiped' => FilesThere'
    BY <1>1, <1>2, <1>3, <2>1 DEF DocInv, FilesThere
  <2> QED
    BY <1>1, <1>2, <1>3, <2>1, <2>2 DEF DocInv, Loaded
<1>4. CASE NotSaved /\ UNCHANGED <<written, attached, seen>>
  <2>1. onDisk' = onDisk /\ intact' = intact /\ cache' = Loaded(onDisk)
    BY <1>4, CacheIsDisk DEF NotSaved
  <2> QED
    BY <1>1, <1>4, <2>1 DEF DocInv, FilesThere, Loaded
<1>5. CASE DocEnds(db) /\ attached' = attached /\ written' = [written EXCEPT ![d] = {}]
  <2>1. /\ cache' = NotLoaded /\ seen' = NeverRead
        /\ \/ onDisk' = db /\ intact' = TRUE
           \/ UNCHANGED <<onDisk, intact>>
    BY <1>5 DEF DocEnds
  <2>2. ~wiped' => FilesThere'
    BY <1>1, <1>2, <1>5, <2>1 DEF DocInv, FilesThere
  <2> QED
    BY <1>1, <1>2, <1>5, <2>1, <2>2, NothingStored DEF DocInv
<1> QED
  BY <1>1, <1>3, <1>4, <1>5

\* So does an attachment, whose file comes before its document.
LEMMA PostAttachmentKeeps ==
  ASSUME DocInv, NEW d \in DocIds, PostAttachment(d)
  PROVE  DocInv'
<1> DEFINE new == Doc(1, issued + 1, {issued + 1}, TRUE)
           db  == [onDisk EXCEPT ![d] = new]
<1>1. /\ onDisk[d] = NoDoc /\ issued' = issued + 1 /\ wiped' = wiped
      /\ \/ Saved(db) /\ attached' = attached \cup {d}
            /\ written' = [written EXCEPT ![d] = {issued + 1}] /\ UNCHANGED seen
         \/ NotSaved /\ attached' \in {attached \cup {d}, attached \ {d}}
            /\ UNCHANGED <<written, seen>>
         \/ /\ cache' = NotLoaded /\ seen' = NeverRead /\ UNCHANGED written
            /\ \/ attached' = attached \ {d} /\ UNCHANGED <<onDisk, intact>>
               \/ attached' = attached \cup {d} /\ DocEnds(db)
  BY CacheIsDisk DEF PostAttachment
<1>2. issued \in Nat /\ issued + 1 \in Nat /\ {issued + 1} \in SUBSET Nat /\ issued < issued + 1
  BY DEF DocInv
<1>3. /\ new \in Documents /\ new # NoDoc /\ new.rev = issued + 1 /\ new.edits = {issued + 1}
  <2> DEFINE one == 1  file == TRUE
  <2>1. one \in Nat /\ file \in BOOLEAN /\ new = Doc(one, issued + 1, {issued + 1}, file)
    OBVIOUS
  <2> HIDE DEF one, file, new
  <2> QED
    BY <1>2, <2>1, NewDocument
<1> HIDE DEF new
<1>4. /\ db \in Databases /\ db[d] = new /\ \A e \in DocIds \ {d} : db[e] = onDisk[e]
  BY <1>3 DEF DocInv, Databases
<1> HIDE DEF db
<1>5. /\ \A e \in DocIds : onDisk[e] # NoDoc => onDisk[e].rev <= issued'
      /\ \A e \in DocIds : db[e] # NoDoc => db[e].rev <= issued'
      /\ \A s \in Surfaces, e \in DocIds : seen[s][e] # NoDoc => seen[s][e].rev <= issued'
  BY <1>1, <1>2, <1>3, <1>4 DEF DocInv, Databases, Documents
<1>6. CASE Saved(db) /\ attached' = attached \cup {d}
           /\ written' = [written EXCEPT ![d] = {issued + 1}] /\ UNCHANGED seen
  <2>1. onDisk' = db /\ intact' = TRUE /\ cache' = Loaded(db)
    BY <1>6 DEF Saved
  <2>2. ~wiped' => FilesThere'
    BY <1>1, <1>4, <1>6, <2>1 DEF DocInv, FilesThere
  <2>3. \A s \in Surfaces, e \in DocIds :
          db[e] # NoDoc /\ seen[s][e] # NoDoc /\ db[e].rev = seen[s][e].rev
             => db[e] = seen[s][e]
    BY <1>2, <1>3, <1>4 DEF DocInv, Databases, Documents
  <2>4. /\ written' \in [DocIds -> SUBSET Nat]
        /\ \A e \in DocIds : written'[e] # {} => db[e] # NoDoc /\ written'[e] \subseteq db[e].edits
    BY <1>2, <1>3, <1>4, <1>6 DEF DocInv
  <2>5. issued' \in Nat /\ onDisk' \in Databases /\ seen' = seen /\ intact' = TRUE
    BY <1>1, <1>2, <1>4, <1>6, <2>1
  <2>6. cache' \in {NotLoaded', Loaded(onDisk)'}
    BY <2>1 DEF Loaded
  <2> QED
    BY <1>5, <2>1, <2>2, <2>3, <2>4, <2>5, <2>6 DEF DocInv
<1>7. CASE NotSaved /\ attached' \in {attached \cup {d}, attached \ {d}} /\ UNCHANGED <<written, seen>>
  <2>1. onDisk' = onDisk /\ intact' = intact /\ cache' = Loaded(onDisk)
    BY <1>7, CacheIsDisk DEF NotSaved
  <2>2. ~wiped' => FilesThere'
    BY <1>1, <1>7, <2>1 DEF DocInv, FilesThere
  <2> QED
    BY <1>1, <1>2, <1>5, <1>7, <2>1, <2>2 DEF DocInv, Loaded
<1>8. CASE /\ cache' = NotLoaded /\ seen' = NeverRead /\ UNCHANGED written
           /\ \/ attached' = attached \ {d} /\ UNCHANGED <<onDisk, intact>>
              \/ attached' = attached \cup {d} /\ DocEnds(db)
  <2>1. /\ \/ onDisk' = db /\ intact' = TRUE
           \/ UNCHANGED <<onDisk, intact>>
        /\ \/ attached' = attached \ {d} /\ onDisk' = onDisk
           \/ attached' = attached \cup {d}
    BY <1>8 DEF DocEnds
  <2>2. ~wiped' => FilesThere'
    BY <1>1, <1>4, <2>1 DEF DocInv, FilesThere
  <2>3. \A e \in DocIds : written[e] # {} => db[e] # NoDoc /\ written[e] \subseteq db[e].edits
    BY <1>1, <1>4 DEF DocInv
  <2> QED
    BY <1>1, <1>2, <1>4, <1>5, <1>8, <2>1, <2>2, <2>3, NothingStored DEF DocInv
<1> QED
  BY <1>1, <1>6, <1>7, <1>8

\* So does the removal of the plugin, wherever it ends.
LEMMA RemovePluginKeeps ==
  ASSUME DocInv, RemovePlugin
  PROVE  DocInv'
<1>1. /\ issued' = issued /\ seen' = NeverRead /\ cache' = NotLoaded
      /\ written' = [d \in DocIds |-> {}]
      /\ \/ intact' = FALSE /\ onDisk' = Empty /\ wiped' = wiped
         \/ intact' = FALSE /\ onDisk' = Empty /\ wiped' = TRUE
         \/ UNCHANGED <<onDisk, intact>> /\ wiped' = TRUE
  BY DEF RemovePlugin
<1>2. ~wiped' => FilesThere'
  BY <1>1, NothingStored DEF FilesThere
<1>3. written' \in [DocIds -> SUBSET Nat] /\ \A d \in DocIds : written'[d] = {}
  BY <1>1
<1> QED
  BY <1>1, <1>2, <1>3, NothingStored DEF DocInv

\* The invariant holds from the start on.
LEMMA DocInvHolds == DocSpec => []DocInv
<1>1. DocInit => DocInv
  BY NothingStored DEF DocInit, DocInv, FilesThere
<1>2. DocInv /\ [DocNext]_docVars => DocInv'
  <2> SUFFICES ASSUME DocInv, [DocNext]_docVars PROVE DocInv'
    OBVIOUS
  <2>1. CASE RemovePlugin
    BY <2>1, RemovePluginKeeps
  <2>2. CASE DocumentsEnd
    BY <2>2, NothingStored DEF DocumentsEnd, DocInv, FilesThere
  <2>3. ASSUME NEW d \in DocIds, PostAttachment(d) \/ Remove(d)
        PROVE  DocInv'
    BY <2>3, PostAttachmentKeeps, RemoveKeeps
  <2>4. ASSUME NEW d \in DocIds, NEW s \in Surfaces, Put(s, d) \/ Get(s, d)
        PROVE  DocInv'
    BY <2>4, PutKeeps, GetKeeps
  <2>5. CASE UNCHANGED docVars
    BY <2>5 DEF docVars, DocInv, FilesThere, NotLoaded, Loaded
  <2> QED
    BY <2>1, <2>2, <2>3, <2>4, <2>5 DEF DocNext
<1> QED
  BY <1>1, <1>2, PTL DEF DocSpec

(* For any number of documents, surfaces and revisions, an acknowledged edit     *)
(* stays in the document: put compares the revision a surface holds with the     *)
(* current one, and a revision stands for one content (apply_put).               *)
THEOREM EditsAreKept == DocSpec => []NoLostEdit
<1>1. DocInv => NoLostEdit
  <2> SUFFICES ASSUME DocInv, NEW d \in DocIds, written[d] # {}
               PROVE  /\ onDisk[d] # NoDoc /\ written[d] \subseteq onDisk[d].edits
                      /\ cache.loaded => cache.docs[d] = onDisk[d]
    BY Zenon DEF NoLostEdit
  <2>1. onDisk[d] # NoDoc /\ written[d] \subseteq onDisk[d].edits
    BY DEF DocInv
  <2>2. cache.loaded => cache.docs = onDisk
    BY DEF DocInv, Loaded, NotLoaded
  <2> QED
    BY <2>1, <2>2
<1> QED
  BY <1>1, DocInvHolds, PTL

(* And the saved database loads wherever a call failed or the process ended: an  *)
(* attachment's file is written before the database names it.                    *)
THEOREM SavedDatabaseLoads == DocSpec => []DatabaseLoads
<1>1. DocInv => DatabaseLoads
  BY DEF DocInv, DatabaseLoads
<1> QED
  BY <1>1, DocInvHolds, PTL

------------------------------------------------------------------------------
(* The log of the host and its rotation *)

\* The entries of some files, and that files and entries are in the order of time.
In(L, n) == \E s \in Slots : \E i \in 1..Len(L[s]) : L[s][i] = n
FilesInOrder(L) ==
    \A s, t \in Slots : s < t =>
        \A i \in 1..Len(L[t]), j \in 1..Len(L[s]) : L[t][i] < L[s][j]
LinesInOrder(L) == \A s \in Slots : \A i, j \in 1..Len(L[s]) : i < j => L[s][i] < L[s][j]
NewestKept(L, n, gone) == \A m \in 1..n : (\E k \in 1..n : In(L, k) /\ k < m) => In(L, m) \/ m \in gone

\* A rotation that has come down to a slot has emptied the one above.
LogInv ==
    /\ logs \in [Slots -> Seq(Nat)] /\ logged \in Nat
    /\ moving \in 0..(LogFiles - 2) \cup {LogFiles}
    /\ \A s \in Slots : \A i \in 1..Len(logs[s]) : logs[s][i] \in 1..logged
    /\ FilesInOrder(logs) /\ LinesInOrder(logs) /\ NewestKept(logs, logged, spoilt)
    /\ ~NotMoving => logs[moving + 1] = <<>>

\* The active file is the first slot, and the last one is the oldest that is kept.
LEMMA SlotFacts ==
    /\ Slots \subseteq Nat /\ 0 \in Slots /\ LogFiles - 1 \in Slots /\ LogFiles \notin Slots
    /\ \A m \in 0..(LogFiles - 2) : m \in Slots /\ m + 1 \in Slots
    /\ \A s \in Slots : s <= LogFiles - 1 /\ s >= 0
    /\ LogFiles \in Nat /\ LogFiles - 2 \in 0..(LogFiles - 2)
  BY LogAssumption DEF Slots

\* The new entry is the newest one, of the last line of the active file.
LEMMA AppendKeeps == ASSUME LogInv, NotMoving, AppendEntry(logged + 1) PROVE LogInv'
<1> DEFINE n == logged + 1
<1>0. /\ n \in Nat /\ n \in 1..n /\ \A m \in 1..n : m = n \/ m \in 1..logged
      /\ \A m \in 1..logged : m < n /\ m \in 1..n
  BY DEF LogInv
<1>1. logged' = n /\ moving' = LogFiles /\ 0 \in Slots /\ NotMoving'
  BY SlotFacts DEF AppendEntry, NotMoving
<1>2. CASE logs' = logs /\ spoilt' = spoilt \cup {n}
  <2>1. NewestKept(logs, n, spoilt \cup {n})
    <3> SUFFICES ASSUME NEW m \in 1..n, NEW k \in 1..n, In(logs, k), k < m, m # n
                 PROVE  In(logs, m) \/ m \in spoilt
      BY DEF NewestKept
    <3>1. m \in 1..logged /\ k \in 1..logged
      BY <1>0
    <3> QED
      BY <3>1 DEF LogInv, NewestKept
  <2> QED
    BY <1>0, <1>1, <1>2, <2>1 DEF LogInv
<1>3. CASE logs' = [logs EXCEPT ![0] = Append(@, n)] /\ spoilt' = spoilt
  <2> DEFINE old == logs[0]
             M == logs'
  <2>1. old \in Seq(Nat) /\ Len(old) \in Nat /\ M \in [Slots -> Seq(Nat)]
    BY <1>0, <1>1, <1>3 DEF LogInv
  <2>2. /\ M[0] = Append(old, n) /\ Len(M[0]) = Len(old) + 1 /\ M[0][Len(old) + 1] = n
        /\ \A i \in 1..Len(old) : M[0][i] = old[i]
    BY <1>1, <1>3, <2>1 DEF LogInv
  <2>3. \A s \in Slots : s # 0 => M[s] = logs[s]
    BY <1>3 DEF LogInv
  <2>4. \A i \in 1..Len(M[0]) : i = Len(old) + 1 \/ i \in 1..Len(old)
    BY <2>1, <2>2
  <2> HIDE DEF M, n
  <2>5. ASSUME NEW s \in Slots, NEW i \in 1..Len(M[s])
        PROVE  (s = 0 /\ i = Len(old) + 1 /\ M[s][i] = n)
               \/ (i \in 1..Len(logs[s]) /\ M[s][i] = logs[s][i])
    BY <2>2, <2>3, <2>4
  <2>6. \A s \in Slots : \A i \in 1..Len(M[s]) : M[s][i] \in 1..n
    BY <1>0, <2>5 DEF LogInv
  <2>7. FilesInOrder(M)
    <3> SUFFICES ASSUME NEW s \in Slots, NEW t \in Slots, s < t,
                        NEW i \in 1..Len(M[t]), NEW j \in 1..Len(M[s])
                 PROVE  M[t][i] < M[s][j]
      BY DEF FilesInOrder
    <3>1. t # 0
      BY SlotFacts
    <3>2. i \in 1..Len(logs[t]) /\ M[t][i] = logs[t][i] /\ logs[t][i] < n
      BY <1>0, <2>5, <3>1 DEF LogInv
    <3> QED
      BY <2>5, <3>2 DEF LogInv, FilesInOrder
  <2>8. LinesInOrder(M)
    <3> SUFFICES ASSUME NEW s \in Slots, NEW i \in 1..Len(M[s]), NEW j \in 1..Len(M[s]), i < j
                 PROVE  M[s][i] < M[s][j]
      BY DEF LinesInOrder
    <3>1. CASE s # 0
      BY <2>5, <3>1 DEF LogInv, LinesInOrder
    <3>2. CASE s = 0
      <4>1. i \in 1..Len(old)
        BY <2>1, <2>2, <3>2
      <4>2. M[s][i] = old[i] /\ old[i] \in 1..logged
        BY <1>1, <2>2, <3>2, <4>1 DEF LogInv
      <4>3. old[i] < n
        BY <1>0, <4>2
      <4> QED
        BY <1>1, <2>5, <3>2, <4>1, <4>2, <4>3 DEF LogInv, LinesInOrder
    <3> QED
      BY <3>1, <3>2
  <2>9. NewestKept(M, n, spoilt)
    <3>1. ASSUME NEW s \in Slots, NEW i \in 1..Len(logs[s])
          PROVE  i \in 1..Len(M[s]) /\ M[s][i] = logs[s][i]
      <4>1. CASE s # 0
        BY <2>3, <4>1
      <4>2. \A h \in 1..Len(old) : h \in 1..Len(M[0])
        BY <2>1, <2>2
      <4>3. CASE s = 0
        BY <2>2, <4>2, <4>3
      <4> QED
        BY <4>1, <4>3
    <3>0. \A k : In(logs, k) => In(M, k)
      BY <3>1 DEF In
    <3>2. In(M, n)
      BY <1>1, <2>1, <2>2 DEF In
    <3>3. \A k \in 1..logged : In(M, k) => In(logs, k)
      BY <1>0, <2>5 DEF In
    <3> SUFFICES ASSUME NEW m \in 1..n, NEW k \in 1..n, In(M, k), k < m, m # n
                 PROVE  In(M, m) \/ m \in spoilt
      BY <3>2 DEF NewestKept
    <3>4. m \in 1..logged /\ k \in 1..logged
      BY <1>0 DEF n
    <3> QED
      BY <3>0, <3>3, <3>4 DEF LogInv, NewestKept
  <2>10. logged' = n /\ n \in Nat /\ spoilt' = spoilt
    BY <1>0, <1>1, <1>3
  <2> QED
    BY <1>1, <2>1, <2>6, <2>7, <2>8, <2>9, <2>10 DEF LogInv, M
<1> QED
  BY <1>2, <1>3 DEF AppendEntry

\* A rotation first removes the oldest file, which makes nothing that is kept older.
LEMMA RotationBegins == ASSUME LogInv, RotateBegin PROVE LogInv'
<1> DEFINE M == logs'
           last == LogFiles - 1
<1>1. /\ M = [logs EXCEPT ![last] = <<>>] /\ moving' = LogFiles - 2
      /\ UNCHANGED <<logged, spoilt>> /\ last \in Slots /\ moving' + 1 = last
  BY SlotFacts DEF RotateBegin
<1>2. M \in [Slots -> Seq(Nat)] /\ M[last] = <<>> /\ \A s \in Slots : s # last => M[s] = logs[s]
  BY <1>1 DEF LogInv
<1>3. \A s \in Slots : \A i \in 1..Len(M[s]) : s # last /\ i \in 1..Len(logs[s]) /\ M[s][i] = logs[s][i]
  BY <1>2
<1> HIDE DEF M
<1>4. FilesInOrder(M) /\ LinesInOrder(M) /\ \A s \in Slots : \A i \in 1..Len(M[s]) : M[s][i] \in 1..logged
  <2>1. FilesInOrder(M)
    BY <1>3 DEF LogInv, FilesInOrder
  <2>2. LinesInOrder(M)
    BY <1>3 DEF LogInv, LinesInOrder
  <2> QED
    BY <1>3, <2>1, <2>2 DEF LogInv
<1>5. NewestKept(M, logged, spoilt)
  <2> SUFFICES ASSUME NEW m \in 1..logged, NEW k \in 1..logged, In(M, k), k < m, ~In(M, m)
               PROVE  m \in spoilt
    BY DEF NewestKept
  <2>1. PICK s \in Slots : \E i \in 1..Len(M[s]) : M[s][i] = k
    BY DEF In
  <2>2. PICK i \in 1..Len(M[s]) : M[s][i] = k
    BY <2>1
  <2>3. s # last /\ i \in 1..Len(logs[s]) /\ logs[s][i] = k
    BY <1>3, <2>2
  <2>4. In(logs, k)
    BY <2>3 DEF In
  <2>5. SUFFICES ASSUME In(logs, m) PROVE FALSE
    BY <2>4 DEF LogInv, NewestKept
  <2>6. PICK t \in Slots : \E j \in 1..Len(logs[t]) : logs[t][j] = m
    BY <2>5 DEF In
  <2>7. t = last
    BY <1>2, <2>6 DEF In
  <2>8. s < last
    BY SlotFacts, <2>3
  <2>9. m < k
    BY <1>1, <2>3, <2>6, <2>7, <2>8 DEF LogInv, FilesInOrder
  <2> QED
    BY <2>9 DEF LogInv
<1>6. moving' \in 0..(LogFiles - 2)
  BY <1>1, SlotFacts
<1> QED
  BY <1>1, <1>2, <1>4, <1>5, <1>6 DEF LogInv, M

\* A file moves up into the slot that is empty: the order stays, and the entries.
LEMMA SlotMoves == ASSUME LogInv, RotateSlot PROVE LogInv'
<1> DEFINE M == logs'
           m == moving
<1>1. /\ m \in 0..(LogFiles - 2) /\ m \in Slots /\ m + 1 \in Slots /\ logs[m + 1] = <<>>
      /\ m \in Nat
  BY SlotFacts DEF LogInv, RotateSlot, NotMoving
<1>2. /\ moving' \in 0..(LogFiles - 2) \cup {LogFiles} /\ UNCHANGED <<logged, spoilt>>
      /\ moving' # LogFiles => moving' + 1 = m
  <2>1. moving' = (IF m = 0 THEN LogFiles ELSE m - 1) /\ UNCHANGED <<logged, spoilt>>
    BY DEF RotateSlot
  <2>2. LogFiles \in Nat
    BY SlotFacts
  <2> HIDE DEF m
  <2> QED
    BY <1>1, <2>1, <2>2
<1>3. CASE logs[m] = <<>>
  BY <1>1, <1>2, <1>3 DEF RotateSlot, LogInv, NotMoving
<1>4. CASE logs[m] # <<>>
  <2>1. M = [logs EXCEPT ![m + 1] = logs[m], ![m] = <<>>]
    BY <1>4 DEF RotateSlot
  <2>2. /\ M \in [Slots -> Seq(Nat)] /\ M[m] = <<>> /\ M[m + 1] = logs[m]
        /\ \A s \in Slots \ {m, m + 1} : M[s] = logs[s]
    BY <1>1, <2>1 DEF LogInv
  <2> DEFINE from(s) == IF s = m + 1 THEN m ELSE s
  <2> HIDE DEF M
  <2>3. \A s \in Slots : \A i \in 1..Len(M[s]) :
           from(s) \in Slots /\ i \in 1..Len(logs[from(s)]) /\ M[s][i] = logs[from(s)][i] /\ s # m
    <3> SUFFICES ASSUME NEW s \in Slots, NEW i \in 1..Len(M[s])
                 PROVE  /\ from(s) \in Slots /\ i \in 1..Len(logs[from(s)])
                        /\ M[s][i] = logs[from(s)][i] /\ s # m
      OBVIOUS
    <3>1. s # m
      <4>1. Len(M[m]) = 0
        BY <2>2
      <4> QED
        BY <4>1
    <3>2. from(s) \in Slots /\ M[s] = logs[from(s)]
      BY <1>1, <2>2, <3>1
    <3> HIDE DEF from
    <3> QED
      BY <3>1, <3>2
  <2>4. \A s, t \in Slots : s < t /\ s # m /\ t # m => from(s) < from(t)
    BY <1>1, SlotFacts
  <2> HIDE DEF from
  <2>5. FilesInOrder(M) /\ LinesInOrder(M) /\ \A s \in Slots : \A i \in 1..Len(M[s]) : M[s][i] \in 1..logged
    <3>1. FilesInOrder(M)
      BY <2>3, <2>4 DEF LogInv, FilesInOrder
    <3> QED
      BY <2>3, <3>1 DEF LogInv, LinesInOrder
  <2>6. \A k : In(M, k) => In(logs, k)
    BY <2>3 DEF In
  <2>7. \A k : In(logs, k) => In(M, k)
    <3> SUFFICES ASSUME NEW s \in Slots, NEW i \in 1..Len(logs[s])
                 PROVE  In(M, logs[s][i])
      BY DEF In
    <3>1. s # m + 1
      BY <1>1
    <3> QED
      BY <1>1, <2>2, <3>1 DEF In
  <2>8. NewestKept(M, logged, spoilt)
    BY <2>6, <2>7 DEF LogInv, NewestKept
  <2> QED
    BY <1>1, <1>2, <2>2, <2>5, <2>8 DEF LogInv, NotMoving, M
<1> QED
  BY <1>3, <1>4

\* What is cleared is the newest, and the history tells.
LEMMA ClearKeeps == ASSUME LogInv, ClearLog PROVE LogInv'
<1> DEFINE M == logs'
<1>1. PICK n \in 1..LogFiles : M = [s \in Slots |-> IF s < n THEN <<>> ELSE logs[s]]
  BY DEF ClearLog
<1>2. M \in [Slots -> Seq(Nat)]
  BY <1>1 DEF LogInv
<1>3. \A s \in Slots : \A i \in 1..Len(M[s]) : i \in 1..Len(logs[s]) /\ M[s][i] = logs[s][i]
  BY <1>1
<1>4. /\ UNCHANGED <<moving, logged>> /\ NotMoving /\ NotMoving'
      /\ spoilt' = spoilt \cup (Kept \ UNION {{M[s][i] : i \in 1..Len(M[s])} : s \in Slots})
  BY DEF ClearLog, NotMoving
<1> HIDE DEF M
<1>5. FilesInOrder(M) /\ LinesInOrder(M) /\ \A s \in Slots : \A i \in 1..Len(M[s]) : M[s][i] \in 1..logged
  <2>1. FilesInOrder(M)
    BY <1>3 DEF LogInv, FilesInOrder
  <2>2. LinesInOrder(M)
    BY <1>3 DEF LogInv, LinesInOrder
  <2> QED
    BY <1>3, <2>1, <2>2 DEF LogInv
<1>6. \A k : In(M, k) => In(logs, k)
  BY <1>3 DEF In
<1>7. \A k : In(logs, k) => In(M, k) \/ k \in spoilt'
  BY <1>4 DEF In, Kept, EntriesOf
<1>8. NewestKept(M, logged, spoilt')
  BY <1>4, <1>6, <1>7 DEF LogInv, NewestKept
<1> QED
  BY <1>2, <1>4, <1>5, <1>8 DEF LogInv, M

\* The order in which the files are read is the order of time, wherever a rotation
\* stopped, and what is kept is every readable entry from some one on.
THEOREM LogIsInOrder == LogSpec => []LogKeepsNewest
<1>1. LogInit => LogInv
  <2> SUFFICES ASSUME LogInit PROVE LogInv
    OBVIOUS
  <2>1. \A s \in Slots : logs[s] = <<>>
    BY DEF LogInit
  <2>2. FilesInOrder(logs) /\ LinesInOrder(logs) /\ \A k : ~In(logs, k)
    BY <2>1 DEF FilesInOrder, LinesInOrder, In
  <2>3. logs \in [Slots -> Seq(Nat)] /\ logged = 0 /\ moving = LogFiles
    BY DEF LogInit
  <2> QED
    BY <2>1, <2>2, <2>3 DEF LogInv, NewestKept, NotMoving
<1>2. LogInv /\ [LogNext]_logVars => LogInv'
  <2> SUFFICES ASSUME LogInv, [LogNext]_logVars PROVE LogInv'
    OBVIOUS
  <2>1. CASE WriteEntry
    BY <2>1, AppendKeeps DEF WriteEntry
  <2>2. CASE RotateStops
    BY <2>2 DEF RotateStops, LogInv, NotMoving
  <2>3. CASE UNCHANGED logVars
    BY <2>3 DEF logVars, LogInv, NotMoving
  <2> QED
    BY <2>1, <2>2, <2>3, RotationBegins, SlotMoves, ClearKeeps DEF LogNext
<1>3. LogInv => LogKeepsNewest
  <2> SUFFICES ASSUME LogInv PROVE LogKeepsNewest
    OBVIOUS
  <2>1. \A n : In(logs, n) <=> n \in Kept
    BY DEF In, Kept, EntriesOf
  <2>2. \A k \in Kept : k \in 1..logged
    BY <2>1 DEF LogInv, In
  <2>3. \A n \in 1..logged : (\E k \in Kept : k < n) => n \in Kept \cup spoilt
    BY <2>1, <2>2 DEF LogInv, NewestKept
  <2> QED
    BY <2>3 DEF LogInv, FilesInOrder, LinesInOrder, LogKeepsNewest, EntriesOf
<1> QED
  BY <1>1, <1>2, <1>3, PTL DEF LogSpec

------------------------------------------------------------------------------
(* The hosts file: the lines of others *)

Unmark(s) == \A i \in 1..Len(s) : s[i].kind \notin {"start", "end"}

\* The two markers and the mappings are lines of a hosts file.
LEMMA MarkersAreLines ==
    /\ Marks("start") \in Lines /\ Marks("end") \in Lines
    /\ Marks("start").kind = "start" /\ Marks("end").kind = "end"
    /\ Mappings \subseteq Lines /\ \A m \in Mappings : m.kind = "map"
<1>1. \A kind \in {"start", "end"} : /\ Marks(kind) \in Lines
                                       /\ Marks(kind).kind = kind
  BY DEF Marks, Line, Lines, Markers
<1>2. ASSUME NEW d \in Domains, NEW on \in BOOLEAN
      PROVE  Line("map", d, on) \in Lines /\ Line("map", d, on).kind = "map"
  BY DEF Line, Lines
<1> QED
  BY <1>1, <1>2 DEF Mappings

\* What the user asks for is a list of mappings, without a marker.
LEMMA ListsAreLines ==
    ASSUME NEW e \in EntryLists
    PROVE  e \in Seq(Mappings) /\ e \in Seq(Lines) /\ Unmark(e)
<1>1. e \in Seq(Mappings)
  <2>1. CASE e = <<>>
    BY <2>1
  <2>2. ASSUME NEW x \in Mappings, e = <<x>> PROVE e \in Seq(Mappings)
    BY <2>2
  <2>3. ASSUME NEW x \in Mappings, NEW y \in Mappings, e = <<x, y>> PROVE e \in Seq(Mappings)
    BY <2>3
  <2>4. e = <<>> \/ (\E x \in Mappings : e = <<x>>) \/ \E x, y \in Mappings : e = <<x, y>>
    BY DEF EntryLists
  <2> QED
    BY <2>1, <2>2, <2>3, <2>4
<1>2. Len(e) \in Nat /\ \A i \in 1..Len(e) : e[i] \in Mappings
  BY <1>1
<1>3. e \in Seq(Lines)
  BY <1>1, MarkersAreLines
<1> QED
  BY <1>1, <1>2, <1>3, MarkersAreLines DEF Unmark

\* The lines of a concatenation are those of its parts.
LEMMA Joined ==
    ASSUME NEW x \in Seq(Lines), NEW y \in Seq(Lines)
    PROVE  /\ x \o y \in Seq(Lines) /\ Len(x \o y) = Len(x) + Len(y)
           /\ \A k \in 1..Len(x) : (x \o y)[k] = x[k]
           /\ \A k \in 1..Len(y) : (x \o y)[Len(x) + k] = y[k]
<1>1. Len(x) \in Nat /\ Len(y) \in Nat
  OBVIOUS
<1>2. \A k \in 1..Len(x) : k \in 1..(Len(x) + Len(y)) /\ k <= Len(x)
  BY <1>1
<1>3. \A k \in 1..Len(y) : /\ Len(x) + k \in 1..(Len(x) + Len(y)) /\ ~(Len(x) + k <= Len(x))
                           /\ (Len(x) + k) - Len(x) = k
  BY <1>1
<1> QED
  BY <1>2, <1>3, ConcatProperties

\* One line at either end.
LEMMA OneMore ==
    ASSUME NEW x \in Lines, NEW h \in Seq(Lines)
    PROVE  <<x>> \o h \in Seq(Lines) /\ Append(h, x) \in Seq(Lines)
<1>1. <<x>> \in Seq(Lines)
  OBVIOUS
<1> QED
  BY <1>1, Joined

\* Around a new block stand the lines that are put there.
LEMMA BlockIsFound ==
    ASSUME NEW b \in Seq(Lines), NEW e \in Seq(Lines), NEW a \in Seq(Lines),
           Unmark(b), Unmark(e), Unmark(a)
    PROVE  LET h == b \o Block(e) \o a IN
             /\ h \in Seq(Lines) /\ OneBlock(h) /\ ~Unmarked(h)
             /\ LinesBefore(h) = b /\ LinesAfter(h) = a
<1> DEFINE S == Marks("start")
           E == Marks("end")
           h == b \o Block(e) \o a
           i == Len(b) + 1
           j == Len(b) + Len(e) + 2
<1>0. S \in Lines /\ E \in Lines /\ S.kind = "start" /\ E.kind = "end"
  BY MarkersAreLines
<1>1. Len(b) \in Nat /\ Len(e) \in Nat /\ Len(a) \in Nat
  OBVIOUS
<1> HIDE DEF S, E
<1>2. /\ Block(e) \in Seq(Lines) /\ Len(Block(e)) = Len(e) + 2
      /\ Block(e)[1] = S /\ Block(e)[Len(e) + 2] = E
      /\ \A k \in 1..Len(e) : Block(e)[k + 1] = e[k]
  <2>1. Block(e) = (<<S>> \o e) \o <<E>>
    BY DEF Block, S, E
  <2>2. /\ <<S>> \in Seq(Lines) /\ Len(<<S>>) = 1 /\ <<S>>[1] = S
        /\ <<E>> \in Seq(Lines) /\ Len(<<E>>) = 1 /\ <<E>>[1] = E
    BY <1>0
  <2> DEFINE d == <<S>> \o e
  <2>3. /\ d \in Seq(Lines) /\ Len(d) = Len(e) + 1 /\ d[1] = S
        /\ \A k \in 1..Len(e) : d[k + 1] = e[k]
    BY <1>1, <2>2
  <2> HIDE DEF d
  <2>4. /\ d \o <<E>> \in Seq(Lines) /\ Len(d \o <<E>>) = Len(e) + 2
        /\ \A k \in 1..(Len(e) + 1) : (d \o <<E>>)[k] = d[k]
        /\ (d \o <<E>>)[Len(e) + 2] = E
    BY <1>1, <2>2, <2>3
  <2>5. 1 \in 1..(Len(e) + 1) /\ \A k \in 1..Len(e) : k + 1 \in 1..(Len(e) + 1)
    BY <1>1
  <2> QED
    BY <2>1, <2>3, <2>4, <2>5 DEF d
<1>3. /\ h \in Seq(Lines) /\ Len(h) = Len(b) + Len(e) + 2 + Len(a)
      /\ \A k \in 1..Len(b) : h[k] = b[k]
      /\ \A k \in 1..(Len(e) + 2) : h[Len(b) + k] = Block(e)[k]
      /\ \A k \in 1..Len(a) : h[j + k] = a[k]
  <2> DEFINE d == b \o Block(e)
  <2>1. /\ d \in Seq(Lines) /\ Len(d) = Len(b) + Len(e) + 2
        /\ \A k \in 1..Len(b) : d[k] = b[k]
        /\ \A k \in 1..(Len(e) + 2) : d[Len(b) + k] = Block(e)[k]
    <3> DEFINE c == Block(e)
    <3>1. c \in Seq(Lines) /\ Len(c) = Len(e) + 2 /\ Len(c) \in Nat
      BY <1>1, <1>2
    <3> HIDE DEF c
    <3>2. d = b \o c
      BY DEF c
    <3>3. /\ b \o c \in Seq(Lines) /\ Len(b \o c) = Len(b) + Len(c)
          /\ \A k \in 1..Len(b) : (b \o c)[k] = b[k]
          /\ \A k \in 1..Len(c) : (b \o c)[Len(b) + k] = c[k]
      BY <3>1, Joined
    <3> QED
      BY <1>1, <3>1, <3>2, <3>3 DEF c
  <2>2. h = d \o a
    OBVIOUS
  <2> HIDE DEF d, h
  <2>3. /\ d \o a \in Seq(Lines) /\ Len(d \o a) = Len(b) + Len(e) + 2 + Len(a)
        /\ \A k \in 1..(Len(b) + Len(e) + 2) : (d \o a)[k] = d[k]
        /\ \A k \in 1..Len(a) : (d \o a)[j + k] = a[k]
    <3>1. Len(d) \in Nat
      BY <1>1, <2>1
    <3>2. /\ d \o a \in Seq(Lines) /\ Len(d \o a) = Len(d) + Len(a)
          /\ \A k \in 1..Len(d) : (d \o a)[k] = d[k]
          /\ \A k \in 1..Len(a) : (d \o a)[Len(d) + k] = a[k]
      BY <2>1, Joined
    <3>4. Len(d) = j
      BY <1>1, <2>1
    <3> QED
      BY <1>1, <2>1, <3>2, <3>4
  <2>4. /\ \A k \in 1..Len(b) : k \in 1..(Len(b) + Len(e) + 2)
        /\ \A k \in 1..(Len(e) + 2) : Len(b) + k \in 1..(Len(b) + Len(e) + 2)
    BY <1>1
  <2> QED
    BY <2>1, <2>2, <2>3, <2>4
<1> HIDE DEF h
<1>4. h[i] = S /\ h[j] = E /\ i \in 1..Len(h) /\ j \in 1..Len(h) /\ i < j
  <2>1. 1 \in 1..(Len(e) + 2) /\ Len(e) + 2 \in 1..(Len(e) + 2)
    BY <1>1
  <2>2. Len(b) + 1 = i /\ Len(b) + (Len(e) + 2) = j
    BY <1>1
  <2>3. h[i] = S /\ h[j] = E
    BY <1>2, <1>3, <2>1, <2>2
  <2> QED
    BY <1>1, <1>3, <2>3
<1>5. ASSUME NEW k \in 1..Len(h), k # i, k # j PROVE h[k].kind \notin {"start", "end"}
  <2>1. CASE k <= Len(b)
    BY <1>1, <1>3, <2>1 DEF Unmark
  <2>2. CASE k > i /\ k < j
    <3>1. k - i \in 1..Len(e) /\ (k - i) + 1 \in 1..(Len(e) + 2) /\ Len(b) + ((k - i) + 1) = k
      BY <1>1, <1>3, <2>2
    <3>2. h[k] = Block(e)[(k - i) + 1] /\ Block(e)[(k - i) + 1] = e[k - i]
      BY <1>2, <1>3, <3>1
    <3> QED
      BY <3>1, <3>2 DEF Unmark
  <2>3. CASE k > j
    <3>1. k - j \in 1..Len(a) /\ j + (k - j) = k
      BY <1>1, <1>3, <2>3
    <3> QED
      BY <1>3, <3>1 DEF Unmark
  <2> QED
    <3>1. k \in Nat
      BY <1>3
    <3>2. k <= Len(b) \/ (k > i /\ k < j) \/ k > j
      <4>1. \A x, y, n \in Nat : n # x + 1 /\ n # x + y + 2 =>
               n <= x \/ (n > x + 1 /\ n < x + y + 2) \/ n > x + y + 2
        OBVIOUS
      <4> QED
        BY <1>1, <1>5, <3>1, <4>1
    <3> QED
      BY <2>1, <2>2, <2>3, <3>2
<1>6. Positions(h, "start") = {i} /\ Positions(h, "end") = {j}
  BY <1>0, <1>4, <1>5 DEF Positions
<1>7. OneBlock(h) /\ ~Unmarked(h) /\ First(h) = i /\ Last(h) = j
  BY <1>4, <1>6 DEF OneBlock, Unmarked, First, Last
<1>8. LinesBefore(h) = b
  <2>1. LinesBefore(h) = SubSeq(h, 1, Len(b))
    BY <1>1, <1>7 DEF LinesBefore
  <2>2. SubSeq(h, 1, Len(b)) = b
    BY <1>1, <1>3
  <2> QED
    BY <2>1, <2>2
<1>9. LinesAfter(h) = a
  <2>1. LinesAfter(h) = SubSeq(h, j + 1, Len(h))
    BY <1>7 DEF LinesAfter
  <2>2. SubSeq(h, j + 1, Len(h)) = a
    BY <1>1, <1>3
  <2> QED
    BY <2>1, <2>2
<1> QED
  BY <1>3, <1>7, <1>8, <1>9 DEF h

\* The new block leaves the lines around it, whether or not there was an old one.
LEMMA AroundTheBlock ==
    ASSUME NEW h \in Seq(Lines), WellMarked(h), NEW e \in EntryLists
    PROVE  LET new == ReplaceBlock(h, e) IN
             /\ new \in Seq(Lines) /\ new # <<>>
             /\ LinesBefore(new) = LinesBefore(h) /\ LinesAfter(new) = LinesAfter(h)
<1> DEFINE b == LinesBefore(h)
           a == LinesAfter(h)
<1>1. b \in Seq(Lines) /\ a \in Seq(Lines) /\ Unmark(b) /\ Unmark(a)
  <2>1. CASE Unmarked(h)
    <3>1. b = h /\ a = <<>>
      BY <2>1 DEF LinesBefore, LinesAfter
    <3>2. Unmark(h)
      BY <2>1 DEF Unmarked, Positions, Unmark
    <3>3. a \in Seq(Lines) /\ Unmark(a)
      BY <3>1 DEF Unmark
    <3> QED
      BY <3>1, <3>2, <3>3
  <2>2. CASE ~Unmarked(h)
    <3>1. PICK i, j \in 1..Len(h) : i < j /\ Positions(h, "start") = {i} /\ Positions(h, "end") = {j}
      BY <2>2 DEF WellMarked, OneBlock
    <3>2. b = SubSeq(h, 1, i - 1) /\ a = SubSeq(h, j + 1, Len(h))
      BY <2>2, <3>1 DEF LinesBefore, LinesAfter, First, Last
    <3>3. \A k \in 1..Len(h) : k # i /\ k # j => h[k].kind \notin {"start", "end"}
      BY <3>1 DEF Positions
    <3>4. Len(h) \in Nat /\ i - 1 \in Int /\ j + 1 \in Int /\ \A k \in 1..Len(h) : h[k] \in Lines
      OBVIOUS
    <3>5. /\ b \in Seq(Lines) /\ Len(b) = i - 1 /\ \A k \in 1..(i - 1) : b[k] = h[k]
      <4>1. \A k \in 1..(i - 1) : h[k] \in Lines /\ 1 + k - 1 = k
        BY <3>4
      <4>2. (IF 1 <= i - 1 THEN i - 1 - 1 + 1 ELSE 0) = i - 1 /\ i - 1 - 1 + 1 = i - 1
        BY <3>4
      <4> QED
        BY <3>2, <3>4, <4>1, <4>2, SubSeqProperties
    <3>6. /\ a \in Seq(Lines) /\ Len(a) = Len(h) - j /\ \A k \in 1..(Len(h) - j) : a[k] = h[j + k]
      <4>1. \A k \in (j + 1)..Len(h) : h[k] \in Lines
        BY <3>4
      <4>2. /\ (IF j + 1 <= Len(h) THEN Len(h) - (j + 1) + 1 ELSE 0) = Len(h) - j
            /\ Len(h) - (j + 1) + 1 = Len(h) - j
        BY <3>4
      <4>3. \A k \in 1..(Len(h) - j) : (j + 1) + k - 1 = j + k
        BY <3>4
      <4>4. LET m == j + 1  k == Len(h) IN
              /\ SubSeq(h, m, k) \in Seq(Lines)
              /\ Len(SubSeq(h, m, k)) = IF m <= k THEN k - m + 1 ELSE 0
              /\ \A x \in 1..(k - m + 1) : SubSeq(h, m, k)[x] = h[m + x - 1]
        BY <3>4, <4>1, SubSeqProperties
      <4> QED
        BY <3>2, <4>2, <4>3, <4>4
    <3>7. \A k \in 1..(i - 1) : k \in 1..Len(h) /\ k # i /\ k # j
      BY <3>1, <3>4
    <3>8. \A k \in 1..(Len(h) - j) : j + k \in 1..Len(h) /\ j + k # i /\ j + k # j
      BY <3>1, <3>4
    <3> QED
      BY <3>3, <3>5, <3>6, <3>7, <3>8 DEF Unmark
  <2> QED
    BY <2>1, <2>2
<1>2. e \in Seq(Lines) /\ Unmark(e)
  BY ListsAreLines
<1>3. ReplaceBlock(h, e) = b \o Block(e) \o a
  BY DEF ReplaceBlock
<1> HIDE DEF b, a
<1> DEFINE new == b \o Block(e) \o a
<1>4. new \in Seq(Lines) /\ ~Unmarked(new) /\ LinesBefore(new) = b /\ LinesAfter(new) = a
  BY <1>1, <1>2, BlockIsFound
<1>5. new # <<>>
  <2>1. Unmarked(<<>>)
    BY DEF Unmarked, Positions
  <2> QED
    BY <1>4, <2>1
<1> QED
  BY <1>3, <1>4, <1>5 DEF b, a

-----------------------------------------------------------------------------
(* Helpers *)

ActionRecord == [restore : BOOLEAN, entries : Seq(Lines), content : Seq(Lines)]
HelperRecord == [pc : {"off", "asked", "checked", "cleared", "failed", "done"},
                 seen : Seq(Lines), checked : Seq(Lines), action : ActionRecord]

\* What is applied to a file is what an apply makes of it.
AppliesTo(content, h) == /\ content # <<>>
                         /\ LinesBefore(content) = LinesBefore(h)
                         /\ LinesAfter(content) = LinesAfter(h)

HostsInv ==
    /\ hosts \in Seq(Lines) /\ backup \in Seq(Lines) /\ viewed \in Seq(Lines)
    /\ helper \in [Helpers -> HelperRecord]
    /\ \A n \in Helpers : ~helper[n].action.restore =>
          /\ HelperAt(n, "asked") => AppliesTo(helper[n].action.content, helper[n].seen)
          /\ HelperAt(n, "checked") \/ HelperAt(n, "cleared") =>
                AppliesTo(helper[n].action.content, helper[n].checked)

\* A helper that has ended, or was never started, is a helper.
LEMMA RestingHelper ==
    \A pc \in {"off", "failed", "done"} :
       /\ [NotStarted EXCEPT !.pc = pc] \in HelperRecord
       /\ [NotStarted EXCEPT !.pc = pc].pc = pc
<1>1. <<>> \in Seq(Lines)
  OBVIOUS
<1>2. Restore \in ActionRecord
  BY <1>1 DEF Restore, ActionRecord
<1> QED
  BY <1>1, <1>2 DEF NotStarted, HelperRecord

\* Only one helper moves: the others are as they were.
LEMMA OneHelper ==
    ASSUME HostsInv, NEW n \in Helpers, NEW r \in HelperRecord,
           helper' = [helper EXCEPT ![n] = r],
           hosts' \in Seq(Lines), backup' \in Seq(Lines), viewed' \in Seq(Lines),
           ~r.action.restore =>
              /\ r.pc = "asked" => AppliesTo(r.action.content, r.seen)
              /\ r.pc \in {"checked", "cleared"} => AppliesTo(r.action.content, r.checked)
    PROVE  HostsInv'
<1>1. helper' \in [Helpers -> HelperRecord] /\ helper'[n] = r
      /\ \A m \in Helpers \ {n} : helper'[m] = helper[m]
  BY DEF HostsInv
<1>2. \A m \in Helpers : (~helper[m].action.restore =>
          /\ HelperAt(m, "asked") => AppliesTo(helper[m].action.content, helper[m].seen)
          /\ HelperAt(m, "checked") \/ HelperAt(m, "cleared") =>
                AppliesTo(helper[m].action.content, helper[m].checked))'
  BY <1>1 DEF HostsInv, HelperAt
<1> QED
  BY <1>1, <1>2 DEF HostsInv

\* A helper that ends keeps the invariant, whatever file it leaves.
LEMMA HelperEndsKeeps ==
    ASSUME HostsInv, NEW n \in Helpers, NEW pc \in {"failed", "done"}, HelperEnds(n, pc),
           hosts' \in Seq(Lines), backup' \in Seq(Lines), viewed' \in Seq(Lines)
    PROVE  HostsInv'
<1> DEFINE r == [NotStarted EXCEPT !.pc = pc]
<1>1. r \in HelperRecord /\ r.pc = pc /\ helper' = [helper EXCEPT ![n] = r]
  BY RestingHelper DEF HelperEnds
<1> HIDE DEF r
<1> QED
  BY <1>1, OneHelper

\* Every step keeps the invariant.
LEMMA HostsNextKeeps == HostsInv /\ [HostsNext]_hostsVars => HostsInv'
<1> SUFFICES ASSUME HostsInv, [HostsNext]_hostsVars PROVE HostsInv'
  OBVIOUS
<1>0. hosts \in Seq(Lines) /\ backup \in Seq(Lines) /\ viewed \in Seq(Lines)
      /\ helper \in [Helpers -> HelperRecord]
  BY DEF HostsInv
<1>1. ASSUME hosts' \in Seq(Lines), backup' = backup, viewed' \in Seq(Lines), helper' = helper
      PROVE  HostsInv'
  BY <1>1 DEF HostsInv, HelperAt
<1>2. CASE View \/ UNCHANGED hostsVars \/ \E n \in Helpers : StopWaiting(n)
  BY <1>0, <1>1, <1>2 DEF View, hostsVars, StopWaiting
<1>3. CASE Edit
  <2>1. \A d \in Domains : Line("map", d, TRUE) \in Lines
    BY DEF Line, Lines
  <2>2. \A d \in Domains : /\ <<Line("map", d, TRUE)>> \o hosts \in Seq(Lines)
                           /\ Append(hosts, Line("map", d, TRUE)) \in Seq(Lines)
    BY <1>0, <2>1, OneMore
  <2>3. CASE Len(hosts) > 1 /\ hosts' = Tail(hosts)
    <3>1. hosts # <<>>
      BY <2>3
    <3> QED
      BY <1>0, <1>1, <1>3, <2>3, <3>1, HeadTailProperties DEF Edit
  <2>4. CASE ~(Len(hosts) > 1 /\ hosts' = Tail(hosts))
    <3>1. hosts' \in Seq(Lines)
      BY <1>3, <2>2, <2>4 DEF Edit
    <3> QED
      BY <1>0, <1>1, <1>3, <3>1 DEF Edit
  <2> QED
    BY <2>3, <2>4
<1>4. ASSUME NEW n \in Helpers, Ask(n) PROVE HostsInv'
  <2>0. UNCHANGED <<hosts, backup, viewed>> /\ hosts = viewed
    BY <1>4 DEF Ask
  <2>1. PICK a \in {Apply(e) : e \in EntryLists} \cup {Restore} :
          /\ IF a.restore THEN backup # <<>> ELSE WellMarked(hosts) /\ ~Conflict(hosts, a.entries)
          /\ helper' = [helper EXCEPT ![n] = [NotStarted EXCEPT !.pc = "asked", !.seen = viewed, !.action = a]]
    BY <1>4 DEF Ask
  <2> DEFINE r == [NotStarted EXCEPT !.pc = "asked", !.seen = viewed, !.action = a]
  <2>2. r.pc = "asked" /\ r.seen = viewed /\ r.action = a
    BY DEF NotStarted
  <2>3. <<>> \in Seq(Lines)
    OBVIOUS
  <2>4. a \in ActionRecord /\ (~a.restore => AppliesTo(a.content, viewed))
    <3>1. CASE a = Restore
      BY <2>3, <3>1 DEF Restore, ActionRecord
    <3>2. ASSUME NEW e \in EntryLists, a = Apply(e)
          PROVE  a \in ActionRecord /\ (~a.restore => AppliesTo(a.content, viewed))
      <4>1. a.restore = FALSE /\ a.content = ReplaceBlock(viewed, e) /\ a.entries = e
        BY <3>2 DEF Apply
      <4>2. WellMarked(viewed)
        BY <2>0, <2>1, <4>1
      <4>3. a.content \in Seq(Lines) /\ AppliesTo(a.content, viewed)
        BY <1>0, <4>1, <4>2, AroundTheBlock DEF AppliesTo
      <4>4. a \in ActionRecord
        BY <3>2, <4>1, <4>3, ListsAreLines DEF Apply, ActionRecord
      <4> QED
        BY <4>3, <4>4
    <3> QED
      BY <3>1, <3>2
  <2>5. r \in HelperRecord
    BY <1>0, <2>3, <2>4 DEF HelperRecord, NotStarted
  <2>6. helper' = [helper EXCEPT ![n] = r]
    BY <2>1
  <2> HIDE DEF r
  <2> QED
    BY <1>0, <2>0, <2>2, <2>4, <2>5, <2>6, OneHelper
<1>5. ASSUME NEW n \in Helpers, Check(n) PROVE HostsInv'
  <2>0. UNCHANGED <<hosts, backup, viewed>> /\ HelperAt(n, "asked")
    BY <1>5 DEF Check
  <2>1. CASE HelperEnds(n, "failed")
    BY <1>0, <2>0, <2>1, HelperEndsKeeps
  <2>2. CASE ~HelperEnds(n, "failed")
    <3> DEFINE act == helper[n].action
               content == IF act.restore THEN backup ELSE act.content
               r == [helper[n] EXCEPT !.pc = "checked", !.checked = hosts, !.seen = <<>>,
                                      !.action = [act EXCEPT !.content = content]]
    <3>1. helper[n] \in HelperRecord /\ act \in ActionRecord
      BY <1>0 DEF HelperRecord
    <3>2. /\ helper' = [helper EXCEPT ![n].pc = "checked", ![n].checked = hosts, ![n].seen = <<>>,
                            ![n].action.content = IF helper[n].action.restore THEN backup ELSE @]
          /\ hosts = helper[n].seen
      BY <1>5, <2>2 DEF Check
    <3>3. helper' = [helper EXCEPT ![n] = r]
      BY <1>0, <3>1, <3>2 DEF HelperRecord, ActionRecord
    <3>7. content \in Seq(Lines) /\ <<>> \in Seq(Lines)
      BY <1>0, <3>1 DEF ActionRecord
    <3>8. /\ [act EXCEPT !.content = content] \in ActionRecord
          /\ [act EXCEPT !.content = content].restore = act.restore
          /\ [act EXCEPT !.content = content].content = content
      BY <3>1, <3>7 DEF ActionRecord
    <3>4. /\ r \in HelperRecord /\ r.pc = "checked" /\ r.checked = hosts
          /\ r.action = [act EXCEPT !.content = content]
      BY <1>0, <3>1, <3>7, <3>8 DEF HelperRecord
    <3>5. ~r.action.restore => AppliesTo(r.action.content, r.checked)
      BY <2>0, <3>2, <3>4, <3>8 DEF HostsInv
    <3>6. r.pc = "checked"
      BY <3>4
    <3> HIDE DEF r
    <3> QED
      BY <1>0, <2>0, <3>3, <3>4, <3>5, <3>6, OneHelper
  <2> QED
    BY <2>1, <2>2
<1>6. ASSUME NEW n \in Helpers, DropBackup(n) PROVE HostsInv'
  <2>0. UNCHANGED <<hosts, viewed>> /\ HelperAt(n, "checked") /\ backup' \in Seq(Lines)
    <3>1. <<>> \in Seq(Lines)
      OBVIOUS
    <3> QED
      BY <1>0, <1>6, <3>1 DEF DropBackup
  <2>1. CASE HelperEnds(n, "failed")
    BY <1>0, <2>0, <2>1, HelperEndsKeeps
  <2>2. CASE HelperGoto(n, "cleared")
    <3> DEFINE r == [helper[n] EXCEPT !.pc = "cleared"]
    <3>1. helper' = [helper EXCEPT ![n] = r]
      BY <2>2 DEF HelperGoto
    <3>2. helper[n] \in HelperRecord
      BY <1>0
    <3>3. r \in HelperRecord /\ r.pc = "cleared" /\ r.action = helper[n].action
          /\ r.checked = helper[n].checked
      BY <3>2 DEF HelperRecord
    <3> HIDE DEF r
    <3>4. ~r.action.restore => AppliesTo(r.action.content, r.checked)
      BY <2>0, <3>3 DEF HostsInv
    <3> QED
      BY <1>0, <2>0, <3>1, <3>3, <3>4, OneHelper
  <2> QED
    BY <1>6, <2>1, <2>2 DEF DropBackup
<1>7. ASSUME NEW n \in Helpers, Replace(n) PROVE HostsInv'
  <2>1. helper[n].action.content \in Seq(Lines)
    BY <1>0 DEF HelperRecord, ActionRecord
  <2>2. hosts' \in Seq(Lines) /\ backup' \in Seq(Lines) /\ viewed' \in Seq(Lines)
    BY <1>0, <1>7, <2>1 DEF Replace
  <2> QED
    BY <1>7, <2>2, HelperEndsKeeps DEF Replace
<1> QED
  BY <1>2, <1>3, <1>4, <1>5, <1>6, <1>7 DEF HostsNext, HelperStep

\* An apply changes the lines between the markers and no others, for a file that
\* is still the one its helper has checked.
THEOREM OtherLinesAreKept == HostsSpec => OthersLinesStay
<1>1. HostsInit => HostsInv
  <2> SUFFICES ASSUME HostsInit PROVE HostsInv
    OBVIOUS
  <2>1. /\ hosts \in Seq(Lines) /\ backup \in Seq(Lines) /\ viewed \in Seq(Lines)
        /\ helper = [n \in Helpers |-> NotStarted]
    BY HostsAssumption DEF HostsInit
  <2>2. NotStarted \in HelperRecord /\ NotStarted.pc = "off"
    BY RestingHelper DEF NotStarted
  <2> QED
    BY <2>1, <2>2 DEF HostsInv, HelperAt
<1>2. HostsInv /\ [HostsNext]_hostsVars =>
        [\A n \in Helpers : Applies(n) /\ hosts = helper[n].checked =>
           LinesBefore(hosts') = LinesBefore(hosts) /\ LinesAfter(hosts') = LinesAfter(hosts)]_hostsVars
  <2> SUFFICES ASSUME HostsInv, HostsNext, NEW n \in Helpers, Applies(n), hosts = helper[n].checked
               PROVE  LinesBefore(hosts') = LinesBefore(hosts) /\ LinesAfter(hosts') = LinesAfter(hosts)
    OBVIOUS
  <2>0. /\ helper \in [Helpers -> HelperRecord] /\ helper[n].pc = "cleared" /\ helper'[n].pc = "done"
        /\ ~helper[n].action.restore
    BY DEF Applies, HostsInv
  <2>1. \A m \in Helpers : HelperEnds(m, "failed") => helper'[n].pc # "done"
    BY <2>0, RestingHelper DEF HelperEnds
  <2>2. helper' # helper
    BY <2>0
  <2>3. ASSUME NEW m \in Helpers, Ask(m) \/ Check(m) \/ DropBackup(m) PROVE FALSE
    <3>1. helper[m].pc # "cleared"
      BY <2>3, <2>1, <2>0 DEF Ask, CanStart, Check, DropBackup, HelperAt
    <3>2. \A h \in Helpers : h # m => helper'[h] = helper[h]
      BY <2>3, <2>0 DEF Ask, Check, DropBackup, HelperEnds, HelperGoto
    <3> QED
      BY <2>0, <3>1, <3>2
  <2>4. PICK m \in Helpers : Replace(m)
    BY <2>2, <2>3 DEF HostsNext, HelperStep, View, Edit, StopWaiting
  <2>5. Replace(n)
    BY <2>0, <2>4 DEF Replace, HelperEnds
  <2>6. hosts' = helper[n].action.content
    <3>1. ~HelperEnds(n, "failed")
      BY <2>0, <2>1
    <3> QED
      BY <2>5, <3>1 DEF Replace
  <2> QED
    BY <2>0, <2>6 DEF HostsInv, HelperAt, AppliesTo
<1> QED
  BY <1>1, <1>2, HostsNextKeeps, PTL DEF HostsSpec, OthersLinesStay

==============================================================================
