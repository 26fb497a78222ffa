---------------------------- MODULE SettingsFile ----------------------------
(***************************************************************************)
(* The small files of the host that are replaced as a whole.  A rename on  *)
(* Windows does not replace a file, so a save moves the old one to a       *)
(* backup, moves the staged one into its place and removes the backup.  A  *)
(* start that finds no file recovers a backup.                             *)
(***************************************************************************)
EXTENDS Naturals

CONSTANTS
    Stores,     \* the stores that are looked at, of those listed below
    MaxSaves    \* saves; the n-th writes content n, and n orders their times

\* cached: the content is loaded at the start only.  scans: when the newest backup
\* cannot be moved the next older one is tried.  blind: Path::exists asks whether the
\* file is there, and says no of one that cannot be inspected.
PluginSettings    == [name |-> "plugin settings",  cached |-> TRUE,  scans |-> TRUE,  blind |-> TRUE]
LauncherShortcuts == [name |-> "launcher pins",    cached |-> TRUE,  scans |-> FALSE, blind |-> TRUE]
PluginShortcuts   == [name |-> "plugin shortcuts", cached |-> FALSE, scans |-> FALSE, blind |-> FALSE]
CloudProfiles     == [name |-> "cloud profiles",   cached |-> FALSE, scans |-> FALSE, blind |-> FALSE]
CryptoStorage     == [name |-> "crypto storage",   cached |-> FALSE, scans |-> TRUE,  blind |-> TRUE]
LauncherHotkey    == [name |-> "launcher hotkey",  cached |-> FALSE, scans |-> FALSE, blind |-> FALSE]
AllStores == {PluginSettings, LauncherShortcuts, PluginShortcuts, CloudProfiles,
              CryptoStorage, LauncherHotkey}

ASSUME SettingsAssumption ==
    Stores \subseteq AllStores /\ MaxSaves \in Nat

VARIABLES
    store,      \* which one
    primary,    \* the content of the file; 0 is no file
    backups,    \* the contents of the backups
    held,       \* what the program answers; 0 is the default
    saving,     \* the save in progress, its content and its own backup
    saves,      \* saves begun
    degraded    \* a load has passed over the newest backup, or has answered the default
                \* in place of a file

settingsVars == <<store, primary, backups, held, saving, saves, degraded>>

NotSaving == [pc |-> "idle", new |-> 0, old |-> 0]
SaveAt(pc) == saving.pc = pc

\* Mutant: backups are sorted the other way round.
OldestBackup(S) == CHOOSE b \in S : \A c \in S : b <= c
NewestBackup(S) == CHOOSE b \in S : \A c \in S : c <= b

\* What a start would load.
Durable == IF primary # 0 THEN primary
           ELSE IF backups = {} THEN 0 ELSE NewestBackup(backups)

SettingsInit ==
    /\ store \in Stores
    /\ primary = 0 /\ backups = {} /\ held = 0
    /\ saving = NotSaving /\ saves = 0 /\ degraded = FALSE

-----------------------------------------------------------------------------
(* Loading *)

AnswersWith(c) == held' = c /\ saving' = NotSaving

\* A load fails: a cached store begins with the default, and the hotkey is the
\* default; in the other stores the command fails, and nobody is answered.
FallsBack == store.cached \/ store = LauncherHotkey
LoadFails(d) ==
    IF FallsBack THEN AnswersWith(0) /\ degraded' = TRUE
                 ELSE UNCHANGED <<held, saving>> /\ degraded' = d

\* The file in place is read, or cannot be: an error, too large, invalid.
ReadsFile(d) == (AnswersWith(primary') /\ degraded' = d) \/ LoadFails(d)

LoadReads ==
    /\ primary # 0 /\ UNCHANGED <<primary, backups>>
    /\ ReadsFile(degraded)

\* The file is there and the store does not see it.
LoadOverlooks ==
    /\ primary # 0 /\ store.blind /\ UNCHANGED <<primary, backups>>
    /\ AnswersWith(0) /\ degraded' = TRUE

\* The newest backup takes the place of a file that is missing: of those that can
\* be read, and in the stores that scan of those that can be moved.
LoadRecovers ==
    /\ primary = 0
    /\ \E b \in backups :
         /\ primary' = b /\ backups' = backups \ {b}
         /\ ReadsFile(degraded \/ b # NewestBackup(backups))

\* No backup takes the place: there is none, or none that can be read; or the
\* folder cannot be listed, or the move fails.
LoadFindsNone ==
    /\ primary = 0 /\ UNCHANGED <<primary, backups>>
    /\ \/ AnswersWith(0) /\ degraded' = (degraded \/ backups # {})
       \/ LoadFails(degraded)

\* The process starts again, or a store without a cache is asked.
Loads ==
    /\ SaveAt("off") \/ (SaveAt("idle") /\ ~store.cached)
    /\ LoadReads \/ LoadOverlooks \/ LoadRecovers \/ LoadFindsNone
    /\ UNCHANGED <<store, saves>>

-----------------------------------------------------------------------------
(* Saving *)

\* A store without a cache loads under the same lock, and goes on with nothing if
\* no backup could be had; the hotkey does not load.
Save ==
    /\ SaveAt("idle") /\ saves < MaxSaves
    /\ \/ store.cached \/ store = LauncherHotkey \/ primary # 0 \/ backups = {}
       \/ degraded
    /\ saves' = saves + 1
    /\ saving' = [pc |-> IF primary = 0 THEN "promote" ELSE "aside", new |-> saves',
                   old |-> 0]
    /\ UNCHANGED <<store, primary, backups, held, degraded>>

\* Moving the file aside; a save that fails here leaves everything as it was.
SetAside ==
    /\ SaveAt("aside")
    /\ \/ /\ backups' = backups \cup {primary} /\ primary' = 0
          /\ saving' = [saving EXCEPT !.pc = "promote", !.old = primary]
       \/ saving' = NotSaving /\ UNCHANGED <<primary, backups>>
    /\ UNCHANGED <<store, held, saves, degraded>>

\* The staged file takes the place.  If it cannot, the backup of this save is
\* moved back, which may fail as well.
Promote ==
    /\ SaveAt("promote")
    /\ \/ /\ primary' = saving.new
          /\ saving' = [saving EXCEPT !.pc = "cleanup"]
          /\ UNCHANGED backups
       \/ /\ saving' = NotSaving
          /\ \/ UNCHANGED <<primary, backups>>
             \/ saving.old # 0 /\ primary' = saving.old /\ backups' = backups \ {saving.old}
    /\ UNCHANGED <<store, held, saves, degraded>>

\* The backup is removed, or stays with a warning; then the save is acknowledged.
CleanUp ==
    /\ SaveAt("cleanup")
    /\ backups' \in {backups \ {saving.old}, backups}
    /\ held' = saving.new /\ saving' = NotSaving
    /\ UNCHANGED <<store, primary, saves, degraded>>

\* Clearing the hotkey removes the file and nothing else.
ClearPreference ==
    /\ store = LauncherHotkey /\ SaveAt("idle")
    /\ primary' = 0 /\ held' = 0
    /\ UNCHANGED <<store, backups, saving, saves, degraded>>

\* The process ends.
SettingsCrash ==
    /\ ~SaveAt("off")
    /\ saving' = [saving EXCEPT !.pc = "off", !.old = 0]
    /\ UNCHANGED <<store, primary, backups, held, saves, degraded>>

SettingsNext == Loads \/ Save \/ SetAside \/ Promote \/ CleanUp \/ ClearPreference \/ SettingsCrash

SettingsSpec == SettingsInit /\ [][SettingsNext]_settingsVars

-----------------------------------------------------------------------------
(* Properties *)

\* A staged file is renamed only where no file is, a rename does not replace one,
\* and the file that was there is a backup until then.
SettingsTypeOK ==
    /\ store \in Stores /\ saves \in 0..MaxSaves /\ degraded \in BOOLEAN
    /\ primary \in 0..saves /\ held \in 0..saves /\ backups \subseteq 1..saves
    /\ saving \in [pc : {"idle", "aside", "promote", "cleanup", "off"},
                  new : 0..saves, old : 0..saves]
    /\ SaveAt("promote") => /\ primary = 0
                            /\ saving.old # 0 => saving.old \in backups

\* What the next start finds is what the program answers, or the save that was being
\* written (plugin_settings.rs:343): through crashes, moves that fail and files that
\* cannot be read, as long as no load has taken an older backup or the default in
\* place of what is there (which plugin_settings.rs:64 does for any load that fails),
\* and the file is never cleared.
SavedIsFound ==
    store # LauncherHotkey /\ ~degraded =>
        \/ Durable = held
        \/ saving.pc \in {"cleanup", "off"} /\ Durable = saving.new
=============================================================================
