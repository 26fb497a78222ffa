---------------------------- MODULE MCHostParts ----------------------------
(* Small instances of the parts of the host that share no state with each     *)
(* other.  A behaviour is one of one part, the others stay as they begin.     *)
EXTENDS PluginStore, SettingsFile, DocumentStore, SecretStores, LanShare, HostLog,
        HostsFile, BrowserWindows, AiRequests, FfmpegJobs, PluginCalls, Hotkeys,
        JournalReplay, MftWindow, SuperPanel, ClipboardHistory, NativeIcons, BatchRename

VARIABLE part

Parts == {"plugin store", "settings file", "documents", "secrets", "share", "log",
          "hosts file", "windows", "ai", "ffmpeg", "calls", "hotkeys",
          "replay", "window", "panel", "clipboard", "icons", "rename"}

\* No block, one between other lines, and one another program has indented.
Mapping       == Line("map", "d1", TRUE)
FirstContents == {<<Mapping>>, <<Mapping, Marks("start"), Marks("end"), Mapping>>,
                  <<Marks("blank start"), Mapping>>}

\* One folder with a file that has a second name in the root.
FirstTrees == {{LinkTo(1, Root, "a", TRUE), LinkTo(2, 1, "a", FALSE), LinkTo(2, Root, "b", FALSE)}}
FileRefs   == 1..3
CaseFold   == [a |-> "a", A |-> "a", b |-> "b"]

ClipKinds == [t1 |-> "text", i1 |-> "image"]

\* Two bindings of one key, and one of a key of the launcher; one caller of each
\* kind of call, and a second one that searches; scripts while windows have had
\* one lease.
FewShortcuts == wanted["b1"] # Fallback /\ wanted["b2"] \in {NoKey, "k1"}
FewCalls     == caller["c2"].kind \in {"none", "search"}
FewScripts   == granted <= 1 \/ \A e \in Scripts : script[e] = NoScript

\* One of the initial states of each part, but for the part itself.
PartsInit ==
    /\ part \in Parts
    /\ StoreInit /\ DocInit /\ SecretInit /\ ShareInit /\ LogInit /\ BrowserInit
    /\ AiInit /\ JobInit /\ CallsInit /\ KeysInit
    /\ SettingsInit /\ (part # "settings file" => store = LauncherHotkey)
    /\ HostsInit /\ (part # "hosts file" => hosts = CHOOSE h \in FirstContents : TRUE)
    /\ ReplayInit /\ WindowInit
    /\ PanelInit /\ ClipInit
    /\ IconInit /\ (part # "icons" => worker.pc = "starts")
    /\ RenameInit

Only(p) ==
    /\ part = p /\ UNCHANGED part
    /\ p # "plugin store"  => UNCHANGED storeVars
    /\ p # "settings file" => UNCHANGED settingsVars
    /\ p # "documents"     => UNCHANGED docVars
    /\ p # "secrets"       => UNCHANGED secretVars
    /\ p # "share"         => UNCHANGED shareVars
    /\ p # "log"           => UNCHANGED logVars
    /\ p # "hosts file"    => UNCHANGED hostsVars
    /\ p # "windows"       => UNCHANGED browserVars
    /\ p # "ai"            => UNCHANGED aiVars
    /\ p # "ffmpeg"        => UNCHANGED jobVars
    /\ p # "calls"         => UNCHANGED callVars
    /\ p # "hotkeys"       => UNCHANGED keyVars
    /\ p # "replay"        => UNCHANGED reader
    /\ p # "window"        => UNCHANGED windowReader
    /\ p \notin {"replay", "window"} => UNCHANGED volume
    /\ p # "panel"         => UNCHANGED panelVars
    /\ p # "clipboard"     => UNCHANGED clipVars
    /\ p # "icons"         => UNCHANGED iconVars
    /\ p # "rename"        => UNCHANGED renameVars

PartsNext ==
    \/ Only("plugin store")  /\ StoreNext
    \/ Only("settings file") /\ SettingsNext
    \/ Only("documents")     /\ DocNext
    \/ Only("secrets")       /\ SecretNext
    \/ Only("share")         /\ ShareNext
    \/ Only("log")           /\ LogNext
    \/ Only("hosts file")    /\ HostsNext
    \/ Only("windows")       /\ BrowserNext /\ FewScripts'
    \/ Only("ai")            /\ AiNext
    \/ Only("ffmpeg")        /\ JobNext
    \/ Only("calls")         /\ CallsNext /\ FewCalls'
    \/ Only("hotkeys")       /\ KeysNext /\ FewShortcuts'
    \/ Only("replay")        /\ ReplayNext
    \/ Only("window")        /\ WindowNext
    \/ Only("panel")         /\ PanelNext
    \/ Only("clipboard")     /\ ClipNext
    \/ Only("icons")         /\ IconNext
    \/ Only("rename")        /\ RenameNext

PartsSpec ==
    PartsInit /\ [][PartsNext]_<<part, storeVars, settingsVars, docVars, secretVars, shareVars,
                                 logVars, hostsVars, browserVars, aiVars, jobVars, callVars,
                                 keyVars, volume, reader, windowReader, panelVars, clipVars,
                                 iconVars, renameVars>>
=============================================================================
