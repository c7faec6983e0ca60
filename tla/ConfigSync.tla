------------------------------ MODULE ConfigSync ------------------------------
(***************************************************************************)
(* How the node's PTP profiles reach the event manager.  The operator      *)
(* replaces the mounted profile file; linuxptp-daemon follows it, writes   *)
(* the ptp4l config files and sends CMD RESTART; the sidecar starts afresh *)
(* and reads both.  Its one-shot file watcher, the start sequence that     *)
(* waits for it for a second, and the log line that loads the options late *)
(* (EnsureProcessOptions) run in three goroutines that share NodeProfiles  *)
(* and appliedNodeProfileJSON, which UpdateConfig writes one after the     *)
(* other without a lock, in the watcher and in the line.                   *)
(***************************************************************************)
EXTENDS Naturals

CONSTANTS
    Profiles,    \* profile names; every profile has one ptp4l configuration
    Versions,    \* the contents that the operator gives the file
    MaxChanges   \* bound: how often the operator changes it

\* A content: the profiles it holds, and which of them are T-BC profiles.
Content(names, tbc) == [kind |-> "profiles", names |-> names, tbc |-> tbc]
Odd(kind) == [kind |-> kind, names |-> {}, tbc |-> {}]
Missing == Odd("missing")     \* no such file
Empty == Odd("empty")         \* a file of no bytes
Malformed == Odd("malformed") \* neither of the two formats
Unset == Odd("unset")         \* a cache that was never filled

ASSUME VersionsAssumption ==
    /\ \A v \in Versions : /\ v = Content(v.names, v.tbc)
                           /\ v.names \subseteq Profiles
                           /\ v.tbc \subseteq v.names
    /\ MaxChanges \in Nat

VARIABLES
    file,      \* what the mounted profile file holds
    changes,   \* how often it has changed
    followed,  \* the content linuxptp-daemon runs and has written config files for
    restart,   \* the daemon has still to send CMD RESTART
    phase,     \* where Start is
    watcher,   \* the goroutine of WatchConfigMapUpdate
    profiles,  \* NodeProfiles
    applied,   \* appliedNodeProfileJSON
    read,      \* what the watcher and the line have read and not yet stored
    updateCh,  \* UpdateCh holds its one token
    opts, settings,  \* the contents PtpProcessOpts and TBCProfiles were made from
    thresholds,      \* the content the EventThreshold of every profile was made from
    ensure,    \* where a log line is in EnsureProcessOptions
    types,     \* ProfileType cached in the registered configs
    moved,     \* history: the file changed since this process started
    back,      \* history: ... back to what the daemon runs, which thus sees no change
    late       \* history: the configs were registered without profile settings

outside == <<file, changes, followed, restart, moved, back>>
loaded == <<profiles, applied, read, updateCh>>
caches == <<opts, thresholds, settings>>
vars == <<outside, loaded, caches, phase, watcher, ensure, types, late>>

Contents == Versions \cup {Missing, Empty, Malformed}

TypeOK ==
    /\ {file, followed} \subseteq Contents \cup {Unset}
    /\ {profiles, opts, settings} \subseteq Versions \cup {Unset}
    /\ thresholds \in [Profiles -> Versions \cup {Unset}]
    /\ read \in [{"watcher", "line"} -> Versions \cup {Unset}]
    /\ applied \in Versions \cup {Empty}
    /\ changes \in 0..MaxChanges
    /\ phase \in {"waiting", "options", "thresholds", "settings", "load", "running"}
    /\ watcher \in {"first", "ticking", "storing", "done"}
    /\ ensure \in {"idle", "storing", "options", "thresholds", "settings"}
    /\ types \in [Profiles -> {"unregistered", "NONE", "TBC"}]
    /\ {updateCh, restart, moved, back, late} \subseteq BOOLEAN

NothingRead == [who \in {"watcher", "line"} |-> Unset]

\* The thresholds that content v makes on its own.
Entries(v) == [c \in Profiles |-> IF c \in v.names THEN v ELSE Unset]

\* The daemon may have been running, on this content or on an earlier one.
Init ==
    /\ file \in Contents
    /\ changes = 0
    /\ followed \in Versions \cup {Unset}
    /\ restart = FALSE
    /\ phase = "waiting" /\ watcher = "first" /\ ensure = "idle"
    /\ profiles = Unset
    /\ applied = Empty         \* Go compares a nil slice equal to no bytes
    /\ read = NothingRead
    /\ updateCh = FALSE
    /\ opts = Unset /\ thresholds = Entries(Unset) /\ settings = Unset
    /\ types = [c \in Profiles |-> "unregistered"]
    /\ moved = FALSE /\ back = FALSE /\ late = FALSE

-----------------------------------------------------------------------------
(* The operator and linuxptp-daemon (outside this repository).             *)

Write(content) ==
    /\ changes < MaxChanges
    /\ content # file
    /\ file' = content
    /\ changes' = changes + 1
    /\ moved' = TRUE
    /\ back' = (content = followed)
    /\ UNCHANGED <<followed, restart, loaded, caches, phase, watcher, ensure, types, late>>

\* The daemon takes a new content over: it writes the config files and owes a
\* CMD RESTART, which it repeats until the socket accepts it.
Follow ==
    /\ file.kind = "profiles"
    /\ followed # file
    /\ followed' = file
    /\ restart' = TRUE
    /\ UNCHANGED <<file, changes, moved, back, loaded, caches, phase, watcher, ensure, types, late>>

\* Mutant: the command makes the sidecar read the config files again, no more.
RestartLoadsOnly ==
    /\ phase = "running" /\ phase' = "load"
    /\ restart /\ restart' = FALSE
    /\ UNCHANGED <<file, changes, followed, moved, back, loaded, caches, watcher, ensure, types, late>>

\* CMD RESTART arrives on the socket, which is open once Start is through:
\* syscall.Exec, whatever other goroutines are doing.
Restart ==
    /\ phase = "running"
    /\ restart
    /\ restart' = FALSE
    /\ phase' = "waiting" /\ watcher' = "first" /\ ensure' = "idle"
    /\ profiles' = Unset /\ applied' = Empty /\ read' = NothingRead /\ updateCh' = FALSE
    /\ opts' = Unset /\ thresholds' = Entries(Unset) /\ settings' = Unset
    /\ types' = [c \in Profiles |-> "unregistered"]
    /\ moved' = FALSE /\ back' = FALSE /\ late' = FALSE
    /\ UNCHANGED <<file, changes, followed>>

-----------------------------------------------------------------------------
(* Reading the file.                                                       *)

\* notifyUpdate: the channel has room for one token, more are coalesced.
NotifyUpdate == updateCh' = TRUE

\* Mutant: whatever bytes are there are taken over.
UpdatePtpConfigUnparsed(who) ==
    IF file \in {Missing, applied}
    THEN /\ IF file = Missing THEN NotifyUpdate ELSE UNCHANGED updateCh
         /\ UNCHANGED <<profiles, applied, read>>
    ELSE /\ applied' = file /\ read' = [read EXCEPT ![who] = file]
         /\ UNCHANGED <<profiles, updateCh>>

\* updatePtpConfig and UpdateConfig.  A missing file only wakes the caller; the
\* content applied last (at first: no bytes) counts as done; a malformed one is
\* given up; another one is remembered as applied and goes into NodeProfiles next.
UpdatePtpConfig(who) ==
    IF file.kind # "profiles" \/ file = applied
    THEN /\ IF file = Missing THEN NotifyUpdate ELSE UNCHANGED updateCh
         /\ UNCHANGED <<profiles, applied, read>>
    ELSE /\ applied' = file /\ read' = [read EXCEPT ![who] = file]
         /\ UNCHANGED <<profiles, updateCh>>

\* The rest of UpdateConfig: NodeProfiles is replaced, and the caller woken.
StoreProfiles(who) ==
    /\ profiles' = read[who]
    /\ read' = [read EXCEPT ![who] = Unset]
    /\ NotifyUpdate
    /\ UNCHANGED applied

\* WatchConfigMapUpdate with keepAlive = FALSE: the first read, or a tick.
Watch ==
    /\ watcher \in {"first", "ticking"}
    /\ UpdatePtpConfig("watcher")
    /\ watcher' = IF file = applied THEN "done"
                  ELSE IF read' = read THEN "ticking" ELSE "storing"
    /\ UNCHANGED <<outside, caches, phase, ensure, types, late>>

WatchStores ==
    /\ watcher = "storing" /\ watcher' = "done"
    /\ StoreProfiles("watcher")
    /\ UNCHANGED <<outside, caches, phase, ensure, types, late>>

-----------------------------------------------------------------------------
(* Start: startPtpConfigSync and loadInitialPtp4lConfigs.                  *)

\* Woken by the token; without profiles Start goes on at once.
StartWoken ==
    /\ phase = "waiting"
    /\ updateCh
    /\ updateCh' = FALSE
    /\ phase' = IF profiles.names # {} THEN "options" ELSE "load"
    /\ late' = (profiles.names = {})
    /\ UNCHANGED <<outside, profiles, applied, read, caches, watcher, ensure, types>>

\* A second has passed.  If the token is there as well, Go chooses either.
StartTimeout ==
    /\ phase = "waiting"
    /\ phase' = "load"
    /\ late' = TRUE
    /\ UNCHANGED <<outside, loaded, caches, watcher, ensure, types>>

\* UpdatePTPProcessOptions, UpdatePTPThreshold, UpdatePTPSetting, in this order,
\* each from what NodeProfiles holds by then.  The second adds and replaces entries,
\* the others start afresh.
StartOptions ==
    /\ phase = "options" /\ phase' = "thresholds"
    /\ opts' = profiles
    /\ UNCHANGED <<outside, loaded, thresholds, settings, watcher, ensure, types, late>>

\* UpdatePTPThreshold.
UpdatePTPThreshold ==
    thresholds' = [c \in Profiles |-> IF c \in profiles.names THEN profiles ELSE thresholds[c]]

StartThresholds ==
    /\ phase = "thresholds" /\ phase' = "settings"
    /\ UpdatePTPThreshold
    /\ UNCHANGED <<outside, loaded, opts, settings, watcher, ensure, types, late>>

\* GetProfileType, given the T-BC profiles.
ProfileType(c, tbc) == IF c \in tbc THEN "TBC" ELSE "NONE"

\* UpdatePTPSetting and RefreshProfileTypes.
StartSettings ==
    /\ phase = "settings" /\ phase' = "load"
    /\ settings' = profiles
    /\ types' = [c \in Profiles |-> IF types[c] = "unregistered" THEN types[c]
                                    ELSE ProfileType(c, profiles.tbc)]
    /\ UNCHANGED <<outside, loaded, opts, thresholds, watcher, ensure, late>>

\* Mutant: configs are registered without their type.
StartLoadUntyped ==
    /\ phase = "load" /\ phase' = "running"
    /\ types' = [c \in Profiles |-> IF c \in followed.names THEN "NONE" ELSE "unregistered"]
    /\ UNCHANGED <<outside, loaded, caches, watcher, ensure, late>>

\* loadInitialPtp4lConfigs: every config file is registered with the type its
\* profile has by now.
StartLoad ==
    /\ phase = "load" /\ phase' = "running"
    /\ types' = [c \in Profiles |-> IF c \in followed.names THEN ProfileType(c, settings.tbc)
                                    ELSE "unregistered"]
    /\ UNCHANGED <<outside, loaded, caches, watcher, ensure, late>>

-----------------------------------------------------------------------------
(* LookupOrEnsurePtpProcessOpts and EnsureProcessOptions, called by the    *)
(* line that puts a port of profile c into HOLDOVER.                       *)

\* The options are missing altogether: the file is read again if there are no
\* profiles, and the caches are filled if there are any now.
Ensure(c) ==
    /\ phase = "running" /\ ensure = "idle"
    /\ types[c] # "unregistered"
    /\ opts.names = {}
    /\ IF profiles.names = {} THEN UpdatePtpConfig("line") ELSE UNCHANGED loaded
    /\ ensure' = IF profiles.names # {} THEN "options" ELSE "storing"
    /\ UNCHANGED <<outside, caches, phase, watcher, types, late>>

\* What was read is stored, and NodeProfiles is looked at again.
EnsureStores ==
    /\ ensure = "storing"
    /\ IF read["line"] # Unset THEN StoreProfiles("line") ELSE UNCHANGED loaded
    /\ ensure' = IF profiles'.names # {} THEN "options" ELSE "idle"
    /\ UNCHANGED <<outside, caches, phase, watcher, types, late>>

EnsureOptions ==
    /\ ensure = "options" /\ ensure' = "thresholds"
    /\ opts' = profiles
    /\ UNCHANGED <<outside, loaded, thresholds, settings, phase, watcher, types, late>>

EnsureThresholds ==
    /\ ensure = "thresholds" /\ ensure' = "settings"
    /\ UpdatePTPThreshold
    /\ UNCHANGED <<outside, loaded, opts, settings, phase, watcher, types, late>>

\* Mutant: the settings are left to the next start.
EnsureSettingsNone ==
    /\ ensure = "settings" /\ ensure' = "idle"
    /\ UNCHANGED <<outside, loaded, caches, phase, watcher, types, late>>

\* The types of the registered configs are not refreshed here.
EnsureSettings ==
    /\ ensure = "settings" /\ ensure' = "idle"
    /\ settings' = profiles
    /\ UNCHANGED <<outside, loaded, opts, thresholds, phase, watcher, types, late>>

Next ==
    \/ \E content \in Contents : Write(content)
    \/ Follow \/ Restart
    \/ Watch \/ WatchStores
    \/ StartWoken \/ StartTimeout \/ StartOptions \/ StartThresholds \/ StartSettings \/ StartLoad
    \/ \E c \in Profiles : Ensure(c)
    \/ EnsureStores \/ EnsureOptions \/ EnsureThresholds \/ EnsureSettings

Spec == Init /\ [][Next]_vars

\* The goroutines go on, the daemon follows the file and delivers its command.
\* Nothing is promised of the operator or of HOLDOVER lines.
Fairness ==
    /\ WF_vars(Follow) /\ WF_vars(Restart) /\ WF_vars(Watch) /\ WF_vars(WatchStores)
    /\ WF_vars(StartWoken) /\ WF_vars(StartTimeout)
    /\ WF_vars(StartOptions \/ StartThresholds \/ StartSettings \/ StartLoad)
    /\ WF_vars(EnsureStores \/ EnsureOptions \/ EnsureThresholds \/ EnsureSettings)

FairSpec == Spec /\ Fairness

-----------------------------------------------------------------------------
(* Properties.                                                             *)

\* Process options, thresholds and settings come from one content of the file,
\* though each is made from NodeProfiles at its own time, the watcher and a line
\* may replace these in between (config.go:413 and 414), and thresholds are only
\* ever added: they differ only if the file changed since the process started,
\* and then the daemon's restart is due.
OneContent ==
    phase \in {"load", "running"} /\ ensure = "idle" /\ opts # Unset =>
        /\ settings # Unset
        /\ ~moved => settings = opts /\ thresholds = Entries(opts)

\* GetProfileTypeByConfigName, which falls back on the settings.
ResolvedType(c) == IF types[c] = "TBC" THEN "TBC" ELSE ProfileType(c, settings.tbc)

\* The type that the T-BC branches read from the registered config (metrics.go:345,
\* 372, ptp4lParse.go:109) is the one that GetProfileTypeByConfigName resolves,
\* unless the configs were registered without settings: a late load repairs only
\* the callers of the function.
CachedTypeIsResolved ==
    ~late => \A c \in Profiles : types[c] # "unregistered" => types[c] = ResolvedType(c)

InForce(v) ==
    /\ opts = v /\ thresholds = Entries(v) /\ settings = v
    /\ \A c \in Profiles : types[c] = IF c \in v.names THEN ProfileType(c, v.tbc) ELSE "unregistered"

\* After a start without settings nothing else than the last content gets in force.
NothingElse(v) ==
    late /\ {opts, settings} \cup {thresholds[c] : c \in Profiles} \subseteq {Unset, v}

\* Once the operator leaves the file alone, its content gets in force for good,
\* through the daemon's restart alone (RESTART_ON_CONFIG_CHANGE.md), or the last
\* start gave the file up after a second and nothing else is in force (plugin.go:205);
\* except that the daemon may never see a content which is soon taken back.
LastContentInForce ==
    \A v \in Versions :
        v.names # {} => (<>[](file = v) => <>[](InForce(v) \/ NothingElse(v) \/ back))
=============================================================================
