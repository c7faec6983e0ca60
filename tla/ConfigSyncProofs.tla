-------------------------- MODULE ConfigSyncProofs --------------------------
(***************************************************************************)
(* Proofs about ConfigSync for every set of profiles, every contents of    *)
(* the file and any number of changes: the three caches agree while the    *)
(* file rests, and a start with settings registers the resolved types.     *)
(***************************************************************************)
EXTENDS ConfigSync, TLAPS

\* While the file rests, every cache was filled from it.
SourceInv ==
    ~moved => /\ {profiles, opts, settings, read["watcher"], read["line"]} \subseteq {Unset, file}
              /\ thresholds \in {Entries(Unset), Entries(file)}

\* The thresholds follow the options.
EntriesInv ==
    ~moved /\ opts # Unset /\ phase # "thresholds" /\ ensure # "thresholds" =>
        thresholds = Entries(opts)

\* The order in which Start and EnsureProcessOptions fill the caches.
OrderInv ==
    /\ phase \in {"waiting", "options"} => opts = Unset /\ settings = Unset
    /\ phase \in {"thresholds", "settings"} => opts # Unset
    /\ phase \in {"options", "thresholds", "settings"} => profiles # Unset
    /\ phase # "running" => ensure = "idle"
    /\ phase \in {"load", "running"} /\ ensure \in {"idle", "storing"} /\ opts # Unset =>
          settings # Unset
    /\ ensure \in {"options", "thresholds", "settings"} => profiles # Unset
    /\ ensure \in {"thresholds", "settings"} => opts # Unset
    /\ watcher = "storing" => read["watcher"] # Unset

\* A start that was woken with profiles keeps them: the watcher is through, and
\* no HOLDOVER line finds the options missing.
WokenInv ==
    /\ phase = "waiting" => ~late /\ (profiles.names # {} => watcher = "done")
    /\ phase # "waiting" /\ ~late =>
          watcher = "done" /\ profiles.names # {} /\ ensure = "idle"
    /\ phase \in {"thresholds", "settings", "load", "running"} /\ ~late => opts = profiles

\* Configs are registered at the end of Start, with the type of their profile.
TypesInv ==
    \A c \in Profiles :
        types[c] # "unregistered" =>
            phase = "running" /\ (~late => types[c] = ProfileType(c, settings.tbc))

\* The inductive invariant.
IInv == TypeOK /\ SourceInv /\ EntriesInv /\ OrderInv /\ WokenInv /\ TypesInv

-----------------------------------------------------------------------------
\* The contents that are not profiles differ from those that are.
LEMMA VersionsAreProfiles ==
    ASSUME NEW v \in Versions
    PROVE  v.kind = "profiles" /\ v # Unset /\ v # Missing /\ v # Empty /\ v # Malformed
  BY VersionsAssumption DEF Content, Unset, Missing, Empty, Malformed, Odd

LEMMA OddHasNoProfiles ==
    /\ Unset.names = {} /\ Unset.kind = "unset"
    /\ Missing.kind = "missing" /\ Empty.kind = "empty" /\ Malformed.kind = "malformed"
    /\ Unset # Empty
  BY DEF Unset, Missing, Empty, Malformed, Odd

\* A file with profiles in it is one of the versions.
LEMMA ParsedIsVersion ==
    ASSUME TypeOK, file.kind = "profiles"
    PROVE  file \in Versions
  BY OddHasNoProfiles DEF TypeOK, Contents

LEMMA ProfileTyped ==
    ASSUME NEW c, NEW tbc
    PROVE  ProfileType(c, tbc) \in {"TBC", "NONE"}
  BY DEF ProfileType

\* UpdateConfig: a content is read and applied, or nothing happens.
LEMMA UpdateEffects ==
    ASSUME TypeOK, NEW who \in {"watcher", "line"}, UpdatePtpConfig(who)
    PROVE  /\ \/ UNCHANGED <<applied, read>>
              \/ /\ applied' = file /\ read' = [read EXCEPT ![who] = file]
                 /\ file \in Versions /\ file # applied
           /\ profiles' = profiles /\ updateCh' \in BOOLEAN
  <1>1. CASE file.kind # "profiles" \/ file = applied
    BY <1>1 DEF UpdatePtpConfig, NotifyUpdate, TypeOK
  <1>2. CASE ~(file.kind # "profiles" \/ file = applied)
    BY <1>2, ParsedIsVersion DEF UpdatePtpConfig, TypeOK
  <1>3. QED
    BY <1>1, <1>2

\* UpdatePTPThreshold adds the entries of the one content there is.
LEMMA ThresholdEffects ==
    ASSUME TypeOK, SourceInv, UpdatePTPThreshold, UNCHANGED <<file, moved>>
    PROVE  /\ thresholds' \in [Profiles -> Versions \cup {Unset}]
           /\ ~moved => thresholds' \in {Entries(Unset), Entries(file)}
           /\ ~moved /\ profiles # Unset => thresholds' = Entries(profiles)
  <1>1. thresholds' \in [Profiles -> Versions \cup {Unset}]
    BY DEF UpdatePTPThreshold, TypeOK
  <1>2. ASSUME ~moved, profiles = Unset
        PROVE  thresholds' = thresholds
    BY <1>2, OddHasNoProfiles DEF UpdatePTPThreshold, TypeOK
  <1>3. ASSUME ~moved, profiles = file
        PROVE  thresholds' = Entries(profiles)
    <2>1. \A c \in Profiles : c \notin file.names => thresholds[c] = Unset
      BY <1>3, OddHasNoProfiles DEF SourceInv, Entries
    <2>2. QED
      BY <1>3, <2>1 DEF UpdatePTPThreshold, Entries
  <1>4. QED
    BY <1>1, <1>2, <1>3 DEF SourceInv

\* What a step that leaves the caches and the start alone keeps.
LEMMA ReadTyped ==
    ASSUME TypeOK, NEW who \in {"watcher", "line"}, NEW v \in Versions \cup {Unset},
           read' = [read EXCEPT ![who] = v]
    PROVE  /\ read' \in [{"watcher", "line"} -> Versions \cup {Unset}]
           /\ read'[who] = v
           /\ \A w \in {"watcher", "line"} : w # who => read'[w] = read[w]
  BY DEF TypeOK

LEMMA InitIInv == Init => IInv
  <1> SUFFICES ASSUME Init PROVE IInv
    OBVIOUS
  <1>1. TypeOK
    <2>1. 0 \in 0..MaxChanges
      BY VersionsAssumption
    <2>2. QED
      BY <2>1 DEF Init, TypeOK, Contents, NothingRead, Entries
  <1>2. WokenInv
    BY OddHasNoProfiles DEF Init, WokenInv
  <1>3. QED
    BY <1>1, <1>2 DEF Init, IInv, SourceInv, EntriesInv, OrderInv, TypesInv, NothingRead

-----------------------------------------------------------------------------
\* A step of the operator or the daemon.
LEMMA OutsideKeeps ==
    ASSUME IInv, (\E content \in Contents : Write(content)) \/ Follow
    PROVE  IInv'
  <1> USE DEF loaded, caches
  <1>1. TypeOK'
    <2>1. CASE \E content \in Contents : Write(content)
      BY <2>1, VersionsAssumption DEF IInv, TypeOK, Write
    <2>2. CASE Follow
      BY <2>2 DEF IInv, TypeOK, Follow
    <2>3. QED
      BY <2>1, <2>2
  <1>2. UNCHANGED <<profiles, read, opts, thresholds, settings, phase, watcher, ensure, types, late>>
    BY DEF Write, Follow
  <1>3. ~moved' => ~moved /\ UNCHANGED file
    BY DEF Write, Follow
  <1>4. SourceInv'
    BY <1>2, <1>3 DEF IInv, SourceInv
  <1>5. EntriesInv' /\ OrderInv' /\ WokenInv' /\ TypesInv'
    BY <1>2, <1>3 DEF IInv, EntriesInv, OrderInv, WokenInv, TypesInv
  <1>6. QED
    BY <1>1, <1>4, <1>5 DEF IInv

LEMMA RestartKeeps ==
    ASSUME IInv, Restart
    PROVE  IInv'
  <1>1. TypeOK'
    BY DEF IInv, TypeOK, Restart, NothingRead, Entries
  <1>2. WokenInv'
    BY OddHasNoProfiles DEF Restart, WokenInv
  <1>3. SourceInv' /\ EntriesInv' /\ OrderInv' /\ TypesInv'
    BY DEF Restart, SourceInv, EntriesInv, OrderInv, TypesInv, NothingRead
  <1>4. QED
    BY <1>1, <1>2, <1>3 DEF IInv

LEMMA WatchKeeps ==
    ASSUME IInv, Watch
    PROVE  IInv'
  <1>0. TypeOK /\ SourceInv /\ EntriesInv /\ OrderInv /\ WokenInv /\ TypesInv
    BY DEF IInv
  <1>1. /\ watcher \in {"first", "ticking"}
        /\ watcher' \in {"ticking", "storing", "done"}
        /\ watcher' = "storing" => read' # read
        /\ UNCHANGED <<file, changes, followed, restart, moved, back>>
        /\ UNCHANGED <<opts, thresholds, settings, phase, ensure, types, late>>
    BY DEF Watch, outside, caches
  <1>2. /\ \/ UNCHANGED <<applied, read>>
           \/ /\ applied' = file /\ read' = [read EXCEPT !["watcher"] = file]
              /\ file \in Versions
        /\ profiles' = profiles /\ updateCh' \in BOOLEAN
    BY <1>0, UpdateEffects DEF Watch
  <1>3. /\ read' \in [{"watcher", "line"} -> Versions \cup {Unset}]
        /\ applied' \in Versions \cup {Empty}
        /\ read'["watcher"] \in {read["watcher"], file} /\ read'["line"] = read["line"]
        /\ watcher' = "storing" => read'["watcher"] # Unset
    BY <1>0, <1>1, <1>2, ReadTyped, VersionsAreProfiles DEF TypeOK
  <1>4. TypeOK'
    BY <1>0, <1>1, <1>2, <1>3 DEF TypeOK
  <1>5. SourceInv' /\ EntriesInv' /\ TypesInv'
    BY <1>0, <1>1, <1>2, <1>3 DEF SourceInv, EntriesInv, TypesInv
  <1>6. OrderInv'
    BY <1>0, <1>1, <1>2, <1>3 DEF OrderInv
  <1>7. WokenInv'
    BY <1>0, <1>1, <1>2 DEF WokenInv
  <1>8. QED
    BY <1>4, <1>5, <1>6, <1>7 DEF IInv

LEMMA WatchStoresKeeps ==
    ASSUME IInv, WatchStores
    PROVE  IInv'
  <1>0. TypeOK /\ SourceInv /\ EntriesInv /\ OrderInv /\ WokenInv /\ TypesInv
    BY DEF IInv
  <1>1. /\ watcher = "storing" /\ watcher' = "done" /\ updateCh' = TRUE
        /\ profiles' = read["watcher"] /\ read' = [read EXCEPT !["watcher"] = Unset]
        /\ UNCHANGED <<file, changes, followed, restart, moved, back, applied>>
        /\ UNCHANGED <<opts, thresholds, settings, phase, ensure, types, late>>
    BY DEF WatchStores, StoreProfiles, NotifyUpdate, outside, caches
  <1>2. /\ read' \in [{"watcher", "line"} -> Versions \cup {Unset}]
        /\ read'["watcher"] = Unset /\ read'["line"] = read["line"]
        /\ profiles' \in Versions /\ profiles' # Unset
    <2>1. read["watcher"] \in Versions
      BY <1>0, <1>1 DEF OrderInv, TypeOK
    <2>2. QED
      BY <1>0, <1>1, <2>1, ReadTyped, VersionsAreProfiles
  <1>3. TypeOK'
    BY <1>0, <1>1, <1>2 DEF TypeOK
  <1>4. SourceInv' /\ EntriesInv' /\ TypesInv'
    BY <1>0, <1>1, <1>2 DEF SourceInv, EntriesInv, TypesInv
  <1>5. OrderInv'
    BY <1>0, <1>1, <1>2 DEF OrderInv
  <1>6. WokenInv'
    BY <1>0, <1>1 DEF WokenInv
  <1>7. QED
    BY <1>3, <1>4, <1>5, <1>6 DEF IInv

\* Start before it registers the configs.
LEMMA StartKeeps ==
    ASSUME IInv, StartWoken \/ StartTimeout \/ StartOptions \/ StartThresholds \/ StartSettings
    PROVE  IInv'
  <1> USE DEF outside, loaded, caches
  <1>0. TypeOK /\ SourceInv /\ EntriesInv /\ OrderInv /\ WokenInv /\ TypesInv
    BY DEF IInv
  <1>1. CASE StartWoken
    <2>1. TypeOK' /\ SourceInv' /\ EntriesInv' /\ TypesInv'
      BY <1>0, <1>1 DEF StartWoken, TypeOK, SourceInv, EntriesInv, TypesInv
    <2>2. OrderInv' /\ WokenInv'
      BY <1>0, <1>1, OddHasNoProfiles DEF StartWoken, OrderInv, WokenInv
    <2>3. QED
      BY <2>1, <2>2 DEF IInv
  <1>2. CASE StartTimeout
    BY <1>0, <1>2 DEF IInv, StartTimeout, TypeOK, SourceInv, EntriesInv, OrderInv, WokenInv,
          TypesInv
  <1>3. CASE StartOptions
    BY <1>0, <1>3 DEF IInv, StartOptions, TypeOK, SourceInv, EntriesInv, OrderInv, WokenInv,
          TypesInv
  <1>4. CASE StartThresholds
    <2>1. /\ phase = "thresholds" /\ phase' = "settings"
          /\ UNCHANGED <<file, changes, followed, restart, moved, back, profiles, applied, read,
                         updateCh, opts, settings, watcher, ensure, types, late>>
      BY <1>4 DEF StartThresholds
    <2>2. /\ thresholds' \in [Profiles -> Versions \cup {Unset}]
          /\ ~moved => thresholds' \in {Entries(Unset), Entries(file)}
          /\ ~moved /\ profiles # Unset => thresholds' = Entries(profiles)
      BY <1>0, <1>4, <2>1, ThresholdEffects DEF StartThresholds
    <2>3. TypeOK' /\ SourceInv' /\ TypesInv'
      BY <1>0, <2>1, <2>2 DEF TypeOK, SourceInv, TypesInv
    <2>4. OrderInv' /\ WokenInv'
      BY <1>0, <2>1 DEF OrderInv, WokenInv
    <2>5. EntriesInv'
      BY <1>0, <2>1, <2>2 DEF EntriesInv, OrderInv, SourceInv
    <2>6. QED
      BY <2>3, <2>4, <2>5 DEF IInv
  <1>5. CASE StartSettings
    <2>1. \A c \in Profiles : types[c] = "unregistered"
      BY <1>0, <1>5 DEF StartSettings, TypesInv
    <2>2. types' = types
      BY <1>0, <1>5, <2>1 DEF StartSettings, TypeOK
    <2>3. UNCHANGED <<file, changes, followed, restart, moved, back, profiles, applied, read, updateCh,
                      opts, thresholds, watcher, ensure, late>>
          /\ phase = "settings" /\ phase' = "load" /\ settings' = profiles
      BY <1>5 DEF StartSettings
    <2>4. TypeOK' /\ SourceInv' /\ EntriesInv' /\ TypesInv'
      BY <1>0, <2>1, <2>2, <2>3 DEF TypeOK, SourceInv, EntriesInv, TypesInv
    <2>5. OrderInv' /\ WokenInv'
      BY <1>0, <2>3 DEF OrderInv, WokenInv
    <2>6. QED
      BY <2>4, <2>5 DEF IInv
  <1>6. QED
    BY <1>1, <1>2, <1>3, <1>4, <1>5

LEMMA StartLoadKeeps ==
    ASSUME IInv, StartLoad
    PROVE  IInv'
  <1> USE DEF outside, loaded, caches, StartLoad
  <1>0. TypeOK /\ SourceInv /\ EntriesInv /\ OrderInv /\ WokenInv
    BY DEF IInv
  <1>1. types' \in [Profiles -> {"unregistered", "NONE", "TBC"}]
    BY ProfileTyped
  <1>2. TypeOK' /\ SourceInv' /\ EntriesInv'
    BY <1>0, <1>1 DEF TypeOK, SourceInv, EntriesInv
  <1>3. OrderInv' /\ WokenInv'
    BY <1>0 DEF OrderInv, WokenInv
  <1>4. TypesInv'
    BY DEF TypesInv
  <1>5. QED
    BY <1>2, <1>3, <1>4 DEF IInv

\* A HOLDOVER line that finds no options: only after a start without settings.
LEMMA EnsureKeeps ==
    ASSUME IInv, NEW c \in Profiles, Ensure(c)
    PROVE  IInv'
  <1> USE DEF outside, caches
  <1>0. TypeOK /\ SourceInv /\ EntriesInv /\ OrderInv /\ WokenInv /\ TypesInv
    BY DEF IInv
  <1>1. /\ phase = "running" /\ ensure = "idle" /\ opts.names = {}
        /\ ensure' = IF profiles.names # {} THEN "options" ELSE "storing"
        /\ UNCHANGED <<file, changes, followed, restart, moved, back>>
        /\ UNCHANGED <<opts, thresholds, settings, phase, watcher, types, late>>
    BY DEF Ensure
  <1>2. late
    BY <1>0, <1>1 DEF WokenInv
  <1>3. /\ \/ UNCHANGED <<applied, read>>
           \/ /\ applied' = file /\ read' = [read EXCEPT !["line"] = file]
              /\ file \in Versions
        /\ profiles' = profiles /\ updateCh' \in BOOLEAN
    <2>1. CASE profiles.names = {}
      BY <1>0, <2>1, UpdateEffects DEF Ensure
    <2>2. CASE profiles.names # {}
      BY <1>0, <2>2 DEF Ensure, loaded, TypeOK
    <2>3. QED
      BY <2>1, <2>2
  <1>4. /\ read' \in [{"watcher", "line"} -> Versions \cup {Unset}]
        /\ applied' \in Versions \cup {Empty}
        /\ read'["line"] \in {read["line"], file} /\ read'["watcher"] = read["watcher"]
    BY <1>0, <1>3, ReadTyped DEF TypeOK
  <1>5. TypeOK'
    BY <1>0, <1>1, <1>3, <1>4 DEF TypeOK
  <1>6. SourceInv' /\ EntriesInv'
    BY <1>0, <1>1, <1>3, <1>4 DEF SourceInv, EntriesInv
  <1>7. ensure' = "options" => profiles' # Unset
    BY <1>1, <1>3, OddHasNoProfiles
  <1>8. OrderInv'
    BY <1>0, <1>1, <1>3, <1>4, <1>7 DEF OrderInv
  <1>9. WokenInv' /\ TypesInv'
    BY <1>0, <1>1, <1>2 DEF WokenInv, TypesInv
  <1>10. QED
    BY <1>5, <1>6, <1>8, <1>9 DEF IInv

LEMMA EnsureStoresKeeps ==
    ASSUME IInv, EnsureStores
    PROVE  IInv'
  <1> USE DEF outside, caches
  <1>0. TypeOK /\ SourceInv /\ EntriesInv /\ OrderInv /\ WokenInv /\ TypesInv
    BY DEF IInv
  <1>1. /\ ensure = "storing"
        /\ ensure' = IF profiles'.names # {} THEN "options" ELSE "idle"
        /\ UNCHANGED <<file, changes, followed, restart, moved, back>>
        /\ UNCHANGED <<opts, thresholds, settings, phase, watcher, types, late>>
    BY DEF EnsureStores
  <1>2. phase = "running" /\ late
    BY <1>0, <1>1 DEF OrderInv, WokenInv
  <1>3. /\ read' \in [{"watcher", "line"} -> Versions \cup {Unset}]
        /\ read'["line"] \in {read["line"], Unset} /\ read'["watcher"] = read["watcher"]
        /\ profiles' \in {profiles, read["line"]} /\ (profiles # Unset => profiles' # Unset)
        /\ applied' = applied /\ updateCh' \in BOOLEAN
    <2>1. CASE read["line"] # Unset
      <3>1. /\ profiles' = read["line"] /\ read' = [read EXCEPT !["line"] = Unset]
            /\ applied' = applied /\ updateCh' = TRUE
        BY <2>1 DEF EnsureStores, StoreProfiles, NotifyUpdate
      <3>2. QED
        BY <1>0, <2>1, <3>1, ReadTyped
    <2>2. CASE read["line"] = Unset
      BY <1>0, <2>2 DEF EnsureStores, loaded, TypeOK
    <2>3. QED
      BY <2>1, <2>2
  <1>4. TypeOK'
    BY <1>0, <1>1, <1>3 DEF TypeOK
  <1>5. SourceInv' /\ EntriesInv'
    BY <1>0, <1>1, <1>3 DEF SourceInv, EntriesInv
  <1>6. ensure' = "options" => profiles' # Unset
    BY <1>1, OddHasNoProfiles
  <1>7. OrderInv'
    BY <1>0, <1>1, <1>2, <1>3, <1>6 DEF OrderInv
  <1>8. WokenInv' /\ TypesInv'
    BY <1>0, <1>1, <1>2 DEF WokenInv, TypesInv
  <1>9. QED
    BY <1>4, <1>5, <1>7, <1>8 DEF IInv

LEMMA EnsureStepsKeep ==
    ASSUME IInv, EnsureOptions \/ EnsureThresholds \/ EnsureSettings
    PROVE  IInv'
  <1> USE DEF outside, loaded, EnsureOptions, EnsureThresholds, EnsureSettings
  <1>0. TypeOK /\ SourceInv /\ EntriesInv /\ OrderInv /\ WokenInv /\ TypesInv
    BY DEF IInv
  <1>1. /\ phase = "running" /\ phase' = "running" /\ late /\ late' /\ profiles # Unset
        /\ UNCHANGED <<file, changes, followed, restart, moved, back, profiles, applied, read,
                       updateCh, watcher, types>>
    BY <1>0 DEF OrderInv, WokenInv
  <1>2. EnsureThresholds => /\ thresholds' \in [Profiles -> Versions \cup {Unset}]
                            /\ ~moved => thresholds' \in {Entries(Unset), Entries(file)}
                            /\ ~moved => thresholds' = Entries(profiles)
    BY <1>0, <1>1, ThresholdEffects
  <1>3. TypeOK' /\ SourceInv'
    <2>1. CASE EnsureOptions \/ EnsureSettings
      BY <1>0, <1>1, <2>1 DEF TypeOK, SourceInv
    <2>2. CASE EnsureThresholds
      BY <1>0, <1>1, <1>2, <2>2 DEF TypeOK, SourceInv
    <2>3. QED
      BY <2>1, <2>2
  <1>4. OrderInv'
    BY <1>0, <1>1 DEF OrderInv
  <1>5. EntriesInv'
    <2>1. CASE EnsureOptions \/ EnsureSettings
      BY <1>0, <1>1, <2>1 DEF EntriesInv
    <2>2. CASE EnsureThresholds
      BY <1>0, <1>1, <1>2, <2>2 DEF EntriesInv, OrderInv, SourceInv
    <2>3. QED
      BY <2>1, <2>2
  <1>6. WokenInv' /\ TypesInv'
    BY <1>0, <1>1 DEF WokenInv, TypesInv
  <1>7. QED
    BY <1>3, <1>4, <1>5, <1>6 DEF IInv

LEMMA NextIInv == IInv /\ [Next]_vars => IInv'
  <1> SUFFICES ASSUME IInv, [Next]_vars PROVE IInv'
    OBVIOUS
  <1>1. CASE UNCHANGED vars
    <2>1. UNCHANGED <<file, changes, followed, restart, moved, back, profiles, applied, read,
                      updateCh, opts, thresholds, settings, phase, watcher, ensure, types, late>>
      BY <1>1 DEF vars, outside, loaded, caches
    <2>2. TypeOK' /\ SourceInv' /\ EntriesInv' /\ TypesInv'
      BY <2>1 DEF IInv, TypeOK, SourceInv, EntriesInv, TypesInv
    <2>3. OrderInv' /\ WokenInv'
      BY <2>1 DEF IInv, OrderInv, WokenInv
    <2>4. QED
      BY <2>2, <2>3 DEF IInv
  <1>2. ASSUME NEW c \in Profiles, Ensure(c) PROVE IInv'
    BY <1>2, EnsureKeeps
  <1>3. QED
    BY <1>1, <1>2, OutsideKeeps, RestartKeeps, WatchKeeps, WatchStoresKeeps, StartKeeps,
       StartLoadKeeps, EnsureStoresKeeps, EnsureStepsKeep DEF Next

LEMMA SpecIInv == Spec => []IInv
  BY InitIInv, NextIInv, PTL DEF Spec

-----------------------------------------------------------------------------
\* The variables keep their types whatever the operator writes.
THEOREM TypeCorrect == Spec => []TypeOK
  <1>1. IInv => TypeOK
    BY DEF IInv
  <1>2. QED
    BY <1>1, SpecIInv, PTL

\* UpdatePTPProcessOptions, UpdatePTPThreshold and UpdatePTPSetting read
\* NodeProfiles one after the other, and agree unless the file changed.
THEOREM OneContentAlways == Spec => []OneContent
  <1>1. IInv => OneContent
    <2> SUFFICES ASSUME IInv PROVE OneContent
      OBVIOUS
    <2>1. phase \in {"load", "running"} /\ ensure = "idle" /\ opts # Unset => settings # Unset
      BY DEF IInv, OrderInv
    <2>2. QED
      BY <2>1 DEF IInv, SourceInv, EntriesInv, OneContent
  <1>2. QED
    BY <1>1, SpecIInv, PTL

\* RefreshProfileTypes and loadInitialPtp4lConfigs: the type in the registered
\* config and the one of GetProfileTypeByConfigName are the same.
THEOREM CachedTypeAlwaysResolved == Spec => []CachedTypeIsResolved
  <1>1. IInv => CachedTypeIsResolved
    BY DEF IInv, TypesInv, CachedTypeIsResolved, ResolvedType
  <1>2. QED
    BY <1>1, SpecIInv, PTL
=============================================================================
