--------------------------- MODULE StartupProofs ---------------------------
(***************************************************************************)
(* What /settings saved survives restarts, drivers are never run in part,  *)
(* and a managed chromedriver fits the browser: for any keys, files,       *)
(* environments, goroutines, directories and versions.                     *)
(***************************************************************************)
EXTENDS Startup, TLAPS

\* No user writes an init.yaml whose proxy line holds something else than a
\* mapping.  The run null_proxy shows that this assumption is needed.
CarefulUsers ==
  \A f \in HandWritten : f \in Files => f[ProxyKey] \in (Values[ProxyKey] \ {""}) \union {Absent}

ConfigInv == ConfigTypeOK /\ ProxyIsMapping /\ FileHoldsSaved /\ SavedSurvivesRestart

-----------------------------------------------------------------------------
(* The lines of the file.                                                  *)

LEMMA PreparedIsConfig == ASSUME NEW c \in Configs PROVE withDefaults(c) \in Configs
  BY KeysAssumption DEF withDefaults, Configs

\* A save leaves a file with lines a file can have.
LEMMA SaveIsFile ==
  ASSUME NEW f \in Files \union {Missing, Unparsable}, NEW c \in Configs
  PROVE  renderConfigYAML(f, c) \in Files
  <1> DEFINE h == IF f \in Files THEN f ELSE [k \in Keys |-> Absent]
  <1> DEFINE g == mergeMapping(h, c)
  <1>1. \A k \in Keys : c[k] \in Values[k]
    BY DEF Configs
  <1>2. \A k \in Keys : g[k] = c[k] \/ g[k] = Absent
    BY DEF mergeMapping
  <1>3. \A k \in Keys : g[k] \in Lines
    BY <1>1, <1>2 DEF Lines
  <1>4. g = [k \in Keys |-> g[k]]
    BY DEF mergeMapping
  <1> HIDE DEF g
  <1>5. g \in Files
    BY <1>3, <1>4 DEF Files
  <1> QED
    BY <1>5 DEF renderConfigYAML, g

\* It can be read, and says what was saved.
LEMMA SaveIsReadBack ==
  ASSUME NEW f \in Files \union {Missing, Unparsable}, NEW c \in Configs,
         f \in Files => f[ProxyKey] \in (Values[ProxyKey] \ {""}) \union {Absent}
  PROVE  LET g == renderConfigYAML(f, c) IN
         /\ g \in Files /\ Decodes(g)
         /\ g[ProxyKey] \in (Values[ProxyKey] \ {""}) \union {Absent}
         /\ applyConfigFile(g) = withDefaults(c)
  <1> DEFINE h == IF f \in Files THEN f ELSE [k \in Keys |-> Absent]
  <1> DEFINE g == mergeMapping(h, c)
  <1>0. renderConfigYAML(f, c) = g
    BY DEF renderConfigYAML
  <1>1. h \in Files /\ h[ProxyKey] \in (Values[ProxyKey] \ {""}) \union {Absent}
    BY KeysAssumption DEF Files, Lines
  <1> HIDE DEF h
  <1>2. \A k \in Keys : c[k] \in Values[k]
    BY DEF Configs
  <1>3. \A k \in Keys : g[k] = c[k] \/ (c[k] = "" /\ g[k] = Absent)
    BY DEF mergeMapping
  <1>4. g \in Files
    BY <1>0, SaveIsFile
  <1>5. g[ProxyKey] \in (Values[ProxyKey] \ {""}) \union {Absent}
    BY <1>1, <1>2, KeysAssumption DEF mergeMapping, Scalar, Absent, Null, Wrong
  <1>6. Decodes(g)
    BY <1>2, <1>3, <1>5, KeysAssumption DEF Decodes, Absent, Null
  <1>7. \A k \in Keys : c[k] \notin {Absent, Null}
    BY <1>2, KeysAssumption
  <1>8. applyConfigFile(g) = withDefaults(c)
    BY <1>3, <1>7 DEF applyConfigFile, withDefaults
  <1> QED
    BY <1>0, <1>4, <1>5, <1>6, <1>8

\* The process starts with what the file says, but for what is given outside.
LEMMA BootReadsFile ==
  ASSUME ConfigTypeOK, saved \in Configs, applyConfigFile(readConfigFile) = saved
  PROVE  \A k \in Keys : \/ withDefaults(loadConfig)[k] = saved[k]
                         \/ withDefaults(loadConfig)[k] \in {env[k], flags[k]} \ {""}
  <1> SUFFICES ASSUME NEW k \in Keys
               PROVE  \/ withDefaults(loadConfig)[k] = saved[k]
                      \/ withDefaults(loadConfig)[k] \in {env[k], flags[k]} \ {""}
    OBVIOUS
  <1>1. loadConfig[k] \in {flags[k], env[k]} \ {""} \/ loadConfig[k] = saved[k]
    BY DEF loadConfig, applyOutside
  <1>2. saved[k] = "" => Defaults[k] = ""
    BY DEF applyConfigFile
  <1> QED
    BY <1>1, <1>2 DEF withDefaults

LEMMA LoadedIsConfig == ASSUME ConfigTypeOK PROVE withDefaults(loadConfig) \in Configs
  <1>1. \A k \in Keys : applyConfigFile(readConfigFile)[k] \in Values[k]
    BY KeysAssumption DEF applyConfigFile, readConfigFile, Decodes
  <1>2. \A k \in Keys : env[k] \in Values[k] \union {""} /\ flags[k] \in Values[k] \union {""}
    BY KeysAssumption DEF ConfigTypeOK
  <1>3. \A k \in Keys : loadConfig[k] \in Values[k]
    BY <1>1, <1>2 DEF loadConfig, applyOutside
  <1>4. \A k \in Keys : withDefaults(loadConfig)[k] \in Values[k]
    BY <1>3, KeysAssumption DEF withDefaults
  <1> QED
    BY <1>4 DEF withDefaults, Configs

-----------------------------------------------------------------------------
(* The steps of the configuration.                                         *)

LEMMA ConfigStart == ASSUME CarefulUsers, ConfigInit PROVE ConfigInv
  BY KeysAssumption
  DEF CarefulUsers, ConfigInit, ConfigInv, ConfigTypeOK, ProxyIsMapping, FileHoldsSaved, SavedSurvivesRestart

LEMMA SaveKeeps == ASSUME ConfigInv, NEW c \in Configs, SaveConfig(c) PROVE ConfigInv'
  <1> DEFINE new == renderConfigYAML(InitYaml, c)
  <1>1. InitYaml \in Files \union {Missing, Unparsable}
        /\ (InitYaml \in Files => InitYaml[ProxyKey] \in (Values[ProxyKey] \ {""}) \union {Absent})
    BY DEF ConfigInv, ConfigTypeOK, ProxyIsMapping, InitYaml
  <1>2. /\ new \in Files /\ Decodes(new)
        /\ new[ProxyKey] \in (Values[ProxyKey] \ {""}) \union {Absent}
        /\ applyConfigFile(new) = withDefaults(c)
    BY <1>1, SaveIsReadBack
  <1>3. new # Missing /\ new # Unparsable /\ c # NotSet /\ withDefaults(c) # NotSet
        /\ withDefaults(c) \in Configs
    BY <1>2, KeysAssumption, PreparedIsConfig
  <1> HIDE DEF new
  <1>4. /\ cwdFile' \in {cwdFile, new} /\ exeFile' \in {exeFile, new}
        /\ (IF cwdFile' = Missing /\ exeFile' # Missing THEN exeFile' ELSE cwdFile') = new
    BY <1>3 DEF SaveConfig, ResolveConfigPath, InitYaml, new
  <1>5. InitYaml' = new
    BY <1>4 DEF InitYaml, ResolveConfigPath
  <1>6. ConfigTypeOK'
    BY <1>2, <1>3, <1>4 DEF ConfigInv, ConfigTypeOK, SaveConfig
  <1>7. ProxyIsMapping'
    BY <1>2, <1>4 DEF ConfigInv, ProxyIsMapping
  <1>8. FileHoldsSaved'
    <2>1. Decodes(InitYaml') /\ applyConfigFile(InitYaml') = saved'
      BY <1>2, <1>5 DEF SaveConfig
    <2> QED
      BY <2>1, <1>2, <1>5 DEF FileHoldsSaved, SaveConfig, Decodes, applyConfigFile, withDefaults
  <1>9. SavedSurvivesRestart'
    BY <1>3 DEF SaveConfig, SavedSurvivesRestart
  <1> QED
    BY <1>6, <1>7, <1>8, <1>9 DEF ConfigInv

LEMMA ApplyKeeps == ASSUME ConfigInv, ApplyConfig PROVE ConfigInv'
  <1>1. unapplied \in Configs
    BY DEF ConfigInv, ConfigTypeOK, ApplyConfig
  <1>2. withDefaults(unapplied) \in Configs
    BY <1>1, PreparedIsConfig
  <1>3. ConfigTypeOK'
    BY <1>2 DEF ConfigInv, ConfigTypeOK, ApplyConfig
  <1>4. ProxyIsMapping'
    BY DEF ConfigInv, ProxyIsMapping, ApplyConfig
  <1>5. FileHoldsSaved'
    BY DEF ConfigInv, FileHoldsSaved, ApplyConfig, InitYaml, ResolveConfigPath
  <1>6. SavedSurvivesRestart'
    BY DEF ConfigInv, FileHoldsSaved, SavedSurvivesRestart, ApplyConfig
  <1> QED
    BY <1>3, <1>4, <1>5, <1>6 DEF ConfigInv

LEMMA BootKeeps == ASSUME ConfigInv, Boot PROVE ConfigInv'
  <1>1. ConfigTypeOK'
    BY LoadedIsConfig DEF ConfigInv, ConfigTypeOK, Boot
  <1>2. ProxyIsMapping'
    BY DEF ConfigInv, ProxyIsMapping, Boot
  <1>3. FileHoldsSaved'
    BY DEF ConfigInv, FileHoldsSaved, Boot, InitYaml, ResolveConfigPath
  <1>4. SavedSurvivesRestart'
    <2> SUFFICES ASSUME saved # NotSet
                 PROVE  SavedSurvivesRestart'
      BY DEF Boot, SavedSurvivesRestart
    <2>1. saved \in Configs /\ applyConfigFile(readConfigFile) = saved
      BY DEF ConfigInv, ConfigTypeOK, FileHoldsSaved, readConfigFile
    <2>2. \A k \in Keys : \/ withDefaults(loadConfig)[k] = saved[k]
                          \/ withDefaults(loadConfig)[k] \in {env[k], flags[k]} \ {""}
      BY <2>1, BootReadsFile DEF ConfigInv
    <2> QED
      BY <2>2 DEF Boot, SavedSurvivesRestart
  <1> QED
    BY <1>1, <1>2, <1>3, <1>4 DEF ConfigInv

LEMMA UsersKeep ==
  ASSUME CarefulUsers, ConfigInv, Down \/ EditByHand \/ UNCHANGED configVars PROVE ConfigInv'
  <1>1. CASE Down
    BY <1>1 DEF Down, ConfigInv, ConfigTypeOK, ProxyIsMapping, FileHoldsSaved, SavedSurvivesRestart,
       InitYaml, ResolveConfigPath
  <1>2. CASE EditByHand
    <2>1. ConfigTypeOK'
      BY <1>2, KeysAssumption DEF EditByHand, ConfigInv, ConfigTypeOK
    <2>2. ProxyIsMapping'
      BY <1>2 DEF CarefulUsers, EditByHand, ConfigInv, ProxyIsMapping
    <2> QED
      BY <1>2, <2>1, <2>2 DEF EditByHand, ConfigInv, FileHoldsSaved, SavedSurvivesRestart
  <1>3. CASE UNCHANGED configVars
    BY <1>3 DEF configVars, ConfigInv, ConfigTypeOK, ProxyIsMapping, FileHoldsSaved, SavedSurvivesRestart,
       InitYaml, ResolveConfigPath
  <1> QED
    BY <1>1, <1>2, <1>3

LEMMA ConfigStep == ASSUME CarefulUsers, ConfigInv, [Next]_vars PROVE ConfigInv'
  <1>1. CASE Inside(Process)
    BY <1>1, BootKeeps, ApplyKeeps DEF Inside, Process
  <1>2. CASE \E c \in Callers : Inside(Construct(c))
    BY <1>2, UsersKeep DEF Inside, Construct
  <1>3. CASE Outward(World)
    <2>1. CASE Save
      BY <2>1, SaveKeeps, SavedAssumption DEF Save
    <2> QED
      BY <1>3, <2>1, UsersKeep DEF Outward, World, Edit, Crash
  <1>4. CASE UNCHANGED vars
    BY <1>4, UsersKeep DEF vars
  <1> QED
    BY <1>1, <1>2, <1>3, <1>4 DEF Next

\* What /settings saved survives restarts: init.yaml, as the save has edited it,
\* is read back as the configuration that was saved.
THEOREM SettingsSurviveRestarts == CarefulUsers /\ Spec => []SavedSurvivesRestart
  <1>1. CarefulUsers /\ Init => ConfigInv
    BY ConfigStart DEF Init
  <1>2. CarefulUsers /\ ConfigInv /\ [Next]_vars => ConfigInv'
    BY ConfigStep
  <1>3. ConfigInv => SavedSurvivesRestart
    BY DEF ConfigInv
  <1>4. CASE CarefulUsers
    <2>1. Spec => []ConfigInv
      BY <1>1, <1>2, <1>4, PTL DEF Spec
    <2> QED
      BY <2>1, <1>3, PTL
  <1> QED
    BY <1>4

-----------------------------------------------------------------------------
(* The drivers, whatever the users write into the files.                   *)

LEMMA ConfigTypeStep == ASSUME ConfigTypeOK, [Next]_vars PROVE ConfigTypeOK'
  <1> USE DEF ConfigTypeOK
  <1>1. ASSUME Boot PROVE ConfigTypeOK'
    BY <1>1, LoadedIsConfig DEF Boot
  <1>2. ASSUME ApplyConfig PROVE ConfigTypeOK'
    BY <1>2, PreparedIsConfig DEF ApplyConfig
  <1>3. ASSUME NEW c \in Configs, SaveConfig(c) PROVE ConfigTypeOK'
    <2>1. /\ renderConfigYAML(cwdFile, c) \in Files /\ renderConfigYAML(exeFile, c) \in Files
          /\ withDefaults(c) \in Configs
      BY SaveIsFile, PreparedIsConfig
    <2> QED
      BY <1>3, <2>1 DEF SaveConfig
  <1>4. ASSUME Down \/ EditByHand \/ UNCHANGED configVars PROVE ConfigTypeOK'
    BY <1>4, KeysAssumption DEF Down, EditByHand, configVars
  <1>5. CASE Inside(Process)
    BY <1>5, <1>1, <1>2 DEF Inside, Process
  <1>6. CASE \E c \in Callers : Inside(Construct(c))
    BY <1>6, <1>4 DEF Inside, Construct
  <1>7. CASE Outward(World)
    <2>1. CASE Save
      BY <2>1, <1>3, SavedAssumption DEF Save
    <2> QED
      BY <1>7, <2>1, <1>4 DEF Outward, World, Edit, Crash
  <1>8. CASE UNCHANGED vars
    BY <1>8, <1>4 DEF vars
  <1> QED
    BY <1>5, <1>6, <1>7, <1>8 DEF Next

\* What a step does to the drivers: everything else leaves them alone.
LEMMA DriverSteps ==
  ASSUME ConfigTypeOK, [Next]_vars
  PROVE  \/ \E c \in Callers, engine \in Engines, dir \in Dirs, auto \in BOOLEAN :
              Begin(c, engine, config["driver_path"], dir, auto)
         \/ \E c \in Callers : ResolveStep(c)
         \/ Forget \/ DriverWorld \/ UNCHANGED driverVars
  <1>1. CASE \E c \in Callers : Inside(Construct(c))
    <2>1. PICK c \in Callers : New(c) \/ ResolveStep(c)
      BY <1>1 DEF Inside, Construct
    <2>2. CASE New(c)
      <3> DEFINE dir == config["driver_cache_dir"]
      <3> DEFINE auto == /\ config["driver_auto_download"] = "true"
                         /\ resolveBrowserBackend = "chrome" /\ config["browser_path"] = "" => hasChrome
      <3>1. dir \in Dirs
        BY <2>2, CacheDirAssumption DEF New, ConfigTypeOK, Configs
      <3>2. resolveBrowserBackend \in Engines
        BY DEF resolveBrowserBackend, Engines
      <3>3. Begin(c, resolveBrowserBackend, config["driver_path"], dir, auto)
        BY <2>2 DEF New
      <3>4. Begin(c, resolveBrowserBackend, config["driver_path"], dir, auto)
            => \E b \in BOOLEAN : Begin(c, resolveBrowserBackend, config["driver_path"], dir, b)
        BY DEF Begin
      <3> QED
        BY <3>1, <3>2, <3>3, <3>4
    <2> QED
      BY <2>1, <2>2
  <1> QED
    BY <1>1 DEF Next, Inside, Outward, Process, World, Edit, Save, Crash, vars

DriverIInv == DriverInv /\ VersionsFit /\ DriverFitsBrowser

LEMMA Parts ==
  ASSUME DriverIInv
  PROVE  /\ DriverTypeOK /\ VersionKnown /\ DownloadsExclude /\ DriversAreWhole
         /\ RenamesAreWhole /\ NoNeedlessDownload /\ VersionsFit /\ DriverFitsBrowser
  BY DEF DriverIInv, DriverInv

LEMMA TargetIsPath ==
  ASSUME DriverTypeOK, NEW c \in Callers
  PROVE  /\ version[c] # 0 => Target(c) \in Path
         /\ <<call[c].dir, "gecko", current["gecko"]>> \in Path
         /\ Target(c)[1] = call[c].dir /\ Target(c)[2] = Engine(c) /\ Target(c)[3] = version[c]
         /\ Engine(c) \in Engines
  BY DEF DriverTypeOK, Target, Path, Engine, Engines, Versions

LEMMA DriverStart == ASSUME DriverInit PROVE DriverIInv
  <1>1. 1 \in Versions
    BY CallersAssumption DEF Versions
  <1>2. PICK dir \in Dirs : TRUE
    BY CacheDirAssumption, KeysAssumption
  <1>3. (CHOOSE d \in Dirs : TRUE) \in Dirs
    BY <1>2
  <1>4. DriverTypeOK
    BY <1>1, <1>3 DEF DriverInit, DriverTypeOK, Engines
  <1>5. DriverInv
    BY <1>4, CallersAssumption
    DEF DriverInit, DriverInv, VersionKnown, DownloadsExclude, DriversAreWhole, RenamesAreWhole,
        NoNeedlessDownload, Holding, Engines
  <1>6. VersionsFit
    BY <1>1 DEF DriverInit, VersionsFit, Holding, Versions, Engine, Engines
  <1>7. DriverFitsBrowser
    BY DEF DriverInit, DriverFitsBrowser
  <1> QED
    BY <1>5, <1>6, <1>7 DEF DriverIInv

\* A call that ends before anything is written leaves everything in order.
LEMMA ReturnKeeps ==
  ASSUME DriverIInv, NEW c \in Callers, NEW from, NEW found, Return(c, from, found), from # "none",
         Unlock(c) \/ (from \notin Holding /\ UNCHANGED mutex),
         found \in Path \union {Configured, OnPATH, NoPath},
         Engine(c) = "chrome" /\ found \notin {Configured, OnPATH, NoPath}
           => found = Target(c) /\ from \in {"recall", "release", "lock"},
         UNCHANGED <<disk, temp, current, detected>>,
         known' \subseteq Path, geckoPath' \in Path \union {NoPath}
  PROVE  DriverIInv'
  <1> USE Parts, CallersAssumption DEF Return, Unlock, request
  <1>1. DriverTypeOK'
    BY DEF DriverTypeOK, Engine
  <1>2. VersionKnown' /\ DriversAreWhole'
    BY DEF DriverTypeOK, VersionKnown, DriversAreWhole, Holding, Engine
  <1>3. DownloadsExclude'
    BY DEF DriverTypeOK, DownloadsExclude, Holding, Engine
  <1>4. RenamesAreWhole' /\ NoNeedlessDownload'
    BY DEF DriverTypeOK, RenamesAreWhole, NoNeedlessDownload, Holding, Engine, Target, Exists
  <1>5. VersionsFit'
    BY DEF DriverTypeOK, VersionsFit, Holding, Engine
  <1>6. DriverFitsBrowser'
    <2>1. ASSUME NEW d \in Callers, at'[d] = "none", Engine(d)' = "chrome",
                 result'[d] \notin {Configured, OnPATH, NoPath}
          PROVE  /\ result'[d][1] = call'[d].dir
                 /\ oldest'[d] <= result'[d][3] /\ result'[d][3] <= current'["chrome"]
      <3>1. CASE d = c
        <4>1. result'[d] = Target(c) /\ call' = call /\ from \in {"recall", "release", "lock"}
          BY <2>1, <3>1 DEF DriverTypeOK, Engine
        <4>2. oldest[c] <= version[c] /\ version[c] <= current["chrome"]
          BY <2>1, <3>1, <4>1 DEF VersionsFit, Engine
        <4> QED
          BY <3>1, <4>1, <4>2, TargetIsPath
      <3>2. CASE d # c
        BY <2>1, <3>2 DEF DriverTypeOK, DriverFitsBrowser, Engine
      <3> QED
        BY <3>1, <3>2
    <2> QED
      BY <2>1 DEF DriverFitsBrowser
  <1> QED
    BY <1>1, <1>2, <1>3, <1>4, <1>5, <1>6 DEF DriverIInv, DriverInv

LEMMA StatKeeps == ASSUME DriverIInv, NEW c \in Callers, Stat(c) PROVE DriverIInv'
  <1> USE Parts, CallersAssumption DEF memory
  <1>0. /\ at[c] = "stat" /\ at' = [at EXCEPT ![c] = IF detected[current["chrome"]] # 0 THEN "recall" ELSE "ask"]
        /\ executable' = [executable EXCEPT ![c] = current["chrome"]] /\ version' = [version EXCEPT ![c] = detected[current["chrome"]]]
        /\ UNCHANGED <<disk, temp, current, memory, call, oldest, result>>
    BY DEF Stat, Goto, Proceed, request, learned
  <1>1. DriverTypeOK'
    BY <1>0, TargetIsPath DEF DriverTypeOK, VersionKnown, Versions, Holding, Engine, Engines
  <1>2. VersionKnown'
    BY <1>0, TargetIsPath DEF DriverTypeOK, VersionKnown, VersionsFit, Versions, Holding, Engine, Engines
  <1>3. DownloadsExclude'
    BY <1>0, TargetIsPath DEF DriverTypeOK, DownloadsExclude, Holding, Engine
  <1>4. DriversAreWhole'
    BY <1>0, TargetIsPath DEF DriverTypeOK, DriversAreWhole, RenamesAreWhole
  <1>5. RenamesAreWhole'
    BY <1>0, TargetIsPath DEF DriverTypeOK, RenamesAreWhole, DownloadsExclude, Holding, Engine, Target
  <1>6. NoNeedlessDownload'
    BY <1>0, TargetIsPath DEF DriverTypeOK, NoNeedlessDownload, DownloadsExclude, Holding, Engine, Target, Exists
  <1>7. VersionsFit'
    BY <1>0, TargetIsPath DEF DriverTypeOK, VersionsFit, Holding, Engine, Versions, Engines
  <1>8. DriverFitsBrowser'
    BY <1>0, TargetIsPath DEF DriverTypeOK, VersionsFit, DriverFitsBrowser, Holding, Engine, Versions
  <1> QED
    BY <1>1, <1>2, <1>3, <1>4, <1>5, <1>6, <1>7, <1>8 DEF DriverIInv, DriverInv

LEMMA AskVersionKeeps == ASSUME DriverIInv, NEW c \in Callers, AskVersion(c) PROVE DriverIInv'
  <1> USE Parts, CallersAssumption DEF memory
  <1>0. /\ at[c] = "ask" /\ at' = [at EXCEPT ![c] = "recall"]
        /\ version' = [version EXCEPT ![c] = current["chrome"]] /\ detected' = [detected EXCEPT ![executable[c]] = current["chrome"]]
        /\ UNCHANGED <<disk, temp, current, mutex, known, geckoPath, executable, call, oldest, result>>
    BY DEF AskVersion, Goto, Proceed, request, learned
  <1>1. DriverTypeOK'
    BY <1>0, TargetIsPath DEF DriverTypeOK, VersionKnown, Versions, Holding, Engine, Engines
  <1>2. VersionKnown'
    BY <1>0, TargetIsPath DEF DriverTypeOK, VersionKnown, VersionsFit, Versions, Holding, Engine, Engines
  <1>3. DownloadsExclude'
    BY <1>0, TargetIsPath DEF DriverTypeOK, DownloadsExclude, Holding, Engine
  <1>4. DriversAreWhole'
    BY <1>0, TargetIsPath DEF DriverTypeOK, DriversAreWhole, RenamesAreWhole
  <1>5. RenamesAreWhole'
    BY <1>0, TargetIsPath DEF DriverTypeOK, RenamesAreWhole, DownloadsExclude, Holding, Engine, Target
  <1>6. NoNeedlessDownload'
    BY <1>0, TargetIsPath DEF DriverTypeOK, NoNeedlessDownload, DownloadsExclude, Holding, Engine, Target, Exists
  <1>7. VersionsFit'
    BY <1>0, TargetIsPath DEF DriverTypeOK, VersionsFit, Holding, Engine, Versions, Engines
  <1>8. DriverFitsBrowser'
    BY <1>0, TargetIsPath DEF DriverTypeOK, VersionsFit, DriverFitsBrowser, Holding, Engine, Versions
  <1> QED
    BY <1>1, <1>2, <1>3, <1>4, <1>5, <1>6, <1>7, <1>8 DEF DriverIInv, DriverInv

LEMMA DownloadKeeps == ASSUME DriverIInv, NEW c \in Callers, Download(c) PROVE DriverIInv'
  <1> USE Parts, CallersAssumption DEF memory
  <1>0. /\ at[c] = "download" /\ at' = [at EXCEPT ![c] = "write"]
        /\ temp' = [temp EXCEPT ![Target(c)] = "part"]
        /\ UNCHANGED <<disk, current, memory, call, oldest, result, executable, version>>
    BY DEF Download, Goto, Proceed, request, learned
  <1>1. DriverTypeOK'
    BY <1>0, TargetIsPath DEF DriverTypeOK, VersionKnown, Versions, Holding, Engine, Engines
  <1>2. VersionKnown'
    BY <1>0, TargetIsPath DEF DriverTypeOK, VersionKnown, VersionsFit, Versions, Holding, Engine, Engines
  <1>3. DownloadsExclude'
    BY <1>0, TargetIsPath DEF DriverTypeOK, DownloadsExclude, Holding, Engine
  <1>4. DriversAreWhole'
    BY <1>0, TargetIsPath DEF DriverTypeOK, DriversAreWhole, RenamesAreWhole
  <1>5. RenamesAreWhole'
    BY <1>0, TargetIsPath DEF DriverTypeOK, RenamesAreWhole, DownloadsExclude, Holding, Engine, Target
  <1>6. NoNeedlessDownload'
    BY <1>0, TargetIsPath DEF DriverTypeOK, NoNeedlessDownload, DownloadsExclude, Holding, Engine, Target, Exists
  <1>7. VersionsFit'
    BY <1>0, TargetIsPath DEF DriverTypeOK, VersionsFit, Holding, Engine, Versions, Engines
  <1>8. DriverFitsBrowser'
    BY <1>0, TargetIsPath DEF DriverTypeOK, VersionsFit, DriverFitsBrowser, Holding, Engine, Versions
  <1> QED
    BY <1>1, <1>2, <1>3, <1>4, <1>5, <1>6, <1>7, <1>8 DEF DriverIInv, DriverInv

LEMMA WrittenKeeps == ASSUME DriverIInv, NEW c \in Callers, Written(c) PROVE DriverIInv'
  <1> USE Parts, CallersAssumption DEF memory
  <1>0. /\ at[c] = "write" /\ at' = [at EXCEPT ![c] = "rename"]
        /\ temp' = [temp EXCEPT ![Target(c)] = IF @ = "absent" THEN @ ELSE "whole"]
        /\ UNCHANGED <<disk, current, memory, call, oldest, result, executable, version>>
    BY DEF Written, Goto, Proceed, request, learned
  <1>1. DriverTypeOK'
    BY <1>0, TargetIsPath DEF DriverTypeOK, VersionKnown, Versions, Holding, Engine, Engines
  <1>2. VersionKnown'
    BY <1>0, TargetIsPath DEF DriverTypeOK, VersionKnown, VersionsFit, Versions, Holding, Engine, Engines
  <1>3. DownloadsExclude'
    BY <1>0, TargetIsPath DEF DriverTypeOK, DownloadsExclude, Holding, Engine
  <1>4. DriversAreWhole'
    BY <1>0, TargetIsPath DEF DriverTypeOK, DriversAreWhole, RenamesAreWhole
  <1>5. RenamesAreWhole'
    <2>1. Target(c) \in Path
      BY <1>0, TargetIsPath DEF VersionKnown, Holding
    <2>2. temp'[Target(c)] # "part"
      BY <1>0, <2>1 DEF DriverTypeOK
    <2>3. \A d \in Callers : Target(d)' = Target(d)
      BY <1>0 DEF Target, Engine
    <2> QED
      BY <1>0, <2>2, <2>3 DEF DriverTypeOK, RenamesAreWhole
  <1>6. NoNeedlessDownload'
    BY <1>0, TargetIsPath DEF DriverTypeOK, NoNeedlessDownload, DownloadsExclude, Holding, Engine, Target, Exists
  <1>7. VersionsFit'
    BY <1>0, TargetIsPath DEF DriverTypeOK, VersionsFit, Holding, Engine, Versions, Engines
  <1>8. DriverFitsBrowser'
    BY <1>0, TargetIsPath DEF DriverTypeOK, VersionsFit, DriverFitsBrowser, Holding, Engine, Versions
  <1> QED
    BY <1>1, <1>2, <1>3, <1>4, <1>5, <1>6, <1>7, <1>8 DEF DriverIInv, DriverInv

LEMMA FailLateKeeps == ASSUME DriverIInv, NEW c \in Callers, FailLate(c) PROVE DriverIInv'
  <1> USE Parts, CallersAssumption
  <1>0. /\ at[c] = "rename" /\ at' = [at EXCEPT ![c] = "none"]
        /\ temp' = [temp EXCEPT ![Target(c)] = "absent"]
        /\ \E found \in {OnPATH, NoPath} : result' = [result EXCEPT ![c] = found]
        /\ version' = [version EXCEPT ![c] = 0] /\ executable' = [executable EXCEPT ![c] = 0]
        /\ mutex' = [mutex EXCEPT ![Engine(c)] = IF @ = c THEN Free ELSE @]
        /\ UNCHANGED <<disk, current, detected, known, geckoPath, call, oldest>>
    BY DEF FailLate, GiveUp, OnPATHOrNot, Return, Unlock, request
  <1>1. DriverTypeOK'
    <2>1. PICK found \in {OnPATH, NoPath} : result' = [result EXCEPT ![c] = found]
      BY <1>0
    <2>2. result' \in [Callers -> Path \union {Configured, OnPATH, NoPath}]
      BY <2>1 DEF DriverTypeOK
    <2>3. temp' \in [Path -> {"absent", "part", "whole"}]
      BY <1>0 DEF DriverTypeOK
    <2>4. mutex' \in [Engines -> Callers \union {Free}] /\ at' \in [Callers -> {"none", "stat", "ask", "recall", "release", "lock"} \union Holding]
      BY <1>0 DEF DriverTypeOK
    <2> QED
      BY <1>0, <2>2, <2>3, <2>4 DEF DriverTypeOK
  <1>2. VersionKnown'
    BY <1>0, TargetIsPath DEF DriverTypeOK, VersionKnown, VersionsFit, Versions, Holding, Engine, Engines
  <1>3. DownloadsExclude'
    BY <1>0, TargetIsPath DEF DriverTypeOK, DownloadsExclude, Holding, Engine
  <1>4. DriversAreWhole'
    BY <1>0, TargetIsPath DEF DriverTypeOK, DriversAreWhole, RenamesAreWhole
  <1>5. RenamesAreWhole'
    BY <1>0, TargetIsPath DEF DriverTypeOK, RenamesAreWhole, DownloadsExclude, Holding, Engine, Target
  <1>6. NoNeedlessDownload'
    BY <1>0, TargetIsPath DEF DriverTypeOK, NoNeedlessDownload, DownloadsExclude, Holding, Engine, Target, Exists
  <1>7. VersionsFit'
    BY <1>0, TargetIsPath DEF DriverTypeOK, VersionsFit, Holding, Engine, Versions, Engines
  <1>8. DriverFitsBrowser'
    BY <1>0, TargetIsPath DEF DriverTypeOK, VersionsFit, DriverFitsBrowser, Holding, Engine, Versions
  <1> QED
    BY <1>1, <1>2, <1>3, <1>4, <1>5, <1>6, <1>7, <1>8 DEF DriverIInv, DriverInv

LEMMA RenameKeeps == ASSUME DriverIInv, NEW c \in Callers, Rename(c) PROVE DriverIInv'
  <1> USE Parts, CallersAssumption
  <1>0. /\ at[c] = "rename" /\ at' = [at EXCEPT ![c] = "none"]
        /\ temp[Target(c)] # "absent" /\ temp' = [temp EXCEPT ![Target(c)] = "absent"]
        /\ disk' = [disk EXCEPT ![Target(c)] = temp[Target(c)]]
        /\ result' = [result EXCEPT ![c] = Target(c)] /\ version' = [version EXCEPT ![c] = 0]
        /\ executable' = [executable EXCEPT ![c] = 0]
        /\ mutex' = [mutex EXCEPT ![Engine(c)] = IF @ = c THEN Free ELSE @]
        /\ known' \in {known, known \union {Target(c)}} /\ geckoPath' \in {geckoPath, Target(c)}
        /\ UNCHANGED <<current, detected, call, oldest>>
    BY DEF Rename, Return, Unlock, request
  <1>1. DriverTypeOK'
    BY <1>0, TargetIsPath DEF DriverTypeOK, VersionKnown, Versions, Holding, Engine, Engines
  <1>2. VersionKnown'
    BY <1>0, TargetIsPath DEF DriverTypeOK, VersionKnown, VersionsFit, Versions, Holding, Engine, Engines
  <1>3. DownloadsExclude'
    BY <1>0, TargetIsPath DEF DriverTypeOK, DownloadsExclude, Holding, Engine
  <1>4. DriversAreWhole'
    BY <1>0, TargetIsPath DEF DriverTypeOK, DriversAreWhole, RenamesAreWhole
  <1>5. RenamesAreWhole'
    BY <1>0, TargetIsPath DEF DriverTypeOK, RenamesAreWhole, DownloadsExclude, Holding, Engine, Target
  <1>6. NoNeedlessDownload'
    BY <1>0, TargetIsPath DEF DriverTypeOK, NoNeedlessDownload, DownloadsExclude, Holding, Engine, Target, Exists
  <1>7. VersionsFit'
    BY <1>0, TargetIsPath DEF DriverTypeOK, VersionsFit, Holding, Engine, Versions, Engines
  <1>8. DriverFitsBrowser'
    <2>1. ASSUME NEW d \in Callers, at'[d] = "none", Engine(d)' = "chrome",
                 result'[d] \notin {Configured, OnPATH, NoPath}
          PROVE  /\ result'[d][1] = call'[d].dir
                 /\ oldest'[d] <= result'[d][3] /\ result'[d][3] <= current'["chrome"]
      <3>1. CASE d = c
        <4>1. result'[d] = Target(c) /\ Engine(c) = "chrome"
          BY <1>0, <2>1, <3>1 DEF DriverTypeOK, Engine
        <4>2. oldest[c] <= version[c] /\ version[c] <= current["chrome"]
          BY <1>0, <4>1 DEF VersionsFit, Engine, Holding
        <4> QED
          BY <1>0, <3>1, <4>1, <4>2, TargetIsPath
      <3>2. CASE d # c
        BY <1>0, <2>1, <3>2 DEF DriverTypeOK, DriverFitsBrowser, Engine
      <3> QED
        BY <3>1, <3>2
    <2> QED
      BY <2>1 DEF DriverFitsBrowser
  <1> QED
    BY <1>1, <1>2, <1>3, <1>4, <1>5, <1>6, <1>7, <1>8 DEF DriverIInv, DriverInv

LEMMA RecallChromeDriverKeeps == ASSUME DriverIInv, NEW c \in Callers, RecallChromeDriver(c) PROVE DriverIInv'
  <1>0. Engine(c) = "chrome" /\ at[c] = "recall"
    BY Parts DEF RecallChromeDriver, Return, Goto, Proceed, VersionsFit
  <1>1. CASE Target(c) \in known /\ Exists(Target(c))
    <2>1. Return(c, "recall", Target(c)) /\ UNCHANGED <<disk, temp, current, detected>>
      BY <1>1 DEF RecallChromeDriver
    <2>2. Unlock(c) \/ ("recall" \notin Holding /\ UNCHANGED mutex)
      BY <1>1 DEF RecallChromeDriver, Holding
    <2>3. Target(c) \in Path
      BY <1>0, <1>1, Parts, TargetIsPath DEF VersionKnown, Holding
    <2>4. known' \subseteq Path /\ geckoPath' \in Path \union {NoPath}
      BY <1>1, <2>3, Parts DEF RecallChromeDriver, DriverTypeOK
    <2> QED
      BY <1>0, <2>1, <2>2, <2>3, <2>4, ReturnKeeps
  <1>2. CASE ~(Target(c) \in known /\ Exists(Target(c)))
    <2> USE Parts, CallersAssumption
    <2>0. /\ at[c] = "recall" /\ Engine(c) = "chrome" /\ at' = [at EXCEPT ![c] = "release"]
          /\ known' = known \ {Target(c)}
          /\ UNCHANGED <<disk, temp, current, mutex, detected, geckoPath, call, oldest, result, executable, version>>
      BY <1>2 DEF RecallChromeDriver, Goto, Proceed, request, learned
    <2>1. DriverTypeOK'
      BY <1>0, <2>0, TargetIsPath DEF DriverTypeOK, VersionKnown, Versions, Holding, Engine, Engines
    <2>2. VersionKnown'
      BY <1>0, <2>0, TargetIsPath DEF DriverTypeOK, VersionKnown, VersionsFit, Versions, Holding, Engine, Engines
    <2>3. DownloadsExclude'
      BY <1>0, <2>0, TargetIsPath DEF DriverTypeOK, DownloadsExclude, Holding, Engine
    <2>4. DriversAreWhole'
      BY <1>0, <2>0, TargetIsPath DEF DriverTypeOK, DriversAreWhole, RenamesAreWhole
    <2>5. RenamesAreWhole'
      BY <1>0, <2>0, TargetIsPath DEF DriverTypeOK, RenamesAreWhole, DownloadsExclude, Holding, Engine, Target
    <2>6. NoNeedlessDownload'
      BY <1>0, <2>0, TargetIsPath DEF DriverTypeOK, NoNeedlessDownload, DownloadsExclude, Holding, Engine, Target, Exists
    <2>7. VersionsFit'
      BY <1>0, <2>0, TargetIsPath DEF DriverTypeOK, VersionsFit, Holding, Engine, Versions, Engines
    <2>8. DriverFitsBrowser'
      BY <1>0, <2>0 DEF DriverTypeOK, DriverFitsBrowser, Engine
    <2> QED
      BY <2>1, <2>2, <2>3, <2>4, <2>5, <2>6, <2>7, <2>8 DEF DriverIInv, DriverInv
  <1> QED
    BY <1>1, <1>2

LEMMA ChromeDriverReleasedKeeps == ASSUME DriverIInv, NEW c \in Callers, ChromeDriverReleased(c) PROVE DriverIInv'
  <1>0. Engine(c) = "chrome" /\ at[c] = "release"
    BY Parts DEF ChromeDriverReleased, Return, Goto, Proceed, VersionsFit
  <1>1. CASE Exists(Target(c))
    <2>1. Return(c, "release", Target(c)) /\ UNCHANGED <<disk, temp, current, detected>>
      BY <1>1 DEF ChromeDriverReleased
    <2>2. Unlock(c) \/ ("release" \notin Holding /\ UNCHANGED mutex)
      BY <1>1 DEF ChromeDriverReleased, Holding
    <2>3. Target(c) \in Path
      BY <1>0, <1>1, Parts, TargetIsPath DEF VersionKnown, Holding
    <2>4. known' \subseteq Path /\ geckoPath' \in Path \union {NoPath}
      BY <1>1, <2>3, Parts DEF ChromeDriverReleased, DriverTypeOK
    <2> QED
      BY <1>0, <2>1, <2>2, <2>3, <2>4, ReturnKeeps
  <1>2. CASE ~(Exists(Target(c)))
    <2> USE Parts, CallersAssumption
    <2>0. /\ at[c] = "release" /\ at' = [at EXCEPT ![c] = "lock"]
          /\ UNCHANGED <<disk, temp, current, mutex, detected, known, geckoPath, call, oldest, result, executable, version>>
      BY <1>2 DEF ChromeDriverReleased, Goto, Proceed, request, learned
    <2>1. DriverTypeOK'
      BY <1>0, <2>0, TargetIsPath DEF DriverTypeOK, VersionKnown, Versions, Holding, Engine, Engines
    <2>2. VersionKnown'
      BY <1>0, <2>0, TargetIsPath DEF DriverTypeOK, VersionKnown, VersionsFit, Versions, Holding, Engine, Engines
    <2>3. DownloadsExclude'
      BY <1>0, <2>0, TargetIsPath DEF DriverTypeOK, DownloadsExclude, Holding, Engine
    <2>4. DriversAreWhole'
      BY <1>0, <2>0, TargetIsPath DEF DriverTypeOK, DriversAreWhole, RenamesAreWhole
    <2>5. RenamesAreWhole'
      BY <1>0, <2>0, TargetIsPath DEF DriverTypeOK, RenamesAreWhole, DownloadsExclude, Holding, Engine, Target
    <2>6. NoNeedlessDownload'
      BY <1>0, <2>0, TargetIsPath DEF DriverTypeOK, NoNeedlessDownload, DownloadsExclude, Holding, Engine, Target, Exists
    <2>7. VersionsFit'
      BY <1>0, <2>0, TargetIsPath DEF DriverTypeOK, VersionsFit, Holding, Engine, Versions, Engines
    <2>8. DriverFitsBrowser'
      BY <1>0, <2>0 DEF DriverTypeOK, DriverFitsBrowser, Engine
    <2> QED
      BY <2>1, <2>2, <2>3, <2>4, <2>5, <2>6, <2>7, <2>8 DEF DriverIInv, DriverInv
  <1> QED
    BY <1>1, <1>2

LEMMA LockChromeDriverKeeps == ASSUME DriverIInv, NEW c \in Callers, LockChromeDriver(c) PROVE DriverIInv'
  <1>0. Engine(c) = "chrome" /\ at[c] = "lock"
    BY Parts DEF LockChromeDriver, Return, Goto, Proceed, VersionsFit
  <1>1. CASE Exists(Target(c))
    <2>1. Return(c, "lock", Target(c)) /\ UNCHANGED <<disk, temp, current, detected>>
      BY <1>1 DEF LockChromeDriver
    <2>2. Unlock(c) \/ ("lock" \notin Holding /\ UNCHANGED mutex)
      BY <1>1 DEF LockChromeDriver, Holding
    <2>3. Target(c) \in Path
      BY <1>0, <1>1, Parts, TargetIsPath DEF VersionKnown, Holding
    <2>4. known' \subseteq Path /\ geckoPath' \in Path \union {NoPath}
      BY <1>1, <2>3, Parts DEF LockChromeDriver, DriverTypeOK
    <2> QED
      BY <1>0, <2>1, <2>2, <2>3, <2>4, ReturnKeeps
  <1>2. CASE ~(Exists(Target(c)))
    <2> USE Parts, CallersAssumption
    <2>0. /\ at[c] = "lock" /\ Engine(c) = "chrome" /\ at' = [at EXCEPT ![c] = "download"]
          /\ ~Exists(Target(c)) /\ mutex["chrome"] = Free /\ mutex' = [mutex EXCEPT !["chrome"] = c]
          /\ UNCHANGED <<disk, temp, current, detected, known, geckoPath, call, oldest, result, executable, version>>
      BY <1>2 DEF LockChromeDriver, Goto, Proceed, request, learned
    <2>1. DriverTypeOK'
      BY <1>0, <2>0, TargetIsPath DEF DriverTypeOK, VersionKnown, Versions, Holding, Engine, Engines
    <2>2. VersionKnown'
      BY <1>0, <2>0, TargetIsPath DEF DriverTypeOK, VersionKnown, VersionsFit, Versions, Holding, Engine, Engines
    <2>3. DownloadsExclude'
      BY <1>0, <2>0, TargetIsPath DEF DriverTypeOK, DownloadsExclude, Holding, Engine
    <2>4. DriversAreWhole'
      BY <1>0, <2>0, TargetIsPath DEF DriverTypeOK, DriversAreWhole, RenamesAreWhole
    <2>5. RenamesAreWhole'
      BY <1>0, <2>0, TargetIsPath DEF DriverTypeOK, RenamesAreWhole, DownloadsExclude, Holding, Engine, Target
    <2>6. NoNeedlessDownload'
      <3> SUFFICES ASSUME NEW d \in Callers, at'[d] \in Holding \ {"fetch"}
                   PROVE  ~Exists(Target(d))'
        BY DEF NoNeedlessDownload, Holding
      <3>1. CASE d = c
        BY <1>0, <2>0, <3>1 DEF DriverTypeOK, Target, Engine, Exists
      <3>2. CASE d # c
        <4>1. Target(d)' = Target(d) /\ at'[d] = at[d]
          BY <1>0, <2>0, <3>2 DEF DriverTypeOK, Target, Engine
        <4> QED
          BY <2>0, <4>1 DEF NoNeedlessDownload, Exists
      <3> QED
        BY <3>1, <3>2
    <2>7. VersionsFit'
      BY <1>0, <2>0, TargetIsPath DEF DriverTypeOK, VersionsFit, Holding, Engine, Versions, Engines
    <2>8. DriverFitsBrowser'
      BY <1>0, <2>0 DEF DriverTypeOK, DriverFitsBrowser, Engine
    <2> QED
      BY <2>1, <2>2, <2>3, <2>4, <2>5, <2>6, <2>7, <2>8 DEF DriverIInv, DriverInv
  <1> QED
    BY <1>1, <1>2

LEMMA RecallGeckoDriverKeeps == ASSUME DriverIInv, NEW c \in Callers, RecallGeckoDriver(c) PROVE DriverIInv'
  <1>0. Engine(c) = "gecko" /\ at[c] = "recall"
    BY Parts DEF RecallGeckoDriver, Return, Goto, Proceed, VersionsFit
  <1>1. CASE Recalled
    <2>1. Return(c, "recall", geckoPath) /\ UNCHANGED <<disk, temp, current, detected>>
      BY <1>1 DEF RecallGeckoDriver
    <2>2. Unlock(c) \/ ("recall" \notin Holding /\ UNCHANGED mutex)
      BY <1>1 DEF RecallGeckoDriver, Holding
    <2>3. geckoPath \in Path
      BY <1>0, <1>1, Parts, TargetIsPath DEF DriverTypeOK, Recalled
    <2>4. known' \subseteq Path /\ geckoPath' \in Path \union {NoPath}
      BY <1>1, <2>3, Parts DEF RecallGeckoDriver, DriverTypeOK
    <2> QED
      BY <1>0, <2>1, <2>2, <2>3, <2>4, ReturnKeeps
  <1>2. CASE ~(Recalled)
    <2> USE Parts, CallersAssumption
    <2>0. /\ at[c] = "recall" /\ Engine(c) = "gecko" /\ at' = [at EXCEPT ![c] = "lock"]
          /\ geckoPath' = NoPath
          /\ UNCHANGED <<disk, temp, current, mutex, detected, known, call, oldest, result, executable, version>>
      BY <1>2 DEF RecallGeckoDriver, Goto, Proceed, request, learned
    <2>1. DriverTypeOK'
      BY <1>0, <2>0, TargetIsPath DEF DriverTypeOK, VersionKnown, Versions, Holding, Engine, Engines
    <2>2. VersionKnown'
      BY <1>0, <2>0, TargetIsPath DEF DriverTypeOK, VersionKnown, VersionsFit, Versions, Holding, Engine, Engines
    <2>3. DownloadsExclude'
      BY <1>0, <2>0, TargetIsPath DEF DriverTypeOK, DownloadsExclude, Holding, Engine
    <2>4. DriversAreWhole'
      BY <1>0, <2>0, TargetIsPath DEF DriverTypeOK, DriversAreWhole, RenamesAreWhole
    <2>5. RenamesAreWhole'
      BY <1>0, <2>0, TargetIsPath DEF DriverTypeOK, RenamesAreWhole, DownloadsExclude, Holding, Engine, Target
    <2>6. NoNeedlessDownload'
      BY <1>0, <2>0, TargetIsPath DEF DriverTypeOK, NoNeedlessDownload, DownloadsExclude, Holding, Engine, Target, Exists
    <2>7. VersionsFit'
      BY <1>0, <2>0, TargetIsPath DEF DriverTypeOK, VersionsFit, Holding, Engine, Versions, Engines
    <2>8. DriverFitsBrowser'
      BY <1>0, <2>0 DEF DriverTypeOK, DriverFitsBrowser, Engine
    <2> QED
      BY <2>1, <2>2, <2>3, <2>4, <2>5, <2>6, <2>7, <2>8 DEF DriverIInv, DriverInv
  <1> QED
    BY <1>1, <1>2

LEMMA LockGeckoDriverKeeps == ASSUME DriverIInv, NEW c \in Callers, LockGeckoDriver(c) PROVE DriverIInv'
  <1>0. Engine(c) = "gecko" /\ at[c] = "lock"
    BY Parts DEF LockGeckoDriver, Return, Goto, Proceed, VersionsFit
  <1>1. CASE Recalled
    <2>1. Return(c, "lock", geckoPath) /\ UNCHANGED <<disk, temp, current, detected>>
      BY <1>1 DEF LockGeckoDriver
    <2>2. Unlock(c) \/ ("lock" \notin Holding /\ UNCHANGED mutex)
      BY <1>1 DEF LockGeckoDriver, Holding
    <2>3. geckoPath \in Path
      BY <1>0, <1>1, Parts, TargetIsPath DEF DriverTypeOK, Recalled
    <2>4. known' \subseteq Path /\ geckoPath' \in Path \union {NoPath}
      BY <1>1, <2>3, Parts DEF LockGeckoDriver, DriverTypeOK
    <2> QED
      BY <1>0, <2>1, <2>2, <2>3, <2>4, ReturnKeeps
  <1>2. CASE ~(Recalled)
    <2> USE Parts, CallersAssumption
    <2>0. /\ at[c] = "lock" /\ Engine(c) = "gecko" /\ at' = [at EXCEPT ![c] = "fetch"]
          /\ geckoPath' = NoPath /\ mutex["gecko"] = Free /\ mutex' = [mutex EXCEPT !["gecko"] = c]
          /\ UNCHANGED <<disk, temp, current, detected, known, call, oldest, result, executable, version>>
      BY <1>2 DEF LockGeckoDriver, Goto, Proceed, request, learned
    <2>1. DriverTypeOK'
      BY <1>0, <2>0, TargetIsPath DEF DriverTypeOK, VersionKnown, Versions, Holding, Engine, Engines
    <2>2. VersionKnown'
      BY <1>0, <2>0, TargetIsPath DEF DriverTypeOK, VersionKnown, VersionsFit, Versions, Holding, Engine, Engines
    <2>3. DownloadsExclude'
      BY <1>0, <2>0, TargetIsPath DEF DriverTypeOK, DownloadsExclude, Holding, Engine
    <2>4. DriversAreWhole'
      BY <1>0, <2>0, TargetIsPath DEF DriverTypeOK, DriversAreWhole, RenamesAreWhole
    <2>5. RenamesAreWhole'
      BY <1>0, <2>0, TargetIsPath DEF DriverTypeOK, RenamesAreWhole, DownloadsExclude, Holding, Engine, Target
    <2>6. NoNeedlessDownload'
      BY <1>0, <2>0, TargetIsPath DEF DriverTypeOK, NoNeedlessDownload, DownloadsExclude, Holding, Engine, Target, Exists
    <2>7. VersionsFit'
      BY <1>0, <2>0, TargetIsPath DEF DriverTypeOK, VersionsFit, Holding, Engine, Versions, Engines
    <2>8. DriverFitsBrowser'
      BY <1>0, <2>0 DEF DriverTypeOK, DriverFitsBrowser, Engine
    <2> QED
      BY <2>1, <2>2, <2>3, <2>4, <2>5, <2>6, <2>7, <2>8 DEF DriverIInv, DriverInv
  <1> QED
    BY <1>1, <1>2

LEMMA FetchReleaseKeeps == ASSUME DriverIInv, NEW c \in Callers, FetchRelease(c) PROVE DriverIInv'
  <1>0. Engine(c) = "gecko" /\ at[c] = "fetch"
    BY Parts DEF FetchRelease, Return, Goto, Proceed, VersionsFit
  <1>1. CASE Exists(<<call[c].dir, "gecko", current["gecko"]>>)
    <2>1. Return(c, "fetch", <<call[c].dir, "gecko", current["gecko"]>>) /\ UNCHANGED <<disk, temp, current, detected>>
      BY <1>1 DEF FetchRelease
    <2>2. Unlock(c) \/ ("fetch" \notin Holding /\ UNCHANGED mutex)
      BY <1>1 DEF FetchRelease, Holding
    <2>3. <<call[c].dir, "gecko", current["gecko"]>> \in Path
      BY <1>0, <1>1, Parts, TargetIsPath DEF DriverTypeOK, Recalled
    <2>4. known' \subseteq Path /\ geckoPath' \in Path \union {NoPath}
      BY <1>1, <2>3, Parts DEF FetchRelease, DriverTypeOK
    <2> QED
      BY <1>0, <2>1, <2>2, <2>3, <2>4, ReturnKeeps
  <1>2. CASE ~(Exists(<<call[c].dir, "gecko", current["gecko"]>>))
    <2> USE Parts, CallersAssumption
    <2>0. /\ at[c] = "fetch" /\ at' = [at EXCEPT ![c] = "download"]
          /\ ~Exists(<<call[c].dir, "gecko", current["gecko"]>>) /\ version' = [version EXCEPT ![c] = current["gecko"]]
          /\ UNCHANGED <<disk, temp, current, mutex, detected, known, geckoPath, call, oldest, result, executable>>
      BY <1>2 DEF FetchRelease, Goto, Proceed, request, learned
    <2>1. DriverTypeOK'
      BY <1>0, <2>0, TargetIsPath DEF DriverTypeOK, VersionKnown, Versions, Holding, Engine, Engines
    <2>2. VersionKnown'
      BY <1>0, <2>0, TargetIsPath DEF DriverTypeOK, VersionKnown, VersionsFit, Versions, Holding, Engine, Engines
    <2>3. DownloadsExclude'
      BY <1>0, <2>0, TargetIsPath DEF DriverTypeOK, DownloadsExclude, Holding, Engine
    <2>4. DriversAreWhole'
      BY <1>0, <2>0, TargetIsPath DEF DriverTypeOK, DriversAreWhole, RenamesAreWhole
    <2>5. RenamesAreWhole'
      BY <1>0, <2>0, TargetIsPath DEF DriverTypeOK, RenamesAreWhole, DownloadsExclude, Holding, Engine, Target
    <2>6. NoNeedlessDownload'
      <3> SUFFICES ASSUME NEW d \in Callers, at'[d] \in Holding \ {"fetch"}
                   PROVE  ~Exists(Target(d))'
        BY DEF NoNeedlessDownload, Holding
      <3>1. CASE d = c
        BY <1>0, <2>0, <3>1 DEF DriverTypeOK, Target, Engine, Exists
      <3>2. CASE d # c
        <4>1. Target(d)' = Target(d) /\ at'[d] = at[d]
          BY <1>0, <2>0, <3>2 DEF DriverTypeOK, Target, Engine
        <4> QED
          BY <2>0, <4>1 DEF NoNeedlessDownload, Exists
      <3> QED
        BY <3>1, <3>2
    <2>7. VersionsFit'
      BY <1>0, <2>0, TargetIsPath DEF DriverTypeOK, VersionsFit, Holding, Engine, Versions, Engines
    <2>8. DriverFitsBrowser'
      BY <1>0, <2>0 DEF DriverTypeOK, DriverFitsBrowser, Engine
    <2> QED
      BY <2>1, <2>2, <2>3, <2>4, <2>5, <2>6, <2>7, <2>8 DEF DriverIInv, DriverInv
  <1> QED
    BY <1>1, <1>2

LEMMA FailEarlyKeeps == ASSUME DriverIInv, NEW c \in Callers, FailEarly(c) PROVE DriverIInv'
  <1>1. PICK found \in {OnPATH, NoPath} : Return(c, at[c], found)
    BY DEF FailEarly, GiveUp, OnPATHOrNot
  <1>2. /\ Unlock(c) /\ at[c] # "none" /\ UNCHANGED <<disk, temp, current, detected>>
        /\ known' \subseteq Path /\ geckoPath' \in Path \union {NoPath}
    BY Parts DEF FailEarly, GiveUp, DriverTypeOK
  <1> QED
    BY <1>1, <1>2, ReturnKeeps

LEMMA BeginKeeps ==
  ASSUME DriverIInv, NEW c \in Callers, NEW engine \in Engines, NEW dir \in Dirs, NEW auto \in BOOLEAN,
         NEW path, Begin(c, engine, path, dir, auto)
  PROVE  DriverIInv'
  <1> USE Parts, CallersAssumption
  <1>1. /\ at[c] = "none" /\ call' = [call EXCEPT ![c] = [engine |-> engine, dir |-> dir]]
        /\ oldest' = [oldest EXCEPT ![c] = current["chrome"]]
        /\ at' \in {at, [at EXCEPT ![c] = IF engine = "chrome" THEN "stat" ELSE "recall"]}
        /\ \E found \in {Configured, OnPATH, NoPath} : result' = [result EXCEPT ![c] = found]
        /\ UNCHANGED <<disk, temp, current, mutex, detected, known, geckoPath, executable, version>>
    BY DEF Begin, memory, learned
  <1>2. \A d \in Callers : at'[d] \in Holding => Target(d)' = Target(d) /\ at'[d] = at[d] /\ Engine(d)' = Engine(d)
    BY <1>1 DEF DriverTypeOK, Holding, Target, Engine
  <1>3. DriverTypeOK'
    BY <1>1 DEF DriverTypeOK, Engines
  <1>4. VersionKnown'
    BY <1>1, <1>2 DEF DriverTypeOK, VersionKnown, Engine
  <1>5. DownloadsExclude'
    BY <1>1, <1>2 DEF DriverTypeOK, DownloadsExclude, Holding, Engine
  <1>6. DriversAreWhole' /\ RenamesAreWhole'
    BY <1>1, <1>2 DEF DriversAreWhole, RenamesAreWhole, Holding
  <1>7. NoNeedlessDownload'
    BY <1>1, <1>2 DEF NoNeedlessDownload, Exists
  <1>8. VersionsFit'
    BY <1>1 DEF DriverTypeOK, VersionsFit, Holding, Engine, Engines, Versions
  <1>9. DriverFitsBrowser'
    BY <1>1 DEF DriverTypeOK, DriverFitsBrowser, Engine
  <1> QED
    BY <1>3, <1>4, <1>5, <1>6, <1>7, <1>8, <1>9 DEF DriverIInv, DriverInv

LEMMA ForgetKeeps == ASSUME DriverIInv, Forget PROVE DriverIInv'
  <1> USE Parts, CallersAssumption DEF Forget, request
  <1>1. DriverTypeOK'
    BY DEF DriverTypeOK
  <1>2. VersionKnown' /\ DownloadsExclude' /\ DriversAreWhole' /\ RenamesAreWhole' /\ NoNeedlessDownload'
    BY DEF VersionKnown, DownloadsExclude, DriversAreWhole, RenamesAreWhole, NoNeedlessDownload, Holding
  <1>3. VersionsFit' /\ DriverFitsBrowser'
    BY DEF VersionsFit, DriverFitsBrowser, Holding
  <1> QED
    BY <1>1, <1>2, <1>3 DEF DriverIInv, DriverInv

LEMMA WorldKeeps == ASSUME DriverIInv, DriverWorld \/ UNCHANGED driverVars PROVE DriverIInv'
  <1> USE Parts, CallersAssumption DEF memory, request, learned
  <1>1. ASSUME NEW e \in Engines, Upgrade(e) PROVE DriverIInv'
    <2>0. /\ current[e] < MaxVersion /\ current' = [current EXCEPT ![e] = @ + 1]
          /\ UNCHANGED <<disk, temp, mutex, detected, known, geckoPath, at, call, oldest, result, executable, version>>
      BY <1>1 DEF Upgrade
    <2>1. \A f \in Engines : current[f] <= current'[f] /\ current'[f] \in Versions
      BY <2>0 DEF DriverTypeOK, Versions
    <2>2. DriverTypeOK'
      BY <2>0, <2>1 DEF DriverTypeOK
    <2>3. VersionKnown' /\ DownloadsExclude' /\ DriversAreWhole' /\ RenamesAreWhole' /\ NoNeedlessDownload'
      BY <2>0 DEF VersionKnown, DownloadsExclude, DriversAreWhole, RenamesAreWhole, NoNeedlessDownload,
         Engine, Target, Exists
    <2>4. VersionsFit'
      <3> DEFINE now == current["chrome"]
      <3>1. now \in Nat /\ now' \in Nat /\ now <= now'
        BY <2>1 DEF DriverTypeOK, Versions, Engines
      <3>2. \A v \in Versions : detected[v] # 0 => v <= detected[v] /\ detected[v] <= now /\ detected[v] \in Nat
        BY DEF DriverTypeOK, VersionsFit, Versions
      <3>3. \A c \in Callers : oldest[c] \in Nat /\ executable[c] \in Nat /\ version[c] \in Nat
        BY DEF DriverTypeOK, Versions
      <3>4. (\A v \in Versions : detected[v] # 0 => v <= detected[v] /\ detected[v] <= current["chrome"])'
        BY <2>0, <3>1, <3>2
      <3>5. ASSUME NEW c \in Callers
            PROVE  /\ oldest[c] <= now'
                   /\ at[c] = "ask" => oldest[c] <= executable[c] /\ executable[c] <= now'
                   /\ Engine(c) = "chrome" /\ at[c] \in {"recall", "release", "lock"} \union Holding
                      => oldest[c] <= version[c] /\ version[c] <= now'
                   /\ at[c] \in {"stat", "ask", "release"} => Engine(c) = "chrome"
                   /\ at[c] = "fetch" => Engine(c) = "gecko"
        BY <3>1, <3>3 DEF VersionsFit
      <3> HIDE DEF now
      <3> QED
        BY <2>0, <3>4, <3>5 DEF VersionsFit, Engine, now
    <2>5. DriverFitsBrowser'
      <3>1. \A c \in Callers : result[c] \notin {Configured, OnPATH, NoPath} => result[c][3] \in Versions
        BY DEF DriverTypeOK, Path
      <3> QED
        BY <2>0, <2>1, <3>1 DEF DriverTypeOK, DriverFitsBrowser, Versions, Engines, Engine
    <2> QED
      BY <2>2, <2>3, <2>4, <2>5 DEF DriverIInv, DriverInv
  <1>2. ASSUME NEW p \in Path, Clear(p) PROVE DriverIInv'
    <2>0. /\ disk' \in {disk, [disk EXCEPT ![p] = "absent"]} /\ temp' \in {temp, [temp EXCEPT ![p] = "absent"]}
          /\ UNCHANGED <<current, mutex, detected, known, geckoPath, at, call, oldest, result, executable, version>>
      BY <1>2 DEF Clear
    <2>1. \A q \in Path : disk'[q] \in {disk[q], "absent"} /\ temp'[q] \in {temp[q], "absent"}
      BY <2>0 DEF DriverTypeOK
    <2>2. DriverTypeOK'
      BY <2>0, <2>1 DEF DriverTypeOK
    <2>3. VersionKnown' /\ DownloadsExclude' /\ DriversAreWhole'
      BY <2>0, <2>1 DEF VersionKnown, DownloadsExclude, DriversAreWhole, Engine
    <2>4. \A c \in Callers : at[c] \in Holding \ {"fetch"} => Target(c) \in Path /\ Target(c)' = Target(c)
      BY <2>0, TargetIsPath DEF VersionKnown, Target, Engine
    <2>5. RenamesAreWhole' /\ NoNeedlessDownload'
      BY <2>0, <2>1, <2>4 DEF RenamesAreWhole, NoNeedlessDownload, Exists, Holding
    <2>6. VersionsFit' /\ DriverFitsBrowser'
      BY <2>0 DEF VersionsFit, DriverFitsBrowser, Engine
    <2> QED
      BY <2>2, <2>3, <2>5, <2>6 DEF DriverIInv, DriverInv
  <1>3. CASE UNCHANGED driverVars
    BY <1>3 DEF driverVars, DriverIInv, DriverInv, DriverTypeOK, VersionKnown, DownloadsExclude, DriversAreWhole,
       RenamesAreWhole, NoNeedlessDownload, VersionsFit, DriverFitsBrowser, Engine, Target, Exists
  <1> QED
    BY <1>1, <1>2, <1>3 DEF DriverWorld

LEMMA DriverStep == ASSUME ConfigTypeOK, DriverIInv, [Next]_vars PROVE DriverIInv'
  <1>1. ASSUME NEW c \in Callers, ResolveStep(c) PROVE DriverIInv'
    BY <1>1, StatKeeps, AskVersionKeeps, RecallChromeDriverKeeps, ChromeDriverReleasedKeeps,
       LockChromeDriverKeeps, RecallGeckoDriverKeeps, LockGeckoDriverKeeps, FetchReleaseKeeps,
       DownloadKeeps, WrittenKeeps, RenameKeeps, FailEarlyKeeps, FailLateKeeps
    DEF ResolveStep, Lock
  <1> QED
    BY <1>1, DriverSteps, BeginKeeps, ForgetKeeps, WorldKeeps

\* The invariant of the driver cache: whatever goroutines, crashes, upgrades and
\* cleaned caches do, no file under a name that is looked for holds a part of a
\* driver, downloads of a driver exclude each other and none is made in vain.
THEOREM DriversAreSafe == Spec => [](ConfigTypeOK /\ DriverIInv)
  <1>1. Init => ConfigTypeOK /\ DriverIInv
    <2>1. ConfigInit => ConfigTypeOK
      BY KeysAssumption DEF ConfigInit, ConfigTypeOK
    <2> QED
      BY <2>1, DriverStart DEF Init
  <1>2. (ConfigTypeOK /\ DriverIInv) /\ [Next]_vars => (ConfigTypeOK /\ DriverIInv)'
    BY ConfigTypeStep, DriverStep
  <1> QED
    BY <1>1, <1>2, PTL DEF Spec

\* It holds for every number of goroutines, directories and versions.
THEOREM DriverInvAlways == Spec => []DriverInv
  <1>1. ConfigTypeOK /\ DriverIInv => DriverInv
    BY DEF DriverIInv
  <1> QED
    BY <1>1, DriversAreSafe, PTL

\* A managed chromedriver fits a Chrome that was installed while it was resolved,
\* and comes from the directory that was configured at that moment.
THEOREM DriverFitsAlways == Spec => []DriverFitsBrowser
  <1>1. ConfigTypeOK /\ DriverIInv => DriverFitsBrowser
    BY DEF DriverIInv
  <1> QED
    BY <1>1, DriversAreSafe, PTL
=============================================================================
