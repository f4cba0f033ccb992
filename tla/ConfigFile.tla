----------------------------- MODULE ConfigFile -----------------------------
(***************************************************************************)
(* Where the configuration comes from and where it is kept: defaults, the  *)
(* first init.yaml found, the environment and the command line make it at  *)
(* the start of the process, and a save from /settings writes it back into *)
(* the lines of the file.  Every value is written as the text of its line; *)
(* the empty text is the value of a string, or a proxy, that is not set.   *)
(***************************************************************************)
CONSTANTS
  Keys,         \* the lines of init.yaml that configFile owns
  ProxyKey,     \* the one line that holds a mapping
  Values,       \* the values a key can have, "" where omitempty may drop it
  Defaults,     \* defaultConfigValues
  HandWritten,  \* the contents of init.yaml that users write
  Outside,      \* the values that environments and command lines give to keys
  NotSet,
  Missing,      \* no such file
  Unparsable    \* not YAML, or not a mapping

\* What a line can be besides a value: not there, there without a value, or
\* there with something of the wrong kind.
Absent == "(absent)"
Null   == "(null)"
Wrong  == "(wrong)"

Configs == {c \in [Keys -> UNION {Values[k] : k \in Keys}] :
              \A k \in Keys : c[k] \in Values[k]}
Lines == {Absent, Null, Wrong} \union UNION {Values[k] : k \in Keys}
Files == [Keys -> Lines]

ASSUME KeysAssumption ==
  /\ ProxyKey \in Keys
  /\ \A k \in Keys : /\ Defaults[k] \in Values[k]
                     /\ Values[k] \intersect {Absent, Null, Wrong} = {}
  /\ HandWritten \subseteq Files \union {Missing, Unparsable}
  /\ {Missing, Unparsable} \intersect Files = {}
  /\ \A o \in Outside : \A k \in Keys : o[k] \in Values[k] \union {""}
  /\ NotSet \notin Configs

VARIABLES
  cwdFile, exeFile,  \* init.yaml in the working directory and beside the binary
  env, flags,        \* the environment and the command line: "" gives nothing
  config,            \* the configuration of the process, NotSet while it is down
  unapplied,         \* saved to the file, not yet applied by the process
  saved              \* ghost: the last save no user has edited over

configVars == <<cwdFile, exeFile, env, flags, config, unapplied, saved>>

-----------------------------------------------------------------------------
(* Reading.                                                                *)

\* Decoding into configFile fails as a whole on a line of the wrong kind; the
\* proxy is a mapping, so that a scalar, the empty one included, is wrong there.
Decodes(f) ==
  /\ \A k \in Keys : f[k] \in Values[k] \union {Absent, Null}
  /\ f[ProxyKey] # ""

\* The first file that exists decides, also when it is of no use.
ResolveConfigPath == IF cwdFile = Missing /\ exeFile # Missing THEN "exe" ELSE "cwd"
InitYaml == IF ResolveConfigPath = "exe" THEN exeFile ELSE cwdFile

readConfigFile ==
  IF InitYaml \in Files /\ Decodes(InitYaml) THEN InitYaml ELSE [k \in Keys |-> Absent]

\* A line without a value leaves the default in place.
applyConfigFile(f) ==
  [k \in Keys |-> IF f[k] \in {Absent, Null, ""} THEN Defaults[k] ELSE f[k]]

\* Variables and flags that are given win over the file.
applyOutside(c) ==
  [k \in Keys |-> IF flags[k] # "" THEN flags[k] ELSE IF env[k] # "" THEN env[k] ELSE c[k]]

loadConfig == applyOutside(applyConfigFile(readConfigFile))

withDefaults(c) == [k \in Keys |-> IF c[k] = "" THEN Defaults[k] ELSE c[k]]

-----------------------------------------------------------------------------
(* Writing.                                                                *)

\* A save edits the lines of the file.  The marshalled struct has no line for
\* what is empty: a scalar in the file is then emptied, to keep its comments,
\* and a mapping or a list removed.
Scalar(k, line) == IF k = ProxyKey THEN line \in {Null, Wrong, ""} ELSE line # Wrong

\* Mutant: the lines the struct dropped are left as they were.
MergeSetOnly(f, c) == [k \in Keys |-> IF c[k] # "" THEN c[k] ELSE f[k]]

mergeMapping(f, c) ==
  [k \in Keys |-> IF c[k] = "" /\ (f[k] = Absent \/ ~Scalar(k, f[k])) THEN Absent ELSE c[k]]

\* A file that is missing or cannot be edited is written from scratch.
renderConfigYAML(f, c) ==
  mergeMapping(IF f \in Files THEN f ELSE [k \in Keys |-> Absent], c)

\* The temporary file has a name of its own and is renamed over init.yaml, so
\* that a save that fails or dies changes nothing.
SaveConfig(c) ==
  /\ config # NotSet /\ unapplied = NotSet
  /\ IF ResolveConfigPath = "exe"
     THEN exeFile' = renderConfigYAML(exeFile, c) /\ UNCHANGED cwdFile
     ELSE cwdFile' = renderConfigYAML(cwdFile, c) /\ UNCHANGED exeFile
  /\ unapplied' = c
  /\ saved' = withDefaults(c)
  /\ UNCHANGED <<env, flags, config>>

\* toConfig has let the payload through; applyConfig prepares it and takes it.
ApplyConfig ==
  /\ unapplied # NotSet
  /\ config' = withDefaults(unapplied)
  /\ unapplied' = NotSet
  /\ UNCHANGED <<cwdFile, exeFile, env, flags, saved>>

-----------------------------------------------------------------------------
(* The process and its users.                                              *)

ConfigInit ==
  /\ cwdFile \in HandWritten /\ exeFile \in HandWritten
  /\ env \in Outside /\ flags \in Outside
  /\ config = NotSet /\ unapplied = NotSet /\ saved = NotSet

Boot ==
  /\ config = NotSet
  /\ config' = withDefaults(loadConfig)
  /\ UNCHANGED <<cwdFile, exeFile, env, flags, unapplied, saved>>

\* The process stops or crashes, between a save and its application, too.
Down ==
  /\ config # NotSet
  /\ config' = NotSet /\ unapplied' = NotSet
  /\ UNCHANGED <<cwdFile, exeFile, env, flags, saved>>

\* A user replaces or removes an init.yaml, which need not be the one in use.
EditByHand ==
  /\ \/ cwdFile' \in HandWritten /\ UNCHANGED exeFile
     \/ exeFile' \in HandWritten /\ UNCHANGED cwdFile
  /\ saved' = NotSet
  /\ UNCHANGED <<env, flags, config, unapplied>>

ConfigNext == Boot \/ Down \/ EditByHand \/ ApplyConfig \/ \E c \in Configs : SaveConfig(c)

-----------------------------------------------------------------------------
(* Properties.                                                             *)

ConfigTypeOK ==
  /\ cwdFile \in Files \union {Missing, Unparsable}
  /\ exeFile \in Files \union {Missing, Unparsable}
  /\ env \in Outside /\ flags \in Outside
  /\ {config, unapplied, saved} \subseteq Configs \union {NotSet}

\* The proxy is a mapping or not there: no init.yaml has it as a scalar.
ProxyIsMapping ==
  \A f \in {cwdFile, exeFile} :
    f \in Files => f[ProxyKey] \in (Values[ProxyKey] \ {""}) \union {Absent}

\* The file in use says what was saved last.
FileHoldsSaved ==
  saved # NotSet =>
    /\ InitYaml \in Files /\ Decodes(InitYaml) /\ applyConfigFile(InitYaml) = saved
    /\ unapplied # NotSet => withDefaults(unapplied) = saved

\* What /settings saved survives restarts: whenever the process runs and no user
\* has touched the files, every key has the value saved last, unless the
\* environment or the command line gives it another one (settings.go:25, config.go:474).
SavedSurvivesRestart ==
  config # NotSet /\ unapplied = NotSet /\ saved # NotSet
  => \A k \in Keys : \/ config[k] = saved[k]
                     \/ config[k] \in {env[k], flags[k]} \ {""}
=============================================================================
