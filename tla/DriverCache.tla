---------------------------- MODULE DriverCache ----------------------------
(***************************************************************************)
(* How the factory finds the driver of a browser: a path that was          *)
(* configured, a driver downloaded into the cache directory, or one on     *)
(* PATH.  Downloads of a driver are serialized by a mutex and go through a *)
(* temporary file with a fixed name.  Memory is lost when the process      *)
(* stops; files stay.                                                      *)
(***************************************************************************)
EXTENDS Naturals

CONSTANTS
  Callers,     \* goroutines that construct a browser
  Dirs,        \* cache directories
  MaxVersion,  \* bound: versions of a browser and releases of a driver
  Free         \* the owner of a mutex nobody holds

Engines  == {"chrome", "gecko"}
Versions == 1..MaxVersion
Path     == Dirs \X Engines \X Versions

\* What there can be instead of a managed driver.
NoPath     == <<>>
Configured == <<"driver_path">>
OnPATH     == <<"PATH">>

ASSUME CallersAssumption == Free \notin Callers /\ MaxVersion \in Nat \ {0}

VARIABLES
  disk, temp,    \* the drivers and their temporary files: absent, part or whole
  current,       \* the installed Chrome and the latest geckodriver release
  mutex,         \* managedDriverMu, managedGeckoDriverMu
  detected,      \* detectedChromeVersionCache: from the executable to its version
  known,         \* managedChromeDriverPathCache: its keys determine its paths
  geckoPath,     \* managedGeckoDriverPath
  at,            \* where each goroutine is
  call,          \* what it resolves: the engine and the directory configured
  executable,    \* the identity of the browser's executable, as Stat gave it
  version,       \* the version it found out
  result,        \* what it resolved last
  oldest         \* ghost: the Chrome that was installed when it began

memory     == <<mutex, detected, known, geckoPath>>
request    == <<call, oldest>>
learned    == <<executable, version>>
driverVars == <<disk, temp, current, memory, at, request, learned, result>>

Engine(c) == call[c].engine
Target(c) == <<call[c].dir, Engine(c), version[c]>>
Exists(p) == disk[p] # "absent"
Recalled  == geckoPath # NoPath /\ Exists(geckoPath)

\* Where the goroutines that hold the mutex of their driver are.
Holding == {"fetch", "download", "write", "rename"}

Goto(c, from, to) == at[c] = from /\ at' = [at EXCEPT ![c] = to] /\ UNCHANGED <<request, result>>

Proceed(c, from, to) == Goto(c, from, to) /\ UNCHANGED learned

\* The call ends with what it found; the deferred Unlock comes first.
Return(c, from, found) ==
  /\ at[c] = from /\ at' = [at EXCEPT ![c] = "none"]
  /\ result' = [result EXCEPT ![c] = found]
  /\ executable' = [executable EXCEPT ![c] = 0] /\ version' = [version EXCEPT ![c] = 0]
  /\ UNCHANGED request

Unlock(c) == mutex' = [mutex EXCEPT ![Engine(c)] = IF @ = c THEN Free ELSE @]

\* A managed driver that cannot be had is looked for on PATH.
OnPATHOrNot(c, from) == \E found \in {OnPATH, NoPath} : Return(c, from, found)

GiveUp(c, from) ==
  /\ OnPATHOrNot(c, from)
  /\ Unlock(c)
  /\ UNCHANGED <<disk, current, detected, known, geckoPath>>

-----------------------------------------------------------------------------
(* What is configured decides first.                                       *)

Begin(c, engine, driverPath, dir, autoDownload) ==
  /\ at[c] = "none"
  /\ call' = [call EXCEPT ![c] = [engine |-> engine, dir |-> dir]]
  /\ oldest' = [oldest EXCEPT ![c] = current["chrome"]]
  /\ IF driverPath = "" /\ autoDownload
     THEN /\ at' = [at EXCEPT ![c] = IF engine = "chrome" THEN "stat" ELSE "recall"]
          /\ result' = [result EXCEPT ![c] = NoPath]
     ELSE /\ \E found \in IF driverPath = "" THEN {OnPATH, NoPath} ELSE {Configured} :
               result' = [result EXCEPT ![c] = found]
          /\ UNCHANGED at
  /\ UNCHANGED <<disk, temp, current, memory, learned>>

-----------------------------------------------------------------------------
(* Chrome: the version of the browser decides on that of the driver.       *)

\* Mutant: the executable is known by its path, whatever it has become.
StatByPath(c) ==
  /\ Goto(c, "stat", IF detected[1] # 0 THEN "recall" ELSE "ask")
  /\ executable' = [executable EXCEPT ![c] = 1]
  /\ version' = [version EXCEPT ![c] = detected[1]]
  /\ UNCHANGED <<disk, temp, current, memory>>

\* The executable is known by its size and its time, which an upgrade changes.
Stat(c) ==
  /\ Goto(c, "stat", IF detected[current["chrome"]] # 0 THEN "recall" ELSE "ask")
  /\ executable' = [executable EXCEPT ![c] = current["chrome"]]
  /\ version' = [version EXCEPT ![c] = detected[current["chrome"]]]
  /\ UNCHANGED <<disk, temp, current, memory>>

AskVersion(c) ==
  /\ Goto(c, "ask", "recall")
  /\ version' = [version EXCEPT ![c] = current["chrome"]]
  /\ detected' = [detected EXCEPT ![executable[c]] = current["chrome"]]
  /\ UNCHANGED <<disk, temp, current, mutex, known, geckoPath, executable>>

\* A path that was found before is used as long as there is a file.
RecallChromeDriver(c) ==
  /\ at[c] = "recall" /\ Engine(c) = "chrome"
  /\ IF Target(c) \in known /\ Exists(Target(c))
     THEN Return(c, "recall", Target(c)) /\ UNCHANGED known
     ELSE Proceed(c, "recall", "release") /\ known' = known \ {Target(c)}
  /\ UNCHANGED <<disk, temp, current, mutex, detected, geckoPath>>

\* The driver that is released for this version of Chrome.
ChromeDriverReleased(c) ==
  /\ at[c] = "release"
  /\ IF Exists(Target(c))
     THEN Return(c, "release", Target(c)) /\ known' = known \union {Target(c)}
     ELSE Proceed(c, "release", "lock") /\ UNCHANGED known
  /\ UNCHANGED <<disk, temp, current, mutex, detected, geckoPath>>

\* Whoever has waited for the mutex looks again.
LockChromeDriver(c) ==
  /\ at[c] = "lock" /\ Engine(c) = "chrome" /\ mutex["chrome"] = Free
  /\ IF Exists(Target(c))
     THEN /\ Return(c, "lock", Target(c))
          /\ known' = known \union {Target(c)}
          /\ UNCHANGED mutex
     ELSE /\ Proceed(c, "lock", "download")
          /\ mutex' = [mutex EXCEPT !["chrome"] = c]
          /\ UNCHANGED known
  /\ UNCHANGED <<disk, temp, current, detected, geckoPath>>

-----------------------------------------------------------------------------
(* Geckodriver: the path found last, or else the latest release.           *)

RecallGeckoDriver(c) ==
  /\ at[c] = "recall" /\ Engine(c) = "gecko"
  /\ IF Recalled
     THEN Return(c, "recall", geckoPath) /\ UNCHANGED geckoPath
     ELSE Proceed(c, "recall", "lock") /\ geckoPath' = NoPath
  /\ UNCHANGED <<disk, temp, current, mutex, detected, known>>

LockGeckoDriver(c) ==
  /\ at[c] = "lock" /\ Engine(c) = "gecko" /\ mutex["gecko"] = Free
  /\ IF Recalled
     THEN Return(c, "lock", geckoPath) /\ UNCHANGED <<mutex, geckoPath>>
     ELSE /\ Proceed(c, "lock", "fetch")
          /\ geckoPath' = NoPath
          /\ mutex' = [mutex EXCEPT !["gecko"] = c]
  /\ UNCHANGED <<disk, temp, current, detected, known>>

FetchRelease(c) ==
  LET found == <<call[c].dir, "gecko", current["gecko"]>> IN
  /\ at[c] = "fetch"
  /\ IF Exists(found)
     THEN Return(c, "fetch", found) /\ Unlock(c) /\ geckoPath' = found
     ELSE /\ Goto(c, "fetch", "download")
          /\ version' = [version EXCEPT ![c] = current["gecko"]]
          /\ UNCHANGED <<executable, mutex, geckoPath>>
  /\ UNCHANGED <<disk, temp, current, detected, known>>

-----------------------------------------------------------------------------
(* The download, with the mutex held.                                      *)

\* Mutant: the driver is written where it is looked for.
WriteInPlace(c) ==
  /\ Proceed(c, "download", "write")
  /\ disk' = [disk EXCEPT ![Target(c)] = "part"]
  /\ temp' = [temp EXCEPT ![Target(c)] = "part"]
  /\ UNCHANGED <<current, memory>>

\* The archive is read into memory; then WriteFile makes or truncates the
\* temporary file, and fills it.
Download(c) ==
  /\ Proceed(c, "download", "write")
  /\ temp' = [temp EXCEPT ![Target(c)] = "part"]
  /\ UNCHANGED <<disk, current, memory>>

Written(c) ==
  /\ Proceed(c, "write", "rename")
  /\ temp' = [temp EXCEPT ![Target(c)] = IF @ = "absent" THEN @ ELSE "whole"]
  /\ UNCHANGED <<disk, current, memory>>

\* Chmod and Rename, which fail when the file is gone.
Rename(c) ==
  /\ at[c] = "rename" /\ temp[Target(c)] # "absent"
  /\ disk' = [disk EXCEPT ![Target(c)] = temp[Target(c)]]
  /\ temp' = [temp EXCEPT ![Target(c)] = "absent"]
  /\ Return(c, "rename", Target(c))
  /\ Unlock(c)
  /\ known' = IF Engine(c) = "chrome" THEN known \union {Target(c)} ELSE known
  /\ geckoPath' = IF Engine(c) = "gecko" THEN Target(c) ELSE geckoPath
  /\ UNCHANGED <<current, detected>>

-----------------------------------------------------------------------------
(* Any of these steps may fail.                                            *)

\* What WriteFile has written stays when it fails.
FailEarly(c) ==
  /\ \/ at[c] \in {"ask", "release", "fetch", "download", "write"}
     \/ at[c] = "recall" /\ Engine(c) = "chrome"
  /\ GiveUp(c, at[c])
  /\ UNCHANGED temp

FailLate(c) ==
  /\ at[c] = "rename"
  /\ temp' = [temp EXCEPT ![Target(c)] = "absent"]
  /\ GiveUp(c, "rename")

Lock(c) == LockChromeDriver(c) \/ LockGeckoDriver(c)

ResolveStep(c) ==
  \/ Stat(c) \/ AskVersion(c) \/ RecallChromeDriver(c) \/ ChromeDriverReleased(c)
  \/ RecallGeckoDriver(c) \/ FetchRelease(c) \/ Lock(c)
  \/ Download(c) \/ Written(c) \/ Rename(c)
  \/ FailEarly(c) \/ FailLate(c)

-----------------------------------------------------------------------------
(* The world.                                                              *)

DriverInit ==
  /\ disk = [p \in Path |-> "absent"] /\ temp = [p \in Path |-> "absent"]
  /\ current = [e \in Engines |-> 1]
  /\ mutex = [e \in Engines |-> Free] /\ detected = [v \in Versions |-> 0]
  /\ known = {} /\ geckoPath = NoPath
  /\ at = [c \in Callers |-> "none"]
  /\ call = [c \in Callers |-> [engine |-> "chrome", dir |-> CHOOSE d \in Dirs : TRUE]]
  /\ executable = [c \in Callers |-> 0] /\ version = [c \in Callers |-> 0]
  /\ result = [c \in Callers |-> NoPath] /\ oldest = [c \in Callers |-> 1]

\* The process is gone, with its goroutines and what it remembered.
Forget ==
  /\ mutex' = [e \in Engines |-> Free] /\ detected' = [v \in Versions |-> 0]
  /\ known' = {} /\ geckoPath' = NoPath
  /\ at' = [c \in Callers |-> "none"]
  /\ result' = [c \in Callers |-> NoPath]
  /\ executable' = [c \in Callers |-> 0] /\ version' = [c \in Callers |-> 0]
  /\ UNCHANGED <<disk, temp, current, request>>

\* Chrome is upgraded, never downgraded; geckodriver has a new release.
Upgrade(e) ==
  /\ current[e] < MaxVersion
  /\ current' = [current EXCEPT ![e] = @ + 1]
  /\ UNCHANGED <<disk, temp, memory, at, request, learned, result>>

\* Somebody clears a driver, or the rest of a download, out of the cache.
Clear(p) ==
  /\ \/ Exists(p) /\ disk' = [disk EXCEPT ![p] = "absent"] /\ UNCHANGED temp
     \/ temp[p] # "absent" /\ temp' = [temp EXCEPT ![p] = "absent"] /\ UNCHANGED disk
  /\ UNCHANGED <<current, memory, at, request, learned, result>>

DriverWorld == (\E e \in Engines : Upgrade(e)) \/ (\E p \in Path : Clear(p))

-----------------------------------------------------------------------------
(* Properties.                                                             *)

DriverTypeOK ==
  /\ disk \in [Path -> {"absent", "part", "whole"}]
  /\ temp \in [Path -> {"absent", "part", "whole"}]
  /\ current \in [Engines -> Versions]
  /\ mutex \in [Engines -> Callers \union {Free}]
  /\ detected \in [Versions -> Versions \union {0}]
  /\ known \subseteq Path /\ geckoPath \in Path \union {NoPath}
  /\ at \in [Callers -> {"none", "stat", "ask", "recall", "release", "lock"} \union Holding]
  /\ call \in [Callers -> [engine : Engines, dir : Dirs]]
  /\ executable \in [Callers -> Versions \union {0}] /\ version \in [Callers -> Versions \union {0}]
  /\ oldest \in [Callers -> Versions]
  /\ result \in [Callers -> Path \union {Configured, OnPATH, NoPath}]

\* Once the version is asked for, it is known.
VersionKnown ==
  \A c \in Callers :
    \/ at[c] \in Holding \ {"fetch"}
    \/ Engine(c) = "chrome" /\ at[c] \in {"recall", "release", "lock"}
    => version[c] # 0

\* Whoever downloads holds the mutex of the driver.
DownloadsExclude ==
  \A c \in Callers, e \in Engines : mutex[e] = c <=> at[c] \in Holding /\ Engine(c) = e

\* No name under which a driver is looked for ever holds a part of one: neither
\* concurrent downloads, nor a failing write, nor a crash leave one to be run.
DriversAreWhole == \A p \in Path : disk[p] # "part"

\* What is renamed has been written in full by the goroutine that renames it.
RenamesAreWhole ==
  \A c \in Callers : at[c] = "rename" => temp[Target(c)] # "part"

\* A driver that is there is not downloaded again: the goroutine that waited
\* for another's download uses it.
NoNeedlessDownload ==
  \A c \in Callers : at[c] \in Holding \ {"fetch"} => ~Exists(Target(c))

DriverInv ==
  /\ DriverTypeOK /\ VersionKnown
  /\ DownloadsExclude /\ DriversAreWhole /\ RenamesAreWhole /\ NoNeedlessDownload

\* A managed chromedriver is in the directory that is configured for the call
\* and fits a Chrome that was installed while the call ran, upgraded or not.
DriverFitsBrowser ==
  \A c \in Callers :
    at[c] = "none" /\ Engine(c) = "chrome" /\ result[c] \notin {Configured, OnPATH, NoPath}
    => /\ result[c][1] = call[c].dir
       /\ oldest[c] <= result[c][3] /\ result[c][3] <= current["chrome"]

\* Why it does: Chrome only goes up, and what was found out about an
\* executable was found out when it was there or later.
VersionsFit ==
  /\ \A v \in Versions : detected[v] # 0 => v <= detected[v] /\ detected[v] <= current["chrome"]
  /\ \A c \in Callers :
       /\ oldest[c] <= current["chrome"]
       /\ at[c] = "ask" => oldest[c] <= executable[c] /\ executable[c] <= current["chrome"]
       /\ Engine(c) = "chrome" /\ at[c] \in {"recall", "release", "lock"} \union Holding
          => oldest[c] <= version[c] /\ version[c] <= current["chrome"]
       /\ at[c] \in {"stat", "ask", "release"} => Engine(c) = "chrome"
       /\ at[c] = "fetch" => Engine(c) = "gecko"
=============================================================================
