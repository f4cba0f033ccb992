------------------------------ MODULE Startup ------------------------------
(***************************************************************************)
(* From the configuration to a browser: the process loads its              *)
(* configuration, and every browser it constructs takes the engine and the *)
(* driver this configuration asks for at that moment.  A process that goes *)
(* takes its goroutines, mutexes and caches along and leaves the files.    *)
(***************************************************************************)
EXTENDS ConfigFile, DriverCache

CONSTANTS
  Saved,     \* the configurations that /settings saves
  MaxEvents  \* bound: saves, edits, stops, upgrades and files cleared away

ASSUME SavedAssumption == Saved \subseteq Configs /\ MaxEvents \in Nat
ASSUME CacheDirAssumption ==
  "driver_cache_dir" \in Keys /\ Values["driver_cache_dir"] \subseteq Dirs

VARIABLES
  hasChrome, hasFirefox,  \* what is installed
  events                  \* how many there have been

vars == <<configVars, driverVars, hasChrome, hasFirefox, events>>

\* The engine that was asked for; else the browser that was named decides, and
\* else Chrome, unless Firefox or Camoufox is all there is.
isFirefoxBinary(path) == path \in {"firefox", "camoufox"}

resolveBrowserBackend ==
  IF \/ config["browser_backend"] = "geckodriver"
     \/ /\ config["browser_backend"] = "auto"
        /\ \/ isFirefoxBinary(config["browser_path"])
           \/ config["browser_path"] = "" /\ hasFirefox /\ ~hasChrome
  THEN "gecko" ELSE "chrome"

\* A driver is not managed for a Chrome that is not there.
New(c) ==
  LET engine == resolveBrowserBackend IN
  /\ config # NotSet
  /\ Begin(c, engine, config["driver_path"], config["driver_cache_dir"],
           /\ config["driver_auto_download"] = "true"
           /\ engine = "chrome" /\ config["browser_path"] = "" => hasChrome)

Init ==
  /\ ConfigInit /\ DriverInit
  /\ hasChrome \in BOOLEAN /\ hasFirefox \in BOOLEAN
  /\ events = 0

\* What happens to the process from outside counts, what it does does not.
Inside(A)  == A /\ UNCHANGED <<hasChrome, hasFirefox, events>>
Outward(A) == /\ events < MaxEvents /\ events' = events + 1
              /\ A /\ UNCHANGED <<hasChrome, hasFirefox>>

Process == (Boot \/ ApplyConfig) /\ UNCHANGED driverVars

Edit  == EditByHand /\ UNCHANGED driverVars
Save  == \E s \in Saved : SaveConfig(s) /\ UNCHANGED driverVars
Crash == Down /\ Forget
World == Edit \/ Save \/ Crash \/ (DriverWorld /\ UNCHANGED configVars)

Construct(c) == (New(c) \/ ResolveStep(c)) /\ UNCHANGED configVars

Next ==
  \/ Inside(Process)
  \/ \E c \in Callers : Inside(Construct(c))
  \/ Outward(World)

Spec == Init /\ [][Next]_vars
=============================================================================
