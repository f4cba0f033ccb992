------------------------------- MODULE Backend ------------------------------
(***************************************************************************)
(* Construction and Close of the three browser backends,                   *)
(* server/browser/{webdriver,geckodriver,chromedp}/browser.go, on top of   *)
(* DisplayServer and DriverProcess.  Each element of Backends is one call  *)
(* of the constructor and, when that succeeds, one later call of Close.    *)
(* Several run at a time: they share the display numbers, the ports and    *)
(* the environment variable DISPLAY.                                       *)
(***************************************************************************)
EXTENDS DisplayServer, DriverProcess

Kinds == {"webdriver", "geckodriver", "chromedp"}

CONSTANTS Inherited,     \* what DISPLAY may be when the process starts, None for unset
          Engines,       \* the engines the configuration can choose
          UserDataDir,   \* CHROME_ARGS names a profile directory
          DebugLogging   \* drivers write a log

ASSUME SettingsAssumption == /\ Engines \subseteq Kinds
                             /\ UserDataDir \in BOOLEAN
                             /\ DebugLogging \in BOOLEAN

VARIABLES
  kind,     \* the engine the factory has chosen
  place,    \* how far the constructor, or Close, has got
  profile,  \* the profile directory: its own, the user's, or removed
  scratch,  \* patchedDriverDir and driverRuntimeDir
  auth,     \* the connection that answers proxy challenges is open
  env,      \* DISPLAY in the environment of the process
  saved     \* previousDisplay

ownVars == <<kind, place, profile, scratch, auth, env, saved>>
vars    == <<displayVars, expired, driverVars, ownVars>>

Building == {"port", "display", "driver", "browser", "session", "auth", "stealth"}
Closing  == {"close", "stop", "cleanup", "release"}

TypeOK ==
  /\ DisplayTypeOK
  /\ DriverTypeOK
  /\ kind \in [Backends -> Engines]
  /\ place \in [Backends -> Building \cup Closing \cup {"new", "up", "closed"}]
  /\ profile \in [Backends -> {"none", "own", "custom", "removed"}]
  /\ scratch \in [Backends -> SUBSET {"patched", "log"}]
  /\ auth \in [Backends -> BOOLEAN]
  /\ env \in Inherited \cup {None}
  /\ saved \in [Backends -> Inherited \cup {None}]

Init ==
  /\ DisplayInit
  /\ DriverInit
  /\ kind \in [Backends -> Engines]
  /\ place = [b \in Backends |-> "new"]
  /\ profile = [b \in Backends |-> "none"]
  /\ scratch = [b \in Backends |-> {}]
  /\ auth = [b \in Backends |-> FALSE]
  /\ env \in Inherited
  /\ saved = [b \in Backends |-> None]

-----------------------------------------------------------------------------
Driven(b) == kind[b] # "chromedp"

At(b, p) == place[b] = p

Goto(b, p) == place' = [place EXCEPT ![b] = p]

\* A failing constructor closes what it has built and returns the error.
Fail(b) == Goto(b, "close")

\* The steps of the constructor after the display has been settled.
AfterDisplay(b) == IF Driven(b) THEN "driver" ELSE "browser"

AfterAuth(b) == IF kind[b] = "webdriver" THEN "stealth" ELSE "up"

RestUnchanged == UNCHANGED <<kind, profile, scratch, auth, env, saved>>
ProcsUnchanged == UNCHANGED <<displayVars, expired, driverVars>>

-----------------------------------------------------------------------------
(* Construction: directories, a port, a display.                           *)

\* The Chromium backends leave a profile directory of the user's alone.
PrepareUserDataDir(b) ==
  profile' = [profile EXCEPT ![b] = IF UserDataDir THEN "custom" ELSE "own"]

\* NewWebDriver: no profile directory; or a driver that cannot be patched; or
\* go on.
PrepareWebDriver(b) ==
  /\ At(b, "new") /\ kind[b] = "webdriver"
  /\ saved' = [saved EXCEPT ![b] = env]
  /\ \/ /\ Goto(b, "closed")                             \* no profile directory
        /\ UNCHANGED <<profile, scratch>>
     \/ /\ PrepareUserDataDir(b)
        /\ \/ Fail(b) /\ UNCHANGED scratch
           \/ /\ Goto(b, "port")
              /\ scratch' = [scratch EXCEPT ![b] = {"patched"}]
  /\ ProcsUnchanged /\ UNCHANGED <<kind, auth, env>>

\* NewGeckoDriver: no executable, or no profile directory; or go on.
PrepareGeckoDriver(b) ==
  /\ At(b, "new") /\ kind[b] = "geckodriver"
  /\ saved' = [saved EXCEPT ![b] = env]
  /\ \/ Goto(b, "closed") /\ UNCHANGED profile
     \/ Goto(b, "port") /\ profile' = [profile EXCEPT ![b] = "own"]
  /\ ProcsUnchanged /\ UNCHANGED <<kind, scratch, auth, env>>

\* NewChromedp.
PrepareChromedp(b) ==
  /\ At(b, "new") /\ kind[b] = "chromedp"
  /\ saved' = [saved EXCEPT ![b] = env]
  /\ \/ Goto(b, "closed") /\ UNCHANGED profile
     \/ Goto(b, "display") /\ PrepareUserDataDir(b)
  /\ ProcsUnchanged /\ UNCHANGED <<kind, scratch, auth, env>>

ReservePort(b) ==
  /\ At(b, "port")
  /\ \/ FreeLocalPort(b) /\ Goto(b, "display")
     \/ Fail(b) /\ UNCHANGED driverVars
  /\ UNCHANGED <<displayVars, expired>> /\ RestUnchanged

\* prepareHeadlessMode: no display is needed, DISPLAY names one, or there is
\* no Xvfb to run.
SkipXvfb(b) ==
  /\ At(b, "display") /\ start[b] = "idle"
  /\ Goto(b, AfterDisplay(b))
  /\ ProcsUnchanged /\ RestUnchanged

NeedXvfb(b) ==
  /\ At(b, "display") /\ env = None
  /\ StartDisplayFD(b)
  /\ UNCHANGED <<driverVars, ownVars>>

AwaitXvfb(b) ==
  /\ At(b, "display")
  /\ StartXvfb(b)
  /\ UNCHANGED <<driverVars, ownVars>>

\* Mutant: the display is published in the environment of the process.
PublishDisplay(b) ==
  /\ At(b, "display") /\ start[b] = "up"
  /\ env' = display[b]
  /\ Goto(b, AfterDisplay(b))
  /\ ProcsUnchanged /\ UNCHANGED <<kind, profile, scratch, auth, saved>>

HaveDisplay(b) ==
  /\ At(b, "display") /\ start[b] = "up"
  /\ Goto(b, AfterDisplay(b))
  /\ ProcsUnchanged /\ RestUnchanged

\* chromedp has nothing but the profile and DISPLAY to clean up here.
LackDisplay(b) ==
  /\ At(b, "display") /\ start[b] = "failed"
  /\ IF Driven(b) THEN Fail(b) ELSE Goto(b, "cleanup")
  /\ ProcsUnchanged /\ RestUnchanged

-----------------------------------------------------------------------------
(* Construction: the driver, the browser, what is installed in it.         *)

LogDir == IF DebugLogging THEN {"log"} ELSE {}

\* The rest of startDriver.  geckodriver reserves a second port; with debug
\* logging there is a directory for the log.
LaunchDriver(b) ==
  /\ At(b, "driver")
  /\ \/ /\ ctl[b] = "idle"
        /\ \/ Fail(b) /\ UNCHANGED <<driverVars, scratch>>
           \/ /\ StartDriver(b) /\ UNCHANGED place
              /\ scratch' = [scratch EXCEPT ![b] = @ \cup LogDir]
     \/ /\ DriverStep(b)
        /\ UNCHANGED <<place, scratch>>
     \/ /\ ctl[b] = "up" /\ Goto(b, "session")
        /\ UNCHANGED <<driverVars, scratch>>
     \/ /\ ctl[b] = "done" /\ Fail(b)
        /\ UNCHANGED <<driverVars, scratch>>
  /\ UNCHANGED <<displayVars, expired, kind, profile, auth, env, saved>>

\* createSession.  A reply without a web socket fails geckodriver when proxy
\* credentials need one.
CreateSession(b) ==
  /\ At(b, "session")
  /\ \/ SessionCreated(b) /\ Goto(b, "auth")
     \/ SessionCreated(b) /\ kind[b] = "geckodriver" /\ Fail(b)
     \/ SessionFailed(b) /\ Fail(b)
  /\ UNCHANGED <<displayVars, expired>> /\ RestUnchanged

\* chromedp.Run starts the browser; it can also fail once the browser is up.
LaunchBrowser(b) ==
  /\ At(b, "browser")
  /\ \/ /\ browser' = [browser EXCEPT ![b] = b]
        /\ Goto(b, "stealth") \/ Fail(b)
     \/ UNCHANGED browser /\ Fail(b)
  /\ UNCHANGED <<displayVars, expired, ctl, driver, port, session, lost>>
  /\ RestUnchanged

\* enableProxyAuth, when the proxy has credentials.  chromedp answers over the
\* connection it has already.
EnableProxyAuth(b) ==
  /\ At(b, "auth")
  /\ \/ Goto(b, AfterAuth(b)) /\ UNCHANGED auth
     \/ /\ Driven(b) /\ Goto(b, AfterAuth(b))
        /\ auth' = [auth EXCEPT ![b] = TRUE]
     \/ Fail(b) /\ UNCHANGED auth
  /\ ProcsUnchanged /\ UNCHANGED <<kind, profile, scratch, env, saved>>

InstallStealth(b) ==
  /\ At(b, "stealth")
  /\ \/ Goto(b, IF Driven(b) THEN "up" ELSE "auth")
     \/ Fail(b)
  /\ ProcsUnchanged /\ RestUnchanged

-----------------------------------------------------------------------------
(* Close.                                                                  *)

\* The owner closes a browser that was built.
Close(b) ==
  /\ At(b, "up") /\ Goto(b, "close")
  /\ ProcsUnchanged /\ RestUnchanged

\* webdriver asks the driver to quit the browser.
CloseWebDriver(b) ==
  /\ At(b, "close") /\ kind[b] = "webdriver"
  /\ Delete(b) /\ Goto(b, "stop")
  /\ UNCHANGED <<displayVars, expired>> /\ RestUnchanged

\* geckodriver closes the BiDi socket before that.
CloseGeckoDriver(b) ==
  /\ At(b, "close") /\ kind[b] = "geckodriver"
  /\ Delete(b) /\ Goto(b, "stop")
  /\ auth' = [auth EXCEPT ![b] = FALSE]
  /\ UNCHANGED <<displayVars, expired, kind, profile, scratch, env, saved>>

\* Mutant: a plain cancel, which does not wait for the browser.
CancelChromedp(b) ==
  /\ At(b, "close") /\ kind[b] = "chromedp"
  /\ Goto(b, "cleanup")
  /\ ProcsUnchanged /\ RestUnchanged

\* chromedp.Cancel waits until the browser has exited.
CloseChromedp(b) ==
  /\ At(b, "close") /\ kind[b] = "chromedp"
  /\ browser' = [browser EXCEPT ![b] = None]
  /\ Goto(b, "cleanup")
  /\ UNCHANGED <<displayVars, expired, ctl, driver, port, session, lost>>
  /\ RestUnchanged

\* driver.Stop, a no-op when startDriver has failed.
StopDriver(b) ==
  /\ At(b, "stop")
  /\ \/ (Stop(b) \/ DriverStep(b)) /\ UNCHANGED place
     \/ ctl[b] \in {"idle", "done"} /\ Goto(b, "cleanup") /\ UNCHANGED driverVars
  /\ UNCHANGED <<displayVars, expired>> /\ RestUnchanged

\* Mutant: the directory of the log is forgotten.
CleanupPartly(b) ==
  /\ At(b, "cleanup")
  /\ scratch' = [scratch EXCEPT ![b] = @ \ {"patched"}]
  /\ auth' = [auth EXCEPT ![b] = FALSE]
  /\ profile' = [profile EXCEPT ![b] = IF @ = "own" THEN "removed" ELSE @]
  /\ Goto(b, "release")
  /\ ProcsUnchanged /\ UNCHANGED <<kind, env, saved>>

\* The directories; webdriver detaches its proxy handler in between.
Cleanup(b) ==
  /\ At(b, "cleanup")
  /\ scratch' = [scratch EXCEPT ![b] = {}]
  /\ auth' = [auth EXCEPT ![b] = FALSE]
  /\ profile' = [profile EXCEPT ![b] = IF @ = "own" THEN "removed" ELSE @]
  /\ Goto(b, "release")
  /\ ProcsUnchanged /\ UNCHANGED <<kind, env, saved>>

\* stopDisplay.  The Chromium backends write DISPLAY back as they found it.
StopDisplay(b) ==
  /\ At(b, "release")
  /\ StopXvfb(b)
  /\ env' = IF kind[b] = "geckodriver" THEN env ELSE saved[b]
  /\ Goto(b, "closed")
  /\ UNCHANGED <<expired, driverVars, kind, profile, scratch, auth, saved>>

-----------------------------------------------------------------------------
Construct(b) ==
  \/ PrepareWebDriver(b) \/ PrepareGeckoDriver(b) \/ PrepareChromedp(b)
  \/ ReservePort(b) \/ SkipXvfb(b) \/ NeedXvfb(b) \/ AwaitXvfb(b)
  \/ HaveDisplay(b) \/ LackDisplay(b)
  \/ LaunchDriver(b) \/ CreateSession(b) \/ LaunchBrowser(b)
  \/ EnableProxyAuth(b) \/ InstallStealth(b)

TearDown(b) ==
  \/ CloseWebDriver(b) \/ CloseGeckoDriver(b) \/ CloseChromedp(b)
  \/ StopDriver(b) \/ Cleanup(b) \/ StopDisplay(b)

\* The request's maxTimeout ends while StartXvfb runs, which is where the
\* constructors do something they would not do on a timeout of their own.
Expire(b) ==
  /\ ~expired[b] /\ start[b] \in {"fd", "scan", "poll", "reap"}
  /\ expired' = [expired EXCEPT ![b] = TRUE]
  /\ UNCHANGED <<displayVars, driverVars, ownVars>>

Environment(b) ==
  \/ (XvfbServes(b) \/ XvfbExits(b)) /\ UNCHANGED <<driverVars, ownVars>>
  \/ /\ \/ DriverListens(b) \/ DriverCrashes(b) \/ DriverHangs(b)
        \/ DriverTerminates(b) \/ BrowserExits(b)
     /\ UNCHANGED <<displayVars, expired, ownVars>>

\* Nothing more will happen.
AllDone == /\ \A b \in Backends : At(b, "closed") \/ StuckReaping(b)
           /\ UNCHANGED vars

Next == \/ \E b \in Backends : \/ Construct(b) \/ Close(b) \/ TearDown(b)
                               \/ Expire(b) \/ Environment(b)
        \/ AllDone

Spec == Init /\ [][Next]_vars

\* The goroutine of a constructor or of Close keeps running: every wait in it
\* has a timeout or is for a process that has been killed, or else, in chromedp
\* alone, for a Chrome, which is taken to answer or to go.  A driver that is not
\* hung obeys SIGTERM.  Nobody has to start or to close a browser.
Fairness == \A b \in Backends :
  /\ WF_vars(Construct(b) /\ place[b] # "new")
  /\ WF_vars(TearDown(b))
  /\ WF_vars(DriverTerminates(b) /\ UNCHANGED <<displayVars, expired, ownVars>>)

FairSpec == Spec /\ Fairness

-----------------------------------------------------------------------------
(* Properties.                                                             *)

\* A construction that failed and a Close that returned leave no process
\* unreaped, no directory but the user's own, and no open connection
\* (w3c/driver.go:57, "a failed start never leaks a child").
NothingLeftBehind ==
  \A b \in Backends : At(b, "closed") =>
    /\ xvfb[b] \in {"none", "reaped"}
    /\ driver[b] \in {"none", "reaped"}
    /\ profile[b] # "own" /\ scratch[b] = {} /\ ~auth[b] /\ ~session[b]

\* The browser process is not under the control of the driver of b any more.
Orphan(b) == Driven(b) /\ (browser[b] # b \/ lost[b])

\* A browser survives its Close only if its driver hung or crashed, or if
\* another driver had answered on the port (w3c/driver.go:23-25).
NoNeedlessOrphan ==
  \A b \in Backends : At(b, "closed") /\ browser[b] # None => Orphan(b)

\* A browser finds its profile directory and its display as long as it runs:
\* Close takes them away only when the browser has exited
\* (chromedp/browser.go:438-441).
BrowserKeepsItsGround ==
  \A b \in Backends : browser[b] # None /\ ~Orphan(b) =>
    profile[b] \in {"own", "custom"} /\ start[b] # "stopped"

\* Whoever owns a display can still wait for its Xvfb: the single value that
\* the waiter of the process sends has not been received (common.go:477-481).
\* Otherwise Close would not return.
OwnedMeansUnreaped ==
  \A b \in Backends : start[b] = "up" => Running(b) \/ xvfb[b] = "exited"

\* The inductive invariant behind these four: the conjuncts of IInv.  First, what
\* start and ctl say of the processes.
DisplayStages(b) ==
  /\ start[b] = "idle" => xvfb[b] = "none"
  /\ start[b] \in {"scan", "failed", "stopped"} => xvfb[b] \in {"none", "reaped"}
  /\ start[b] \in {"fd", "poll", "up"} => Running(b) \/ xvfb[b] = "exited"
  /\ xvfb[b] = "serving" => display[b] # None
  /\ start[b] \in {"poll", "reap"} => tried[b] \in Displays

DriverStages(b) ==
  /\ ctl[b] = "idle" => driver[b] = "none"
  /\ ctl[b] = "done" => driver[b] \in {"none", "reaped"}
  /\ ctl[b] \in {"wait", "up", "grace", "term"} => Alive(b) \/ driver[b] = "exited"

\* Where the constructor or Close can be while these are what they are.
Settled(b) ==
  /\ place[b] \in {"new", "port"} => start[b] = "idle"
  /\ place[b] = "display" => start[b] # "stopped"
  /\ place[b] \in {"driver", "browser", "session", "auth", "stealth", "up"} =>
       start[b] \in {"idle", "up"}
  /\ place[b] \in Closing => start[b] \in {"idle", "up", "failed"}
  /\ place[b] = "closed" => start[b] \in {"idle", "failed", "stopped"}

Controlled(b) ==
  /\ ~Driven(b) => ctl[b] = "idle"
  /\ place[b] \in {"new", "port", "display"} => ctl[b] = "idle"
  /\ place[b] \in {"session", "auth", "stealth", "up"} /\ Driven(b) => ctl[b] = "up"
  /\ place[b] = "close" => ctl[b] \in {"idle", "up", "done"}
  /\ place[b] \in {"cleanup", "release", "closed"} => ctl[b] \in {"idle", "done"}
  /\ place[b] \in {"port", "driver", "session", "stop"} => Driven(b)
  /\ place[b] = "stop" => ctl[b] # "wait"
  /\ place[b] = "browser" => ~Driven(b)

\* What is held where.
Inventory(b) ==
  /\ session[b] => Driven(b) /\ place[b] \in {"auth", "stealth", "up", "close"}
  /\ place[b] = "new" => profile[b] = "none" /\ scratch[b] = {} /\ ~auth[b]
  /\ place[b] \in Building \cup {"up", "close", "stop"} => profile[b] \in {"own", "custom"}
  /\ place[b] \in {"release", "closed"} =>
       profile[b] # "own" /\ scratch[b] = {} /\ ~auth[b]

\* Who runs the browsers: the backend itself, or a driver that is there or has
\* lost them.
OwnBrowser(b) ==
  browser[b] # None /\ ~Driven(b) =>
    browser[b] = b /\ place[b] \in {"stealth", "auth", "up", "close"}

Hosted(b) ==
  browser[b] # None /\ Driven(b) =>
    driver[browser[b]] \in {"listening", "hung"} \/ lost[browser[b]]

\* All of it together, which every step of constructors, of Close and of the
\* processes around them keeps.
IInv == /\ TypeOK
        /\ \A b \in Backends : /\ DisplayStages(b) /\ DriverStages(b)
                               /\ Settled(b) /\ Controlled(b)
                               /\ Inventory(b) /\ OwnBrowser(b) /\ Hosted(b)

\* However constructions and closes of several browsers overlap, the process
\* keeps the DISPLAY it was started with.
DisplayVariableKept == [][env' = env]_vars

\* No construction goes on for ever, unless an Xvfb has exited while the scan of
\* displays was polling for it: it returns a browser, or goes over to closing
\* what there is (webdriver/browser.go: NewWebDriver, and its like).
ConstructionReturns ==
  \A b \in Backends : []<>(place[b] \notin Building \/ StuckReaping(b))

\* No Close goes on for ever, be it the client's or that of a construction that
\* fails, whether or not the driver does what it is told (w3c/driver.go: Stop).
CloseReturns == \A b \in Backends : []<>(place[b] \notin Closing)

\* CHANGELOG.md:277-281, the context bounds the start of Xvfb: every
\* construction returns.
EveryConstructionReturns ==
  \A b \in Backends : place[b] \in Building ~> At(b, "up") \/ At(b, "closed")

\* The abstract view: what each browser has to give back.
Stage(b) == CASE place[b] \in Building -> "building"
              [] place[b] \in Closing  -> "closing"
              [] At(b, "up")           -> "live"
              [] OTHER                 -> place[b]

Holding(b) ==
  scratch[b] \cup {r \in {"profile", "display", "driver", "session", "auth"} :
                     \/ r = "profile" /\ profile[b] = "own"
                     \/ r = "display" /\ start[b] = "up"
                     \/ r = "driver"  /\ ctl[b] \in {"up", "grace", "term"}
                     \/ r = "session" /\ session[b]
                     \/ r = "auth"    /\ auth[b]}

Lifecycle == INSTANCE BackendLifecycle
               WITH Resources <- {"profile", "patched", "log", "display", "driver",
                                  "session", "auth"},
                    stage <- [b \in Backends |-> Stage(b)],
                    held  <- [b \in Backends |-> Holding(b)]

\* A backend keeps the promises of BackendLifecycle.
KeepsPromise == Lifecycle!Spec
=============================================================================
