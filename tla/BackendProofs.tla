---------------------------- MODULE BackendProofs ----------------------------
(***************************************************************************)
(* A backend gives back what it has built, for any number of backends,     *)
(* displays and ports.  The steps of DisplayServer and of DriverProcess    *)
(* are proved about first, as lemmas on their own variables; the steps of  *)
(* Backend then only need to know what the sub-step leaves behind.         *)
(***************************************************************************)
EXTENDS Backend, TLAPS

USE BackendsAssumption, DisplayAssumption, PortsAssumption, SettingsAssumption

-----------------------------------------------------------------------------
(* DisplayServer.                                                          *)

\* What DisplayServer keeps by itself.
DisplayInv == DisplayTypeOK /\ \A b \in Backends : DisplayStages(b)

\* A call for b leaves the calls for the others where they are.
StartKept(b) == \A c \in Backends \ {b} : start'[c] = start[c]

LEMMA FirstDisplayStep ==
  ASSUME DisplayInv, NEW b \in Backends, StartDisplayFD(b)
  PROVE  DisplayInv' /\ start[b] = "idle" /\ start'[b] \in {"fd", "scan"} /\ StartKept(b)
  BY DEF DisplayInv, DisplayTypeOK, DisplayStages, StartDisplayFD, Enter, Running, StartKept

\* Receiving an exit leaves the process reaped and the files well typed.
LEMMA Reaping ==
  ASSUME DisplayInv, NEW b \in Backends, KillAndWait(b)
  PROVE  files' \in SUBSET Displays /\ xvfb' = [xvfb EXCEPT ![b] = "reaped"]
  BY DEF DisplayInv, DisplayTypeOK, DisplayStages, KillAndWait, Vanish

LEMMA DisplayStep ==
  ASSUME DisplayInv, NEW b \in Backends, StartXvfb(b)
  PROVE  DisplayInv' /\ start[b] # "idle" /\ start'[b] \notin {"idle", "stopped"}
         /\ StartKept(b)
<1> USE DEF DisplayInv, DisplayTypeOK, DisplayStages, Enter, Running, StartKept, Displays
<1>1. CASE DisplayReported(b)
  BY <1>1 DEF DisplayReported
<1>2. CASE ReportFailed(b)
  BY <1>2, Reaping DEF ReportFailed
<1>3. CASE SkipDisplay(b)
  BY <1>3 DEF SkipDisplay, Scanning
<1>4. CASE TryDisplay(b)
  BY <1>4 DEF TryDisplay, Scanning
<1>5. CASE NoDisplay(b)
  BY <1>5 DEF NoDisplay
<1>6. CASE SocketFound(b)
  BY <1>6 DEF SocketFound
<1>7. CASE ExitNoticed(b)
  BY <1>7 DEF ExitNoticed
<1>8. CASE PollsExhausted(b)
  BY <1>8 DEF PollsExhausted
<1>9. CASE GiveUpDisplay(b)
  BY <1>9, Reaping DEF GiveUpDisplay
<1> QED
  BY <1>1, <1>2, <1>3, <1>4, <1>5, <1>6, <1>7, <1>8, <1>9 DEF StartXvfb

LEMMA StopDisplayStep ==
  ASSUME DisplayInv, NEW b \in Backends, StopXvfb(b), UNCHANGED expired
  PROVE  /\ DisplayInv' /\ StartKept(b)
         /\ start'[b] = IF start[b] = "up" THEN "stopped" ELSE start[b]
<1> USE DEF DisplayInv, DisplayTypeOK, DisplayStages, Enter, Running, StartKept
<1>1. CASE start[b] # "up"
  BY <1>1 DEF StopXvfb, displayVars
<1>2. CASE start[b] = "up"
  BY <1>2, Reaping DEF StopXvfb
<1> QED BY <1>1, <1>2

LEMMA XvfbStep ==
  ASSUME DisplayInv, NEW b \in Backends, XvfbServes(b) \/ XvfbExits(b)
  PROVE  DisplayInv' /\ UNCHANGED start
<1> USE DEF DisplayInv, DisplayTypeOK, DisplayStages, Running
<1>1. CASE XvfbServes(b)
  BY <1>1 DEF XvfbServes, Displays
<1>2. CASE XvfbExits(b)
  BY <1>2 DEF XvfbExits, Vanish
<1> QED BY <1>1, <1>2

-----------------------------------------------------------------------------
(* DriverProcess.                                                          *)

\* What DriverProcess keeps by itself.
DriverInv == DriverTypeOK /\ \A b \in Backends : DriverStages(b) /\ Hosted(b)

CtlKept(b) == \A c \in Backends \ {b} : ctl'[c] = ctl[c]

\* No step of a driver starts a browser.
BrowsersKept == \A c \in Backends : browser'[c] \in {browser[c], None}

LEMMA PortStep ==
  ASSUME DriverInv, NEW b \in Backends, FreeLocalPort(b), UNCHANGED kind
  PROVE  DriverInv' /\ UNCHANGED <<ctl, session, browser>>
  BY DEF DriverInv, DriverTypeOK, DriverStages, Hosted, Driven, Alive, FreeLocalPort

LEMMA StartDriverStep ==
  ASSUME DriverInv, NEW b \in Backends, StartDriver(b), UNCHANGED kind
  PROVE  DriverInv' /\ CtlKept(b) /\ UNCHANGED <<session, browser>>
  BY DEF DriverInv, DriverTypeOK, DriverStages, Hosted, Driven, Alive, StartDriver,
     Control, CtlKept

\* A driver that goes without quitting its browsers is marked.
LEMMA Losing ==
  ASSUME DriverTypeOK, NEW b \in Backends, LoseBrowsers(b)
  PROVE  /\ lost' \in [Backends -> BOOLEAN]
         /\ \A c \in Backends : lost[c] => lost'[c]
         /\ \A c \in Backends : browser[c] = b => lost'[b]
  BY DEF DriverTypeOK, LoseBrowsers

LEMMA DriverStepKeeps ==
  ASSUME DriverInv, NEW b \in Backends, DriverStep(b), UNCHANGED kind
  PROVE  /\ DriverInv' /\ CtlKept(b) /\ UNCHANGED <<session, browser>>
         /\ ctl[b] \in {"wait", "grace", "term"} /\ ctl'[b] # "wait"
<1> USE DEF DriverInv, DriverTypeOK, DriverStages, Hosted, Driven, Alive, Control, CtlKept
<1>1. CASE Ready(b)
  BY <1>1 DEF Ready
<1>2. CASE NotReady(b)
  BY <1>2 DEF NotReady
<1>3. CASE Reaped(b)
  BY <1>3 DEF Reaped
<1>4. CASE Terminate(b)
  BY <1>4 DEF Terminate
<1>5. CASE Kill(b)
  <2>1. LoseBrowsers(b)
    BY <1>5 DEF Kill
  <2> QED BY <1>5, <2>1, Losing DEF Kill
<1> QED BY <1>1, <1>2, <1>3, <1>4, <1>5 DEF DriverStep

LEMMA StopStep ==
  ASSUME DriverInv, NEW b \in Backends, Stop(b), UNCHANGED kind
  PROVE  DriverInv' /\ CtlKept(b) /\ UNCHANGED <<session, browser>> /\ ctl'[b] = "grace"
  BY DEF DriverInv, DriverTypeOK, DriverStages, Hosted, Driven, Alive, Stop, Control, CtlKept

LEMMA SessionStep ==
  ASSUME DriverInv, NEW b \in Backends, UNCHANGED kind,
         SessionCreated(b) \/ SessionFailed(b) \/ Delete(b)
  PROVE  /\ DriverInv' /\ UNCHANGED ctl
         /\ \A c \in Backends \ {b} : session'[c] = session[c] /\ browser'[c] = browser[c]
<1> USE DEF DriverInv, DriverTypeOK, DriverStages, Hosted, Driven, Alive
<1>1. CASE SessionCreated(b)
  <2>1. PICK c \in Answers(port[b]) :
          /\ browser' = [browser EXCEPT ![b] = c]
          /\ session' = [session EXCEPT ![b] = TRUE]
          /\ UNCHANGED <<ctl, driver, port, lost>>
    BY <1>1 DEF SessionCreated
  <2>2. c \in Backends /\ driver[c] = "listening"
    BY <2>1 DEF Answers, Bound
  <2> QED BY <2>1, <2>2
<1>2. CASE SessionFailed(b) /\ UNCHANGED browser
  BY <1>2 DEF SessionFailed
<1>3. CASE SessionFailed(b) /\ browser' # browser
  <2>1. PICK c \in Answers(port[b]) : browser' = [browser EXCEPT ![b] = c]
    BY <1>3 DEF SessionFailed
  <2>2. c \in Backends /\ driver[c] = "listening"
    BY <2>1 DEF Answers, Bound
  <2> QED BY <1>3, <2>1, <2>2 DEF SessionFailed
<1>4. CASE Delete(b)
  BY <1>4 DEF Delete
<1> QED BY <1>1, <1>2, <1>3, <1>4

LEMMA DriverEnvironmentStep ==
  ASSUME DriverInv, NEW b \in Backends, UNCHANGED kind,
         \/ DriverListens(b) \/ DriverCrashes(b) \/ DriverHangs(b)
         \/ DriverTerminates(b) \/ BrowserExits(b)
  PROVE  DriverInv' /\ UNCHANGED <<ctl, session>> /\ BrowsersKept
<1> USE DEF DriverInv, DriverTypeOK, DriverStages, Hosted, Driven, Alive, BrowsersKept
<1>1. CASE DriverListens(b)
  BY <1>1 DEF DriverListens
<1>2. CASE DriverCrashes(b)
  <2>1. LoseBrowsers(b)
    BY <1>2 DEF DriverCrashes
  <2> QED BY <1>2, <2>1, Losing DEF DriverCrashes
<1>3. CASE DriverHangs(b)
  BY <1>3 DEF DriverHangs
<1>4. CASE DriverTerminates(b)
  BY <1>4 DEF DriverTerminates, QuitBrowsers
<1>5. CASE BrowserExits(b)
  BY <1>5 DEF BrowserExits
<1> QED BY <1>1, <1>2, <1>3, <1>4, <1>5

-----------------------------------------------------------------------------
(* Backend.                                                                *)

\* The part of the invariant that is about the constructors and Close.
OwnTypeOK ==
  /\ kind \in [Backends -> Engines]
  /\ place \in [Backends -> Building \cup Closing \cup {"new", "up", "closed"}]
  /\ profile \in [Backends -> {"none", "own", "custom", "removed"}]
  /\ scratch \in [Backends -> SUBSET {"patched", "log"}]
  /\ auth \in [Backends -> BOOLEAN]
  /\ env \in Inherited \cup {None}
  /\ saved \in [Backends -> Inherited \cup {None}]

Rest(b) == Settled(b) /\ Controlled(b) /\ Inventory(b) /\ OwnBrowser(b)

OwnInv == OwnTypeOK /\ \A b \in Backends : Rest(b)

LEMMA Parts == IInv => DisplayInv /\ DriverInv /\ OwnInv
  BY DEF IInv, TypeOK, DisplayInv, DriverInv, OwnInv, OwnTypeOK, Rest

LEMMA Together == DisplayInv' /\ DriverInv' /\ OwnInv' => IInv'
  BY DEF IInv, TypeOK, DisplayInv, DriverInv, OwnInv, OwnTypeOK, Rest

LEMMA DisplayFrame == DisplayInv /\ UNCHANGED <<displayVars, expired>> => DisplayInv'
  BY DEF DisplayInv, DisplayTypeOK, DisplayStages, Running, displayVars

LEMMA DriverFrame == DriverInv /\ UNCHANGED <<driverVars, kind>> => DriverInv'
  BY DEF DriverInv, DriverTypeOK, DriverStages, Hosted, Driven, Alive, driverVars

LEMMA InitInvariant == Init => IInv
  BY DEF Init, DisplayInit, DriverInit, IInv, TypeOK, DisplayTypeOK, DriverTypeOK,
     DisplayStages, DriverStages, Settled, Controlled, Inventory, OwnBrowser, Hosted,
     Building, Closing, Displays, Running, Alive, Driven

\* Steps that touch neither a display nor a driver.
LEMMA OwnStep ==
  ASSUME IInv, NEW b \in Backends,
         \/ PrepareWebDriver(b) \/ PrepareGeckoDriver(b) \/ PrepareChromedp(b)
         \/ SkipXvfb(b) \/ HaveDisplay(b) \/ LackDisplay(b)
         \/ EnableProxyAuth(b) \/ InstallStealth(b) \/ Close(b) \/ Cleanup(b)
  PROVE  IInv'
<1>1. DisplayInv /\ DriverInv /\ OwnInv
  BY Parts
<1>2. UNCHANGED <<displayVars, expired, driverVars, kind>>
  BY DEF PrepareWebDriver, PrepareGeckoDriver, PrepareChromedp, SkipXvfb, HaveDisplay,
     LackDisplay, EnableProxyAuth, InstallStealth, Close, Cleanup, ProcsUnchanged,
     RestUnchanged
<1>3. DisplayInv' /\ DriverInv'
  BY <1>1, <1>2, DisplayFrame, DriverFrame
<1>4. OwnInv'
  <2> USE <1>1, <1>2 DEF OwnInv, OwnTypeOK, Rest, Settled, Controlled, Inventory,
      OwnBrowser, Building, Closing, Driven, displayVars, driverVars, At, Goto, Fail,
      RestUnchanged, ProcsUnchanged, Kinds
  <2>1. CASE PrepareWebDriver(b)
    BY <2>1 DEF PrepareWebDriver, PrepareUserDataDir
  <2>2. CASE PrepareGeckoDriver(b)
    BY <2>2 DEF PrepareGeckoDriver
  <2>3. CASE PrepareChromedp(b)
    BY <2>3 DEF PrepareChromedp, PrepareUserDataDir
  <2>4. CASE SkipXvfb(b) \/ HaveDisplay(b)
    BY <2>4 DEF SkipXvfb, HaveDisplay, AfterDisplay
  <2>5. CASE LackDisplay(b)
    BY <2>5 DEF LackDisplay
  <2>6. CASE EnableProxyAuth(b)
    <3>1. CASE Goto(b, AfterAuth(b)) /\ UNCHANGED auth
      BY <2>6, <3>1 DEF EnableProxyAuth, AfterAuth
    <3>2. CASE Driven(b) /\ Goto(b, AfterAuth(b)) /\ auth' = [auth EXCEPT ![b] = TRUE]
      BY <2>6, <3>2 DEF EnableProxyAuth, AfterAuth
    <3>3. CASE Fail(b) /\ UNCHANGED auth
      BY <2>6, <3>3 DEF EnableProxyAuth
    <3> QED BY <2>6, <3>1, <3>2, <3>3 DEF EnableProxyAuth
  <2>7. CASE InstallStealth(b)
    BY <2>7 DEF InstallStealth
  <2>8. CASE Close(b)
    BY <2>8 DEF Close
  <2>9. CASE Cleanup(b)
    BY <2>9 DEF Cleanup
  <2> QED BY <2>1, <2>2, <2>3, <2>4, <2>5, <2>6, <2>7, <2>8, <2>9
<1> QED BY <1>3, <1>4, Together

\* Steps of StartXvfb and of stopDisplay.
LEMMA XvfbUseStep ==
  ASSUME IInv, NEW b \in Backends,
         NeedXvfb(b) \/ AwaitXvfb(b) \/ StopDisplay(b)
  PROVE  IInv'
<1>1. DisplayInv /\ DriverInv /\ OwnInv
  BY Parts
<1>2. DriverInv'
  BY <1>1, DriverFrame DEF NeedXvfb, AwaitXvfb, StopDisplay, ownVars
<1> USE DEF OwnInv, OwnTypeOK, Rest, Settled, Controlled, Inventory, OwnBrowser,
    Building, Closing, Driven, driverVars, ownVars, At, Goto, StartKept
<1>3. CASE NeedXvfb(b)
  <2>1. DisplayInv' /\ start'[b] \in {"fd", "scan"} /\ StartKept(b)
    BY <1>1, <1>3, FirstDisplayStep DEF NeedXvfb
  <2>2. OwnInv'
    BY <1>1, <1>3, <2>1 DEF NeedXvfb
  <2> QED BY <1>2, <2>1, <2>2, Together
<1>4. CASE AwaitXvfb(b)
  <2>1. DisplayInv' /\ start'[b] # "stopped" /\ StartKept(b)
    BY <1>1, <1>4, DisplayStep DEF AwaitXvfb
  <2>2. OwnInv'
    BY <1>1, <1>4, <2>1 DEF AwaitXvfb
  <2> QED BY <1>2, <2>1, <2>2, Together
<1>5. CASE StopDisplay(b)
  <2>1. /\ DisplayInv' /\ StartKept(b)
        /\ start'[b] = IF start[b] = "up" THEN "stopped" ELSE start[b]
    BY <1>1, <1>5, StopDisplayStep DEF StopDisplay
  <2>2. OwnInv'
    BY <1>1, <1>5, <2>1 DEF StopDisplay
  <2> QED BY <1>2, <2>1, <2>2, Together
<1> QED BY <1>3, <1>4, <1>5

\* Steps of the driver, the session and the browser.
LEMMA DriverUseStep ==
  ASSUME IInv, NEW b \in Backends,
         \/ ReservePort(b) \/ LaunchDriver(b) \/ CreateSession(b) \/ LaunchBrowser(b)
         \/ CloseWebDriver(b) \/ CloseGeckoDriver(b) \/ CloseChromedp(b) \/ StopDriver(b)
  PROVE  IInv'
<1>1. DisplayInv /\ DriverInv /\ OwnInv
  BY Parts
<1>2. UNCHANGED <<displayVars, expired, kind>>
  BY DEF ReservePort, LaunchDriver, CreateSession, LaunchBrowser, CloseWebDriver,
     CloseGeckoDriver, CloseChromedp, StopDriver, RestUnchanged
<1>3. DisplayInv' /\ UNCHANGED start
  BY <1>1, <1>2, DisplayFrame DEF displayVars
<1> SUFFICES DriverInv' /\ OwnInv'
  BY <1>3, Together
<1> USE DEF OwnInv, OwnTypeOK, Rest, Settled, Controlled, Inventory, OwnBrowser,
    Building, Closing, Driven, At, Goto, Fail, RestUnchanged
<1>4. CASE ReservePort(b)
  <2>1. DriverInv' /\ UNCHANGED <<ctl, session, browser>>
    BY <1>1, <1>2, <1>4, PortStep, DriverFrame DEF ReservePort, driverVars
  <2> QED BY <1>1, <1>3, <1>4, <2>1 DEF ReservePort
<1>5. CASE LaunchDriver(b)
  <2>1. DriverInv' /\ CtlKept(b) /\ UNCHANGED <<session, browser>>
    BY <1>1, <1>2, <1>5, StartDriverStep, DriverStepKeeps, DriverFrame
       DEF LaunchDriver, driverVars, CtlKept
  <2>2. \/ place'[b] = "close" /\ UNCHANGED ctl /\ ctl[b] \in {"idle", "done"}
        \/ place'[b] = "session" /\ UNCHANGED ctl /\ ctl[b] = "up"
        \/ UNCHANGED place
    BY <1>1, <1>5 DEF LaunchDriver, driverVars
  <2>3. UNCHANGED <<kind, profile, auth, env, saved>> /\ place[b] = "driver"
        /\ (place' = place \/ \E p \in {"close", "session"} : place' = [place EXCEPT ![b] = p])
        /\ scratch' \in [Backends -> SUBSET {"patched", "log"}]
        /\ \A c \in Backends \ {b} : scratch'[c] = scratch[c]
    BY <1>1, <1>5 DEF LaunchDriver, LogDir
  <2> QED BY <1>1, <1>3, <2>1, <2>2, <2>3 DEF CtlKept
<1>6. CASE CreateSession(b)
  <2>1. /\ DriverInv' /\ UNCHANGED ctl
        /\ \A c \in Backends \ {b} : session'[c] = session[c] /\ browser'[c] = browser[c]
    BY <1>1, <1>2, <1>6, SessionStep DEF CreateSession
  <2>2. place'[b] = "close" \/ place'[b] = "auth"
    BY <1>1, <1>6 DEF CreateSession
  <2>3. \E p \in {"close", "auth"} : place' = [place EXCEPT ![b] = p]
    BY <1>6 DEF CreateSession
  <2> QED BY <1>1, <1>2, <1>3, <1>6, <2>1, <2>3 DEF CreateSession
<1>7. CASE LaunchBrowser(b)
  <2>1. DriverInv'
    BY <1>1, <1>7 DEF LaunchBrowser, DriverInv, DriverTypeOK, DriverStages, Hosted, Alive
  <2>2. \/ Goto(b, "stealth") /\ browser' = [browser EXCEPT ![b] = b]
        \/ Goto(b, "close") /\ browser' = [browser EXCEPT ![b] = b]
        \/ Goto(b, "close") /\ UNCHANGED browser
    BY <1>7 DEF LaunchBrowser
  <2>3. browser \in [Backends -> Backends \cup {None}]
    BY <1>1 DEF DriverInv, DriverTypeOK
  <2> QED BY <1>1, <1>3, <1>7, <2>1, <2>2, <2>3 DEF LaunchBrowser
<1>8. CASE CloseWebDriver(b) \/ CloseGeckoDriver(b)
  <2>1. Delete(b)
    BY <1>8 DEF CloseWebDriver, CloseGeckoDriver
  <2>2. /\ DriverInv' /\ UNCHANGED ctl
        /\ \A c \in Backends \ {b} : session'[c] = session[c] /\ browser'[c] = browser[c]
    BY <1>1, <1>2, <2>1, SessionStep
  <2>3. ~session'[b]
    BY <1>1, <2>1 DEF Delete, DriverInv, DriverTypeOK
  <2>4. CASE CloseWebDriver(b)
    BY <1>1, <1>3, <2>2, <2>3, <2>4 DEF CloseWebDriver
  <2>5. CASE CloseGeckoDriver(b)
    BY <1>1, <1>3, <2>2, <2>3, <2>5 DEF CloseGeckoDriver
  <2> QED BY <1>8, <2>2, <2>4, <2>5
<1>9. CASE CloseChromedp(b)
  <2>1. DriverInv'
    BY <1>1, <1>9 DEF CloseChromedp, DriverInv, DriverTypeOK, DriverStages, Hosted, Alive
  <2> QED BY <1>1, <1>3, <1>9, <2>1 DEF CloseChromedp, DriverInv, DriverTypeOK
<1>10. CASE StopDriver(b)
  <2>1. DriverInv' /\ CtlKept(b) /\ UNCHANGED <<session, browser>>
    BY <1>1, <1>2, <1>10, StopStep, DriverStepKeeps, DriverFrame
       DEF StopDriver, driverVars, CtlKept
  <2>2. \/ Goto(b, "cleanup") /\ UNCHANGED ctl /\ ctl[b] \in {"idle", "done"}
        \/ UNCHANGED place /\ ctl'[b] # "wait"
    BY <1>1, <1>2, <1>10, StopStep, DriverStepKeeps DEF StopDriver, driverVars
  <2> QED BY <1>1, <1>3, <1>10, <2>1, <2>2 DEF StopDriver, CtlKept
<1> QED BY <1>4, <1>5, <1>6, <1>7, <1>8, <1>9, <1>10

\* A context that ends, and steps of Xvfb, of a driver and of a browser.
LEMMA OutsideStep ==
  ASSUME IInv, NEW b \in Backends, Expire(b) \/ Environment(b)
  PROVE  IInv'
<1>1. DisplayInv /\ DriverInv /\ OwnInv
  BY Parts
<1>2. UNCHANGED ownVars
  BY DEF Expire, Environment
<1> USE DEF OwnInv, OwnTypeOK, Rest, Settled, Controlled, Inventory, OwnBrowser,
    Building, Closing, Driven, ownVars
<1>3. CASE Expire(b)
  <2>1. DisplayInv' /\ UNCHANGED start
    BY <1>1, <1>3 DEF Expire, DisplayInv, DisplayTypeOK, DisplayStages, Running, displayVars
  <2>2. DriverInv' /\ UNCHANGED <<ctl, session, browser>>
    BY <1>1, <1>2, <1>3, DriverFrame DEF Expire, driverVars
  <2>3. OwnInv'
    BY <1>1, <1>2, <2>1, <2>2
  <2> QED BY <2>1, <2>2, <2>3, Together
<1>4. CASE (XvfbServes(b) \/ XvfbExits(b)) /\ UNCHANGED <<driverVars, ownVars>>
  <2>1. DisplayInv' /\ UNCHANGED start
    BY <1>1, <1>4, XvfbStep
  <2>2. DriverInv' /\ UNCHANGED <<ctl, session, browser>>
    BY <1>1, <1>4, DriverFrame DEF driverVars
  <2>3. OwnInv'
    BY <1>1, <1>2, <2>1, <2>2
  <2> QED BY <2>1, <2>2, <2>3, Together
<1>5. CASE /\ \/ DriverListens(b) \/ DriverCrashes(b) \/ DriverHangs(b)
              \/ DriverTerminates(b) \/ BrowserExits(b)
           /\ UNCHANGED <<displayVars, expired, ownVars>>
  <2>1. DisplayInv' /\ UNCHANGED start
    BY <1>1, <1>5, DisplayFrame DEF displayVars
  <2>2. DriverInv' /\ UNCHANGED <<ctl, session>> /\ BrowsersKept
    BY <1>1, <1>2, <1>5, DriverEnvironmentStep
  <2>3. OwnInv'
    BY <1>1, <1>2, <2>1, <2>2 DEF BrowsersKept
  <2> QED BY <2>1, <2>2, <2>3, Together
<1> QED BY <1>3, <1>4, <1>5 DEF Environment

LEMMA NextInvariant == IInv /\ [Next]_vars => IInv'
<1> SUFFICES ASSUME IInv, [Next]_vars PROVE IInv'
  OBVIOUS
<1>1. CASE UNCHANGED vars
  <2>1. DisplayInv /\ DriverInv /\ OwnInv
    BY Parts
  <2>2. DisplayInv' /\ DriverInv'
    BY <1>1, <2>1, DisplayFrame, DriverFrame DEF vars, ownVars
  <2>3. OwnInv'
    BY <1>1, <2>1 DEF vars, ownVars, displayVars, driverVars, OwnInv, OwnTypeOK, Rest,
       Settled, Controlled, Inventory, OwnBrowser, Driven
  <2> QED BY <2>2, <2>3, Together
<1>2. ASSUME NEW b \in Backends, Construct(b) PROVE IInv'
  BY <1>2, OwnStep, XvfbUseStep, DriverUseStep DEF Construct
<1>3. ASSUME NEW b \in Backends, Close(b) \/ TearDown(b) PROVE IInv'
  BY <1>3, OwnStep, XvfbUseStep, DriverUseStep DEF TearDown
<1>4. ASSUME NEW b \in Backends, Expire(b) \/ Environment(b) PROVE IInv'
  BY <1>4, OutsideStep
<1>5. CASE AllDone
  BY <1>1, <1>5 DEF AllDone
<1> QED BY <1>1, <1>2, <1>3, <1>4, <1>5 DEF Next

\* The invariant behind the theorems below: the stages of the display server
\* and of the driver process, what each stage of a constructor and of Close
\* holds, and who runs each browser.
THEOREM BackendInvariant == Spec => []IInv
<1>1. Init => IInv
  BY InitInvariant
<1>2. IInv /\ [Next]_vars => IInv'
  BY NextInvariant
<1> QED BY <1>1, <1>2, PTL DEF Spec

\* A failed construction and a finished Close leave no Xvfb and no driver
\* unreaped, no directory but the user's own, no session and no connection,
\* whatever the processes do and however many browsers are built at a time.
THEOREM NothingIsLeftBehind == Spec => []NothingLeftBehind
<1>1. IInv => NothingLeftBehind
  <2> SUFFICES ASSUME IInv, NEW b \in Backends, At(b, "closed")
               PROVE  /\ xvfb[b] \in {"none", "reaped"}
                      /\ driver[b] \in {"none", "reaped"}
                      /\ profile[b] # "own" /\ scratch[b] = {} /\ ~auth[b] /\ ~session[b]
    BY DEF NothingLeftBehind
  <2>1. xvfb[b] \in {"none", "reaped"}
    BY DEF IInv, Settled, DisplayStages, At
  <2>2. driver[b] \in {"none", "reaped"}
    BY DEF IInv, Controlled, DriverStages, At
  <2>3. profile[b] # "own" /\ scratch[b] = {} /\ ~auth[b] /\ ~session[b]
    BY DEF IInv, Inventory, At
  <2> QED BY <2>1, <2>2, <2>3
<1> QED BY <1>1, BackendInvariant, PTL

\* Whoever owns a display owns an Xvfb whose exit nobody has received yet, so
\* that XvfbProcess.Stop does not wait in vain.
THEOREM OwnedXvfbIsUnreaped == Spec => []OwnedMeansUnreaped
<1>1. IInv => OwnedMeansUnreaped
  BY DEF IInv, DisplayStages, OwnedMeansUnreaped
<1> QED BY <1>1, BackendInvariant, PTL

\* A browser outlives its Close only when its driver hung or crashed, or when
\* the driver that runs it is another backend's.
THEOREM OrphansHaveACause == Spec => []NoNeedlessOrphan
<1>1. IInv => NoNeedlessOrphan
  <2> SUFFICES ASSUME IInv, NEW b \in Backends, At(b, "closed"), browser[b] # None
               PROVE  Orphan(b)
    BY DEF NoNeedlessOrphan
  <2>1. Driven(b)
    BY DEF IInv, OwnBrowser, At
  <2>2. driver[b] \in {"none", "reaped"}
    BY DEF IInv, Controlled, DriverStages, At
  <2>3. browser[b] = b => lost[b]
    BY <2>1, <2>2 DEF IInv, Hosted, TypeOK, DriverTypeOK
  <2> QED BY <2>1, <2>3 DEF Orphan
<1> QED BY <1>1, BackendInvariant, PTL

\* The profile directory and the display of a browser are there as long as the
\* browser runs, unless it is an orphan.
THEOREM BrowsersKeepTheirGround == Spec => []BrowserKeepsItsGround
<1>1. IInv => BrowserKeepsItsGround
  <2> SUFFICES ASSUME IInv, NEW b \in Backends, browser[b] # None, ~Orphan(b)
               PROVE  profile[b] \in {"own", "custom"} /\ start[b] # "stopped"
    BY DEF BrowserKeepsItsGround
  <2>1. CASE ~Driven(b)
    BY <2>1 DEF IInv, OwnBrowser, Inventory, Settled, Building, Closing
  <2>2. CASE Driven(b)
    <3>1. driver[b] \in {"listening", "hung"}
      BY <2>2 DEF IInv, Hosted, Orphan
    <3>2. ctl[b] \notin {"idle", "done"}
      BY <3>1 DEF IInv, DriverStages
    <3>3. place[b] \in {"driver", "session", "auth", "stealth", "up", "close", "stop"}
      BY <2>2, <3>2 DEF IInv, Controlled, TypeOK, Building, Closing
    <3> QED BY <3>3 DEF IInv, Inventory, Settled, Building, Closing
  <2> QED BY <2>1, <2>2
<1> QED BY <1>1, BackendInvariant, PTL

-----------------------------------------------------------------------------
(* DISPLAY.                                                                *)

\* Every backend has read DISPLAY before anybody could change it.
DisplaySaved == \A b \in Backends : ~At(b, "new") => saved[b] = env

LEMMA DisplaySavedStep ==
  ASSUME IInv, DisplaySaved, [Next]_vars
  PROVE  DisplaySaved' /\ env' = env
<1> USE DEF DisplaySaved, At, Goto, Fail, IInv, TypeOK, RestUnchanged, ProcsUnchanged, ownVars
<1>1. CASE UNCHANGED ownVars
  BY <1>1
<1>2. ASSUME NEW b \in Backends,
             PrepareWebDriver(b) \/ PrepareGeckoDriver(b) \/ PrepareChromedp(b)
      PROVE  DisplaySaved' /\ env' = env
  <2>1. env' = env /\ saved' = [saved EXCEPT ![b] = env]
        /\ \A c \in Backends \ {b} : place'[c] = place[c]
    BY <1>2 DEF PrepareWebDriver, PrepareGeckoDriver, PrepareChromedp
  <2> QED BY <2>1
<1>3. ASSUME NEW b \in Backends, StopDisplay(b) PROVE DisplaySaved' /\ env' = env
  BY <1>3 DEF StopDisplay
<1>4. ASSUME NEW b \in Backends,
             \/ ReservePort(b) \/ SkipXvfb(b) \/ HaveDisplay(b) \/ LackDisplay(b)
             \/ LaunchDriver(b) \/ CreateSession(b) \/ LaunchBrowser(b)
             \/ EnableProxyAuth(b) \/ InstallStealth(b) \/ Close(b)
             \/ CloseWebDriver(b) \/ CloseGeckoDriver(b) \/ CloseChromedp(b)
             \/ StopDriver(b) \/ Cleanup(b)
      PROVE  DisplaySaved' /\ env' = env
  <2>1. UNCHANGED <<env, saved>> /\ place[b] # "new"
        /\ \A c \in Backends \ {b} : place'[c] = place[c]
    BY <1>4 DEF ReservePort, SkipXvfb, HaveDisplay, LackDisplay, LaunchDriver,
       CreateSession, LaunchBrowser, EnableProxyAuth, InstallStealth, Close,
       CloseWebDriver, CloseGeckoDriver, CloseChromedp, StopDriver, Cleanup
  <2> QED BY <2>1
<1>5. ASSUME NEW b \in Backends,
             NeedXvfb(b) \/ AwaitXvfb(b) \/ Expire(b) \/ Environment(b)
      PROVE  UNCHANGED ownVars
  BY <1>5 DEF NeedXvfb, AwaitXvfb, Expire, Environment
<1>6. CASE UNCHANGED vars
  BY <1>1, <1>6 DEF vars
<1> QED BY <1>1, <1>2, <1>3, <1>4, <1>5, <1>6 DEF Next, Construct, TearDown, AllDone

\* However many browsers are built and closed at a time, with or without an Xvfb
\* of their own, the process keeps the DISPLAY it was started with.
THEOREM DisplayIsKept == Spec => DisplayVariableKept
<1>1. Init => DisplaySaved
  BY DEF Init, DisplaySaved, At
<1>2. IInv /\ DisplaySaved /\ [Next]_vars => DisplaySaved' /\ [env' = env]_vars
  BY DisplaySavedStep
<1> QED BY <1>1, <1>2, BackendInvariant, PTL DEF Spec, DisplayVariableKept

-----------------------------------------------------------------------------
(* Backend implements BackendLifecycle.                                    *)

\* What the abstract view of one backend depends on.
Frame(b) == <<place[b], scratch[b], profile[b], start[b], ctl[b], session[b], auth[b]>>

Others(b) == \A c \in Backends \ {b} : UNCHANGED Frame(c)

LEMMA SameView ==
  ASSUME NEW b \in Backends, UNCHANGED Frame(b)
  PROVE  Stage(b)' = Stage(b) /\ Holding(b)' = Holding(b)
  BY DEF Frame, Stage, Holding, At

\* Only the view of b changes.
LEMMA OneViewChanges ==
  ASSUME IInv', NEW b \in Backends, Others(b)
  PROVE  /\ [c \in Backends |-> Stage(c)]' = [[c \in Backends |-> Stage(c)] EXCEPT ![b] = Stage(b)']
         /\ [c \in Backends |-> Holding(c)]' = [[c \in Backends |-> Holding(c)] EXCEPT ![b] = Holding(b)']
         /\ Lifecycle!Gather(b)
<1>1. \A c \in Backends \ {b} : Stage(c)' = Stage(c) /\ Holding(c)' = Holding(c)
  BY SameView DEF Others
<1>2. \A c \in Backends : Holding(c)' \subseteq
        {"profile", "patched", "log", "display", "driver", "session", "auth"}
  BY DEF IInv, TypeOK, Holding
<1> QED BY <1>1, <1>2 DEF Lifecycle!Gather, Lifecycle!Keep

\* The moves of b that the life cycle knows.
Moved(b) ==
  \/ place[b] \in Building \cup {"new"} /\ place'[b] \in Building
  \/ place[b] \in Building /\ place'[b] = "up"
  \/ place[b] = "new" /\ place'[b] = "closed" /\ Holding(b)' = Holding(b)
  \/ place[b] \in Building \cup {"new"} /\ place'[b] \in Closing
  \/ place[b] = "up" /\ place'[b] \in Closing /\ Holding(b)' = Holding(b)
  \/ place[b] \in Closing /\ place'[b] \in Closing /\ Holding(b)' \subseteq Holding(b)
  \/ place[b] \in Closing /\ place'[b] = "closed" /\ Holding(b)' = {}

LEMMA MovesAreSteps ==
  ASSUME IInv', NEW b \in Backends, Others(b), Moved(b)
  PROVE  Lifecycle!Next
<1>1. /\ place[b] = "new" => Stage(b) = "new"
      /\ place[b] \in Building => Stage(b) = "building"
      /\ place[b] \in Closing => Stage(b) = "closing"
      /\ place[b] = "up" => Stage(b) = "live"
  BY DEF Stage, At, Building, Closing
<1>2. /\ place'[b] \in Building => Stage(b)' = "building"
      /\ place'[b] \in Closing => Stage(b)' = "closing"
      /\ place'[b] = "up" => Stage(b)' = "live"
      /\ place'[b] = "closed" => Stage(b)' = "closed"
  BY DEF Stage, At, Building, Closing
<1> USE <1>1, <1>2, OneViewChanges DEF Lifecycle!Become, Lifecycle!Next
<1>3. CASE place[b] \in Building \cup {"new"} /\ place'[b] \in Building
  BY <1>3 DEF Lifecycle!Build
<1>4. CASE place[b] \in Building /\ place'[b] = "up"
  BY <1>4 DEF Lifecycle!Deliver
<1>5. CASE place[b] = "new" /\ place'[b] = "closed" /\ Holding(b)' = Holding(b)
  BY <1>5 DEF Lifecycle!Refuse
<1>6. CASE place[b] \in Building \cup {"new"} /\ place'[b] \in Closing
  BY <1>6 DEF Lifecycle!Abandon
<1>7. CASE place[b] = "up" /\ place'[b] \in Closing /\ Holding(b)' = Holding(b)
  BY <1>7 DEF Lifecycle!Close
<1>8. CASE place[b] \in Closing /\ place'[b] \in Closing /\ Holding(b)' \subseteq Holding(b)
  <2>1. [c \in Backends |-> Holding(c)]'[b] = Holding(b)'
    OBVIOUS
  <2>2. Lifecycle!GiveUp(b)
    BY <1>8, <2>1, OneViewChanges DEF Lifecycle!GiveUp
  <2>3. [c \in Backends |-> Stage(c)]' = [c \in Backends |-> Stage(c)]
    BY <1>8
  <2> QED BY <1>8, <2>2, <2>3 DEF Lifecycle!Release
<1>9. CASE place[b] \in Closing /\ place'[b] = "closed" /\ Holding(b)' = {}
  BY <1>9 DEF Lifecycle!Done, Lifecycle!GiveAll
<1> QED BY <1>3, <1>4, <1>5, <1>6, <1>7, <1>8, <1>9 DEF Moved

\* A constructor gathers resources, hands over, or turns to Close.
LEMMA ConstructMoves ==
  ASSUME IInv, IInv', NEW b \in Backends, Construct(b)
  PROVE  Others(b) /\ Moved(b)
<1>1. DisplayInv /\ DriverInv /\ OwnInv
  BY Parts
<1> USE <1>1 DEF OwnInv, OwnTypeOK, Others, Frame, Moved, Building, Closing, At, Goto, Fail,
    RestUnchanged, ProcsUnchanged, displayVars, driverVars, ownVars
<1>2. CASE PrepareWebDriver(b)
  BY <1>2 DEF PrepareWebDriver, PrepareUserDataDir, Holding
<1>3. CASE PrepareGeckoDriver(b)
  BY <1>3 DEF PrepareGeckoDriver, Holding
<1>4. CASE PrepareChromedp(b)
  BY <1>4 DEF PrepareChromedp, PrepareUserDataDir, Holding
<1>5. CASE ReservePort(b)
  BY <1>5 DEF ReservePort, FreeLocalPort
<1>6. CASE SkipXvfb(b) \/ HaveDisplay(b)
  BY <1>6 DEF SkipXvfb, HaveDisplay, AfterDisplay
<1>7. CASE NeedXvfb(b)
  BY <1>7, FirstDisplayStep DEF NeedXvfb, StartKept
<1>8. CASE AwaitXvfb(b)
  BY <1>8, DisplayStep DEF AwaitXvfb, StartKept
<1>9. CASE LackDisplay(b)
  BY <1>9 DEF LackDisplay
<1>10. CASE LaunchDriver(b)
  <2>1. CtlKept(b) /\ UNCHANGED session
    BY <1>10, StartDriverStep, DriverStepKeeps DEF LaunchDriver, CtlKept
  <2>2. place' = place \/ \E p \in {"close", "session"} : place' = [place EXCEPT ![b] = p]
    BY <1>10 DEF LaunchDriver
  <2>3. \A c \in Backends \ {b} : scratch'[c] = scratch[c]
    BY <1>10 DEF LaunchDriver
  <2>4. At(b, "driver") /\ UNCHANGED <<start, profile, auth>>
    BY <1>10 DEF LaunchDriver
  <2>5. Others(b)
    BY <2>1, <2>2, <2>3, <2>4 DEF CtlKept
  <2>6. Moved(b)
    BY <2>2, <2>4
  <2> QED BY <2>5, <2>6
<1>11. CASE CreateSession(b)
  <2>1. UNCHANGED ctl /\ \A c \in Backends \ {b} : session'[c] = session[c]
    BY <1>11, SessionStep DEF CreateSession
  <2>2. \E p \in {"close", "auth"} : place' = [place EXCEPT ![b] = p]
    BY <1>11 DEF CreateSession
  <2> QED BY <1>11, <2>1, <2>2 DEF CreateSession
<1>12. CASE LaunchBrowser(b)
  BY <1>12 DEF LaunchBrowser
<1>13. CASE EnableProxyAuth(b)
  <2>1. \E p \in {"close", "stealth", "up"} : place' = [place EXCEPT ![b] = p]
    BY <1>13 DEF EnableProxyAuth, AfterAuth
  <2>2. \A c \in Backends \ {b} : auth'[c] = auth[c]
    BY <1>13 DEF EnableProxyAuth
  <2> QED BY <1>13, <2>1, <2>2 DEF EnableProxyAuth
<1>14. CASE InstallStealth(b)
  BY <1>14 DEF InstallStealth
<1> QED
  BY <1>2, <1>3, <1>4, <1>5, <1>6, <1>7, <1>8, <1>9, <1>10, <1>11, <1>12, <1>13, <1>14
     DEF Construct

\* Close gives back, and the last step of it returns.
LEMMA CloseMoves ==
  ASSUME IInv, IInv', NEW b \in Backends, Close(b) \/ TearDown(b)
  PROVE  Others(b) /\ Moved(b)
<1>1. DisplayInv /\ DriverInv /\ OwnInv
  BY Parts
<1> USE <1>1 DEF OwnInv, OwnTypeOK, Others, Frame, Moved, Building, Closing, At, Goto,
    RestUnchanged, ProcsUnchanged, displayVars, driverVars
<1>2. CASE Close(b)
  BY <1>2 DEF Close, Holding
<1>3. CASE CloseWebDriver(b) \/ CloseGeckoDriver(b)
  <2>1. Delete(b) /\ place[b] = "close" /\ place' = [place EXCEPT ![b] = "stop"]
        /\ UNCHANGED <<start, profile, scratch>>
        /\ (UNCHANGED auth \/ auth' = [auth EXCEPT ![b] = FALSE])
    BY <1>3 DEF CloseWebDriver, CloseGeckoDriver
  <2>2. UNCHANGED ctl /\ session' = [session EXCEPT ![b] = FALSE]
    BY <2>1 DEF Delete
  <2>3. Holding(b)' \subseteq Holding(b)
    BY <2>1, <2>2 DEF Holding, DriverInv, DriverTypeOK
  <2> QED BY <2>1, <2>2, <2>3
<1>4. CASE CloseChromedp(b)
  BY <1>4 DEF CloseChromedp, Holding
<1>5. CASE StopDriver(b)
  <2>1. CtlKept(b) /\ UNCHANGED session
    BY <1>5, StopStep, DriverStepKeeps DEF StopDriver, CtlKept
  <2>2. place[b] = "stop" /\ UNCHANGED <<start, profile, scratch, auth>>
        /\ (UNCHANGED place \/ place' = [place EXCEPT ![b] = "cleanup"])
    BY <1>5 DEF StopDriver
  <2>3. ctl'[b] \in {"up", "grace", "term"} => ctl[b] \in {"up", "grace", "term"}
    <3>1. ctl[b] # "wait"
      BY <2>2 DEF Rest, Controlled
    <3> QED BY <1>5, <3>1 DEF StopDriver, Stop, DriverStep, Ready, NotReady, Reaped,
            Terminate, Kill, Control, DriverInv, DriverTypeOK
  <2>4. Holding(b)' \subseteq Holding(b)
    BY <2>1, <2>2, <2>3 DEF Holding
  <2> QED BY <2>1, <2>2, <2>4 DEF CtlKept
<1>6. CASE Cleanup(b)
  BY <1>6 DEF Cleanup, Holding
<1>7. CASE StopDisplay(b)
  <2>1. /\ place[b] = "release" /\ place' = [place EXCEPT ![b] = "closed"]
        /\ UNCHANGED <<ctl, session, profile, scratch, auth>>
    BY <1>7 DEF StopDisplay
  <2>2. /\ StartKept(b)
        /\ start'[b] = IF start[b] = "up" THEN "stopped" ELSE start[b]
    BY <1>7, StopDisplayStep DEF StopDisplay
  <2>3. /\ ctl[b] \in {"idle", "done"} /\ ~session[b]
        /\ profile[b] # "own" /\ scratch[b] = {} /\ ~auth[b]
    BY <2>1 DEF Rest, Controlled, Inventory
  <2>4. Holding(b)' = {}
    BY <2>1, <2>2, <2>3 DEF Holding
  <2> QED BY <2>1, <2>2, <2>4 DEF StartKept
<1> QED BY <1>2, <1>3, <1>4, <1>5, <1>6, <1>7 DEF TearDown

\* What happens around a backend does not change what it has to give back.
LEMMA OutsideIsInvisible ==
  ASSUME IInv, NEW b \in Backends, Expire(b) \/ Environment(b)
  PROVE  \A c \in Backends : UNCHANGED Frame(c)
<1>1. DisplayInv /\ DriverInv
  BY Parts
<1>2. UNCHANGED <<start, ctl, session, ownVars>>
  BY <1>1, XvfbStep, DriverEnvironmentStep
     DEF Expire, Environment, displayVars, driverVars, ownVars
<1> QED BY <1>2 DEF Frame, ownVars

\* A backend keeps the promises of BackendLifecycle: it gathers what it needs,
\* keeps it while it is up, and gives everything back, also when it fails.
THEOREM BackendImplementsLifecycle == Spec => KeepsPromise
<1>1. Init => Lifecycle!Init
  BY DEF Init, DisplayInit, DriverInit, Lifecycle!Init, Stage, Holding, At, Building, Closing
<1>2. ASSUME IInv, IInv', [Next]_vars
      PROVE  Lifecycle!Next \/ UNCHANGED Lifecycle!vars
  <2>1. ASSUME \A c \in Backends : UNCHANGED Frame(c)
        PROVE  UNCHANGED Lifecycle!vars
    BY <2>1, SameView DEF Lifecycle!vars
  <2>2. CASE UNCHANGED vars
    BY <2>1, <2>2 DEF vars, displayVars, driverVars, ownVars, Frame
  <2>3. ASSUME NEW b \in Backends, Construct(b) \/ Close(b) \/ TearDown(b)
        PROVE  Lifecycle!Next
    BY <1>2, <2>3, ConstructMoves, CloseMoves, MovesAreSteps
  <2>4. ASSUME NEW b \in Backends, Expire(b) \/ Environment(b)
        PROVE  UNCHANGED Lifecycle!vars
    BY <1>2, <2>1, <2>4, OutsideIsInvisible
  <2> QED BY <1>2, <2>2, <2>3, <2>4 DEF Next, AllDone
<1> QED BY <1>1, <1>2, BackendInvariant, PTL DEF Spec, KeepsPromise, Lifecycle!Spec
=============================================================================
