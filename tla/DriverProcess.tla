---------------------------- MODULE DriverProcess ---------------------------
(***************************************************************************)
(* server/browser/w3c: the child process of chromedriver or geckodriver    *)
(* (DriverProcess) and the WebDriver session on it (Session).  The driver  *)
(* and the browser it spawns belong to the environment.                    *)
(*                                                                         *)
(* A driver is addressed by its port only.  FreeLocalPort finds a port and *)
(* releases it again, so that two drivers may be told the same one, and    *)
(* whatever driver listens there answers.                                  *)
(***************************************************************************)
EXTENDS BackendBase

CONSTANT Ports  \* TCP ports

ASSUME PortsAssumption == None \notin Ports

VARIABLES
  ctl,      \* where the control of the driver process is; "up" once it is ready
  driver,   \* the driver process
  port,     \* Session.BaseURL: the port the driver was told to listen on
  session,  \* Session.ID is set
  browser,  \* the backend whose driver runs the browser; None without a browser
  lost      \* the driver crashed or hung, and so has not quit a browser it ran

driverVars == <<ctl, driver, port, session, browser, lost>>

DriverTypeOK ==
  /\ ctl \in [Backends -> {"idle", "wait", "up", "grace", "term", "done"}]
  /\ driver \in [Backends -> {"none", "starting", "listening", "hung",
                              "exited", "reaped"}]
  /\ port \in [Backends -> Ports \cup {None}]
  /\ session \in [Backends -> BOOLEAN]
  /\ browser \in [Backends -> Backends \cup {None}]
  /\ lost \in [Backends -> BOOLEAN]

DriverInit ==
  /\ ctl = [b \in Backends |-> "idle"]
  /\ driver = [b \in Backends |-> "none"]
  /\ port = [b \in Backends |-> None]
  /\ session = [b \in Backends |-> FALSE]
  /\ browser = [b \in Backends |-> None]
  /\ lost = [b \in Backends |-> FALSE]

-----------------------------------------------------------------------------
Alive(b) == driver[b] \in {"starting", "listening", "hung"}

\* The backends whose drivers own port p, and those that answer on it.
Bound(p)   == {c \in Backends : driver[c] \in {"listening", "hung"} /\ port[c] = p}
Answers(p) == {c \in Bound(p) : driver[c] = "listening"}

Control(b, place) == ctl' = [ctl EXCEPT ![b] = place]

\* The browsers of b's driver quit, or they survive it.
QuitBrowsers(b) ==
  browser' = [c \in Backends |-> IF browser[c] = b THEN None ELSE browser[c]]

LoseBrowsers(b) ==
  lost' = [lost EXCEPT ![b] = @ \/ \E c \in Backends : browser[c] = b]

-----------------------------------------------------------------------------
(* Start.                                                                  *)

FreeLocalPort(b) ==
  /\ \E p \in Ports : Bound(p) = {} /\ port' = [port EXCEPT ![b] = p]
  /\ UNCHANGED <<ctl, driver, session, browser, lost>>

StartDriver(b) ==
  /\ ctl[b] = "idle"
  /\ \/ /\ Control(b, "wait")
        /\ driver' = [driver EXCEPT ![b] = "starting"]
     \/ Control(b, "done") /\ UNCHANGED driver        \* no log file, or exec failed
  /\ UNCHANGED <<port, session, browser, lost>>

\* waitReady: some driver answers /status on the port.
Ready(b) ==
  /\ ctl[b] = "wait" /\ Answers(port[b]) # {}
  /\ Control(b, "up")
  /\ UNCHANGED <<driver, port, session, browser, lost>>

\* Mutant: the driver that is not ready is left alone.
ForgetDriver(b) ==
  /\ ctl[b] = "wait"
  /\ Control(b, "done")
  /\ UNCHANGED <<driver, port, session, browser, lost>>

\* Fifteen seconds, or the context, have run out; the driver is stopped.
NotReady(b) ==
  /\ ctl[b] = "wait"
  /\ Control(b, "grace")
  /\ UNCHANGED <<driver, port, session, browser, lost>>

-----------------------------------------------------------------------------
(* Stop: wait three seconds for the driver, send SIGTERM, wait two more,   *)
(* then SIGKILL.                                                           *)

Stop(b) ==
  /\ ctl[b] = "up"
  /\ Control(b, "grace")
  /\ UNCHANGED <<driver, port, session, browser, lost>>

Reaped(b) ==
  /\ ctl[b] \in {"grace", "term"} /\ driver[b] = "exited"
  /\ driver' = [driver EXCEPT ![b] = "reaped"]
  /\ port' = [port EXCEPT ![b] = None]
  /\ Control(b, "done")
  /\ UNCHANGED <<session, browser, lost>>

\* Mutant: no SIGTERM, the driver is killed at once.
KillAtOnce(b) ==
  /\ ctl[b] = "grace" /\ Alive(b)
  /\ driver' = [driver EXCEPT ![b] = "reaped"]
  /\ port' = [port EXCEPT ![b] = None]
  /\ Control(b, "done")
  /\ UNCHANGED <<session, browser, lost>>

Terminate(b) ==
  /\ ctl[b] = "grace" /\ Alive(b)
  /\ Control(b, "term")
  /\ UNCHANGED <<driver, port, session, browser, lost>>

\* Two seconds are enough for a driver that is not hung, so that only a hung
\* one is killed.  Its browsers survive it.
Kill(b) ==
  /\ ctl[b] = "term" /\ driver[b] = "hung"
  /\ driver' = [driver EXCEPT ![b] = "reaped"]
  /\ port' = [port EXCEPT ![b] = None]
  /\ LoseBrowsers(b)
  /\ Control(b, "done")
  /\ UNCHANGED <<session, browser>>

DriverStep(b) == Ready(b) \/ NotReady(b) \/ Reaped(b) \/ Terminate(b) \/ Kill(b)

-----------------------------------------------------------------------------
(* The session.  Each command is bounded by the HTTP client's timeout.     *)

\* POST /session: the browser runs and the reply names the session.
SessionCreated(b) ==
  \E c \in Answers(port[b]) :
    /\ browser' = [browser EXCEPT ![b] = c]
    /\ session' = [session EXCEPT ![b] = TRUE]
    /\ UNCHANGED <<ctl, driver, port, lost>>

\* It fails, or it times out while the browser is being launched.
SessionFailed(b) ==
  /\ \/ UNCHANGED browser
     \/ \E c \in Answers(port[b]) : browser' = [browser EXCEPT ![b] = c]
  /\ UNCHANGED <<ctl, driver, port, session, lost>>

\* Mutant: the request has no deadline of its own.
DeleteAndWait(b) ==
  /\ session[b] => Answers(port[b]) # {}
  /\ session' = [session EXCEPT ![b] = FALSE]
  /\ browser' = [browser EXCEPT ![b] = None]
  /\ UNCHANGED <<ctl, driver, port, lost>>

\* DELETE /session asks the driver to quit the browser.  Whatever comes of it
\* in five seconds, the session is forgotten.
Delete(b) ==
  /\ session' = [session EXCEPT ![b] = FALSE]
  /\ \/ UNCHANGED browser
     \/ /\ session[b] /\ browser[b] \in Answers(port[b])
        /\ browser' = [browser EXCEPT ![b] = None]
  /\ UNCHANGED <<ctl, driver, port, lost>>

-----------------------------------------------------------------------------
(* The environment.                                                        *)

DriverListens(b) ==
  /\ driver[b] = "starting" /\ Bound(port[b]) = {}
  /\ driver' = [driver EXCEPT ![b] = "listening"]
  /\ UNCHANGED <<ctl, port, session, browser, lost>>

\* It cannot bind the port, or it crashes.
DriverCrashes(b) ==
  /\ Alive(b)
  /\ driver' = [driver EXCEPT ![b] = "exited"]
  /\ LoseBrowsers(b)
  /\ UNCHANGED <<ctl, port, session, browser>>

DriverHangs(b) ==
  /\ driver[b] = "listening"
  /\ driver' = [driver EXCEPT ![b] = "hung"]
  /\ UNCHANGED <<ctl, port, session, browser, lost>>

\* SIGTERM makes a driver quit its browsers and exit.
DriverTerminates(b) ==
  /\ ctl[b] = "term" /\ driver[b] \in {"starting", "listening"}
  /\ driver' = [driver EXCEPT ![b] = "exited"]
  /\ QuitBrowsers(b)
  /\ UNCHANGED <<ctl, port, session, lost>>

BrowserExits(b) ==
  /\ browser[b] # None
  /\ browser' = [browser EXCEPT ![b] = None]
  /\ UNCHANGED <<ctl, driver, port, session, lost>>
=============================================================================
