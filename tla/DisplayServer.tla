--------------------------- MODULE DisplayServer ---------------------------
(***************************************************************************)
(* StartXvfb and XvfbProcess of server/browser/common.go: how the          *)
(* construction of a browser gets a virtual display, and how the browser   *)
(* gives it back.  Xvfb itself is part of the environment: it may come up, *)
(* stay silent, or exit at any moment.                                     *)
(*                                                                         *)
(* A goroutine sits in cmd.Wait and sends the exit of the process to a     *)
(* channel of capacity one.  The channel is not a variable: it holds a     *)
(* value exactly while the process is "exited", and a process whose value  *)
(* has been received is "reaped".                                          *)
(***************************************************************************)
EXTENDS Naturals, BackendBase

CONSTANT LastDisplay  \* the scan tries the displays 1..LastDisplay

ASSUME DisplayAssumption == LastDisplay \in Nat /\ None \notin 1..LastDisplay

VARIABLES
  start,    \* where the call of StartXvfb is; "up" once the caller owns a process
  tried,    \* the display number the scan has come to
  xvfb,     \* the caller's current Xvfb process
  display,  \* the display of that process; None while only Xvfb knows it
  files,    \* displays with a socket or lock file that no live server holds
  expired   \* the context of the construction is done

displayVars == <<start, tried, xvfb, display, files>>

Displays == 1..LastDisplay

DisplayTypeOK ==
  /\ start \in [Backends -> {"idle", "fd", "scan", "poll", "reap",
                             "up", "failed", "stopped"}]
  /\ tried \in [Backends -> 1..LastDisplay + 1]
  /\ xvfb \in [Backends -> {"none", "starting", "serving", "exited", "reaped"}]
  /\ display \in [Backends -> Displays \cup {None}]
  /\ files \in SUBSET Displays
  /\ expired \in [Backends -> BOOLEAN]

\* Files of servers killed in an earlier run of the program may lie around.
DisplayInit ==
  /\ start = [b \in Backends |-> "idle"]
  /\ tried = [b \in Backends |-> 1]
  /\ xvfb = [b \in Backends |-> "none"]
  /\ display = [b \in Backends |-> None]
  /\ files \in SUBSET Displays
  /\ expired = [b \in Backends |-> FALSE]

-----------------------------------------------------------------------------
Running(b) == xvfb[b] \in {"starting", "serving"}

\* A live server listens on display d.
Live(d) == \E b \in Backends : xvfb[b] = "serving" /\ display[b] = d

\* os.Stat finds the socket or the lock file of display d.
Present(d) == d \in files \/ Live(d)

\* The process of b is gone for good.  Killed, or exiting in a hurry, a server
\* may leave its files behind.
Vanish(b, state) ==
  /\ xvfb' = [xvfb EXCEPT ![b] = state]
  /\ \/ UNCHANGED files
     \/ xvfb[b] = "serving" /\ files' = files \cup {display[b]}

\* Receive the exit of b's process, killing it first if need be.  Once the
\* value has been received the channel stays empty, and a receiver waits.
KillAndWait(b) == (Running(b) \/ xvfb[b] = "exited") /\ Vanish(b, "reaped")

Enter(b, place) == start' = [start EXCEPT ![b] = place]

-----------------------------------------------------------------------------
(* startXvfbWithDisplayFD: Xvfb picks a display and reports its number.    *)

StartDisplayFD(b) ==
  /\ start[b] = "idle"
  /\ \/ Enter(b, "fd") /\ xvfb' = [xvfb EXCEPT ![b] = "starting"]
     \/ Enter(b, "scan") /\ UNCHANGED xvfb          \* no pipe, or exec failed
  /\ UNCHANGED <<tried, display, files, expired>>

DisplayReported(b) ==
  /\ start[b] = "fd" /\ display[b] # None
  /\ Enter(b, "up")
  /\ UNCHANGED <<tried, xvfb, display, files, expired>>

\* Mutant: no timer and no context, only an exit ends the wait.
ReportAwaited(b) ==
  /\ start[b] = "fd" /\ xvfb[b] = "exited"
  /\ KillAndWait(b)
  /\ Enter(b, "scan")
  /\ display' = [display EXCEPT ![b] = None]
  /\ UNCHANGED <<tried, expired>>

\* The process exited, closed the pipe, or reported nonsense; or ten seconds
\* or the context have run out.
ReportFailed(b) ==
  /\ start[b] = "fd"
  /\ KillAndWait(b)
  /\ Enter(b, "scan")
  /\ display' = [display EXCEPT ![b] = None]
  /\ UNCHANGED <<tried, expired>>

-----------------------------------------------------------------------------
(* startXvfbWithRange: try the display numbers one after the other.        *)

Scanning(b) == start[b] = "scan" /\ ~expired[b] /\ tried[b] \in Displays

\* The display is in use, or exec failed.
SkipDisplay(b) ==
  /\ Scanning(b)
  /\ tried' = [tried EXCEPT ![b] = tried[b] + 1]
  /\ UNCHANGED <<start, xvfb, display, files, expired>>

TryDisplay(b) ==
  /\ Scanning(b) /\ ~Present(tried[b])
  /\ Enter(b, "poll")
  /\ xvfb' = [xvfb EXCEPT ![b] = "starting"]
  /\ display' = [display EXCEPT ![b] = tried[b]]
  /\ UNCHANGED <<tried, files, expired>>

NoDisplay(b) ==
  /\ start[b] = "scan" /\ (expired[b] \/ tried[b] \notin Displays)
  /\ Enter(b, "failed")
  /\ tried' = [tried EXCEPT ![b] = 1]
  /\ UNCHANGED <<xvfb, display, files, expired>>

\* The loop looks for an exit first and for the socket of the display then,
\* whoever listens on it.
SocketFound(b) ==
  /\ start[b] = "poll" /\ Running(b) /\ Present(display[b])
  /\ Enter(b, "up")
  /\ tried' = [tried EXCEPT ![b] = 1]
  /\ UNCHANGED <<xvfb, display, files, expired>>

\* Mutant: after the exit the loop still looks for the socket.
ExitIgnored(b) ==
  /\ start[b] = "poll" /\ xvfb[b] = "exited"
  /\ xvfb' = [xvfb EXCEPT ![b] = "reaped"]
  /\ Enter(b, IF Present(display[b]) THEN "up" ELSE "reap")
  /\ UNCHANGED <<tried, display, files, expired>>

\* The loop receives the exit, and leaves with the channel empty.
ExitNoticed(b) ==
  /\ start[b] = "poll" /\ xvfb[b] = "exited"
  /\ xvfb' = [xvfb EXCEPT ![b] = "reaped"]
  /\ Enter(b, "reap")
  /\ UNCHANGED <<tried, display, files, expired>>

\* Fifty polls, or the context, have run out.
PollsExhausted(b) ==
  /\ start[b] = "poll" /\ Running(b)
  /\ Enter(b, "reap")
  /\ UNCHANGED <<tried, xvfb, display, files, expired>>

\* Mutant: the process that did not come up is left alone.
LeaveDisplay(b) ==
  /\ start[b] = "reap"
  /\ Enter(b, "scan")
  /\ tried' = [tried EXCEPT ![b] = tried[b] + 1]
  /\ display' = [display EXCEPT ![b] = None]
  /\ UNCHANGED <<xvfb, files, expired>>

GiveUpDisplay(b) ==
  /\ start[b] = "reap"
  /\ KillAndWait(b)
  /\ Enter(b, "scan")
  /\ tried' = [tried EXCEPT ![b] = tried[b] + 1]
  /\ display' = [display EXCEPT ![b] = None]
  /\ UNCHANGED expired

StartXvfb(b) ==
  \/ DisplayReported(b) \/ ReportFailed(b)
  \/ SkipDisplay(b) \/ TryDisplay(b) \/ NoDisplay(b)
  \/ SocketFound(b) \/ ExitNoticed(b) \/ PollsExhausted(b) \/ GiveUpDisplay(b)

\* The wait after the loop is for an exit that has been received already.
StuckReaping(b) == start[b] = "reap" /\ xvfb[b] = "reaped"

\* XvfbProcess.Stop, a no-op for a caller that owns no process.
StopXvfb(b) ==
  \/ /\ start[b] # "up"
     /\ UNCHANGED displayVars
  \/ /\ start[b] = "up"
     /\ KillAndWait(b)
     /\ Enter(b, "stopped")
     /\ display' = [display EXCEPT ![b] = None]
     /\ UNCHANGED tried

-----------------------------------------------------------------------------
(* The environment.                                                        *)

\* Xvfb comes up on the display it was given, or on one it picks, and takes
\* over files that a dead server has left.
XvfbServes(b) ==
  /\ xvfb[b] = "starting"
  /\ \E d \in Displays :
       /\ display[b] \in {None, d} /\ ~Live(d)
       /\ display' = [display EXCEPT ![b] = d]
       /\ files' = files \ {d}
  /\ xvfb' = [xvfb EXCEPT ![b] = "serving"]
  /\ UNCHANGED <<start, tried, expired>>

\* Another server has the display, the options are unknown, it crashed ...
XvfbExits(b) ==
  /\ Running(b)
  /\ Vanish(b, "exited")
  /\ UNCHANGED <<start, tried, display, expired>>
=============================================================================
