-------------------------------- MODULE BiDi --------------------------------
(***************************************************************************)
(* The WebDriver BiDi connection of server/browser/bidi/bidi.go: any       *)
(* number of goroutines Send commands over one WebSocket, and one read     *)
(* loop hands each reply to the waiter registered under its id.            *)
(*                                                                         *)
(* The driver answers commands in any order, and the connection can be     *)
(* lost at any moment, with what is under way on it.                       *)
(***************************************************************************)
EXTENDS Naturals

CONSTANTS Callers,  \* goroutines that send, each one command at a time
          Methods,  \* what they send
          MaxId,    \* bound: commands of a connection
          None

ASSUME BiDiAssumption ==
  None \notin Callers /\ MaxId \in Nat

VARIABLES
  nextID,    \* Session.nextID
  pending,   \* ids in Session.pending
  box,       \* what the one-place channel made for each id holds, or None
  call,      \* the Send each caller is in
  commands,  \* commands the driver has not answered
  replies,   \* answers the read loop has not read
  carrying,  \* the answer it has read and looked a waiter up for, or None
  reader,    \* the read loop: "reading" or "gone"
  closed,    \* Session.closed
  lost       \* the driver's end of the connection is gone

bidiVars == <<nextID, pending, box, call, commands, replies,
              carrying, reader, closed, lost>>

Ids      == 1..MaxId
Outcomes == {"ok", "error"}
Command  == [id : Ids, by : Callers, method : Methods]
Reply    == [id : Ids, by : Callers, method : Methods, out : Outcomes]
Sends    == [at : {"none"}] \cup
            [at : {"write", "wait", "leave"}, id : Ids, method : Methods,
             out : Outcomes \cup {None}]

Idle == [at |-> "none"]

BiDiTypeOK ==
  /\ nextID \in 0..MaxId /\ pending \subseteq Ids
  /\ box \in [Ids -> Reply \cup {None}]
  /\ call \in [Callers -> Sends]
  /\ commands \subseteq Command /\ replies \subseteq Reply
  /\ carrying \in Reply \cup {None}
  /\ reader \in {"reading", "gone"} /\ closed \in BOOLEAN /\ lost \in BOOLEAN

\* Dial.
BiDiInit ==
  /\ nextID = 0 /\ pending = {} /\ box = [i \in Ids |-> None]
  /\ call = [c \in Callers |-> Idle]
  /\ commands = {} /\ replies = {} /\ carrying = None
  /\ reader = "reading" /\ closed = FALSE /\ lost = FALSE

wireVars == <<commands, replies>>
readVars == <<carrying, reader, closed, lost>>

-----------------------------------------------------------------------------
(* Send.                                                                   *)

At(c, place) == call[c].at = place

\* The first critical section: a fresh id and a waiter for it.
Register(c, m) ==
  /\ At(c, "none") /\ nextID < MaxId
  /\ nextID' = nextID + 1
  /\ pending' = pending \cup {nextID + 1}
  /\ call' = [call EXCEPT ![c] =
                [at |-> "write", id |-> nextID + 1, method |-> m, out |-> None]]
  /\ UNCHANGED <<box, wireVars, readVars>>

Leaving(c, outcome) ==
  call' = [call EXCEPT ![c] = [at |-> "leave", id |-> @.id, method |-> @.method, out |-> outcome]]

\* One frame, under writeMu.
Write(c) ==
  /\ At(c, "write")
  /\ \/ /\ ~closed
        /\ call' = [call EXCEPT ![c].at = "wait"]
        /\ commands' = IF lost THEN commands ELSE commands \cup
             {[id |-> call[c].id, by |-> c, method |-> call[c].method]}
     \/ /\ closed \/ lost
        /\ Leaving(c, "error") /\ UNCHANGED commands
  /\ UNCHANGED <<nextID, pending, box, replies, readVars>>

\* The select: an answer, or the close of the connection.
Answered(c) ==
  /\ At(c, "wait") /\ box[call[c].id] # None
  /\ Leaving(c, box[call[c].id].out)
  /\ box' = [box EXCEPT ![call[c].id] = None]
  /\ UNCHANGED <<nextID, pending, wireVars, readVars>>

SeesClose(c) ==
  /\ At(c, "wait") /\ closed
  /\ Leaving(c, "error")
  /\ UNCHANGED <<nextID, pending, box, wireVars, readVars>>

\* The third case of the select, for a caller whose context has ended.
GivesUp(c) ==
  /\ At(c, "wait")
  /\ Leaving(c, "error")
  /\ UNCHANGED <<nextID, pending, box, wireVars, readVars>>

\* The deferred delete.  The caller goes on with call[c].out.
Leave(c) ==
  /\ At(c, "leave")
  /\ pending' = pending \ {call[c].id}
  /\ call' = [call EXCEPT ![c] = Idle]
  /\ UNCHANGED <<nextID, box, wireVars, readVars>>

-----------------------------------------------------------------------------
(* Close and the read loop.                                                *)

\* What is under way when the connection ends is not read any more.
DropTraffic == commands' = {} /\ replies' = {}

\* closeOnce: a second Close changes nothing.
Close ==
  /\ closed' = TRUE /\ DropTraffic
  /\ UNCHANGED <<nextID, pending, box, call, carrying, reader, lost>>

Reading == reader = "reading" /\ carrying = None

\* dispatch looks the waiter up under mu; an answer nobody waits for is dropped.
ReadReply(m) ==
  /\ Reading /\ m \in replies
  /\ replies' = replies \ {m}
  /\ carrying' = IF m.id \in pending THEN m ELSE None
  /\ UNCHANGED <<nextID, pending, box, call, commands,
                 reader, closed, lost>>

\* Mutant: the channel of a waiter has no room, so that the read loop needs it
\* to be received from.
DeliverUnbuffered ==
  /\ carrying # None
  /\ \E c \in Callers : At(c, "wait") /\ call[c].id = carrying.id
  /\ box' = [box EXCEPT ![carrying.id] = carrying]
  /\ carrying' = None
  /\ UNCHANGED <<nextID, pending, call, wireVars, reader, closed, lost>>

\* dispatch has let go of mu; the send would block on a full channel.
Deliver ==
  /\ carrying # None /\ box[carrying.id] = None
  /\ box' = [box EXCEPT ![carrying.id] = carrying]
  /\ carrying' = None
  /\ UNCHANGED <<nextID, pending, call, wireVars, reader, closed, lost>>

\* Any error ends the loop, and the deferred Close tells the waiters.
ReadFails ==
  /\ Reading /\ (closed \/ lost)
  /\ reader' = "gone" /\ closed' = TRUE
  /\ UNCHANGED <<nextID, pending, box, call, wireVars, carrying, lost>>

-----------------------------------------------------------------------------
(* The driver.                                                             *)

Reachable == ~closed /\ ~lost

Replies(m, outcome) ==
  /\ Reachable /\ m \in commands
  /\ commands' = commands \ {m}
  /\ replies' = replies \cup
       {[id |-> m.id, by |-> m.by, method |-> m.method, out |-> outcome]}
  /\ UNCHANGED <<nextID, pending, box, call, readVars>>

\* The driver exits, or drops a connection it can make no sense of: the read
\* loop answers pings, and does so without writeMu, so that a pong can cut a
\* frame in two.
Lose ==
  /\ ~lost /\ lost' = TRUE /\ DropTraffic
  /\ UNCHANGED <<nextID, pending, box, call, carrying, reader, closed>>

-----------------------------------------------------------------------------
(* What makes an answer reach its command.                                 *)

SameCommand(c, m) == m.by = c /\ m.method = call[c].method

\* What is under way with the id of a caller is that caller's command.
RepliesMatch ==
  \A c \in Callers : ~At(c, "none") =>
    /\ \A m \in commands \cup replies : m.id = call[c].id => SameCommand(c, m)
    /\ carrying # None /\ carrying.id = call[c].id => SameCommand(c, carrying)
    /\ box[call[c].id] # None => SameCommand(c, box[call[c].id])

\* No id is used by two callers, and none that has not been given out.
IdsAreFresh ==
  /\ \A c \in Callers : ~At(c, "none") => call[c].id <= nextID
  /\ \A c, d \in Callers :
       c # d /\ ~At(c, "none") /\ ~At(d, "none") => call[c].id # call[d].id
  /\ \A m \in commands \cup replies : m.id <= nextID
  /\ carrying # None => carrying.id <= nextID
  /\ \A i \in Ids : box[i] # None => i <= nextID

\* At most one answer to an id is under way, so that Deliver never blocks.
OneAnswer ==
  /\ \A m \in replies : \A n \in replies : m.id = n.id => m = n
  /\ \A m \in commands : \A n \in commands : m.id = n.id => m = n
  /\ \A m \in commands, n \in replies : m.id # n.id
  /\ \A m \in commands \cup replies :
       /\ carrying # None => carrying.id # m.id
       /\ box[m.id] = None
       /\ \A c \in Callers : call[c].at = "write" => call[c].id # m.id
  /\ carrying # None => box[carrying.id] = None
  /\ carrying # None => \A c \in Callers : call[c].at = "write" => call[c].id # carrying.id
  /\ \A c \in Callers : call[c].at = "write" => box[call[c].id] = None

ConnectionInv == RepliesMatch /\ IdsAreFresh /\ OneAnswer
=============================================================================
