-------------------------- MODULE ProxyAuthProofs --------------------------
(***************************************************************************)
(* On the BiDi connection every answer reaches the command it answers, the *)
(* credentials are given a bounded number of times, and no challenged      *)
(* request is forgotten; over CDP no paused request is forgotten and no    *)
(* server is given the credentials: for any numbers of requests,           *)
(* challenges and commands.                                                *)
(***************************************************************************)
EXTENDS ProxyAuth, TLAPS

-----------------------------------------------------------------------------
(* The connection.                                                         *)

BiDiInv == BiDiTypeOK /\ ConnectionInv

LEMMA CallOf ==
  ASSUME BiDiTypeOK, NEW c \in Callers
  PROVE  /\ ~At(c, "none") => /\ call[c].at \in {"write", "wait", "leave"} /\ call[c].id \in Ids
                              /\ call[c].method \in Methods /\ call[c].out \in Outcomes \cup {None}
         /\ At(c, "none") => call[c] = Idle
  BY DEF BiDiTypeOK, Sends, At, Idle

\* What Leaving, and going on to wait, do to the records of the callers.
LEMMA CallMoves ==
  ASSUME BiDiTypeOK, NEW c \in Callers, ~At(c, "none"), NEW outcome \in Outcomes
  PROVE  /\ Leaving(c, outcome) =>
            call' = [call EXCEPT ![c] = [at |-> "leave", id |-> call[c].id,
                                         method |-> call[c].method, out |-> outcome]]
         /\ call' = [call EXCEPT ![c].at = "wait"] =>
            call' = [call EXCEPT ![c] = [at |-> "wait", id |-> call[c].id,
                                         method |-> call[c].method, out |-> call[c].out]]
  <1>1. call[c] \in [at : {"write", "wait", "leave"}, id : Ids, method : Methods, out : Outcomes \cup {None}]
    BY DEF BiDiTypeOK, Sends, At
  <1>2. PICK x \in {"write", "wait", "leave"}, i \in Ids, m \in Methods, o \in Outcomes \cup {None} :
          call[c] = [at |-> x, id |-> i, method |-> m, out |-> o]
    BY <1>1
  <1>4. [call[c] EXCEPT !.at = "wait"] = [at |-> "wait", id |-> i, method |-> m, out |-> o]
    BY <1>2
  <1> QED
    BY <1>2, <1>4 DEF Leaving

LEMMA BiDiStart == ASSUME BiDiInit PROVE BiDiInv
  <1>1. BiDiTypeOK
    <2>1. Idle \in Sends
      BY DEF Idle, Sends
    <2>2. call \in [Callers -> Sends]
      BY <2>1 DEF BiDiInit
    <2>3. box \in [Ids -> Reply \cup {None}]
      BY DEF BiDiInit
    <2>4. nextID \in 0..MaxId /\ reader \in {"reading", "gone"}
      BY BiDiAssumption DEF BiDiInit
    <2>6. closed \in BOOLEAN /\ lost \in BOOLEAN
      BY DEF BiDiInit
    <2>5. pending \subseteq Ids /\ commands \subseteq Command /\ replies \subseteq Reply
          /\ carrying \in Reply \cup {None}
      BY DEF BiDiInit
    <2> QED
      BY <2>2, <2>3, <2>4, <2>5, <2>6 DEF BiDiTypeOK
  <1>2. \A c \in Callers : At(c, "none")
    BY DEF BiDiInit, At, Idle
  <1> QED
    BY <1>1, <1>2, BiDiAssumption
    DEF BiDiInit, BiDiInv, ConnectionInv, RepliesMatch, IdsAreFresh, OneAnswer, At, Ids

LEMMA RegisterKeeps == ASSUME BiDiInv, NEW c \in Callers, NEW m \in Methods, Register(c, m)
  PROVE  /\ BiDiInv'
         /\ call[c].at = "none" /\ nextID < MaxId /\ nextID' = nextID + 1
         /\ pending' = pending \cup {nextID + 1}
         /\ call' = [call EXCEPT ![c] = [at |-> "write", id |-> nextID + 1, method |-> m, out |-> None]]
         /\ UNCHANGED <<box, commands, replies, carrying, reader, closed, lost>>
  <1> USE BiDiAssumption DEF BiDiInv, ConnectionInv
  <1>0. /\ call[c].at = "none" /\ nextID < MaxId /\ nextID' = nextID + 1
        /\ pending' = pending \cup {nextID + 1}
        /\ call' = [call EXCEPT ![c] = [at |-> "write", id |-> nextID + 1, method |-> m, out |-> None]]
        /\ UNCHANGED <<box, commands, replies, carrying, reader, closed, lost>>
    BY DEF Register, wireVars, readVars, At
  <1>1. BiDiTypeOK'
    BY <1>0 DEF BiDiTypeOK, Ids, Sends, Idle, Outcomes, Command, Reply
  <1>2. RepliesMatch'
    BY <1>0 DEF BiDiTypeOK, RepliesMatch, IdsAreFresh, SameCommand, At, Ids, Command, Reply, Idle
  <1>3. IdsAreFresh'
    BY <1>0 DEF BiDiTypeOK, IdsAreFresh, At, Ids, Command, Reply, Idle, Sends
  <1>4. OneAnswer'
    BY <1>0 DEF BiDiTypeOK, IdsAreFresh, OneAnswer, At, Ids, Command, Reply, Idle
  <1> QED
    BY <1>0, <1>1, <1>2, <1>3, <1>4

LEMMA WriteKeeps == ASSUME BiDiInv, NEW c \in Callers, Write(c)
  PROVE  /\ BiDiInv'
         /\ call[c].at = "write"
         /\ \/ commands' = commands /\ (closed \/ lost)
            \/ commands' = commands \cup {[id |-> call[c].id, by |-> c, method |-> call[c].method]}
         /\ \E x \in {<<"wait", call[c].out>>, <<"leave", "error">>} :
              call' = [call EXCEPT ![c] = [at |-> x[1], id |-> call[c].id, method |-> call[c].method, out |-> x[2]]]
         /\ UNCHANGED <<nextID, pending, box, replies, carrying, reader, closed, lost>>
  <1> USE BiDiAssumption DEF BiDiInv, ConnectionInv
  <1> DEFINE new == [id |-> call[c].id, by |-> c, method |-> call[c].method]
  <1>0. /\ call[c].at = "write" /\ call[c].id \in Ids /\ call[c].method \in Methods
        /\ UNCHANGED <<nextID, pending, box, replies, carrying, reader, closed, lost>>
    BY CallOf DEF Write, wireVars, readVars, At
  <1>1. ASSUME commands' = commands, \E x \in {"wait", "leave"}, o \in Outcomes \cup {None} :
               call' = [call EXCEPT ![c] = [at |-> x, id |-> call[c].id, method |-> call[c].method, out |-> o]]
        PROVE  BiDiInv'
    <2>1. BiDiTypeOK'
      BY <1>0, <1>1 DEF BiDiTypeOK, Ids, Sends, Idle, Outcomes
    <2>2. RepliesMatch'
      BY <1>0, <1>1 DEF BiDiTypeOK, RepliesMatch, SameCommand, At
    <2>3. IdsAreFresh'
      BY <1>0, <1>1 DEF BiDiTypeOK, IdsAreFresh, At
    <2>4. OneAnswer'
      BY <1>0, <1>1 DEF BiDiTypeOK, OneAnswer, At
    <2> QED
      BY <2>1, <2>2, <2>3, <2>4
  <1>2. ASSUME commands' = commands \cup {new},
               call' = [call EXCEPT ![c] = [at |-> "wait", id |-> call[c].id, method |-> call[c].method, out |-> call[c].out]]
        PROVE  BiDiInv'
    <2>0. new \in Command /\ new.id = call[c].id /\ new.by = c /\ new.method = call[c].method
      BY <1>0 DEF Command
    <2> HIDE DEF new
    <2>1. BiDiTypeOK'
      BY <1>0, <1>2, <2>0, CallOf DEF BiDiTypeOK, Ids, Sends, Idle, Outcomes, At
    <2>2. RepliesMatch'
      BY <1>0, <1>2, <2>0 DEF BiDiTypeOK, RepliesMatch, IdsAreFresh, SameCommand, At, Ids
    <2>3. IdsAreFresh'
      BY <1>0, <1>2, <2>0 DEF BiDiTypeOK, IdsAreFresh, At, Ids
    <2>4. OneAnswer'
      BY <1>0, <1>2, <2>0 DEF BiDiTypeOK, IdsAreFresh, OneAnswer, At, Ids
    <2> QED
      BY <2>1, <2>2, <2>3, <2>4
  <1>3. call[c].out \in Outcomes \cup {None} /\ ~At(c, "none")
    BY <1>0, CallOf DEF At
  <1>4. "error" \in Outcomes
    BY DEF Outcomes
  <1>5. BiDiInv'
    BY <1>1, <1>2, <1>3, <1>4, CallMoves DEF Write
  <1>6. /\ \/ commands' = commands /\ (closed \/ lost)
           \/ commands' = commands \cup {new}
        /\ \/ call' = [call EXCEPT ![c] = [at |-> "wait", id |-> call[c].id, method |-> call[c].method, out |-> call[c].out]]
           \/ call' = [call EXCEPT ![c] = [at |-> "leave", id |-> call[c].id, method |-> call[c].method, out |-> "error"]]
    BY <1>3, <1>4, CallMoves DEF Write
  <1> QED
    BY <1>0, <1>5, <1>6

LEMMA AnsweredKeeps == ASSUME BiDiInv, NEW c \in Callers, Answered(c)
  PROVE  /\ BiDiInv'
         /\ call[c].at = "wait" /\ call[c].id \in Ids /\ call[c].method \in Methods
         /\ \E o \in Outcomes : o = box[call[c].id].out /\ call' = [call EXCEPT ![c] = [at |-> "leave", id |-> call[c].id, method |-> call[c].method, out |-> o]]
         /\ box[call[c].id] # None /\ box' = [box EXCEPT ![call[c].id] = None]
         /\ UNCHANGED <<nextID, pending, commands, replies, carrying, reader, closed, lost>>
  <1> USE BiDiAssumption DEF BiDiInv, ConnectionInv
  <1>0. /\ call[c].at = "wait" /\ call[c].id \in Ids /\ call[c].method \in Methods
        /\ \E o \in Outcomes : o = box[call[c].id].out /\ call' = [call EXCEPT ![c] = [at |-> "leave", id |-> call[c].id, method |-> call[c].method, out |-> o]]
        /\ box[call[c].id] # None /\ box' = [box EXCEPT ![call[c].id] = None]
        /\ UNCHANGED <<nextID, pending, commands, replies, carrying, reader, closed, lost>>
    BY CallOf, CallMoves DEF Answered, wireVars, readVars, At, BiDiTypeOK, Reply
  <1>1. BiDiTypeOK'
    BY <1>0 DEF BiDiTypeOK, Ids, Sends, Idle, Outcomes, Command, Reply
  <1>2. RepliesMatch'
    BY <1>0 DEF BiDiTypeOK, RepliesMatch, IdsAreFresh, SameCommand, At, Ids, Command, Reply, Idle
  <1>3. IdsAreFresh'
    BY <1>0 DEF BiDiTypeOK, IdsAreFresh, At, Ids, Command, Reply, Idle, Sends
  <1>4. OneAnswer'
    BY <1>0 DEF BiDiTypeOK, IdsAreFresh, OneAnswer, At, Ids, Command, Reply, Idle
  <1> QED
    BY <1>0, <1>1, <1>2, <1>3, <1>4

LEMMA ReturnKeeps == ASSUME BiDiInv, NEW c \in Callers, SeesClose(c) \/ GivesUp(c)
  PROVE  /\ BiDiInv'
         /\ call[c].at = "wait" /\ call[c].id \in Ids /\ call[c].method \in Methods
         /\ call' = [call EXCEPT ![c] = [at |-> "leave", id |-> call[c].id, method |-> call[c].method, out |-> "error"]]
         /\ UNCHANGED <<nextID, pending, box, commands, replies, carrying, reader, closed, lost>>
  <1> USE BiDiAssumption DEF BiDiInv, ConnectionInv
  <1>0. /\ call[c].at = "wait" /\ call[c].id \in Ids /\ call[c].method \in Methods
        /\ call' = [call EXCEPT ![c] = [at |-> "leave", id |-> call[c].id, method |-> call[c].method, out |-> "error"]]
        /\ UNCHANGED <<nextID, pending, box, commands, replies, carrying, reader, closed, lost>>
    BY CallOf, CallMoves DEF SeesClose, GivesUp, wireVars, readVars, At, Outcomes
  <1>1. BiDiTypeOK'
    BY <1>0 DEF BiDiTypeOK, Ids, Sends, Idle, Outcomes, Command, Reply
  <1>2. RepliesMatch'
    BY <1>0 DEF BiDiTypeOK, RepliesMatch, IdsAreFresh, SameCommand, At, Ids, Command, Reply, Idle
  <1>3. IdsAreFresh'
    BY <1>0 DEF BiDiTypeOK, IdsAreFresh, At, Ids, Command, Reply, Idle, Sends
  <1>4. OneAnswer'
    BY <1>0 DEF BiDiTypeOK, IdsAreFresh, OneAnswer, At, Ids, Command, Reply, Idle
  <1> QED
    BY <1>0, <1>1, <1>2, <1>3, <1>4

LEMMA LeaveKeeps == ASSUME BiDiInv, NEW c \in Callers, Leave(c)
  PROVE  /\ BiDiInv'
         /\ call[c].at = "leave"
         /\ pending' = pending \ {call[c].id} /\ call' = [call EXCEPT ![c] = Idle]
         /\ UNCHANGED <<nextID, box, commands, replies, carrying, reader, closed, lost>>
  <1> USE BiDiAssumption DEF BiDiInv, ConnectionInv
  <1>0. /\ call[c].at = "leave"
        /\ pending' = pending \ {call[c].id} /\ call' = [call EXCEPT ![c] = Idle]
        /\ UNCHANGED <<nextID, box, commands, replies, carrying, reader, closed, lost>>
    BY DEF Leave, wireVars, readVars, At
  <1>1. BiDiTypeOK'
    BY <1>0 DEF BiDiTypeOK, Ids, Sends, Idle, Outcomes, Command, Reply
  <1>2. RepliesMatch'
    BY <1>0 DEF BiDiTypeOK, RepliesMatch, IdsAreFresh, SameCommand, At, Ids, Command, Reply, Idle
  <1>3. IdsAreFresh'
    BY <1>0 DEF BiDiTypeOK, IdsAreFresh, At, Ids, Command, Reply, Idle, Sends
  <1>4. OneAnswer'
    BY <1>0 DEF BiDiTypeOK, IdsAreFresh, OneAnswer, At, Ids, Command, Reply, Idle
  <1> QED
    BY <1>0, <1>1, <1>2, <1>3, <1>4

LEMMA TrafficKeeps == ASSUME BiDiInv, Close \/ Lose \/ ReadFails
  PROVE  /\ BiDiInv'
         /\ commands' \subseteq commands /\ replies' \subseteq replies
         /\ closed' \in BOOLEAN /\ lost' \in BOOLEAN /\ reader' \in {"reading", "gone"}
         /\ UNCHANGED <<nextID, pending, box, call, carrying>>
  <1> USE BiDiAssumption DEF BiDiInv, ConnectionInv
  <1>0. /\ commands' \subseteq commands /\ replies' \subseteq replies
        /\ closed' \in BOOLEAN /\ lost' \in BOOLEAN /\ reader' \in {"reading", "gone"}
        /\ UNCHANGED <<nextID, pending, box, call, carrying>>
    BY DEF Close, Lose, ReadFails, DropTraffic, wireVars, BiDiTypeOK
  <1>1. BiDiTypeOK'
    BY <1>0 DEF BiDiTypeOK, Ids, Sends, Idle, Outcomes, Command, Reply
  <1>2. RepliesMatch'
    BY <1>0 DEF BiDiTypeOK, RepliesMatch, IdsAreFresh, SameCommand, At, Ids, Command, Reply, Idle
  <1>3. IdsAreFresh'
    BY <1>0 DEF BiDiTypeOK, IdsAreFresh, At, Ids, Command, Reply, Idle, Sends
  <1>4. OneAnswer'
    BY <1>0 DEF BiDiTypeOK, IdsAreFresh, OneAnswer, At, Ids, Command, Reply, Idle
  <1> QED
    BY <1>0, <1>1, <1>2, <1>3, <1>4

LEMMA ReadReplyKeeps == ASSUME BiDiInv, NEW m \in replies, ReadReply(m)
  PROVE  /\ BiDiInv'
         /\ carrying = None /\ replies' = replies \ {m} /\ carrying' \in {m, None}
         /\ UNCHANGED <<nextID, pending, box, call, commands, reader, closed, lost>>
  <1> USE BiDiAssumption DEF BiDiInv, ConnectionInv
  <1>0. /\ carrying = None /\ replies' = replies \ {m} /\ carrying' \in {m, None}
        /\ UNCHANGED <<nextID, pending, box, call, commands, reader, closed, lost>>
    BY DEF ReadReply, Reading
  <1>1. BiDiTypeOK'
    BY <1>0 DEF BiDiTypeOK, Ids, Sends, Idle, Outcomes, Command, Reply
  <1>2. RepliesMatch'
    BY <1>0 DEF BiDiTypeOK, RepliesMatch, IdsAreFresh, SameCommand, At, Ids, Command, Reply, Idle
  <1>3. IdsAreFresh'
    BY <1>0 DEF BiDiTypeOK, IdsAreFresh, At, Ids, Command, Reply, Idle, Sends
  <1>4. OneAnswer'
    BY <1>0 DEF BiDiTypeOK, IdsAreFresh, OneAnswer, At, Ids, Command, Reply, Idle
  <1> QED
    BY <1>0, <1>1, <1>2, <1>3, <1>4

LEMMA DeliverKeeps == ASSUME BiDiInv, Deliver
  PROVE  /\ BiDiInv'
         /\ carrying # None /\ box[carrying.id] = None /\ carrying' = None
         /\ carrying \in Reply /\ carrying.id \in Ids /\ box' = [box EXCEPT ![carrying.id] = carrying]
         /\ UNCHANGED <<nextID, pending, call, commands, replies, reader, closed, lost>>
  <1> USE BiDiAssumption DEF BiDiInv, ConnectionInv
  <1>0. /\ carrying # None /\ box[carrying.id] = None /\ carrying' = None
        /\ carrying \in Reply /\ carrying.id \in Ids /\ box' = [box EXCEPT ![carrying.id] = carrying]
        /\ UNCHANGED <<nextID, pending, call, commands, replies, reader, closed, lost>>
    BY DEF Deliver, wireVars, BiDiTypeOK, Reply
  <1>1. BiDiTypeOK'
    BY <1>0 DEF BiDiTypeOK, Ids, Sends, Idle, Outcomes, Command, Reply
  <1>2. RepliesMatch'
    BY <1>0 DEF BiDiTypeOK, RepliesMatch, IdsAreFresh, SameCommand, At, Ids, Command, Reply, Idle
  <1>3. IdsAreFresh'
    BY <1>0 DEF BiDiTypeOK, IdsAreFresh, At, Ids, Command, Reply, Idle, Sends
  <1>4. OneAnswer'
    BY <1>0 DEF BiDiTypeOK, IdsAreFresh, OneAnswer, At, Ids, Command, Reply, Idle
  <1> QED
    BY <1>0, <1>1, <1>2, <1>3, <1>4

LEMMA RepliesKeeps == ASSUME BiDiInv, NEW m \in commands, NEW o \in Outcomes, Replies(m, o) 
  PROVE  /\ BiDiInv' /\ commands' = commands \ {m}
         /\ replies' = replies \cup {[id |-> m.id, by |-> m.by, method |-> m.method, out |-> o]}
         /\ UNCHANGED <<nextID, pending, box, call, carrying, reader, closed, lost>>
  <1> USE BiDiAssumption DEF BiDiInv, ConnectionInv
  <1> DEFINE new == [id |-> m.id, by |-> m.by, method |-> m.method, out |-> o]
  <1>0. /\ new \in Reply /\ new.id = m.id /\ new.by = m.by /\ new.method = m.method
        /\ commands' = commands \ {m} /\ replies' = replies \cup {new}
        /\ UNCHANGED <<nextID, pending, box, call, carrying, reader, closed, lost>>
    BY DEF Replies, readVars, BiDiTypeOK, Command, Reply
  <1> HIDE DEF new
  <1>1. BiDiTypeOK'
    BY <1>0 DEF BiDiTypeOK
  <1>2. RepliesMatch'
    BY <1>0 DEF BiDiTypeOK, RepliesMatch, SameCommand, At
  <1>3. IdsAreFresh'
    BY <1>0 DEF BiDiTypeOK, IdsAreFresh, At
  <1>4. OneAnswer'
    BY <1>0 DEF BiDiTypeOK, OneAnswer, At
  <1> QED
    BY <1>0, <1>1, <1>2, <1>3, <1>4 DEF new

-----------------------------------------------------------------------------
(* The challenges.                                                         *)

\* A request that is held is held for the last challenge that was about it.
ChallInv ==
  /\ ChallengesTypeOK
  /\ \A r \in Requests : stage[r] = "held" => latest[r] \in 1..asked /\ of[latest[r]] = r

LEMMA ChallengeKeeps ==
  ASSUME ChallInv, NEW r \in Requests, NEW held \in BOOLEAN, Challenge(r, held)
  PROVE  /\ ChallInv' /\ asked' = asked + 1 /\ asked' \in Challenges /\ asked' \notin 1..asked
         /\ 1..asked \subseteq 1..asked' /\ latest' = [latest EXCEPT ![r] = asked']
         /\ stage' = [stage EXCEPT ![r] = IF held THEN "held" ELSE "failed"]
  <1>1. /\ asked \in Nat /\ asked < MaxChallenges /\ asked' = asked + 1 /\ asked' \in 0..MaxChallenges
        /\ latest' = [latest EXCEPT ![r] = asked'] /\ asked' \in 1..asked'
        /\ stage' = [stage EXCEPT ![r] = IF held THEN "held" ELSE "failed"]
    BY ChallengesAssumption DEF ChallInv, ChallengesTypeOK, Challenge
  <1>2. of' \in [1..asked' -> Requests] /\ of'[asked'] = r /\ \A n \in 1..asked : of'[n] = of[n]
    BY <1>1 DEF ChallInv, ChallengesTypeOK, Challenge
  <1>3. ChallengesTypeOK'
    BY <1>1, <1>2 DEF ChallInv, ChallengesTypeOK, Stages
  <1>4. \A q \in Requests : stage'[q] = "held" => latest'[q] \in 1..asked' /\ of'[latest'[q]] = q
    <2> SUFFICES ASSUME NEW q \in Requests, stage'[q] = "held"
                 PROVE  latest'[q] \in 1..asked' /\ of'[latest'[q]] = q
      OBVIOUS
    <2>1. CASE q = r
      BY <1>1, <1>2, <2>1 DEF ChallInv, ChallengesTypeOK
    <2>2. CASE q # r
      <3>1. latest'[q] = latest[q] /\ latest[q] \in 1..asked /\ of[latest[q]] = q
        BY <1>1, <2>2 DEF ChallInv, ChallengesTypeOK
      <3> QED
        BY <1>1, <1>2, <3>1
    <2> QED
      BY <2>1, <2>2
  <1> QED
    BY <1>1, <1>3, <1>4 DEF ChallInv, Challenges

LEMMA ContinueKeeps ==
  ASSUME ChallInv, NEW n, NEW credentials \in BOOLEAN, Continue(n, credentials)
  PROVE  /\ ChallInv' /\ UNCHANGED <<latest, asked, of>>
         /\ \A r \in Requests : stage'[r] = "held" => stage[r] = "held" /\ latest[r] # n
         /\ \A r \in Requests : stage'[r] = "paused" => stage[r] = "paused"
  <1>1. /\ UNCHANGED <<latest, asked, of>>
        /\ stage' = [stage EXCEPT ![of[n]] = IF @ # "held" THEN @ ELSE IF credentials THEN "trying" ELSE "failed"]
    BY DEF Continue
  <1>2. stage' \in [Requests -> Stages]
    BY <1>1 DEF ChallInv, ChallengesTypeOK, Stages
  <1>3. \A r \in Requests : stage'[r] = "held" => stage[r] = "held" /\ r # of[n]
    BY <1>1 DEF ChallInv, ChallengesTypeOK
  <1>4. \A r \in Requests : stage'[r] = "paused" => stage[r] = "paused"
    BY <1>1 DEF ChallInv, ChallengesTypeOK
  <1> QED
    BY <1>1, <1>2, <1>3, <1>4 DEF ChallInv, ChallengesTypeOK

LEMMA MovesKeeps ==
  ASSUME ChallInv, NEW r \in Requests, Pause(r) \/ Resume(r)
  PROVE  /\ ChallInv' /\ UNCHANGED <<latest, asked, of>>
         /\ stage' = [stage EXCEPT ![r] = IF @ = "paused" THEN "trying" ELSE "paused"]
  <1>1. /\ UNCHANGED <<latest, asked, of>>
        /\ stage' = [stage EXCEPT ![r] = IF @ = "paused" THEN "trying" ELSE "paused"]
        /\ stage[r] # "held"
    BY DEF Pause, Resume, Moves
  <1> QED
    BY <1>1 DEF ChallInv, ChallengesTypeOK, Stages

-----------------------------------------------------------------------------
(* Over CDP.                                                               *)

\* What keeps every event in hand: nothing is intercepted before the listener
\* is there.
CdpInv ==
  /\ setup \in {"list", "attach", "listen", "enable", "installed", "failed", "detached"}
  /\ listening \in BOOLEAN /\ enabled \in BOOLEAN
  /\ setup \in {"enable", "installed"} => listening
  /\ enabled \/ events # {} => listening
  /\ source \in [Challenges -> {"proxy", "server"}]
  /\ \A r \in Requests : stage[r] \in {"paused", "held"} => enabled \/ Gone

LEMMA CdpKeeps ==
  ASSUME ChallInv, CdpInv, PausedInHand, CdpAuthNext
  PROVE  /\ ChallInv' /\ CdpInv' /\ PausedInHand'
         /\ asked <= asked' /\ 1..asked \subseteq 1..asked'
  <1> USE DEF Gone
  <1>0. asked \in Nat /\ \A n \in 1..asked : n \in Challenges
    BY ChallengesAssumption DEF ChallInv, ChallengesTypeOK, Challenges
  <1>1. ASSUME PageTarget \/ Attach \/ CdpInstall \/ Detach \/ (\E e \in answering : Abandon(e))
               \/ (\E e \in events : Hear(e))
        PROVE  /\ ChallInv' /\ CdpInv' /\ PausedInHand'
               /\ UNCHANGED asked
    <2>1. UNCHANGED browserVars /\ UNCHANGED source
      BY <1>1 DEF PageTarget, Attach, CdpInstall, ListenTarget, FetchEnable, SetupStep, Detach, Abandon, Hear
    <2>2. ChallInv'
      BY <2>1 DEF browserVars, ChallInv, ChallengesTypeOK
    <2>3. CdpInv'
      <3>1. CASE PageTarget \/ Attach
        BY <2>1, <3>1 DEF CdpInv, browserVars, PageTarget, Attach, SetupStep
      <3>2. CASE ListenTarget
        BY <2>1, <3>2 DEF CdpInv, browserVars, ListenTarget
      <3>3. CASE FetchEnable
        BY <2>1, <3>3 DEF CdpInv, browserVars, FetchEnable, SetupStep
      <3>4. CASE Detach \/ (\E e \in answering : Abandon(e)) \/ (\E e \in events : Hear(e))
        BY <2>1, <3>4 DEF CdpInv, browserVars, Detach, Abandon, Hear
      <3> QED
        BY <1>1, <3>1, <3>2, <3>3, <3>4 DEF CdpInstall
    <2>4. PausedInHand'
      BY <1>1, <2>1 DEF CdpInv, PausedInHand, Pending, Waits, HeldBy, browserVars, PageTarget, Attach, CdpInstall, ListenTarget,
         FetchEnable, SetupStep, Detach, Abandon, Hear
    <2> QED
      BY <2>1, <2>2, <2>3, <2>4 DEF browserVars
  <1>2. ASSUME NEW r \in Requests, ContinueRequest(r)
        PROVE  /\ ChallInv' /\ CdpInv' /\ PausedInHand'
               /\ UNCHANGED asked
    <2>1. /\ ChallInv' /\ UNCHANGED <<latest, asked, of>> /\ stage[r] = "paused"
          /\ stage' = [stage EXCEPT ![r] = "trying"] /\ answering' = answering \ {[paused |-> r]}
          /\ UNCHANGED <<setup, listening, enabled, events, abandoned, source>>
      BY <1>2, MovesKeeps DEF ContinueRequest, Replied, Resume, Moves
    <2>2. \A q \in Requests : q # r => [paused |-> q] # [paused |-> r]
      OBVIOUS
    <2>3. \A n : [auth |-> n] # [paused |-> r]
      OBVIOUS
    <2>4. \A q \in Requests : stage'[q] \in {"paused", "held"} => q # r /\ stage'[q] = stage[q]
      BY <2>1 DEF ChallInv, ChallengesTypeOK
    <2>5. PausedInHand'
      BY <2>1, <2>2, <2>3, <2>4 DEF PausedInHand, Pending, Waits, HeldBy
    <2> QED
      BY <2>1, <2>4, <2>5 DEF CdpInv
  <1>3. ASSUME NEW n \in 1..asked, ContinueWithAuth(n)
        PROVE  /\ ChallInv' /\ CdpInv' /\ PausedInHand'
               /\ UNCHANGED asked
    <2>1. PICK provide \in BOOLEAN :
            /\ Continue(n, provide) /\ provide = (source[n] = "proxy")
            /\ answering' = answering \ {[auth |-> n]}
            /\ UNCHANGED <<setup, listening, enabled, events, abandoned, source>>
      BY <1>3 DEF ContinueWithAuth, Replied
    <2>2. /\ ChallInv' /\ UNCHANGED <<latest, asked, of>>
          /\ \A r \in Requests : stage'[r] = "held" => stage[r] = "held" /\ latest[r] # n
          /\ \A r \in Requests : stage'[r] = "paused" => stage[r] = "paused"
      BY <2>1, ContinueKeeps
    <2>3. \A k : k # n => [auth |-> k] # [auth |-> n]
      OBVIOUS
    <2>4. \A r : [paused |-> r] # [auth |-> n]
      OBVIOUS
    <2>5. PausedInHand'
      BY <2>1, <2>2, <2>3, <2>4 DEF PausedInHand, Pending, Waits, HeldBy
    <2> QED
      BY <2>1, <2>2, <2>5 DEF CdpInv
  <1>4. ASSUME NEW r \in Requests, BrowserPauses(r)
        PROVE  /\ ChallInv' /\ CdpInv' /\ PausedInHand'
               /\ UNCHANGED asked
    <2>1. /\ ChallInv' /\ UNCHANGED <<latest, asked, of>> /\ stage[r] = "none"
          /\ stage' = [stage EXCEPT ![r] = "paused"] /\ events' = events \cup {[paused |-> r]}
          /\ enabled /\ UNCHANGED <<setup, listening, enabled, answering, abandoned, source>>
      BY <1>4, MovesKeeps DEF BrowserPauses, Pause, Moves
    <2>2. PausedInHand'
      BY <2>1 DEF PausedInHand, Pending, Waits, HeldBy, ChallInv, ChallengesTypeOK
    <2> QED
      BY <2>1, <2>2 DEF CdpInv
  <1>5. ASSUME NEW r \in Requests, BrowserAsks(r)
        PROVE  /\ ChallInv' /\ CdpInv' /\ PausedInHand'
               /\ asked' = asked + 1
    <2>1. PICK who \in {"proxy", "server"} : source' = [source EXCEPT ![asked + 1] = who]
      BY <1>5 DEF BrowserAsks
    <2>2. /\ Challenge(r, enabled) /\ ~Gone
          /\ events' = IF enabled THEN events \cup {[auth |-> asked + 1]} ELSE events
          /\ UNCHANGED <<setup, listening, enabled, answering, abandoned>>
      BY <1>5 DEF BrowserAsks
    <2>3. /\ ChallInv' /\ asked' = asked + 1 /\ asked' \notin 1..asked /\ 1..asked \subseteq 1..asked'
          /\ latest' = [latest EXCEPT ![r] = asked']
          /\ stage' = [stage EXCEPT ![r] = IF enabled THEN "held" ELSE "failed"]
      BY <2>2, ChallengeKeeps DEF CdpInv
    <2>4. PausedInHand'
      BY <2>2, <2>3 DEF PausedInHand, Pending, Waits, HeldBy, ChallInv, ChallengesTypeOK
    <2>5. CdpInv'
      <3>1. source' \in [Challenges -> {"proxy", "server"}]
        BY <2>1, <2>2, <2>3 DEF CdpInv
      <3>2. \A q \in Requests : stage'[q] \in {"paused", "held"} => enabled' \/ Gone'
        BY <2>2, <2>3 DEF CdpInv, ChallInv, ChallengesTypeOK
      <3>3. enabled' \/ events' # {} => listening'
        BY <2>2 DEF CdpInv
      <3> QED
        BY <2>2, <3>1, <3>2, <3>3 DEF CdpInv
    <2> QED
      BY <2>3, <2>4, <2>5
  <1> QED
    BY <1>0, <1>1, <1>2, <1>3, <1>4, <1>5 DEF CdpAuthNext, ListenerStep, CdpEnvironment

-----------------------------------------------------------------------------
(* Over BiDi.                                                              *)

\* Where the goroutine of enableProxyAuth is, and what it has asked for.
MainInv ==
  /\ At(Main, "none") <=> install \notin {"intercept", "subscribe"}
  /\ install = "intercept" => call[Main].method = "addIntercept"
  /\ install = "subscribe" => call[Main].method = "subscribe"

\* A command that has been granted has taken effect, and nobody subscribes
\* before the handler is registered.
Granted(m) ==
  m.out = "ok" => (m.method = "addIntercept" => intercept) /\ (m.method = "subscribe" => subscribed)

GrantInv ==
  /\ \A m \in commands : m.method = "subscribe" => handling
  /\ \A m \in replies : Granted(m)
  /\ carrying # None => Granted(carrying)
  /\ \A i \in Ids : box[i] # None => Granted(box[i])
  /\ At(Main, "leave") => Granted(call[Main])

\* The counter of a request says whether it was given credentials since the
\* counters were emptied last.
BoundInv ==
  \A r \in Requests : given[r] <= resets + (IF attempts[r] > 0 THEN 1 ELSE 0)

ReportInv ==
  /\ reported # {} => handling
  /\ \A n \in reports : task[n] = "none"

AuthIInv ==
  /\ BiDiInv /\ ChallInv /\ AuthTypeOK /\ InstalledInv /\ MethodsInv
  /\ MainInv /\ GrantInv /\ BoundInv /\ ReportInv /\ ChallengesInHand

LEMMA SameBrowser ==
  ASSUME ChallInv, UNCHANGED browserVars
  PROVE  ChallInv' /\ UNCHANGED <<stage, latest, asked, of>>
  BY DEF ChallInv, ChallengesTypeOK, browserVars

LEMMA SameConnection ==
  ASSUME BiDiInv, UNCHANGED bidiVars
  PROVE  /\ BiDiInv' /\ UNCHANGED <<nextID, pending, box, call, commands, replies>>
         /\ UNCHANGED <<carrying, reader, closed, lost>>
  BY DEF BiDiInv, BiDiTypeOK, ConnectionInv, RepliesMatch, IdsAreFresh, OneAnswer, bidiVars, At, SameCommand

\* The goroutine of enableProxyAuth is none of the handlers'.
LEMMA WhoCalls ==
  /\ Main \in Callers /\ Main \notin Challenges /\ Challenges \subseteq Callers
  /\ \A c \in Callers : c = Main \/ c \in Challenges
  /\ {"addIntercept", "subscribe"} \cup Answers = Methods
  BY BiDiAuthAssumption, ChallengesAssumption DEF Main, Challenges, Answers

LEMMA AuthStart == ASSUME BiDiAuthInit PROVE AuthIInv
  <1>1. BiDiInv
    BY BiDiStart DEF BiDiAuthInit
  <1>2. ChallInv
    BY ChallengesAssumption DEF BiDiAuthInit, ChallengesInit, ChallInv, ChallengesTypeOK, Stages
  <1>3. \A c \in Callers : At(c, "none")
    BY DEF BiDiAuthInit, BiDiInit, At, Idle
  <1>4. AuthTypeOK
    BY <1>1, <1>2 DEF BiDiAuthInit, AuthInit, AuthTypeOK, BiDiInv, ChallInv
  <1>5. InstalledInv /\ MainInv
    BY <1>3, WhoCalls DEF BiDiAuthInit, AuthInit, InstalledInv, MainInv
  <1>6. MethodsInv /\ BoundInv /\ ReportInv
    BY <1>3, WhoCalls DEF BiDiAuthInit, BiDiInit, AuthInit, MethodsInv, BoundInv, ReportInv
  <1>7. GrantInv
    BY <1>3, WhoCalls DEF BiDiAuthInit, BiDiInit, GrantInv, At
  <1>8. ChallengesInHand
    BY DEF BiDiAuthInit, ChallengesInit, ChallengesInHand
  <1> QED
    BY <1>1, <1>2, <1>4, <1>5, <1>6, <1>7, <1>8 DEF AuthIInv

LEMMA AskKeeps == ASSUME AuthIInv, NEW from, NEW to, NEW m,
         <<from, to, m>> \in {<<"start", "intercept", "addIntercept">>, <<"on", "subscribe", "subscribe">>},
         m = "subscribe" => handling, Ask(from, to, m) PROVE AuthIInv'
  <1> USE WhoCalls DEF AuthIInv
  <1>0. /\ BiDiInv' /\ ChallInv'
        /\ install = from /\ install' = to /\ m \in Methods
        /\ call' = [call EXCEPT ![Main] = [at |-> "write", id |-> nextID + 1, method |-> m, out |-> None]]
        /\ UNCHANGED <<box, commands, replies, carrying, reader, closed, lost>>
        /\ UNCHANGED <<stage, latest, asked, of>>
        /\ UNCHANGED <<handling, intercept, subscribed, reported, reports, task, attempts, resets, given>>
    BY RegisterKeeps, SameBrowser DEF Ask, GoTo
  <1>1. AuthTypeOK'
    BY <1>0 DEF AuthTypeOK, BiDiInv, ChallInv
  <1>2. InstalledInv'
    BY <1>0 DEF InstalledInv
  <1>3. MethodsInv'
    BY <1>0 DEF MethodsInv, At, BiDiInv, BiDiTypeOK, Idle, AuthTypeOK, Command, Reply
  <1>4. MainInv'
    BY <1>0 DEF MainInv, At, BiDiInv, BiDiTypeOK, Idle
  <1>5. GrantInv'
    BY <1>0 DEF GrantInv, Granted, At, BiDiInv, BiDiTypeOK, Idle, Ids, Command, Reply
  <1>6. BoundInv'
    BY <1>0 DEF BoundInv, AuthTypeOK
  <1>7. ReportInv'
    BY <1>0 DEF ReportInv, AuthTypeOK
  <1>8. ChallengesInHand'
    BY <1>0 DEF ChallengesInHand, InHand, Down, AuthTypeOK, BiDiInv, BiDiTypeOK
  <1> QED
    BY <1>0, <1>1, <1>2, <1>3, <1>4, <1>5, <1>6, <1>7, <1>8

LEMMA HeardKeeps == ASSUME AuthIInv, NEW from, NEW to,
         <<from, to>> \in {<<"intercept", "on">>, <<"subscribe", "installed">>}, Heard(from, to) PROVE AuthIInv'
  <1> USE WhoCalls DEF AuthIInv
  <1>0. /\ BiDiInv' /\ ChallInv'
        /\ install = from /\ install' = IF call[Main].out = "ok" THEN to ELSE "failed"
        /\ call[Main].at = "leave" /\ call' = [call EXCEPT ![Main] = Idle]
        /\ UNCHANGED <<nextID, box, commands, replies, carrying, reader, closed, lost>>
        /\ UNCHANGED <<stage, latest, asked, of>>
        /\ UNCHANGED <<handling, intercept, subscribed, reported, reports, task, attempts, resets, given>>
    BY LeaveKeeps, SameBrowser DEF Heard, GoTo
  <1>1. AuthTypeOK'
    BY <1>0 DEF AuthTypeOK, BiDiInv, ChallInv
  <1>2. InstalledInv'
    BY <1>0 DEF InstalledInv, GrantInv, Granted, MainInv, At
  <1>3. MethodsInv'
    BY <1>0 DEF MethodsInv, At, BiDiInv, BiDiTypeOK, Idle, AuthTypeOK, Command, Reply
  <1>4. MainInv'
    BY <1>0 DEF MainInv, At, BiDiInv, BiDiTypeOK, Idle
  <1>5. GrantInv'
    BY <1>0 DEF GrantInv, Granted, At, BiDiInv, BiDiTypeOK, Idle, Ids, Command, Reply
  <1>6. BoundInv'
    BY <1>0 DEF BoundInv, AuthTypeOK
  <1>7. ReportInv'
    BY <1>0 DEF ReportInv, AuthTypeOK
  <1>8. ChallengesInHand'
    BY <1>0 DEF ChallengesInHand, InHand, Down, AuthTypeOK, BiDiInv, BiDiTypeOK
  <1> QED
    BY <1>0, <1>1, <1>2, <1>3, <1>4, <1>5, <1>6, <1>7, <1>8

LEMMA OnKeeps == ASSUME AuthIInv, On PROVE AuthIInv'
  <1> USE WhoCalls DEF AuthIInv
  <1>0. /\ BiDiInv' /\ ChallInv'
        /\ handling' = TRUE
        /\ UNCHANGED <<nextID, pending, box, call, commands, replies, carrying, reader, closed, lost>>
        /\ UNCHANGED <<stage, latest, asked, of>>
        /\ UNCHANGED <<install, intercept, subscribed, reported, reports, task, attempts, resets, given>>
    BY SameBrowser, SameConnection DEF On
  <1>1. AuthTypeOK'
    BY <1>0 DEF AuthTypeOK, BiDiInv, ChallInv
  <1>2. InstalledInv'
    BY <1>0 DEF InstalledInv
  <1>3. MethodsInv'
    BY <1>0 DEF MethodsInv, At, BiDiInv, BiDiTypeOK, Idle, AuthTypeOK, Command, Reply
  <1>4. MainInv'
    BY <1>0 DEF MainInv, At, BiDiInv, BiDiTypeOK, Idle
  <1>5. GrantInv'
    BY <1>0 DEF GrantInv, Granted, At, BiDiInv, BiDiTypeOK, Idle, Ids, Command, Reply
  <1>6. BoundInv'
    BY <1>0 DEF BoundInv, AuthTypeOK
  <1>7. ReportInv'
    BY <1>0 DEF ReportInv, AuthTypeOK
  <1>8. ChallengesInHand'
    BY <1>0 DEF ChallengesInHand, InHand, Down, AuthTypeOK, BiDiInv, BiDiTypeOK
  <1> QED
    BY <1>0, <1>1, <1>2, <1>3, <1>4, <1>5, <1>6, <1>7, <1>8

LEMMA CloseKeeps == ASSUME AuthIInv, CloseSession \/ LoseDriver PROVE AuthIInv'
  <1> USE WhoCalls DEF AuthIInv
  <1>0. /\ BiDiInv' /\ ChallInv'
        /\ install' = install \/ (install \in {"installed", "failed"} /\ install' = "closed")
        /\ reports' = {} /\ commands' = {} /\ replies' = {}
        /\ (closed' /\ lost' = lost) \/ (lost' /\ closed' = closed)
        /\ UNCHANGED <<nextID, pending, box, call, carrying, reader>>
        /\ UNCHANGED <<stage, latest, asked, of>>
        /\ UNCHANGED <<handling, intercept, subscribed, reported, task, attempts, resets, given>>
    BY TrafficKeeps, SameBrowser DEF CloseSession, LoseDriver, GoTo, Close, Lose, DropTraffic
  <1>1. AuthTypeOK'
    BY <1>0 DEF AuthTypeOK, BiDiInv, ChallInv
  <1>2. InstalledInv'
    BY <1>0 DEF InstalledInv
  <1>3. MethodsInv'
    BY <1>0 DEF MethodsInv, At, BiDiInv, BiDiTypeOK, Idle, AuthTypeOK, Command, Reply
  <1>4. MainInv'
    BY <1>0 DEF MainInv, At, BiDiInv, BiDiTypeOK, Idle
  <1>5. GrantInv'
    BY <1>0 DEF GrantInv, Granted, At, BiDiInv, BiDiTypeOK, Idle, Ids, Command, Reply
  <1>6. BoundInv'
    BY <1>0 DEF BoundInv, AuthTypeOK
  <1>7. ReportInv'
    BY <1>0 DEF ReportInv, AuthTypeOK
  <1>8. ChallengesInHand'
    BY <1>0 DEF ChallengesInHand, InHand, Down, AuthTypeOK, BiDiInv, BiDiTypeOK
  <1> QED
    BY <1>0, <1>1, <1>2, <1>3, <1>4, <1>5, <1>6, <1>7, <1>8

LEMMA ReadEventKeeps == ASSUME AuthIInv, NEW n \in Challenges, ReadEvent(n) PROVE AuthIInv'
  <1> USE WhoCalls DEF AuthIInv
  <1>0. /\ BiDiInv' /\ ChallInv' /\ n \in reports /\ reports' = reports \ {n}
        /\ task' = [task EXCEPT ![n] = "born"]
        /\ UNCHANGED <<nextID, pending, box, call, commands, replies, carrying, reader, closed, lost>>
        /\ UNCHANGED <<stage, latest, asked, of>>
        /\ UNCHANGED <<install, handling, intercept, subscribed, reported, attempts, resets, given>>
    BY SameBrowser, SameConnection DEF ReadEvent, ReportInv, AuthTypeOK
  <1>1. AuthTypeOK'
    BY <1>0 DEF AuthTypeOK, BiDiInv, ChallInv
  <1>2. InstalledInv'
    BY <1>0 DEF InstalledInv
  <1>3. MethodsInv'
    BY <1>0 DEF MethodsInv, At, BiDiInv, BiDiTypeOK, Idle, AuthTypeOK, Command, Reply, ReportInv
  <1>4. MainInv'
    BY <1>0 DEF MainInv, At, BiDiInv, BiDiTypeOK, Idle
  <1>5. GrantInv'
    BY <1>0 DEF GrantInv, Granted, At, BiDiInv, BiDiTypeOK, Idle, Ids, Command, Reply
  <1>6. BoundInv'
    BY <1>0 DEF BoundInv, AuthTypeOK
  <1>7. ReportInv'
    BY <1>0 DEF ReportInv, AuthTypeOK
  <1>8. ChallengesInHand'
    BY <1>0 DEF ChallengesInHand, InHand, Down, AuthTypeOK, BiDiInv, BiDiTypeOK
  <1> QED
    BY <1>0, <1>1, <1>2, <1>3, <1>4, <1>5, <1>6, <1>7, <1>8

LEMMA CountAttemptKeeps == ASSUME AuthIInv, NEW n \in Challenges, CountAttempt(n) PROVE AuthIInv'
  <1> USE WhoCalls DEF AuthIInv
  <1>00. /\ of[n] \in Requests
         /\ \E tries \in Nat, full \in BOOLEAN :
              /\ tries = IF full THEN 1 ELSE attempts[of[n]] + 1
              /\ attempts' = [r \in Requests |-> IF r = of[n] THEN tries ELSE IF full THEN 0 ELSE attempts[r]]
              /\ resets' = IF full THEN resets + 1 ELSE resets
              /\ given' = IF tries <= 1 THEN [given EXCEPT ![of[n]] = @ + 1] ELSE given
    <2> DEFINE full == Cardinality(Tracked) > MaxTracked
    <2> DEFINE tries == IF full THEN 1 ELSE attempts[of[n]] + 1
    <2>1. n \in 1..asked
      BY DEF CountAttempt, MethodsInv, AuthTypeOK
    <2>2. of[n] \in Requests
      BY <2>1 DEF ChallInv, ChallengesTypeOK
    <2>3. /\ attempts' = [r \in Requests |-> IF r = of[n] THEN tries ELSE IF full THEN 0 ELSE attempts[r]]
          /\ resets' = IF full THEN resets + 1 ELSE resets
          /\ given' = IF tries <= 1 THEN [given EXCEPT ![of[n]] = @ + 1] ELSE given
      BY DEF CountAttempt, MaxAuthAttempts
    <2> HIDE DEF full
    <2>4. tries \in Nat
      BY <2>2 DEF AuthTypeOK
    <2>5. CASE full
      BY <2>2, <2>3, <2>4, <2>5
    <2>6. CASE ~full
      BY <2>2, <2>3, <2>4, <2>6
    <2> QED
      BY <2>5, <2>6
  <1>0. /\ BiDiInv' /\ ChallInv' /\ task[n] = "born" /\ task' = [task EXCEPT ![n] = "sending"]
        /\ of[n] \in Requests
        /\ \E m \in Answers : call' = [call EXCEPT ![n] = [at |-> "write", id |-> nextID + 1, method |-> m, out |-> None]]
        /\ UNCHANGED <<box, commands, replies, carrying, reader, closed, lost>>
        /\ UNCHANGED <<stage, latest, asked, of>>
        /\ UNCHANGED <<install, handling, intercept, subscribed, reported, reports>>
    BY <1>00, RegisterKeeps, SameBrowser DEF CountAttempt, MethodsInv, AuthTypeOK, ChallInv, ChallengesTypeOK, Answers
  <1>1. AuthTypeOK'
    <2>1. task' \in [Challenges -> {"none", "born", "sending", "done"}]
      BY <1>0 DEF AuthTypeOK
    <2>2. PICK tries \in Nat, full \in BOOLEAN :
            /\ attempts' = [r \in Requests |-> IF r = of[n] THEN tries ELSE IF full THEN 0 ELSE attempts[r]]
            /\ resets' = IF full THEN resets + 1 ELSE resets
            /\ given' = IF tries <= 1 THEN [given EXCEPT ![of[n]] = @ + 1] ELSE given
      BY <1>0, <1>00
    <2>3. attempts' \in [Requests -> Nat] /\ resets' \in Nat /\ given' \in [Requests -> Nat]
      BY <1>0, <2>2 DEF AuthTypeOK
    <2> QED
      BY <1>0, <2>1, <2>3 DEF AuthTypeOK, BiDiInv, ChallInv
  <1>2. InstalledInv'
    BY <1>0 DEF InstalledInv
  <1>3. MethodsInv'
    BY <1>0 DEF MethodsInv, At, BiDiInv, BiDiTypeOK, Idle, AuthTypeOK, Command, Reply
  <1>4. MainInv'
    BY <1>0 DEF MainInv, At, BiDiInv, BiDiTypeOK, Idle
  <1>5. GrantInv'
    BY <1>0 DEF GrantInv, Granted, At, BiDiInv, BiDiTypeOK, Idle, Ids, Command, Reply
  <1>6. BoundInv'
    <2>1. PICK tries \in Nat, full \in BOOLEAN :
            /\ tries = IF full THEN 1 ELSE attempts[of[n]] + 1
            /\ attempts' = [r \in Requests |-> IF r = of[n] THEN tries ELSE IF full THEN 0 ELSE attempts[r]]
            /\ resets' = IF full THEN resets + 1 ELSE resets
            /\ given' = IF tries <= 1 THEN [given EXCEPT ![of[n]] = @ + 1] ELSE given
      BY <1>0, <1>00
    <2> QED
      BY <1>0, <2>1 DEF AuthTypeOK, BoundInv
  <1>7. ReportInv'
    BY <1>0 DEF ReportInv, AuthTypeOK
  <1>8. ChallengesInHand'
    BY <1>0 DEF ChallengesInHand, InHand, Down, AuthTypeOK, BiDiInv, BiDiTypeOK
  <1> QED
    BY <1>0, <1>1, <1>2, <1>3, <1>4, <1>5, <1>6, <1>7, <1>8

LEMMA HandlerEndsKeeps == ASSUME AuthIInv, NEW n \in Challenges, HandlerEnds(n) PROVE AuthIInv'
  <1> USE WhoCalls DEF AuthIInv
  <1>0. /\ BiDiInv' /\ ChallInv' /\ call[n].at = "leave" /\ call' = [call EXCEPT ![n] = Idle]
        /\ task' = [task EXCEPT ![n] = "done"] /\ task[n] = "sending"
        /\ UNCHANGED <<nextID, box, commands, replies, carrying, reader, closed, lost>>
        /\ UNCHANGED <<stage, latest, asked, of>>
        /\ UNCHANGED <<install, handling, intercept, subscribed, reported, reports, attempts, resets, given>>
    BY LeaveKeeps, SameBrowser DEF HandlerEnds, MethodsInv, At
  <1>1. AuthTypeOK'
    BY <1>0 DEF AuthTypeOK, BiDiInv, ChallInv
  <1>2. InstalledInv'
    BY <1>0 DEF InstalledInv
  <1>3. MethodsInv'
    BY <1>0 DEF MethodsInv, At, BiDiInv, BiDiTypeOK, Idle, AuthTypeOK, Command, Reply
  <1>4. MainInv'
    BY <1>0 DEF MainInv, At, BiDiInv, BiDiTypeOK, Idle
  <1>5. GrantInv'
    BY <1>0 DEF GrantInv, Granted, At, BiDiInv, BiDiTypeOK, Idle, Ids, Command, Reply
  <1>6. BoundInv'
    BY <1>0 DEF BoundInv, AuthTypeOK
  <1>7. ReportInv'
    BY <1>0 DEF ReportInv, AuthTypeOK, MethodsInv
  <1>8. ChallengesInHand'
    BY <1>0 DEF ChallengesInHand, InHand, Down, AuthTypeOK, BiDiInv, BiDiTypeOK
  <1> QED
    BY <1>0, <1>1, <1>2, <1>3, <1>4, <1>5, <1>6, <1>7, <1>8

LEMMA WritesKeeps == ASSUME AuthIInv, NEW c \in Callers, Write(c), UNCHANGED <<browserVars, authVars>> PROVE AuthIInv'
  <1> USE WhoCalls DEF AuthIInv
  <1>0. /\ BiDiInv' /\ ChallInv' /\ call[c].at = "write"
        /\ \/ commands' = commands /\ (closed \/ lost)
           \/ commands' = commands \cup {[id |-> call[c].id, by |-> c, method |-> call[c].method]}
        /\ \E x \in {<<"wait", call[c].out>>, <<"leave", "error">>} :
             call' = [call EXCEPT ![c] = [at |-> x[1], id |-> call[c].id, method |-> call[c].method, out |-> x[2]]]
        /\ UNCHANGED <<nextID, pending, box, replies, carrying, reader, closed, lost>>
        /\ UNCHANGED <<stage, latest, asked, of>>
        /\ UNCHANGED <<install, handling, intercept, subscribed, reported, reports, task, attempts, resets, given>>
    BY WriteKeeps, SameBrowser DEF authVars
  <1>1. AuthTypeOK'
    BY <1>0 DEF AuthTypeOK, BiDiInv, ChallInv
  <1>2. InstalledInv'
    BY <1>0 DEF InstalledInv
  <1>3. MethodsInv'
    BY <1>0 DEF MethodsInv, At, BiDiInv, BiDiTypeOK, Idle, AuthTypeOK, Command, Reply, MethodsInv
  <1>4. MainInv'
    BY <1>0 DEF MainInv, At, BiDiInv, BiDiTypeOK, Idle
  <1>5. GrantInv'
    BY <1>0 DEF GrantInv, Granted, At, BiDiInv, BiDiTypeOK, Idle, Ids, Command, Reply, InstalledInv, MethodsInv, MainInv, Answers
  <1>6. BoundInv'
    BY <1>0 DEF BoundInv, AuthTypeOK
  <1>7. ReportInv'
    BY <1>0 DEF ReportInv, AuthTypeOK
  <1>8. ChallengesInHand'
    <2> SUFFICES ASSUME NEW r \in Requests, stage[r] = "held", latest[r] \in reported
                 PROVE  InHand(latest[r])' \/ Down'
      BY <1>0 DEF ChallengesInHand
    <2>1. InHand(latest[r]) \/ Down
      BY DEF ChallengesInHand
    <2>2. CASE call[latest[r]].at = "write" /\ latest[r] = c
      <3>1. \/ closed \/ lost
            \/ [id |-> call[c].id, by |-> c, method |-> call[c].method] \in commands'
        BY <1>0
      <3> QED
        BY <1>0, <2>2, <3>1 DEF InHand, Down
    <2>3. CASE call[latest[r]].at = "write" /\ latest[r] # c
      <3>1. call'[latest[r]] = call[latest[r]]
        BY <1>0, <2>3 DEF BiDiInv, BiDiTypeOK
      <3> QED
        BY <1>0, <2>3, <3>1 DEF InHand
    <2> QED
      BY <1>0, <2>1, <2>2, <2>3 DEF InHand, Down
  <1> QED
    BY <1>0, <1>1, <1>2, <1>3, <1>4, <1>5, <1>6, <1>7, <1>8

LEMMA WaitsKeeps == ASSUME AuthIInv, NEW c \in Callers, Answered(c) \/ SeesClose(c) \/ GivesUp(c), UNCHANGED <<browserVars, authVars>> PROVE AuthIInv'
  <1> USE WhoCalls DEF AuthIInv
  <1>0. /\ BiDiInv' /\ ChallInv' /\ call[c].at = "wait" /\ call[c].id \in Ids
        /\ \E o \in Outcomes : /\ o = "error" \/ (box[call[c].id] # None /\ o = box[call[c].id].out)
                           /\ call' = [call EXCEPT ![c] = [at |-> "leave", id |-> call[c].id, method |-> call[c].method, out |-> o]]
        /\ box' \in {box, [box EXCEPT ![call[c].id] = None]}
        /\ UNCHANGED <<nextID, pending, commands, replies, carrying, reader, closed, lost>>
        /\ UNCHANGED <<stage, latest, asked, of>>
        /\ UNCHANGED <<install, handling, intercept, subscribed, reported, reports, task, attempts, resets, given>>
    BY AnsweredKeeps, ReturnKeeps, SameBrowser DEF authVars, Outcomes
  <1>1. AuthTypeOK'
    BY <1>0 DEF AuthTypeOK, BiDiInv, ChallInv
  <1>2. InstalledInv'
    BY <1>0 DEF InstalledInv
  <1>3. MethodsInv'
    BY <1>0 DEF MethodsInv, At, BiDiInv, BiDiTypeOK, Idle, AuthTypeOK, Command, Reply
  <1>4. MainInv'
    BY <1>0 DEF MainInv, At, BiDiInv, BiDiTypeOK, Idle
  <1>5. GrantInv'
    BY <1>0 DEF GrantInv, Granted, At, BiDiInv, BiDiTypeOK, Idle, Ids, Command, Reply, ConnectionInv, RepliesMatch, SameCommand
  <1>6. BoundInv'
    BY <1>0 DEF BoundInv, AuthTypeOK
  <1>7. ReportInv'
    BY <1>0 DEF ReportInv, AuthTypeOK
  <1>8. ChallengesInHand'
    BY <1>0 DEF ChallengesInHand, InHand, Down, AuthTypeOK, BiDiInv, BiDiTypeOK
  <1> QED
    BY <1>0, <1>1, <1>2, <1>3, <1>4, <1>5, <1>6, <1>7, <1>8

LEMMA LoopKeeps == ASSUME AuthIInv, Deliver \/ ReadFails \/ (\E m \in replies : ReadReply(m)), UNCHANGED <<browserVars, authVars>> PROVE AuthIInv'
  <1> USE WhoCalls DEF AuthIInv
  <1>0. /\ BiDiInv' /\ ChallInv' /\ replies' \subseteq replies
        /\ carrying' \in replies \cup {carrying, None}
        /\ closed' = closed \/ closed'
        /\ box' = box \/ (carrying # None /\ box' = [box EXCEPT ![carrying.id] = carrying])
        /\ UNCHANGED <<nextID, call, commands, lost>>
        /\ UNCHANGED <<stage, latest, asked, of>>
        /\ UNCHANGED <<install, handling, intercept, subscribed, reported, reports, task, attempts, resets, given>>
    BY DeliverKeeps, TrafficKeeps, ReadReplyKeeps, SameBrowser DEF authVars, ReadFails, Deliver, wireVars, ReadReply
  <1>1. AuthTypeOK'
    BY <1>0 DEF AuthTypeOK, BiDiInv, ChallInv
  <1>2. InstalledInv'
    BY <1>0 DEF InstalledInv
  <1>3. MethodsInv'
    BY <1>0 DEF MethodsInv, At, BiDiInv, BiDiTypeOK, Idle, AuthTypeOK, Command, Reply
  <1>4. MainInv'
    BY <1>0 DEF MainInv, At, BiDiInv, BiDiTypeOK, Idle
  <1>5. GrantInv'
    BY <1>0 DEF GrantInv, Granted, At, BiDiInv, BiDiTypeOK, Idle, Ids, Command, Reply
  <1>6. BoundInv'
    BY <1>0 DEF BoundInv, AuthTypeOK
  <1>7. ReportInv'
    BY <1>0 DEF ReportInv, AuthTypeOK
  <1>8. ChallengesInHand'
    BY <1>0 DEF ChallengesInHand, InHand, Down, AuthTypeOK, BiDiInv, BiDiTypeOK
  <1> QED
    BY <1>0, <1>1, <1>2, <1>3, <1>4, <1>5, <1>6, <1>7, <1>8

LEMMA AsksKeeps == ASSUME AuthIInv, NEW r \in Requests, ProxyAsks(r) PROVE AuthIInv'
  <1> USE WhoCalls DEF AuthIInv
  <1>00. Challenge(r, intercept) /\ UNCHANGED bidiVars
    BY DEF ProxyAsks
  <1>01. UNCHANGED <<install, handling, intercept, subscribed, task, attempts, resets, given>>
    BY DEF ProxyAsks
  <1>02. \/ subscribed /\ reported' = reported \cup {asked'} /\ reports' = reports \cup {asked'}
         \/ reported' = reported /\ reports' = reports
    BY DEF ProxyAsks
  <1>03. asked' \in 1..asked'
    BY <1>00, ChallengesAssumption DEF Challenge, ChallInv, ChallengesTypeOK
  <1>0. /\ BiDiInv' /\ ChallInv' /\ asked' = asked + 1 /\ asked' \in Challenges /\ asked' \notin 1..asked
        /\ 1..asked \subseteq 1..asked' /\ asked' \in 1..asked' /\ latest' = [latest EXCEPT ![r] = asked']
        /\ stage' = [stage EXCEPT ![r] = IF intercept THEN "held" ELSE "failed"]
        /\ \/ subscribed /\ reported' = reported \cup {asked'} /\ reports' = reports \cup {asked'}
           \/ reported' = reported /\ reports' = reports
        /\ UNCHANGED <<nextID, pending, box, call, commands, replies, carrying, reader, closed, lost>>
        /\ UNCHANGED <<install, handling, intercept, subscribed, task, attempts, resets, given>>
    BY <1>00, <1>01, <1>02, <1>03, ChallengeKeeps, SameConnection DEF AuthTypeOK
  <1>1. AuthTypeOK'
    BY <1>0 DEF AuthTypeOK, BiDiInv, ChallInv
  <1>2. InstalledInv'
    BY <1>0 DEF InstalledInv
  <1>3. MethodsInv'
    BY <1>0 DEF MethodsInv, At, BiDiInv, BiDiTypeOK, Idle, AuthTypeOK, Command, Reply
  <1>4. MainInv'
    BY <1>0 DEF MainInv, At, BiDiInv, BiDiTypeOK, Idle
  <1>5. GrantInv'
    BY <1>0 DEF GrantInv, Granted, At, BiDiInv, BiDiTypeOK, Idle, Ids, Command, Reply
  <1>6. BoundInv'
    BY <1>0 DEF BoundInv, AuthTypeOK
  <1>7. ReportInv'
    BY <1>0 DEF ReportInv, AuthTypeOK, InstalledInv, MethodsInv
  <1>8. ChallengesInHand'
    <2> SUFFICES ASSUME NEW q \in Requests, stage'[q] = "held", latest'[q] \in reported'
                 PROVE  InHand(latest[q])' \/ Down'
      BY DEF ChallengesInHand
    <2>1. CASE q = r
      <3>1. latest'[q] = asked'
        BY <1>0, <2>1 DEF ChallInv, ChallengesTypeOK
      <3>2. asked' \in reports'
        BY <1>0, <2>1, <3>1 DEF AuthTypeOK
      <3> QED
        BY <3>1, <3>2 DEF InHand
    <2>2. CASE q # r
      <3>1. latest'[q] = latest[q] /\ stage[q] = "held" /\ latest[q] \in 1..asked
        BY <1>0, <2>2 DEF ChallInv, ChallengesTypeOK
      <3>2. latest[q] \in reported
        BY <1>0, <3>1
      <3>3. InHand(latest[q]) \/ Down
        BY <3>1, <3>2 DEF ChallengesInHand
      <3> QED
        BY <1>0, <3>1, <3>3 DEF InHand, Down
    <2> QED
      BY <2>1, <2>2
  <1> QED
    BY <1>0, <1>1, <1>2, <1>3, <1>4, <1>5, <1>6, <1>7, <1>8

LEMMA ServeKeeps == ASSUME AuthIInv, DriverStep PROVE AuthIInv'
  <1> USE WhoCalls DEF AuthIInv
  <1>1. PICK m \in commands : Serve(m)
    BY DEF DriverStep
  <1>2. PICK o \in Outcomes : Replies(m, o)
    BY <1>1 DEF Serve, Outcomes
  <1> DEFINE new == [id |-> m.id, by |-> m.by, method |-> m.method, out |-> o]
  <1>3. /\ BiDiInv' /\ commands' = commands \ {m} /\ replies' = replies \cup {new}
        /\ UNCHANGED <<nextID, pending, box, call, carrying, reader, closed, lost>>
        /\ UNCHANGED <<install, handling, reported, reports, task, attempts, resets, given>>
    BY <1>2, RepliesKeeps DEF DriverStep
  <1>4. m.by \in Callers /\ m.method \in Methods /\ new.by = m.by /\ new.method = m.method /\ new.out = o
    BY DEF BiDiInv, BiDiTypeOK, Command
  <1> HIDE DEF new
  <1>5. /\ intercept' \in BOOLEAN /\ subscribed' \in BOOLEAN
        /\ (intercept => intercept') /\ (subscribed => subscribed')
        /\ (o = "ok" => (m.method = "addIntercept" => intercept') /\ (m.method = "subscribe" => subscribed'))
        /\ (subscribed' => subscribed \/ m.method = "subscribe")
    <2>1. \A p : Replies(m, p) => p = o
      <3>1. \A p : Replies(m, p) => replies' = replies \cup {[id |-> m.id, by |-> m.by, method |-> m.method, out |-> p]}
        BY DEF Replies
      <3>2. \A x \in replies : x.id # m.id
        BY DEF BiDiInv, ConnectionInv, OneAnswer
      <3> SUFFICES ASSUME NEW p, Replies(m, p) PROVE p = o
        OBVIOUS
      <3>3. new \in replies \cup {[id |-> m.id, by |-> m.by, method |-> m.method, out |-> p]}
        BY <1>3, <3>1
      <3>4. new.id = m.id
        BY DEF new
      <3>5. new = [id |-> m.id, by |-> m.by, method |-> m.method, out |-> p]
        BY <3>2, <3>3, <3>4
      <3> QED
        BY <1>4, <3>5
    <2>2. CASE m.method = "addIntercept"
      <3>1. (Replies(m, "ok") /\ intercept') \/ (Replies(m, "error") /\ intercept' = intercept)
        BY <1>1, <2>2 DEF Serve, Answers
      <3>2. subscribed' = subscribed
        BY <1>1, <2>2 DEF Serve, Answers
      <3>3. intercept' \in BOOLEAN /\ subscribed' \in BOOLEAN
        BY <1>1, <2>2 DEF Serve, Answers, AuthTypeOK
      <3>4. o = "ok" => intercept'
        BY <2>1, <3>1
      <3>5. intercept => intercept'
        BY <3>1
      <3> QED
        BY <2>2, <3>2, <3>3, <3>4, <3>5
    <2>3. CASE m.method = "subscribe"
      <3>1. (Replies(m, "ok") /\ subscribed') \/ (Replies(m, "error") /\ subscribed' = subscribed)
        BY <1>1, <2>3 DEF Serve, Answers
      <3>2. intercept' = intercept
        BY <1>1, <2>3 DEF Serve, Answers
      <3>3. intercept' \in BOOLEAN /\ subscribed' \in BOOLEAN
        BY <1>1, <2>3 DEF Serve, Answers, AuthTypeOK
      <3>4. o = "ok" => subscribed'
        BY <2>1, <3>1
      <3>5. subscribed => subscribed'
        BY <3>1
      <3> QED
        BY <2>3, <3>2, <3>3, <3>4, <3>5
    <2>4. CASE m.method \in Answers
      <3>1. intercept' = intercept /\ subscribed' = subscribed
        BY <1>1, <2>4 DEF Serve, Answers
      <3>2. m.method # "addIntercept" /\ m.method # "subscribe"
        BY <2>4 DEF Answers
      <3>3. intercept' \in BOOLEAN /\ subscribed' \in BOOLEAN
        BY <3>1 DEF AuthTypeOK
      <3> QED
        BY <3>1, <3>2, <3>3
    <2> QED
      BY <1>4, <2>2, <2>3, <2>4
  <1>6. /\ ChallInv' /\ UNCHANGED <<latest, asked, of>>
        /\ \A r \in Requests : stage'[r] = "held" => stage[r] = "held"
        /\ \A r \in Requests : m.method \in Answers /\ stage'[r] = "held" => latest[r] # m.by
    <2>1. CASE m.method \in Answers
      <3>1. Continue(m.by, m.method = "provideCredentials")
        BY <1>1, <2>1 DEF Serve, Answers
      <3> QED
        BY <3>1, ContinueKeeps
    <2>2. CASE m.method \notin Answers
      BY <1>1, <2>2, SameBrowser DEF Serve
    <2> QED
      BY <2>1, <2>2
  <1>7. AuthTypeOK' /\ InstalledInv'
    BY <1>3, <1>5, <1>6 DEF AuthTypeOK, InstalledInv, BiDiInv, ChallInv, GrantInv
  <1>8. MethodsInv' /\ MainInv'
    BY <1>3, <1>4 DEF MethodsInv, MainInv, At
  <1>9. GrantInv'
    BY <1>3, <1>4, <1>5 DEF GrantInv, Granted, At
  <1>10. BoundInv' /\ ReportInv'
    BY <1>3 DEF BoundInv, ReportInv
  <1>11. ChallengesInHand'
    <2> SUFFICES ASSUME NEW r \in Requests, stage'[r] = "held", latest'[r] \in reported'
                 PROVE  InHand(latest[r])' \/ Down'
      BY <1>6 DEF ChallengesInHand
    <2>1. InHand(latest[r]) \/ Down
      BY <1>3, <1>6 DEF ChallengesInHand
    <2>2. m.by # latest[r]
      <3>1. latest[r] \in 1..asked /\ 1..asked \subseteq Challenges
        BY <1>3, <1>6, ChallengesAssumption DEF AuthTypeOK, ChallInv, ChallengesTypeOK, Challenges
      <3>2. CASE m.method \in Answers
        BY <1>6, <3>2
      <3>3. CASE m.method \notin Answers
        BY <1>4, <3>1, <3>3 DEF MethodsInv
      <3> QED
        BY <3>2, <3>3
    <2> QED
      BY <1>3, <1>6, <2>1, <2>2 DEF InHand, Down
  <1> QED
    BY <1>3, <1>6, <1>7, <1>8, <1>9, <1>10, <1>11

LEMMA AuthKeeps == ASSUME AuthIInv, BiDiAuthNext PROVE AuthIInv'
  <1>1. ASSUME InstallStep PROVE AuthIInv'
    <2>1. CASE AskSubscribe
      BY <2>1, AskKeeps DEF AskSubscribe
    <2> QED
      BY <1>1, <2>1, AskKeeps, HeardKeeps, OnKeeps, CloseKeeps DEF InstallStep
  <1>2. ASSUME LoopStep PROVE AuthIInv'
    BY <1>2, LoopKeeps, ReadEventKeeps DEF LoopStep, LoopActions
  <1>3. ASSUME NEW n \in Challenges, HandlerStep(n) PROVE AuthIInv'
    BY <1>3, CountAttemptKeeps, HandlerEndsKeeps DEF HandlerStep
  <1>4. ASSUME NEW c \in Callers, SendStep(c) PROVE AuthIInv'
    BY <1>4, WritesKeeps, WaitsKeeps DEF SendStep
  <1>5. ASSUME BiDiEnvironment PROVE AuthIInv'
    BY <1>5, AsksKeeps, CloseKeeps, WaitsKeeps, WhoCalls DEF BiDiEnvironment, ContextEnds
  <1> QED
    BY <1>1, <1>2, <1>3, <1>4, <1>5, ServeKeeps DEF BiDiAuthNext

-----------------------------------------------------------------------------
(* Both protocols.                                                         *)

\* The protocol that is not used does nothing.
IInv ==
  /\ AuthIInv /\ protocol \in {"bidi", "cdp"}
  /\ protocol = "cdp" => /\ CdpInv /\ PausedInHand
                         /\ reported = {} /\ \A n \in Challenges : task[n] = "none"

LEMMA ProxyAuthStart == ASSUME Init PROVE IInv
  <1>1. AuthIInv
    BY AuthStart DEF Init
  <1>2. CdpInv /\ PausedInHand
    BY DEF Init, CdpInit, BiDiAuthInit, ChallengesInit, CdpInv, PausedInHand, Waits
  <1>3. reported = {} /\ \A n \in Challenges : task[n] = "none"
    BY DEF Init, BiDiAuthInit, AuthInit
  <1> QED
    BY <1>1, <1>2, <1>3 DEF Init, CdpInit, IInv

\* What a step over CDP does to the connection that is not there: nothing.
LEMMA OtherProtocol ==
  ASSUME AuthIInv, ChallInv', UNCHANGED bidiVars, UNCHANGED authVars, reported = {}
  PROVE  AuthIInv'
  <1>1. BiDiInv'
    BY SameConnection DEF AuthIInv
  <1>2. UNCHANGED <<call, box, commands, replies, carrying, closed, lost>>
    BY DEF bidiVars
  <1>3. UNCHANGED <<install, handling, intercept, subscribed, reported, reports, task, attempts, resets, given>>
    BY DEF authVars
  <1>4. AuthTypeOK' /\ InstalledInv'
    BY <1>1, <1>3 DEF AuthIInv, AuthTypeOK, InstalledInv, BiDiInv, ChallInv
  <1>5. MethodsInv' /\ MainInv' /\ GrantInv'
    BY <1>2, <1>3 DEF AuthIInv, MethodsInv, MainInv, GrantInv, Granted, At
  <1>6. BoundInv' /\ ReportInv' /\ ChallengesInHand'
    BY <1>3 DEF AuthIInv, BoundInv, ReportInv, ChallengesInHand
  <1> QED
    BY <1>1, <1>4, <1>5, <1>6 DEF AuthIInv

LEMMA ProxyAuthStep == ASSUME IInv, [Next]_vars PROVE IInv'
  <1>1. CASE OverBiDi(BiDiAuthNext)
    <2>1. AuthIInv' /\ protocol' = "bidi"
      BY <1>1, AuthKeeps DEF IInv, OverBiDi, cdpVars
    <2> QED
      BY <2>1 DEF IInv
  <1>2. CASE OverCdp(CdpAuthNext)
    <2>1. /\ protocol = "cdp" /\ protocol' = "cdp" /\ CdpAuthNext
          /\ UNCHANGED bidiVars /\ UNCHANGED authVars
      BY <1>2 DEF OverCdp
    <2>2. ChallInv' /\ CdpInv' /\ PausedInHand'
      BY <2>1, CdpKeeps DEF IInv, AuthIInv
    <2>3. AuthIInv'
      BY <2>1, <2>2, OtherProtocol DEF IInv
    <2>4. reported' = {} /\ \A n \in Challenges : task'[n] = "none"
      BY <2>1 DEF IInv, authVars
    <2> QED
      BY <2>1, <2>2, <2>3, <2>4 DEF IInv
  <1>3. CASE UNCHANGED vars
    <2>1. UNCHANGED bidiVars /\ UNCHANGED browserVars /\ UNCHANGED authVars /\ UNCHANGED cdpVars /\ UNCHANGED protocol
      BY <1>3 DEF vars
    <2>2. AuthIInv'
      <3>1. ChallInv' /\ UNCHANGED <<stage, latest, asked, of>>
        BY <2>1, SameBrowser DEF IInv, AuthIInv
      <3>2. BiDiInv'
        BY <2>1, SameConnection DEF IInv, AuthIInv
      <3>3. UNCHANGED <<call, box, commands, replies, carrying, closed, lost>>
        BY <2>1 DEF bidiVars
      <3>4. UNCHANGED <<install, handling, intercept, subscribed, reported, reports, task, attempts, resets, given>>
        BY <2>1 DEF authVars
      <3>5. AuthTypeOK' /\ InstalledInv'
        BY <3>1, <3>2, <3>4 DEF IInv, AuthIInv, AuthTypeOK, InstalledInv, BiDiInv, ChallInv
      <3>6. MethodsInv' /\ MainInv' /\ GrantInv'
        BY <3>3, <3>4 DEF IInv, AuthIInv, MethodsInv, MainInv, GrantInv, Granted, At
      <3>7. BoundInv' /\ ReportInv' /\ ChallengesInHand'
        BY <3>1, <3>3, <3>4 DEF IInv, AuthIInv, BoundInv, ReportInv, ChallengesInHand, InHand, Down
      <3> QED
        BY <3>1, <3>2, <3>5, <3>6, <3>7 DEF AuthIInv
    <2>3. protocol = "cdp" => CdpInv' /\ PausedInHand'
      BY <2>1 DEF IInv, CdpInv, PausedInHand, Pending, Waits, HeldBy, Gone, cdpVars, browserVars
    <2>4. protocol = "cdp" => reported' = {} /\ \A n \in Challenges : task'[n] = "none"
      BY <2>1 DEF IInv, authVars, cdpVars
    <2> QED
      BY <2>1, <2>2, <2>3, <2>4 DEF IInv
  <1> QED
    BY <1>1, <1>2, <1>3 DEF Next

\* The invariant of both ways, from which the two theorems below follow.
THEOREM ProxyAuthInvariant == Spec => []IInv
  <1>1. Init => IInv
    BY ProxyAuthStart
  <1>2. IInv /\ [Next]_vars => IInv'
    BY ProxyAuthStep
  <1> QED
    BY <1>1, <1>2, PTL DEF Spec

\* Every answer reaches the command it answers, the read loop never blocks on a
\* full channel, the handler is registered before anything is reported, and a
\* request is given the credentials once for every reset of the counters, and
\* once more.
THEOREM ConnectionIsSafe == Spec => []AuthInv
  <1>1. IInv => AuthInv
    <2>1. ASSUME AuthIInv PROVE CredentialsBounded
      BY <2>1 DEF AuthIInv, BoundInv, AuthTypeOK, CredentialsBounded
    <2> QED
      BY <2>1 DEF IInv, AuthIInv, AuthInv, BiDiInv
  <1> QED
    BY <1>1, ProxyAuthInvariant, PTL

\* No request the program made the browser hold is forgotten while the
\* connection stands.
THEOREM NothingIsForgotten == Spec => []NoRequestForgotten
  <1>1. IInv => NoRequestForgotten
    BY DEF IInv, AuthIInv, NoRequestForgotten
  <1> QED
    BY <1>1, ProxyAuthInvariant, PTL
=============================================================================
