--------------------------- MODULE ProxyChallenges ---------------------------
(***************************************************************************)
(* A browser whose requests are challenged for credentials, by the proxy   *)
(* or by a server, as bidi.go and cdpauth.go use it: a challenged request  *)
(* is held until it is continued, and challenged again if what it was      *)
(* given is rejected.                                                      *)
(***************************************************************************)
EXTENDS Naturals

CONSTANTS Requests,      \* requests of the browser
          MaxChallenges  \* bound: challenges in all

ASSUME ChallengesAssumption == MaxChallenges \in Nat

Challenges == 1..MaxChallenges

VARIABLES
  stage,   \* of a request: "paused" and "held" wait for the program
  latest,  \* the last challenge of each request, 0 before the first
  asked,   \* challenges so far
  of       \* the request each of them is about

browserVars == <<stage, latest, asked, of>>

Stages == {"none", "paused", "trying", "held", "failed"}

ChallengesTypeOK ==
  /\ stage \in [Requests -> Stages]
  /\ latest \in [Requests -> 0..MaxChallenges]
  /\ asked \in 0..MaxChallenges
  /\ of \in [1..asked -> Requests]

ChallengesInit ==
  /\ stage = [r \in Requests |-> "none"]
  /\ latest = [r \in Requests |-> 0]
  /\ asked = 0 /\ of = [n \in 1..0 |-> 0]

Moves(r, from, to) ==
  /\ stage[r] = from
  /\ stage' = [stage EXCEPT ![r] = to]
  /\ UNCHANGED <<latest, asked, of>>

\* Interception of every request pauses it when it starts.
Pause(r)  == Moves(r, "none", "paused")
Resume(r) == Moves(r, "paused", "trying")

\* 407 or 401.  The request is held if the browser intercepts challenges.
Challenge(r, held) ==
  /\ stage[r] \in {"none", "trying"} /\ asked < MaxChallenges
  /\ asked' = asked + 1
  /\ of' = [n \in 1..(asked + 1) |-> IF n <= asked THEN of[n] ELSE r]
  /\ latest' = [latest EXCEPT ![r] = asked + 1]
  /\ stage' = [stage EXCEPT ![r] = IF held THEN "held" ELSE "failed"]

\* The request that challenge n holds goes on with the credentials, which may
\* be rejected with another challenge, or without.
Continue(n, credentials) ==
  /\ stage' = [stage EXCEPT ![of[n]] =
                 IF @ # "held" THEN @ ELSE IF credentials THEN "trying" ELSE "failed"]
  /\ UNCHANGED <<latest, asked, of>>
=============================================================================
