------------------------------ MODULE BiDiAuth ------------------------------
(***************************************************************************)
(* InstallProxyAuth of server/browser/bidi/bidi.go on the connection that  *)
(* geckodriver/browser.go (enableProxyAuth) dials for it and Close closes: *)
(* the browser is told to hold the requests the proxy challenges and to    *)
(* report them, and each report is answered on a goroutine of its own.     *)
(***************************************************************************)
EXTENDS BiDi, ProxyChallenges, FiniteSets

CONSTANT MaxTracked  \* maxTrackedRequests

MaxAuthAttempts == 1

Main == 0  \* the goroutine that builds the browser; the others are handlers

ASSUME BiDiAuthAssumption ==
  /\ Callers = {Main} \cup Challenges
  /\ Methods = {"addIntercept", "subscribe", "provideCredentials", "cancel"}
  /\ MaxTracked \in Nat

VARIABLES
  install,     \* where Main is in enableProxyAuth
  handling,    \* On has registered the handler
  intercept,   \* the driver holds challenged requests
  subscribed,  \* ... and reports them
  reported,    \* challenges that have been reported
  reports,      \* reports the read loop has not read
  task,        \* the goroutine of each challenge
  attempts,    \* the counter of each request
  resets,      \* how often the counters have been emptied
  given        \* how often each request has been given credentials

authVars == <<install, handling, intercept, subscribed, reported, reports, task,
              attempts, resets, given>>
bidiAll  == <<bidiVars, browserVars, authVars>>

Answers == {"provideCredentials", "cancel"}

AuthTypeOK ==
  /\ BiDiTypeOK /\ ChallengesTypeOK
  /\ install \in {"start", "intercept", "on", "subscribe", "installed", "failed", "closed"}
  /\ handling \in BOOLEAN /\ intercept \in BOOLEAN /\ subscribed \in BOOLEAN
  /\ reports \subseteq reported /\ reported \subseteq 1..asked
  /\ task \in [Challenges -> {"none", "born", "sending", "done"}]
  /\ attempts \in [Requests -> Nat] /\ resets \in Nat
  /\ given \in [Requests -> Nat]

AuthInit ==
  /\ install = "start" /\ handling = FALSE
  /\ intercept = FALSE /\ subscribed = FALSE
  /\ reported = {} /\ reports = {}
  /\ task = [n \in Challenges |-> "none"]
  /\ attempts = [r \in Requests |-> 0] /\ resets = 0
  /\ given = [r \in Requests |-> 0]

BiDiAuthInit == BiDiInit /\ ChallengesInit /\ AuthInit

-----------------------------------------------------------------------------
(* enableProxyAuth.                                                        *)

GoTo(place) == install' = place

\* The two commands of InstallProxyAuth.
Ask(from, to, m) ==
  /\ install = from /\ Register(Main, m) /\ GoTo(to)
  /\ UNCHANGED <<browserVars, handling, intercept, subscribed, reported, reports,
                 task, attempts, resets, given>>

Heard(from, to) ==
  /\ install = from /\ Leave(Main)
  /\ GoTo(IF call[Main].out = "ok" THEN to ELSE "failed")
  /\ UNCHANGED <<browserVars, handling, intercept, subscribed, reported, reports,
                 task, attempts, resets, given>>

On ==
  /\ install = "on" /\ ~handling /\ handling' = TRUE
  /\ UNCHANGED <<bidiVars, browserVars, install, intercept, subscribed, reported,
                 reports, task, attempts, resets, given>>

\* Mutant: the handler is registered once the browser reports.
SubscribeFirst ==
  \/ Ask("on", "subscribe", "subscribe")
  \/ /\ install = "installed" /\ ~handling /\ handling' = TRUE
     /\ UNCHANGED <<bidiVars, browserVars, install, intercept, subscribed,
                    reported, reports, task, attempts, resets, given>>

AskSubscribe == handling /\ Ask("on", "subscribe", "subscribe")

\* The session is closed when installing fails, and by the browser's Close.
CloseSession ==
  /\ install \in {"installed", "failed"} /\ Close /\ GoTo("closed")
  /\ reports' = {}
  /\ UNCHANGED <<browserVars, handling, intercept, subscribed, reported, task,
                 attempts, resets, given>>

InstallStep ==
  \/ Ask("start", "intercept", "addIntercept") \/ Heard("intercept", "on")
  \/ On \/ AskSubscribe \/ Heard("subscribe", "installed")
  \/ install = "failed" /\ CloseSession

-----------------------------------------------------------------------------
(* The handler.                                                            *)

\* dispatch starts the handler, if there is one, on a goroutine of its own.
ReadEvent(n) ==
  /\ Reading /\ n \in reports
  /\ reports' = reports \ {n}
  /\ task' = [task EXCEPT ![n] = IF handling THEN "born" ELSE "done"]
  /\ UNCHANGED <<bidiVars, browserVars, install, handling, intercept, subscribed,
                 reported, attempts, resets, given>>

Tracked == {r \in Requests : attempts[r] > 0}

\* Mutant: an answered challenge does not count.
CountNothing(n) ==
  /\ task[n] = "born"
  /\ given' = [given EXCEPT ![of[n]] = @ + 1]
  /\ Register(n, "provideCredentials")
  /\ task' = [task EXCEPT ![n] = "sending"]
  /\ UNCHANGED <<browserVars, install, handling, intercept, subscribed,
                 reported, reports, attempts, resets>>

\* The critical section of the counters, and the one that registers the answer;
\* no other goroutine sees what lies between them.  continueWithAuth is sent
\* under a context that never ends.
CountAttempt(n) ==
  LET full    == Cardinality(Tracked) > MaxTracked
      tries   == IF full THEN 1 ELSE attempts[of[n]] + 1
      provide == tries <= MaxAuthAttempts
  IN  /\ task[n] = "born"
      /\ attempts' = [r \in Requests |-> IF r = of[n] THEN tries
                                         ELSE IF full THEN 0 ELSE attempts[r]]
      /\ resets' = IF full THEN resets + 1 ELSE resets
      /\ given' = IF provide THEN [given EXCEPT ![of[n]] = @ + 1] ELSE given
      /\ Register(n, IF provide THEN "provideCredentials" ELSE "cancel")
      /\ task' = [task EXCEPT ![n] = "sending"]
      /\ UNCHANGED <<browserVars, install, handling, intercept, subscribed,
                     reported, reports>>

HandlerEnds(n) ==
  /\ Leave(n) /\ task' = [task EXCEPT ![n] = "done"]
  /\ UNCHANGED <<browserVars, install, handling, intercept, subscribed, reported,
                 reports, attempts, resets, given>>

HandlerStep(n) == CountAttempt(n) \/ HandlerEnds(n)

-----------------------------------------------------------------------------
(* The connection and the browser.                                         *)

SendStep(c) ==
  /\ Write(c) \/ Answered(c) \/ SeesClose(c)
  /\ UNCHANGED <<browserVars, authVars>>

\* The context of the construction ends.
ContextEnds == GivesUp(Main) /\ UNCHANGED <<browserVars, authVars>>

LoopActions ==
  \/ (Deliver \/ ReadFails \/ \E m \in replies : ReadReply(m))
     /\ UNCHANGED <<browserVars, authVars>>
  \/ \E n \in Challenges : ReadEvent(n)

\* Mutant: dispatch runs the handler itself, and reads nothing meanwhile.
LoopInline ==
  /\ \A n \in Challenges : task[n] \in {"none", "done"}
  /\ LoopActions

LoopStep == LoopActions

Serve(m) ==
  \/ /\ m.method = "addIntercept"
     /\ \/ Replies(m, "ok") /\ intercept' = TRUE
        \/ Replies(m, "error") /\ UNCHANGED intercept
     /\ UNCHANGED <<browserVars, subscribed>>
  \/ /\ m.method = "subscribe"
     /\ \/ Replies(m, "ok") /\ subscribed' = TRUE
        \/ Replies(m, "error") /\ UNCHANGED subscribed
     /\ UNCHANGED <<browserVars, intercept>>
  \/ /\ m.method \in Answers
     /\ Replies(m, IF stage[of[m.by]] = "held" THEN "ok" ELSE "error")
     /\ Continue(m.by, m.method = "provideCredentials")
     /\ UNCHANGED <<intercept, subscribed>>

DriverStep ==
  /\ \E m \in commands : Serve(m)
  /\ UNCHANGED <<install, handling, reported, reports, task, attempts, resets, given>>

\* A challenge is held from addIntercept on, and reported from subscribe on.
ProxyAsks(r) ==
  /\ Reachable
  /\ Challenge(r, intercept)
  /\ IF intercept /\ subscribed
     THEN reported' = reported \cup {asked'} /\ reports' = reports \cup {asked'}
     ELSE UNCHANGED <<reported, reports>>
  /\ UNCHANGED <<bidiVars, install, handling, intercept, subscribed, task,
                 attempts, resets, given>>

LoseDriver ==
  /\ Lose /\ reports' = {}
  /\ UNCHANGED <<browserVars, install, handling, intercept, subscribed, reported,
                 task, attempts, resets, given>>

BiDiEnvironment ==
  \/ \E r \in Requests : ProxyAsks(r)
  \/ LoseDriver
  \/ install = "installed" /\ CloseSession
  \/ ContextEnds

BiDiAuthNext ==
  \/ InstallStep \/ LoopStep \/ DriverStep \/ BiDiEnvironment
  \/ \E n \in Challenges : HandlerStep(n)
  \/ \E c \in Callers : SendStep(c)

BiDiAuthSpec == BiDiAuthInit /\ [][BiDiAuthNext]_bidiAll

-----------------------------------------------------------------------------
(* Properties.                                                             *)

Down == closed \/ lost

\* Somebody is about to answer challenge n, or the driver has the answer.
InHand(n) ==
  \/ n \in reports \/ task[n] = "born"
  \/ call[n].at = "write" \/ \E m \in commands : m.by = n

\* A reported challenge is never dropped: while it holds its request, its
\* report, its handler or its answer is under way (bidi.go: On is called before
\* session.subscribe, and dispatch drops a report without a handler).
ChallengesInHand ==
  \A r \in Requests :
    stage[r] = "held" /\ latest[r] \in reported => InHand(latest[r]) \/ Down

\* Rejected credentials do not loop: a request is given them once, and once
\* more for every time the counters are emptied (bidi.go: maxAuthAttempts).
CredentialsBounded == \A r \in Requests : given[r] <= resets + 1

\* Once installed, no challenge can slip by.
InstalledInv ==
  /\ install \in {"on", "subscribe", "installed"} => intercept
  /\ install \in {"subscribe", "installed"} => handling
  /\ install = "installed" => subscribed
  /\ subscribed => handling

\* Who sends what, which is why an answer is taken for the right one.
MethodsInv ==
  \A n \in Challenges :
    /\ ~At(n, "none") => task[n] = "sending" /\ call[n].method \in Answers
    /\ task[n] # "none" => n \in reported
    /\ \A m \in commands \cup replies : m.by = n => m.method \in Answers

AuthInv ==
  /\ AuthTypeOK /\ ConnectionInv /\ InstalledInv /\ MethodsInv
  /\ CredentialsBounded
=============================================================================
