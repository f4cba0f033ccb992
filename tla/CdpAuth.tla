------------------------------- MODULE CdpAuth -------------------------------
(***************************************************************************)
(* server/browser/cdpauth/cdpauth.go: the two Chromium backends answer     *)
(* proxy challenges over CDP.  Interception pauses every request, so that  *)
(* each has to be continued; every event starts a goroutine that answers   *)
(* within replyTimeout or not at all.  The chromedp backend installs the   *)
(* handler on its own connection, the webdriver backend attaches a second  *)
(* one to the page (AttachRemote).                                         *)
(***************************************************************************)
EXTENDS ProxyChallenges

VARIABLES
  setup,      \* "list", "attach", "listen", "enable", "installed", "failed"
  listening,  \* the listener is registered
  enabled,    \* the browser intercepts
  events,     \* events the listener has not been called with
  answering,  \* goroutines that are to answer an event
  abandoned,  \* events whose answer could not be delivered in time
  source      \* who asks for each challenge: "proxy" or "server"

cdpVars == <<setup, listening, enabled, events, answering, abandoned, source>>
cdpAll  == <<browserVars, cdpVars>>

\* EventRequestPaused and EventAuthRequired.
Events == [paused : Requests] \cup [auth : Challenges]

CdpTypeOK ==
  /\ ChallengesTypeOK
  /\ setup \in {"list", "attach", "listen", "enable", "installed", "failed", "detached"}
  /\ listening \in BOOLEAN /\ enabled \in BOOLEAN
  /\ events \subseteq Events /\ answering \subseteq Events
  /\ abandoned \subseteq Events
  /\ source \in [Challenges -> {"proxy", "server"}]

CdpInit ==
  /\ setup \in {"list", "listen"}  \* AttachRemote, or Install alone
  /\ listening = FALSE /\ enabled = FALSE
  /\ events = {} /\ answering = {} /\ abandoned = {}
  /\ source = [n \in Challenges |-> "proxy"]

CdpAuthInit == ChallengesInit /\ CdpInit

Gone == setup \in {"failed", "detached"}

-----------------------------------------------------------------------------
(* AttachRemote and Install.  Any step can fail, and then detaches.        *)

SetupStep(from, to) ==
  /\ setup = from /\ setup' \in {to, "failed"}
  /\ UNCHANGED <<browserVars, events, answering, abandoned, source>>

PageTarget == SetupStep("list", "attach") /\ UNCHANGED <<listening, enabled>>
Attach     == SetupStep("attach", "listen") /\ UNCHANGED <<listening, enabled>>

ListenTarget ==
  /\ setup = "listen" /\ setup' = "enable" /\ listening' = TRUE
  /\ UNCHANGED <<browserVars, enabled, events, answering, abandoned, source>>

\* Mutant: the listener is registered once the browser intercepts.
EnableFirst ==
  \/ SetupStep("listen", "enable") /\ enabled' = TRUE /\ UNCHANGED listening
  \/ /\ setup = "enable" /\ setup' = "installed" /\ listening' = TRUE
     /\ UNCHANGED <<browserVars, enabled, events, answering, abandoned, source>>

FetchEnable ==
  SetupStep("enable", "installed") /\ enabled' = TRUE /\ UNCHANGED listening

CdpInstall == ListenTarget \/ FetchEnable

\* The browser is on its way out.
Detach ==
  /\ setup = "installed" /\ setup' = "detached"
  /\ UNCHANGED <<browserVars, listening, enabled, events, answering, abandoned, source>>

-----------------------------------------------------------------------------
(* The listener and its goroutines.                                        *)

Hear(e) ==
  /\ e \in events /\ ~Gone
  /\ events' = events \ {e}
  /\ answering' = IF listening THEN answering \cup {e} ELSE answering
  /\ UNCHANGED <<browserVars, setup, listening, enabled, abandoned, source>>

Replied(e) ==
  /\ answering' = answering \ {e}
  /\ UNCHANGED <<setup, listening, enabled, events, abandoned, source>>

ContinueRequest(r) ==
  /\ [paused |-> r] \in answering /\ ~Gone
  /\ Resume(r)
  /\ Replied([paused |-> r])

\* Mutant: the challenge of a server is not the program's business.
AnswerProxyOnly(n) ==
  /\ [auth |-> n] \in answering /\ ~Gone
  /\ IF source[n] = "proxy" THEN Continue(n, TRUE) ELSE UNCHANGED browserVars
  /\ Replied([auth |-> n])

\* Credentials for the proxy only; Default lets the 401 of a server through.
ContinueWithAuth(n) ==
  /\ [auth |-> n] \in answering /\ ~Gone
  /\ Continue(n, source[n] = "proxy")
  /\ Replied([auth |-> n])

\* replyTimeout, or the context of the browser, ends first.
Abandon(e) ==
  /\ e \in answering
  /\ answering' = answering \ {e} /\ abandoned' = abandoned \cup {e}
  /\ UNCHANGED <<browserVars, setup, listening, enabled, events, source>>

-----------------------------------------------------------------------------
(* The browser.                                                            *)

BrowserPauses(r) ==
  /\ ~Gone /\ enabled /\ Pause(r)
  /\ events' = events \cup {[paused |-> r]}
  /\ UNCHANGED <<setup, listening, enabled, answering, abandoned, source>>

\* The request goes to a server through the proxy: either may ask.
BrowserAsks(r) ==
  /\ ~Gone /\ Challenge(r, enabled)
  /\ enabled => stage[r] = "trying"
  /\ \E who \in {"proxy", "server"} : source' = [source EXCEPT ![asked + 1] = who]
  /\ events' = IF enabled THEN events \cup {[auth |-> asked + 1]} ELSE events
  /\ UNCHANGED <<setup, listening, enabled, answering, abandoned>>

CdpEnvironment ==
  \/ \E r \in Requests : BrowserPauses(r) \/ BrowserAsks(r)
  \/ \E e \in answering : Abandon(e)
  \/ Detach

ListenerStep ==
  \/ \E e \in events : Hear(e)
  \/ \E r \in Requests : ContinueRequest(r)
  \/ \E n \in 1..asked : ContinueWithAuth(n)

CdpAuthNext == PageTarget \/ Attach \/ CdpInstall \/ ListenerStep \/ CdpEnvironment

CdpAuthSpec == CdpAuthInit /\ [][CdpAuthNext]_cdpAll

-----------------------------------------------------------------------------
(* Properties.                                                             *)

\* A request that waits for the program, and the event that says so.
Waits(r)  == stage[r] \in {"paused", "held"}
HeldBy(r) == IF stage[r] = "paused" THEN [paused |-> r] ELSE [auth |-> latest[r]]

Pending(e) == e \in events \cup answering \cup abandoned

\* Interception pauses everything, so anything left unanswered hangs the page:
\* an event nobody has answered is on its way to the listener, with a goroutine
\* or given up after its time (cdpauth.go: Install listens before Fetch.enable).
PausedInHand ==
  \A r \in Requests : Waits(r) => Pending(HeldBy(r)) \/ Gone
=============================================================================
