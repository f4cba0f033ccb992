------------------------------ MODULE ProxyAuth ------------------------------
(***************************************************************************)
(* The credentials of a proxy reach a browser in one of two ways: over     *)
(* WebDriver BiDi for Firefox, over CDP for the two Chromium backends.     *)
(***************************************************************************)
EXTENDS BiDiAuth, CdpAuth

VARIABLE protocol

vars == <<bidiVars, browserVars, authVars, cdpVars, protocol>>

Init ==
  /\ BiDiAuthInit /\ CdpInit
  /\ protocol \in {"bidi", "cdp"}
  /\ protocol = "bidi" => setup = "list"

OverBiDi(A) == protocol = "bidi" /\ A /\ UNCHANGED <<cdpVars, protocol>>
OverCdp(A)  == protocol = "cdp" /\ A /\ UNCHANGED <<bidiVars, authVars, protocol>>

Next == OverBiDi(BiDiAuthNext) \/ OverCdp(CdpAuthNext)

\* A goroutine that can go on does, and a driver that is there answers; as a
\* connection carries finitely many commands here, that some goroutine goes on
\* is enough.  Over CDP the page has finitely many requests and challenges, so
\* that the same holds of the listener and the goroutines it starts.  Contexts,
\* proxies and pages need not do anything.
Goroutines ==
  \/ LoopStep \/ InstallStep
  \/ \E n \in Challenges : HandlerStep(n)
  \/ \E c \in Callers : SendStep(c)

Fairness ==
  /\ WF_vars(OverBiDi(Goroutines)) /\ WF_vars(OverBiDi(DriverStep))
  /\ WF_vars(OverCdp(ListenerStep))

Spec == Init /\ [][Next]_vars /\ Fairness

-----------------------------------------------------------------------------
(* Properties.                                                             *)

\* No request the program made the browser hold is forgotten: somebody is to
\* answer it as long as the connection stands (bidi.go, cdpauth.go: a request
\* nobody answers stalls the navigation).
NoRequestForgotten ==
  IF protocol = "bidi" THEN ChallengesInHand ELSE PausedInHand

\* A reported challenge is answered, unless the connection goes (bidi.go:
\* handlers run on goroutines of their own, or the read loop would deadlock).
ReportedIsAnswered ==
  \A r \in Requests :
    stage[r] = "held" /\ latest[r] \in reported ~> stage[r] # "held" \/ Down

\* Over CDP every request is paused at least once, and each challenge holds it
\* again: it never waits for ever, unless its answer ran out of time or the
\* connection goes, whoever asked for the credentials (cdpauth.go: Install).
PausedGoesOn ==
  \A r \in Requests :
    []<>(protocol = "cdp" /\ Waits(r) => HeldBy(r) \in abandoned \/ Gone)

\* A connection that is closed or lost is left by everybody: the read loop ends
\* and every Send returns (bidi.go: readLoop's deferred Close).
ConnectionEnds ==
  closed \/ lost ~> reader = "gone" /\ \A c \in Callers : At(c, "none")
=============================================================================
