---------------------------- MODULE ChallengeSolver ----------------------------
(***************************************************************************)
(* solveChallenge of the three backends, with clickVerify, the click       *)
(* ladder of the two Chromium backends, and clickTurnstileCheckbox, the    *)
(* way of the Firefox backend.  One action is one exchange with the        *)
(* browser.  The mouse is moved now and then, which no property sees.      *)
(***************************************************************************)
EXTENDS BrowserPage, FiniteSets

CONSTANT MaxAttempts  \* maxAttempts of geckodriver/browser.go, 30 there

ASSUME SolverAssumption == MaxAttempts \in Nat \ {0}

PassiveBailout    == 3
FirstClickAttempt == 3
ClickEvery        == 6

VARIABLES
  solve,   \* where solveChallenge is, and its attempts or passive streak
  verify,  \* where clickVerify is
  box      \* where clickTurnstileCheckbox is, and what it answers

solverVars == <<solve, verify, box>>

Resting == [at |-> "idle", tabs |-> 1, step |-> 1, found |-> <<>>, todo |-> {},
            point |-> 1, clicked |-> FALSE, on |-> "blank"]

\* The steps of the ladder of clickVerify.
Steps ==
  IF engine = "chromedp" THEN <<"iframe", "buttons", "tabbable">>
  ELSE <<"iframe", "human", "buttons", "tabbable">>

SolverTypeOK ==
  /\ solve \in [at: {"idle", "look", "gone", "weigh", "tick", "solved", "failed"},
                n: 0..MaxAttempts + PassiveBailout]
  /\ verify \in [at: {"idle", "collect", "click", "probe", "judge", "keys"},
                 tabs: Nat \ {0}, step: 1..4, found: Seq(Targets), todo: SUBSET Nat,
                 point: 1..3, clicked: BOOLEAN, on: Kinds]
  /\ verify.step <= Len(Steps) /\ verify.todo \subseteq DOMAIN verify.found
  /\ verify.at \in {"click", "probe"} => verify.todo # {}
  /\ box \in [at: {"idle", "find", "inside", "confirm", "leave"}, clicked: BOOLEAN]

SolverInit ==
  /\ solve = [at |-> "idle", n |-> 0]
  /\ verify = Resting
  /\ box = [at |-> "idle", clicked |-> FALSE]

-----------------------------------------------------------------------------
(* clickVerify.                                                            *)

\* clickTargets: what scripts see and, while a challenge is on the screen, the
\* widget of a closed shadow root, unless the walk passes it by, for it stops at
\* a number of nodes and goes around what it cannot open; nothing, if it fails.
ClickTargetsFound ==
  IF spent THEN {<<>>}
  ELSE {<<>>, Contents(doc)} \cup
       (IF ChallengePresent /\ HasWidget(doc) THEN {Append(Contents(doc), Widget)} ELSE {})

TabbableTarget(found, tabs) ==
  LET tabbables == TabbableTargets(found)
      Upto(i)   == Cardinality({j \in tabbables : j <= i})
      index     == IF tabs > Cardinality(tabbables) THEN Cardinality(tabbables) ELSE tabs
  IN  {i \in tabbables : Upto(i) = index}

\* What a step of the ladder clicks on.
ToClick(step, found) ==
  CASE step = "iframe"   -> {i \in DOMAIN found : IsChallengeIframeTarget(found[i])}
    [] step = "human"    -> {i \in DOMAIN found : found[i] = VerifyButton}
    [] step = "buttons"  -> {i \in DOMAIN found : IsVerifyButtonTarget(found[i])}
    [] step = "tabbable" -> TabbableTarget(found, verify.tabs)

StartVerify(tabs) == verify' = [Resting EXCEPT !.at = "collect", !.tabs = tabs]

NextStep ==
  IF verify.step < Len(Steps)
  THEN [Resting EXCEPT !.at = "collect", !.tabs = verify.tabs, !.step = verify.step + 1]
  ELSE [Resting EXCEPT !.at = "keys"]

StepEnds(clicked) == IF clicked THEN [verify EXCEPT !.at = "judge"] ELSE NextStep

First(todo) == CHOOSE i \in todo : \A j \in todo : i <= j
Current     == verify.found[First(verify.todo)]

\* The next point of the target, or the next target.
NextPoint(clicked) ==
  LET moved == [verify EXCEPT !.at = "click", !.clicked = clicked]
  IN  IF verify.point < ClickPointsForTarget(Current)
      THEN [moved EXCEPT !.point = @ + 1]
      ELSE IF verify.todo # {First(verify.todo)}
      THEN [moved EXCEPT !.point = 1, !.todo = @ \ {First(@)}]
      ELSE StepEnds(clicked)

\* A step that cannot collect its targets has not clicked.
CollectTargets ==
  /\ verify.at = "collect"
  /\ \E found \in ClickTargetsFound :
       LET todo == ToClick(Steps[verify.step], found)
       IN  verify' = IF todo = {} THEN NextStep
                     ELSE [verify EXCEPT !.at = "click", !.found = found,
                                         !.todo = todo, !.on = doc.kind]
  /\ UNCHANGED <<pageVars, solve, box>>

\* The point may belong to another document by now.  A click that reports an
\* error, whatever it did, is followed by the next.
ClickAt ==
  LET step == Steps[verify.step]
      hit  == IF doc.kind \in {verify.on, "cleared"} THEN Current ELSE Link
  IN  /\ verify.at = "click"
      /\ IF spent THEN UNCHANGED pageVars ELSE Clicked(hit)
      /\ \/ verify' = NextPoint(verify.clicked)
         \/ /\ ~spent
            /\ verify' =
                 CASE step = "iframe"  -> [verify EXCEPT !.at = "probe", !.clicked = TRUE]
                   [] step = "buttons" -> NextPoint(TRUE)
                   [] OTHER            -> StepEnds(TRUE)
      /\ UNCHANGED <<solve, box>>

\* waitChallengeClear, after each point of a frame and after each step: to fail
\* is not to be clear.
ProbeAfterClick ==
  /\ verify.at = "probe"
  /\ verify' = NextPoint(TRUE) \/ (Misses /\ verify' = StepEnds(TRUE))
  /\ UNCHANGED <<pageVars, solve, box>>

JudgeStep ==
  /\ verify.at = "judge"
  /\ verify' = NextStep \/ (Misses /\ verify' = Resting)
  /\ UNCHANGED <<pageVars, solve, box>>

\* Tab and Space from webdriver.  From chromedp comes a click in a corner of the
\* page: the keys it dispatches under a context without an executor, which
\* refuses them.
KeySequence ==
  /\ verify.at = "keys" /\ verify' = Resting
  /\ IF spent THEN UNCHANGED pageVars
     ELSE \/ HasWidget(doc) /\ Clicked(Widget)
          \/ Clicked(VerifyButton)
          \/ engine = "chromedp" /\ Clicked(Link)
  /\ UNCHANGED <<solve, box>>

ClickVerify ==
  CollectTargets \/ ClickAt \/ ProbeAfterClick \/ JudgeStep \/ KeySequence

-----------------------------------------------------------------------------
(* clickTurnstileCheckbox.                                                 *)

StartBox == box' = [at |-> "find", clicked |-> FALSE]

\* The same walk: the widget, or none.
FindFrame ==
  /\ box.at = "find"
  /\ \/ box' = [box EXCEPT !.at = "idle"] /\ UNCHANGED frame
     \/ /\ ~spent /\ frame = "top" /\ HasWidget(doc)
        /\ frame' = "widget" /\ box' = [box EXCEPT !.at = "inside"]
  /\ UNCHANGED <<engine, doc, pending, blocked, seen, spent, solve, verify>>

\* A passive widget has no checkbox.
ClickCheckbox ==
  /\ box.at = "inside"
  /\ \/ box' = [box EXCEPT !.at = "leave"] /\ UNCHANGED pageVars
     \/ /\ ~spent /\ frame = "widget" /\ Clicked(Widget)
        /\ box' = [box EXCEPT !.at = "confirm"]
  /\ UNCHANGED <<solve, verify>>

\* A widget that is gone took the click.
ConfirmCheckbox ==
  /\ box.at = "confirm"
  /\ \E clicked \in IF spent \/ frame = "lost" THEN {TRUE} ELSE BOOLEAN :
       box' = [at |-> "leave", clicked |-> clicked]
  /\ UNCHANGED <<pageVars, solve, verify>>

\* A browser that cannot leave the frame is only logged, and stays in it.
LeaveFrame ==
  /\ box.at = "leave" /\ box' = [box EXCEPT !.at = "idle"]
  /\ frame' = frame \/ (~spent /\ frame' = "top")
  /\ UNCHANGED <<engine, doc, pending, blocked, seen, spent, solve, verify>>

ClickTurnstileCheckbox ==
  FindFrame \/ ClickCheckbox \/ ConfirmCheckbox \/ LeaveFrame

-----------------------------------------------------------------------------
(* solveChallenge.                                                         *)

Quiet == verify.at = "idle" /\ box.at = "idle"

BeginSolve ==
  solve' = [at |-> IF engine = "geckodriver" THEN "tick" ELSE "look", n |-> 0]

Goes(to) == solve' = [solve EXCEPT !.at = to]

\* Nobody answers whether the challenge is there, or it is gone.
Over == (Misses /\ Goes("solved")) \/ Goes("failed")

\* Mutant: an error is not the end.
AskedOn(onward) == (Misses /\ Goes("solved")) \/ Goes(onward)

\* What follows from asking whether the challenge is there.
Asked(onward) == Over \/ (Sees /\ Goes(onward))

Look ==
  /\ solve.at = "look" /\ Quiet /\ Asked("gone")
  /\ UNCHANGED <<pageVars, verify, box>>

\* waitChallengeGone, at its end; chromedp looks at the targets only to choose
\* how long it waits.
WaitGone ==
  /\ solve.at = "gone"
  /\ \/ engine = "chromedp" /\ Over /\ UNCHANGED verify
     \/ engine = "chromedp" /\ Sees /\ Goes("look") /\ StartVerify(1)
     \/ engine # "chromedp" /\ Asked("weigh") /\ UNCHANGED verify
  /\ UNCHANGED <<pageVars, box>>

\* webdriver does not click on a page without controls, and gives up on it; an
\* error of clickTargets is no control either.
WeighTargets ==
  /\ solve.at = "weigh"
  /\ \E found \in ClickTargetsFound :
       IF RelevantChallengeTargets(found) = {} /\ FallbackChallengeTargets(found) = {}
       THEN /\ solve' = [at |-> IF solve.n + 1 < PassiveBailout THEN "look" ELSE "failed",
                         n |-> solve.n + 1]
            /\ UNCHANGED verify
       ELSE solve' = [at |-> "look", n |-> 0] /\ StartVerify(1)
  /\ UNCHANGED <<pageVars, box>>

\* geckodriver asks once a second and clicks now and then.
Tick ==
  /\ solve.at = "tick" /\ Quiet
  /\ LET attempt == solve.n
         due == attempt >= FirstClickAttempt
                /\ (attempt - FirstClickAttempt) % ClickEvery = 0
     IN  IF attempt = MaxAttempts THEN Goes("failed") /\ UNCHANGED box
         ELSE \/ Over /\ UNCHANGED box
              \/ /\ Sees /\ solve' = [solve EXCEPT !.n = attempt + 1]
                 /\ IF due THEN StartBox ELSE UNCHANGED box
  /\ UNCHANGED <<pageVars, verify>>

Solver == Look \/ WaitGone \/ WeighTargets \/ Tick

-----------------------------------------------------------------------------
(* How many exchanges each has before it at most, once nobody answers.     *)

LadderLeft ==
  LET rest == 6 - verify.step
  IN  CASE verify.at = "idle" -> 0
        [] verify.at = "keys" -> 1
        [] verify.at \in {"collect", "judge"} -> rest
        [] OTHER -> rest + 4 * Cardinality(verify.todo) + 4 - verify.point

BoxLeft ==
  CASE box.at = "idle" -> 0 [] box.at = "leave" -> 1 [] box.at = "find" -> 3 [] OTHER -> 2

SolveLeft ==
  CASE solve.at = "idle" -> 0 [] solve.at \in {"solved", "failed"} -> 1
    [] solve.at = "weigh" -> 3 [] OTHER -> 2
=============================================================================
