------------------------------ MODULE BrowserPage ------------------------------
(***************************************************************************)
(* The browser as the challenge pipeline meets it: the document it shows,  *)
(* the navigation that is to replace it, and what the three engines        *)
(* remember of earlier requests.  Sites, challenges and proxies are        *)
(* external: all that is said of them is what server/browser/resolve.go    *)
(* and the click ladders of the backends reckon with.                      *)
(***************************************************************************)
EXTENDS ClickTargets

CONSTANTS MaxRequests,  \* requests on one browser
          NoDoc,        \* no navigation is under way
          NoResult      \* nothing to be had: no response, no answer, an error


Engines == {"chromedp", "webdriver", "geckodriver"}

Challenges == {"passive", "interactive", "button"}
Answers    == Challenges \cup {"denied", "target"}

\* "form" is the data: page that replays a POST, "cleared" a challenge that
\* can be seen no more, its page still there, and "away" where a link leads.
Kinds == Answers \cup {"blank", "form", "cleared", "away"}

\* Whose document it is, and whether the page holds a Turnstile token.
Documents == [of: 0..MaxRequests, kind: Kinds, loaded: BOOLEAN,
              token: {"absent", "empty", "filled"}]

ASSUME PageAssumption == MaxRequests \in Nat /\ NoDoc \notin Documents

VARIABLES
  engine,   \* the backend of the browser
  doc,      \* the document shown
  pending,  \* the navigation that has not replaced it yet
  frame,    \* the driver's current browsing context
  blocked,  \* media are blocked
  seen,     \* the newest document response kept of each URL
  spent     \* the context of the request has ended: every command fails

pageVars == <<engine, doc, pending, frame, blocked, seen, spent>>

Responses == [of: 0..MaxRequests, kind: Kinds]

\* A challenge and the page it guards have the same URL, at every request.
URLOf(kind) == IF kind \in Answers \cup {"cleared"} THEN "site" ELSE kind

URLs == {URLOf(k) : k \in Kinds}

NothingSeen == [u \in URLs |-> NoResult]

PageTypeOK ==
  /\ engine \in Engines
  /\ doc \in Documents /\ pending \in Documents \cup {NoDoc}
  /\ frame \in {"top", "widget", "lost"}
  /\ blocked \in BOOLEAN /\ spent \in BOOLEAN
  /\ seen \in [URLs -> Responses \cup {NoResult}]

PageInit ==
  /\ engine \in Engines
  /\ doc = [of |-> 0, kind |-> "blank", loaded |-> TRUE, token |-> "absent"]
  /\ pending = NoDoc /\ frame = "top"
  /\ blocked = FALSE /\ seen = NothingSeen /\ spent = FALSE

-----------------------------------------------------------------------------
(* What pages hold.                                                        *)

Control(kind, hint, width, height) ==
  [kind |-> kind, hint |-> hint, visible |-> TRUE, disabled |-> FALSE,
   width |-> width, height |-> height, tabIndex |-> 0]

Widget       == Control("iframe", "challenge", 300, 65)
VerifyButton == Control("input", "verify human", 180, 40)
Link         == Control("anchor", "none", 90, 20)

\* What the scripts of the page can see; a widget hides in a closed root.
Contents(d) ==
  CASE d.kind \in {"blank", "form"} -> <<>>
    [] d.kind = "button" -> <<VerifyButton, Link>>
    [] OTHER -> <<Link>>

HasWidget(d) == d.kind = "interactive" \/ d.token # "absent"

ChallengePresent == doc.kind \in Challenges

\* What challengePresent may answer.  From inside a frame its title is still
\* the page's and its selectors look at the frame, where they fail if the frame
\* is gone; and any exchange may fail.
Sees   == ~spent /\ (ChallengePresent \/ frame = "widget")
Misses == ~spent /\ (frame = "widget" \/ (frame = "top" /\ ~ChallengePresent))

-----------------------------------------------------------------------------
(* What happens to pages.                                                  *)

Fresh(kind, of) == {d \in Documents :
  /\ d.of = of /\ d.kind = kind /\ ~d.loaded
  /\ d.token \in IF kind = "target" THEN {"absent", "empty"} ELSE {"absent"}}

\* Mutant: the first response of a URL stays.
RememberOldest(r) ==
  seen' = CASE engine = "chromedp"  -> [NothingSeen EXCEPT ![URLOf(r.kind)] = r]
            [] engine = "webdriver" ->
                 [seen EXCEPT ![URLOf(r.kind)] = IF @ = NoResult THEN r ELSE @]
            [] OTHER -> seen

\* chromedp keeps the last response only, the log of chromedriver all of them,
\* of which the newest of a URL counts.
Remember(r) ==
  seen' = CASE engine = "chromedp"  -> [NothingSeen EXCEPT ![URLOf(r.kind)] = r]
            [] engine = "webdriver" -> [seen EXCEPT ![URLOf(r.kind)] = r]
            [] OTHER -> seen

\* What takes the place of a challenge: its page, or one more challenge.
Onward == UNION {Fresh(kind, doc.of) : kind \in Answers}

\* The challenge on the page is passed, and seen no more: its page is to be left.
Pass ==
  /\ ChallengePresent /\ pending = NoDoc
  /\ doc' = [doc EXCEPT !.kind = "cleared"]
  /\ pending' \in Onward
  /\ UNCHANGED <<engine, frame, blocked, seen, spent>>

ClearsItself == doc.kind = "passive" /\ Pass

\* The challenge starts again, and is seen until it does.
Refresh ==
  /\ ChallengePresent /\ pending = NoDoc
  /\ pending' \in Onward
  /\ UNCHANGED <<engine, doc, frame, blocked, seen, spent>>

Commit ==
  /\ pending # NoDoc
  /\ doc' = pending /\ pending' = NoDoc
  /\ Remember([of |-> pending.of, kind |-> pending.kind])
  /\ frame' = IF frame = "widget" THEN "lost" ELSE frame
  /\ UNCHANGED <<engine, blocked, spent>>

Load ==
  /\ ~doc.loaded /\ doc' = [doc EXCEPT !.loaded = TRUE]
  /\ UNCHANGED <<engine, pending, frame, blocked, seen, spent>>

\* A frame of the page is a document too, of a URL that nobody asks for: from
\* then on chromedp has its response and no other.
FrameLoads ==
  /\ engine = "chromedp" /\ HasWidget(doc) /\ seen' = NothingSeen
  /\ UNCHANGED <<engine, doc, pending, frame, blocked, spent>>

FillToken ==
  /\ doc.token = "empty" /\ doc' = [doc EXCEPT !.token = "filled"]
  /\ UNCHANGED <<engine, pending, frame, blocked, seen, spent>>

\* Links lead away; one of a challenge may start it again.
Follow ==
  \/ /\ pending = NoDoc /\ pending' \in Fresh("away", doc.of)
     /\ UNCHANGED <<engine, doc, frame, blocked, seen, spent>>
  \/ Refresh

Site == ClearsItself \/ Refresh \/ Commit \/ Load \/ FrameLoads \/ FillToken

\* What a click may do: nothing, or what the control is there for.
Clicked(t) ==
  \/ UNCHANGED pageVars
  \/ t = Widget /\ (Pass \/ FillToken)
  \/ t = VerifyButton /\ Pass
  \/ t = Link /\ Follow
=============================================================================
