---------------------------- MODULE PipelineProofs ----------------------------
(* The invariant of ResolvePipeline is inductive, for any number of        *)
(* requests on one browser and any controls on its pages: whatever pages   *)
(* do between two exchanges, whichever exchange fails and wherever the     *)
(* deadline ends, media are blocked as the request on the screen asks      *)
(* unless the browser has refused, an answer is about its own request, and *)
(* what has been read of a page is true of it until another replaces it.   *)
(* A request whose context has ended has ever less left to do.             *)
EXTENDS ResolvePipeline, FiniteSetTheorems, WellFoundedInduction, TLAPS

-----------------------------------------------------------------------------
(* Documents and responses.                                                *)

LEMMA URLIsURL ==
  ASSUME NEW k \in Kinds
  PROVE  URLOf(k) \in URLs /\ URLOf(k) # "none"
  BY DEF URLs, URLOf, Kinds, Answers, Challenges

LEMMA NothingIsSeen ==
  /\ NothingSeen \in [URLs -> Responses \cup {NoResult}]
  /\ \A u \in URLs : NothingSeen[u] = NoResult
  BY DEF NothingSeen

LEMMA FreshDocuments ==
  ASSUME NEW kind, NEW of, NEW d \in Fresh(kind, of)
  PROVE  d \in Documents /\ d # NoDoc /\ d.of = of /\ d.kind = kind
  BY PageAssumption DEF Fresh

LEMMA DocumentFields ==
  ASSUME NEW d \in Documents
  PROVE  /\ d # NoDoc /\ d.of \in 0..MaxRequests /\ d.kind \in Kinds
         /\ d.loaded \in BOOLEAN /\ d.token \in {"absent", "empty", "filled"}
  BY PageAssumption DEF Documents

LEMMA Changed ==
  ASSUME doc \in Documents
  PROVE  /\ \A kind \in Kinds : LET d == [doc EXCEPT !.kind = kind] IN
              d \in Documents /\ d.kind = kind /\ d.of = doc.of /\ d.loaded = doc.loaded
         /\ LET d == [doc EXCEPT !.loaded = TRUE] IN
              d \in Documents /\ d.loaded = TRUE /\ d.of = doc.of /\ d.kind = doc.kind
         /\ LET d == [doc EXCEPT !.token = "filled"] IN
              d \in Documents /\ d.of = doc.of /\ d.kind = doc.kind /\ d.loaded = doc.loaded
  BY DEF Documents

\* The browser keeps the new response, and may forget others.
LEMMA Remembered ==
  ASSUME NEW r \in Responses, Remember(r),
         seen \in [URLs -> Responses \cup {NoResult}]
  PROVE  /\ seen' \in [URLs -> Responses \cup {NoResult}]
         /\ engine # "geckodriver" /\ engine \in Engines => seen'[URLOf(r.kind)] = r
         /\ engine = "geckodriver" => seen' = seen
         /\ \A u \in URLs \ {URLOf(r.kind)} : seen'[u] \in {seen[u], NoResult}
<1>1. r.kind \in Kinds
  BY DEF Responses
<1>2. URLOf(r.kind) \in URLs
  BY <1>1, URLIsURL
<1> QED BY <1>2, NothingIsSeen DEF Remember, Engines

-----------------------------------------------------------------------------
(* What pages do.                                                          *)

\* What concerns the page and what has been read of it.
PageInv == /\ PageTypeOK /\ DocumentsOwned /\ MediaInv /\ PagesInv /\ SeenInv
           /\ AnswerInv /\ StillInv

\* Pages change neither the browser nor the context, and none goes into a frame.
PageGoesOn ==
  engine' = engine /\ spent' = spent /\ (frame = "top" => frame' = "top")

Reading == UNCHANGED <<at, count, req, draft, ready, refused>>

LEMMA PassKeeps ==
  ASSUME PageInv, Pass, Reading, UNCHANGED replaced
  PROVE  PageInv' /\ PageGoesOn
<1> DEFINE d == [doc EXCEPT !.kind = "cleared"]
<1>1. /\ doc \in Documents /\ doc.kind \in Challenges
      /\ pending = NoDoc /\ doc' = d
      /\ UNCHANGED <<engine, frame, blocked, seen, spent>>
  BY DEF Pass, ChallengePresent, PageInv, PageTypeOK
<1>2. d \in Documents /\ d.kind = "cleared" /\ d.of = doc.of /\ d.loaded = doc.loaded
  BY <1>1, Changed DEF Kinds
<1>3. /\ pending' \in Documents /\ pending' # NoDoc /\ pending'.of = doc.of
      /\ pending'.kind \in Answers
  BY FreshDocuments DEF Pass, Onward
<1>4. URLOf(d.kind) = URLOf(doc.kind)
  BY <1>1, <1>2 DEF URLOf, Answers
<1> HIDE DEF d
<1>5. PageTypeOK'
  BY <1>1, <1>2, <1>3 DEF PageInv, PageTypeOK
<1>6. DocumentsOwned'
  BY <1>1, <1>2, <1>3 DEF PageInv, DocumentsOwned, Underway, Ours, Reading
<1>7. MediaInv'
  BY <1>1, <1>2, <1>3 DEF PageInv, MediaInv, Ours, Reading
<1>8. PagesInv'
  BY <1>1, <1>2, <1>3 DEF PagesInv
<1>9. SeenInv'
  BY <1>1, <1>2 DEF PageInv, SeenInv
<1>10. StillInv'
  BY <1>1, <1>2, <1>3, <1>4 DEF PageInv, StillInv, Answered, Reading
<1>11. AnswerInv'
  BY <1>1, <1>2, <1>4 DEF PageInv, AnswerInv, Reading, Answered
<1> QED BY <1>1, <1>5, <1>6, <1>7, <1>8, <1>9, <1>10, <1>11 DEF PageInv, PageGoesOn

\* The page is to be left, for another of the same request.
LEMMA LeavingKeeps ==
  ASSUME PageInv, Refresh \/ Follow, Reading, UNCHANGED replaced
  PROVE  PageInv' /\ PageGoesOn
<1>1. /\ pending = NoDoc /\ UNCHANGED <<engine, doc, frame, blocked, seen, spent>>
      /\ pending' \in Onward \cup Fresh("away", doc.of)
  BY DEF Refresh, Follow
<1>2. /\ pending' \in Documents /\ pending' # NoDoc /\ pending'.of = doc.of
      /\ pending'.kind \in Answers \cup {"away"}
  BY <1>1, FreshDocuments DEF Onward
<1>3. PageTypeOK'
  BY <1>1, <1>2 DEF PageInv, PageTypeOK
<1>4. DocumentsOwned' /\ MediaInv'
  BY <1>1, <1>2 DEF PageInv, DocumentsOwned, MediaInv, Underway, Ours, Reading
<1>5. PagesInv' /\ SeenInv'
  BY <1>1, <1>2 DEF PageInv, PagesInv, SeenInv
<1>6. StillInv' /\ AnswerInv'
  BY <1>1, <1>2 DEF PageInv, StillInv, AnswerInv, Answered, Reading
<1> QED BY <1>1, <1>3, <1>4, <1>5, <1>6 DEF PageInv, PageGoesOn

LEMMA CommitKeeps ==
  ASSUME PageInv, Commit, Reading, count \in Nat,
         at \in Late => replaced', at \notin Late => replaced' = replaced
  PROVE  PageInv' /\ PageGoesOn
<1> DEFINE r == [of |-> pending.of, kind |-> pending.kind]
<1>1. /\ pending \in Documents /\ pending # NoDoc /\ doc' = pending /\ pending' = NoDoc
      /\ Remember(r) /\ frame' = IF frame = "widget" THEN "lost" ELSE frame
      /\ UNCHANGED <<engine, blocked, spent>>
      /\ seen \in [URLs -> Responses \cup {NoResult}] /\ engine \in Engines
  BY DEF Commit, PageInv, PageTypeOK
<1>2. r \in Responses /\ r.kind = pending.kind
  BY <1>1, DocumentFields DEF Responses
<1> HIDE DEF r
<1>3. /\ seen' \in [URLs -> Responses \cup {NoResult}]
      /\ engine # "geckodriver" => seen'[URLOf(pending.kind)] = r
      /\ engine = "geckodriver" => seen' = seen
      /\ \A u \in URLs \ {URLOf(pending.kind)} : seen'[u] \in {seen[u], NoResult}
  BY <1>1, <1>2, Remembered
<1>4. pending.kind \in Kinds /\ pending.kind # "cleared"
  BY <1>1, DocumentFields DEF PageInv, PagesInv, Answers, Challenges
<1>5. PageTypeOK'
  BY <1>1, <1>3 DEF PageInv, PageTypeOK
<1>6. DocumentsOwned'
  BY <1>1 DEF PageInv, DocumentsOwned, Underway, Ours, Reading
<1>7. MediaInv'
  BY <1>1 DEF PageInv, MediaInv, Ours, Reading
<1>8. PagesInv'
  BY <1>1, <1>4 DEF PagesInv
<1>9. SeenInv'
  <2>1. engine = "geckodriver" => seen'[URLOf(pending.kind)] = NoResult
    BY <1>3, <1>4, URLIsURL, NothingIsSeen DEF PageInv, SeenInv
  <2> QED BY <1>1, <1>3, <2>1 DEF PageInv, SeenInv, r
<1>10. StillInv'
  <2>1. at' = at /\ ready' = ready
    BY DEF Reading
  <2>2. at \notin Late => ~ready /\ ~replaced
    BY DEF PageInv, StillInv
  <2>3. CASE at \in Late
    BY <2>1, <2>3 DEF StillInv
  <2>4. CASE at \notin Late
    BY <2>1, <2>2, <2>4 DEF StillInv, Late, Answered
  <2> QED BY <2>3, <2>4
<1>11. AnswerInv'
  <2>1. r.of = pending.of
    BY DEF r
  <2>2. /\ URLOf(pending.kind) \in URLs
        /\ engine = "geckodriver" => seen'[URLOf(pending.kind)] = NoResult
    BY <1>3, <1>4, URLIsURL, NothingIsSeen DEF PageInv, SeenInv
  <2>3. seen'[URLOf(doc'.kind)] # NoResult => seen'[URLOf(doc'.kind)].of = doc'.of
    BY <1>1, <1>3, <2>1, <2>2
  <2>4. ASSUME at \in {"jar", "response"}
        PROVE  draft.url \in URLs /\ (seen'[draft.url] # NoResult => seen'[draft.url].of = count)
    <3>1. pending.of = count
      BY <1>1, <2>4 DEF PageInv, DocumentsOwned, Underway, Ours
    <3>2. draft.url \in URLs /\ (seen[draft.url] # NoResult => seen[draft.url].of = count)
      BY <2>4 DEF PageInv, AnswerInv
    <3>3. seen'[draft.url] \in {seen[draft.url], NoResult, r}
      BY <1>3, <2>2, <3>2
    <3> QED BY <2>1, <3>1, <3>2, <3>3
  <2> QED BY <2>3, <2>4 DEF PageInv, AnswerInv, Reading, Answered
<1>12. PageGoesOn
  BY <1>1 DEF PageGoesOn
<1> QED BY <1>5, <1>6, <1>7, <1>8, <1>9, <1>10, <1>11, <1>12 DEF PageInv

\* A page that loads, or is given a token, is the same page.
LEMMA LoadKeeps ==
  ASSUME PageInv, Load \/ FillToken, Reading, UNCHANGED replaced
  PROVE  PageInv' /\ PageGoesOn
<1>1. doc \in Documents
  BY DEF PageInv, PageTypeOK
<1>2. /\ doc' \in Documents /\ doc'.of = doc.of /\ doc'.kind = doc.kind
      /\ doc.loaded => doc'.loaded
      /\ UNCHANGED <<engine, pending, frame, blocked, seen, spent>>
  BY <1>1, Changed DEF Load, FillToken
<1>3. PageTypeOK'
  BY <1>2 DEF PageInv, PageTypeOK
<1>4. DocumentsOwned' /\ MediaInv'
  BY <1>2 DEF PageInv, DocumentsOwned, MediaInv, Underway, Ours, Reading
<1>5. PagesInv' /\ SeenInv'
  BY <1>2 DEF PageInv, PagesInv, SeenInv
<1>6. StillInv'
  BY <1>2 DEF PageInv, StillInv, Answered, Reading
<1>7. AnswerInv'
  BY <1>2 DEF PageInv, AnswerInv, Reading, Answered
<1> QED BY <1>2, <1>3, <1>4, <1>5, <1>6, <1>7 DEF PageInv, PageGoesOn

LEMMA FrameLoadsKeeps ==
  ASSUME PageInv, FrameLoads, Reading, UNCHANGED replaced
  PROVE  PageInv' /\ PageGoesOn
<1>1. /\ engine # "geckodriver" /\ seen' = NothingSeen
      /\ UNCHANGED <<engine, doc, pending, frame, blocked, spent>>
  BY DEF FrameLoads
<1>2. PageTypeOK'
  BY <1>1, NothingIsSeen DEF PageInv, PageTypeOK
<1>3. DocumentsOwned' /\ MediaInv' /\ PagesInv'
  BY <1>1 DEF PageInv, DocumentsOwned, MediaInv, PagesInv, Underway, Ours, Reading
<1>4. doc.kind \in Kinds /\ seen'[URLOf(doc.kind)] = NoResult
  BY <1>1, DocumentFields, NothingIsSeen, URLIsURL DEF PageInv, PageTypeOK
<1>5. SeenInv'
  BY <1>1, <1>4 DEF SeenInv
<1>6. StillInv'
  BY <1>1 DEF PageInv, StillInv, Answered, Reading
<1>7. AnswerInv'
  <2>1. at \in {"jar", "response"} => draft.url \in URLs /\ seen'[draft.url] = NoResult
    BY <1>1, NothingIsSeen DEF PageInv, AnswerInv
  <2> QED BY <1>1, <1>4, <2>1 DEF PageInv, AnswerInv, Reading, Answered
<1> QED BY <1>1, <1>2, <1>3, <1>5, <1>6, <1>7 DEF PageInv, PageGoesOn

LEMMA StayKeeps ==
  ASSUME PageInv, UNCHANGED pageVars, Reading, UNCHANGED replaced
  PROVE  PageInv' /\ PageGoesOn
<1> USE DEF pageVars
<1>1. PageTypeOK' /\ DocumentsOwned' /\ MediaInv'
  BY DEF PageInv, PageTypeOK, DocumentsOwned, MediaInv, Underway, Ours, Reading
<1>2. PagesInv' /\ SeenInv'
  BY DEF PageInv, PagesInv, SeenInv
<1>3. StillInv'
  BY DEF PageInv, StillInv, Answered, Reading
<1>4. AnswerInv'
  BY DEF PageInv, AnswerInv, Reading, Answered
<1> QED BY <1>1, <1>2, <1>3, <1>4 DEF PageInv, PageGoesOn

LEMMA SiteKeeps ==
  ASSUME PageInv, Site, Reading, count \in Nat,
         replaced' = IF at \in Late /\ pending # NoDoc /\ pending' = NoDoc THEN TRUE ELSE replaced
  PROVE  PageInv' /\ PageGoesOn
<1>1. CASE Commit
  <2>1. pending # NoDoc /\ pending' = NoDoc
    BY <1>1 DEF Commit
  <2>2. (at \in Late => replaced') /\ (at \notin Late => replaced' = replaced)
    BY <2>1
  <2> QED BY <1>1, <2>2, CommitKeeps
<1>2. CASE ~Commit
  <2>1. ClearsItself \/ Refresh \/ Load \/ FrameLoads \/ FillToken
    BY <1>2 DEF Site
  <2>2. pending = NoDoc \/ pending' = pending
    BY <2>1 DEF ClearsItself, Pass, Refresh, Load, FrameLoads, FillToken
  <2>3. UNCHANGED replaced
    BY <2>2
  <2> QED BY <2>1, <2>3, PassKeeps, LeavingKeeps, LoadKeeps, FrameLoadsKeeps DEF ClearsItself
<1> QED BY <1>1, <1>2

LEMMA ClickKeeps ==
  ASSUME PageInv, NEW t, Clicked(t), Reading, UNCHANGED replaced
  PROVE  PageInv' /\ PageGoesOn
  BY PassKeeps, LoadKeeps, LeavingKeeps, StayKeeps DEF Clicked

-----------------------------------------------------------------------------
(* What the loops of the solver keep of themselves.                        *)

VerifyStates == [at: {"idle", "collect", "click", "probe", "judge", "keys"},
                 tabs: Nat \ {0}, step: 1..4, found: Seq(Targets), todo: SUBSET Nat,
                 point: 1..3, clicked: BOOLEAN, on: Kinds]

VerifyTypeOK ==
  /\ verify \in VerifyStates
  /\ verify.step <= Len(Steps) /\ verify.todo \subseteq DOMAIN verify.found
  /\ verify.at \in {"click", "probe"} => verify.todo # {}

LEMMA StepsAre ==
  /\ Len(Steps) \in 3..4
  /\ \A i \in 1..Len(Steps) : Steps[i] \in {"iframe", "human", "buttons", "tabbable"}
  BY DEF Steps

LEMMA RestingIs ==
  /\ Resting \in VerifyStates
  /\ Resting.at = "idle" /\ Resting.step = 1 /\ Resting.todo = {}
<1>1. <<>> \in Seq(Targets)
  OBVIOUS
<1> DEFINE none == <<>>
<1>2. Resting = [at |-> "idle", tabs |-> 1, step |-> 1, found |-> none, todo |-> {},
                 point |-> 1, clicked |-> FALSE, on |-> "blank"]
  BY DEF Resting
<1>3. none \in Seq(Targets)
  BY <1>1
<1> HIDE DEF none
<1> QED BY <1>2, <1>3 DEF VerifyStates, Kinds

\* A ladder starts, and goes on to its next step, in good order.
LEMMA Started ==
  ASSUME NEW tabs \in Nat \ {0}, StartVerify(tabs), UNCHANGED engine
  PROVE  VerifyTypeOK' /\ verify'.at = "collect"
<1>1. Len(Steps)' = Len(Steps) /\ 1 <= Len(Steps)
  BY StepsAre DEF Steps
<1> DEFINE up == [Resting EXCEPT !.at = "collect"]
<1>2. /\ up \in VerifyStates /\ up.at = "collect"
      /\ up.step = 1 /\ up.todo = {}
  BY RestingIs DEF VerifyStates
<1>3. verify' = [up EXCEPT !.tabs = tabs]
  BY DEF StartVerify
<1> HIDE DEF up
<1>4. /\ verify' \in VerifyStates /\ verify'.at = "collect"
      /\ verify'.step = 1 /\ verify'.todo = {}
  BY <1>2, <1>3 DEF VerifyStates
<1>5. verify'.step <= Len(Steps)' /\ verify'.todo \subseteq DOMAIN verify'.found
  BY <1>1, <1>4
<1> QED BY <1>4, <1>5 DEF VerifyTypeOK

LEMMA Rests ==
  ASSUME verify' = Resting, UNCHANGED engine
  PROVE  VerifyTypeOK' /\ verify'.at = "idle"
  BY RestingIs, StepsAre DEF VerifyTypeOK, Steps

LEMMA NextStepKeeps ==
  ASSUME VerifyTypeOK, verify' = NextStep, UNCHANGED engine
  PROVE  VerifyTypeOK' /\ verify'.at \in {"collect", "keys"}
<1>1. Len(Steps') = Len(Steps) /\ Len(Steps) \in 3..4
  BY StepsAre DEF Steps
<1>2. CASE verify.step < Len(Steps)
  <2>1. verify' = [Resting EXCEPT !.at = "collect", !.tabs = verify.tabs,
                                  !.step = verify.step + 1]
    BY <1>2 DEF NextStep
  <2>2. verify.tabs \in Nat \ {0} /\ verify.step + 1 \in 1..4 /\ verify.step + 1 <= Len(Steps)
    BY <1>1, <1>2 DEF VerifyTypeOK, VerifyStates
  <2> QED BY <1>1, <2>1, <2>2, RestingIs DEF VerifyTypeOK, VerifyStates
<1>3. CASE ~(verify.step < Len(Steps))
  <2>1. verify' = [Resting EXCEPT !.at = "keys"]
    BY <1>3 DEF NextStep
  <2>2. verify' \in VerifyStates /\ verify'.at = "keys" /\ verify'.step = 1 /\ verify'.todo = {}
    BY <2>1, RestingIs DEF VerifyStates
  <2> QED BY <1>1, <2>2 DEF VerifyTypeOK
<1> QED BY <1>2, <1>3

LEMMA StepEndsKeeps ==
  ASSUME VerifyTypeOK, NEW clicked \in BOOLEAN, verify' = StepEnds(clicked), UNCHANGED engine
  PROVE  VerifyTypeOK' /\ verify'.at # "idle"
<1>1. CASE clicked
  BY <1>1 DEF StepEnds, VerifyTypeOK, VerifyStates, Steps
<1>2. CASE ~clicked
  BY <1>2, NextStepKeeps DEF StepEnds
<1> QED BY <1>1, <1>2

LEMMA NextPointKeeps ==
  ASSUME VerifyTypeOK, verify.at \in {"click", "probe"}, NEW clicked \in BOOLEAN, verify' = NextPoint(clicked), UNCHANGED engine
  PROVE  VerifyTypeOK' /\ verify'.at # "idle"
<1> DEFINE moved == [verify EXCEPT !.at = "click", !.clicked = clicked]
           rest  == verify.todo \ {First(verify.todo)}
<1>0. /\ moved \in VerifyStates /\ moved.todo = verify.todo /\ moved.found = verify.found
      /\ moved.step = verify.step /\ moved.at = "click"
      /\ moved.point = verify.point
  BY DEF VerifyTypeOK, VerifyStates
<1>1. CASE verify.point < ClickPointsForTarget(Current)
  <2>1. verify' = [moved EXCEPT !.point = moved.point + 1]
    BY <1>1 DEF NextPoint
  <2>2. verify.point + 1 \in 1..3
    BY <1>1 DEF ClickPointsForTarget, VerifyTypeOK, VerifyStates
  <2> HIDE DEF moved
  <2> QED BY <1>0, <2>1, <2>2 DEF VerifyTypeOK, VerifyStates, Steps
<1>2. CASE ~(verify.point < ClickPointsForTarget(Current)) /\ verify.todo # {First(verify.todo)}
  <2>1. verify' = [moved EXCEPT !.point = 1, !.todo = moved.todo \ {First(moved.todo)}]
    BY <1>2 DEF NextPoint
  <2> HIDE DEF moved
  <2> DEFINE first == [moved EXCEPT !.point = 1]
  <2>2. /\ first \in VerifyStates /\ first.found = verify.found
        /\ first.step = verify.step /\ first.at = "click"
    BY <1>0 DEF VerifyStates
  <2>5. verify' = [first EXCEPT !.todo = rest]
    BY <1>0, <2>1
  <2> HIDE DEF first
  <2>3. rest \subseteq verify.todo /\ rest \in SUBSET Nat /\ rest # {}
    BY <1>0, <1>2 DEF VerifyStates, VerifyTypeOK
  <2> HIDE DEF rest
  <2>4. verify' \in VerifyStates /\ verify'.todo = rest /\ verify'.found = verify.found
        /\ verify'.step = verify.step /\ verify'.at = "click"
    BY <2>2, <2>3, <2>5 DEF VerifyStates
  <2> QED BY <2>3, <2>4 DEF VerifyTypeOK, Steps
<1>3. CASE ~(verify.point < ClickPointsForTarget(Current)) /\ verify.todo = {First(verify.todo)}
  BY <1>3, StepEndsKeeps DEF NextPoint
<1> QED BY <1>1, <1>2, <1>3

\* What is collected is on the page.
LEMMA FoundOnPage ==
  ASSUME NEW found \in ClickTargetsFound
  PROVE  found \in Seq(Targets)
<1>1. /\ Link \in Targets /\ VerifyButton \in Targets /\ Widget \in Targets
  BY DEF Link, VerifyButton, Widget, Control, Targets
<1>2. Contents(doc) \in Seq(Targets)
  BY <1>1 DEF Contents
<1>3. Append(Contents(doc), Widget) \in Seq(Targets) /\ <<>> \in Seq(Targets)
  BY <1>1, <1>2
<1>4. found \in {<<>>, Contents(doc), Append(Contents(doc), Widget)}
  BY DEF ClickTargetsFound
<1> QED BY <1>2, <1>3, <1>4

LEMMA ToClickFound ==
  ASSUME NEW found \in Seq(Targets), NEW step \in {"iframe", "human", "buttons", "tabbable"}
  PROVE  ToClick(step, found) \subseteq DOMAIN found
  BY DEF ToClick, TabbableTarget, TabbableTargets

LEMMA ClickVerifyKeeps ==
  ASSUME VerifyTypeOK, doc \in Documents, UNCHANGED engine, ClickVerify
  PROVE  VerifyTypeOK'
<1>1. CASE CollectTargets
  <2>1. CASE verify' = NextStep
    BY <2>1, NextStepKeeps
  <2>2. CASE \E found \in ClickTargetsFound :
             /\ ToClick(Steps[verify.step], found) # {}
             /\ verify' = [verify EXCEPT !.at = "click", !.found = found,
                             !.todo = ToClick(Steps[verify.step], found), !.on = doc.kind]
    <3>1. PICK found \in ClickTargetsFound :
             /\ ToClick(Steps[verify.step], found) # {}
             /\ verify' = [verify EXCEPT !.at = "click", !.found = found,
                             !.todo = ToClick(Steps[verify.step], found), !.on = doc.kind]
      BY <2>2
    <3> DEFINE todo == ToClick(Steps[verify.step], found)
    <3>2. found \in Seq(Targets)
      BY FoundOnPage
    <3>3. Steps[verify.step] \in {"iframe", "human", "buttons", "tabbable"}
      BY StepsAre DEF VerifyTypeOK, VerifyStates
    <3>4. todo \subseteq DOMAIN found /\ todo # {}
      BY <3>1, <3>2, <3>3, ToClickFound
    <3>5. todo \subseteq Nat
      BY <3>2, <3>4
    <3>6. verify' = [verify EXCEPT !.at = "click", !.found = found, !.todo = todo, !.on = doc.kind]
      BY <3>1
    <3> HIDE DEF todo
    <3>7. doc.kind \in Kinds
      BY DocumentFields
    <3> QED BY <3>2, <3>4, <3>5, <3>6, <3>7 DEF VerifyTypeOK, VerifyStates, Steps
  <2> QED BY <1>1, <2>1, <2>2 DEF CollectTargets
<1>2. CASE ClickAt
  <2>1. verify.clicked \in BOOLEAN
    BY DEF VerifyTypeOK, VerifyStates
  <2>2. CASE \E clicked \in BOOLEAN : verify' = NextPoint(clicked)
    BY <1>2, <2>2, NextPointKeeps DEF ClickAt
  <2>3. CASE verify' = StepEnds(TRUE)
    BY <2>3, StepEndsKeeps
  <2>4. CASE verify' = [verify EXCEPT !.at = "probe", !.clicked = TRUE]
    BY <1>2, <2>4 DEF ClickAt, VerifyTypeOK, VerifyStates, Steps
  <2> QED BY <1>2, <2>1, <2>2, <2>3, <2>4 DEF ClickAt
<1>3. CASE ProbeAfterClick
  BY <1>3, NextPointKeeps, StepEndsKeeps DEF ProbeAfterClick
<1>4. CASE JudgeStep
  BY <1>4, Rests, NextStepKeeps DEF JudgeStep
<1>5. CASE KeySequence
  BY <1>5, Rests DEF KeySequence
<1> QED BY <1>1, <1>2, <1>3, <1>4, <1>5 DEF ClickVerify

\* Nothing but the frame changes with the steps of the checkbox, and a click.
LEMMA ClickPages ==
  ASSUME ClickVerify
  PROVE  UNCHANGED <<solve, box>> /\ (UNCHANGED pageVars \/ \E t \in {Current, Link, Widget, VerifyButton} : Clicked(t))
  BY DEF ClickVerify, CollectTargets, ClickAt, ProbeAfterClick, JudgeStep, KeySequence

-----------------------------------------------------------------------------
(* The steps of the loops.                                                 *)

RunInv == /\ SolverTypeOK /\ PipelineTypeOK /\ LoopsInv /\ FrameInv
          /\ ResultIsOfRequest

LEMMA InvariantParts == PipelineInv <=> PageInv /\ RunInv
  BY DEF PipelineInv, PageInv, RunInv, MediaBlockFollowsRequest, MediaInv

BoxStates == [at: {"idle", "find", "inside", "confirm", "leave"}, clicked: BOOLEAN]

LEMMA SolverTypes ==
  SolverTypeOK <=>
    /\ solve \in [at: {"idle", "look", "gone", "weigh", "tick", "solved", "failed"},
                  n: 0..MaxAttempts + PassiveBailout]
    /\ VerifyTypeOK
    /\ box \in BoxStates
  BY DEF SolverTypeOK, VerifyTypeOK, VerifyStates, BoxStates

LEMMA StartedIsTyped ==
  ASSUME StartVerify(1), UNCHANGED engine
  PROVE  VerifyTypeOK' /\ verify'.at = "collect"
<1>1. 1 \in Nat \ {0}
  OBVIOUS
<1> QED BY <1>1, Started

LEMMA VerifyStays ==
  ASSUME VerifyTypeOK, UNCHANGED <<verify, engine>>
  PROVE  VerifyTypeOK'
  BY DEF VerifyTypeOK, VerifyStates, Steps, Kinds, Answers, Challenges, Targets

LEMMA InVerifyKeeps ==
  ASSUME PageInv, RunInv, InVerify
  PROVE  PageInv' /\ RunInv'
<1>1. /\ ClickVerify /\ Reading /\ UNCHANGED <<at, count, req, draft, result>>
      /\ UNCHANGED <<ready, replaced, refused, solve, box>>
  BY ClickPages DEF InVerify, Reading, pipelineVars, history
<1>2. count \in Nat /\ doc \in Documents
  BY PageAssumption DEF RunInv, PipelineTypeOK, PageInv, PageTypeOK
<1>3. PageInv' /\ PageGoesOn
  BY <1>1, ClickPages, ClickKeeps, StayKeeps
<1>4. VerifyTypeOK'
  BY <1>1, <1>2, <1>3, ClickVerifyKeeps, SolverTypes DEF PageGoesOn, RunInv
<1>5. verify.at # "idle" /\ engine # "geckodriver" /\ at \in {"solve", "clicking"}
  <2>1. verify.at # "idle"
    BY <1>1 DEF ClickVerify, CollectTargets, ClickAt, ProbeAfterClick, JudgeStep, KeySequence
  <2> QED BY <2>1 DEF RunInv, LoopsInv
<1>6. SolverTypeOK'
  BY <1>1, <1>4 DEF RunInv, SolverTypeOK, VerifyTypeOK, VerifyStates, BoxStates
<1>7. PipelineTypeOK'
  BY <1>1 DEF RunInv, PipelineTypeOK
<1>8. LoopsInv'
  BY <1>1, <1>3, <1>5 DEF RunInv, LoopsInv, Quiet, PageGoesOn
<1>9. FrameInv'
  BY <1>3 DEF RunInv, FrameInv, PageGoesOn
<1>10. ResultIsOfRequest'
  BY <1>1 DEF RunInv, ResultIsOfRequest
<1> QED BY <1>3, <1>6, <1>7, <1>8, <1>9, <1>10 DEF RunInv

LEMMA InBoxKeeps ==
  ASSUME PageInv, RunInv, InBox
  PROVE  PageInv' /\ RunInv'
<1>1. /\ ClickTurnstileCheckbox /\ Reading /\ UNCHANGED <<at, count, req, draft, result>>
      /\ UNCHANGED <<ready, replaced, refused, solve, verify>>
  BY DEF InBox, Reading, ClickTurnstileCheckbox, FindFrame, ClickCheckbox, ConfirmCheckbox,
         LeaveFrame, pipelineVars, history
<1>2. box.at # "idle" /\ box' \in BoxStates
  <2>1. box \in BoxStates
    BY DEF RunInv, SolverTypeOK, BoxStates
  <2>2. \/ \E place \in {"idle", "inside", "leave", "confirm"} : box' = [box EXCEPT !.at = place]
        \/ \E clicked \in BOOLEAN : box' = [at |-> "leave", clicked |-> clicked]
    BY <1>1 DEF ClickTurnstileCheckbox, FindFrame, ClickCheckbox, ConfirmCheckbox, LeaveFrame
  <2>3. box.at # "idle"
    BY <1>1 DEF ClickTurnstileCheckbox, FindFrame, ClickCheckbox, ConfirmCheckbox, LeaveFrame
  <2> QED BY <2>1, <2>2, <2>3 DEF BoxStates
<1>3. engine = "geckodriver" /\ at \in {"solve", "reread"} /\ verify.at = "idle"
  BY <1>2 DEF RunInv, LoopsInv
<1>4. PageInv' /\ engine' = engine
  <2>1. CASE UNCHANGED pageVars
    BY <1>1, <2>1, StayKeeps DEF PageGoesOn
  <2>2. CASE Clicked(Widget)
    BY <1>1, <2>2, ClickKeeps DEF PageGoesOn
  <2>3. CASE /\ UNCHANGED <<engine, doc, pending, blocked, seen, spent>>
             /\ frame' \in {frame, "widget", "top"}
    <3>1. PageTypeOK' /\ SeenInv'
      BY <2>3 DEF PageInv, PageTypeOK, SeenInv
    <3>2. DocumentsOwned' /\ MediaInv' /\ PagesInv'
      BY <1>1, <2>3 DEF PageInv, DocumentsOwned, MediaInv, PagesInv, Underway, Ours
    <3>3. StillInv' /\ AnswerInv'
      BY <1>1, <2>3 DEF PageInv, StillInv, AnswerInv, Answered
    <3> QED BY <2>3, <3>1, <3>2, <3>3 DEF PageInv
  <2>4. FindFrame \/ LeaveFrame => <2>3!1
    BY DEF FindFrame, LeaveFrame
  <2>5. ClickCheckbox \/ ConfirmCheckbox => <2>1!1 \/ <2>2!1
    BY DEF ClickCheckbox, ConfirmCheckbox
  <2> QED BY <1>1, <2>1, <2>2, <2>3, <2>4, <2>5 DEF ClickTurnstileCheckbox
<1>5. VerifyTypeOK'
  BY <1>1, <1>4, SolverTypes, VerifyStays DEF RunInv
<1>6. SolverTypeOK'
  BY <1>1, <1>2, <1>5 DEF RunInv, SolverTypeOK, VerifyTypeOK, VerifyStates, BoxStates
<1>7. PipelineTypeOK'
  BY <1>1 DEF RunInv, PipelineTypeOK
<1>8. LoopsInv' /\ FrameInv'
  BY <1>1, <1>2, <1>3, <1>4 DEF RunInv, LoopsInv, FrameInv, Quiet
<1>9. ResultIsOfRequest'
  BY <1>1 DEF RunInv, ResultIsOfRequest
<1> QED BY <1>4, <1>6, <1>7, <1>8, <1>9 DEF RunInv

LEMMA PagesMoveKeeps ==
  ASSUME PageInv, RunInv, PagesMove
  PROVE  PageInv' /\ RunInv'
<1>1. /\ Site /\ Reading /\ UNCHANGED <<at, count, req, draft, result, ready, refused>>
      /\ replaced' = IF at \in Late /\ pending # NoDoc /\ pending' = NoDoc THEN TRUE ELSE replaced
      /\ UNCHANGED <<solve, verify, box>>
  BY DEF PagesMove, Reading, solverVars
<1>2. count \in Nat
  BY PageAssumption DEF RunInv, PipelineTypeOK
<1>3. PageInv' /\ PageGoesOn
  BY <1>1, <1>2, SiteKeeps
<1>4. VerifyTypeOK'
  BY <1>1, <1>3, SolverTypes, VerifyStays DEF RunInv, PageGoesOn
<1>5. SolverTypeOK'
  BY <1>1, <1>4 DEF RunInv, SolverTypeOK, VerifyTypeOK, VerifyStates, BoxStates
<1>6. PipelineTypeOK'
  BY <1>1 DEF RunInv, PipelineTypeOK
<1>7. LoopsInv' /\ FrameInv'
  BY <1>1, <1>3 DEF RunInv, LoopsInv, FrameInv, Quiet, PageGoesOn
<1>8. ResultIsOfRequest'
  BY <1>1 DEF RunInv, ResultIsOfRequest
<1> QED BY <1>3, <1>5, <1>6, <1>7, <1>8 DEF RunInv

SolveStates == [at: {"idle", "look", "gone", "weigh", "tick", "solved", "failed"},
                n: 0..MaxAttempts + PassiveBailout]

\* What a step of solveChallenge leaves behind.
Solving ==
  /\ UNCHANGED pageVars /\ solve' \in SolveStates /\ solve'.at # "idle"
  /\ VerifyTypeOK'
  /\ verify' = verify \/ (/\ verify'.at = "collect" /\ engine # "geckodriver"
                          /\ solve'.at = "look")
  /\ box' = box \/ (engine = "geckodriver" /\ solve'.at = "tick"
                    /\ box.at = "idle" /\ box'.at = "find"
                    /\ box' \in BoxStates)
  /\ (verify'.at = "idle" /\ box'.at = "idle") \/ solve'.at \in {"look", "tick"}
  /\ solve'.at = "tick" => engine = "geckodriver" /\ solve'.n <= MaxAttempts
  /\ solve'.at \in {"look", "gone", "weigh"} => engine # "geckodriver" /\ solve'.n < PassiveBailout

LEMMA GoesIs ==
  ASSUME solve \in SolveStates, NEW to \in {"look", "gone", "weigh", "tick", "solved", "failed"},
         Goes(to)
  PROVE  solve' \in SolveStates /\ solve'.at = to /\ solve'.n = solve.n
  BY DEF Goes, SolveStates

LEMMA OverIs ==
  ASSUME solve \in SolveStates, Over
  PROVE  /\ solve' \in SolveStates /\ solve'.n = solve.n
         /\ solve'.at \in {"solved", "failed"} /\ (spent => solve'.at = "failed")
  BY GoesIs DEF Over, Misses

LEMMA AskedIs ==
  ASSUME solve \in SolveStates, NEW onward \in {"gone", "weigh"}, Asked(onward)
  PROVE  /\ solve' \in SolveStates /\ solve'.n = solve.n
         /\ solve'.at \in {onward, "solved", "failed"} /\ (spent => solve'.at = "failed")
  BY OverIs, GoesIs DEF Asked, Sees

LEMMA SolverSolves ==
  ASSUME PageInv, RunInv, Solver
  PROVE  Solving
<1>1. /\ solve \in SolveStates /\ VerifyTypeOK
      /\ solve.at = "tick" => engine = "geckodriver" /\ solve.n <= MaxAttempts
      /\ solve.at \in {"look", "gone", "weigh"} => engine # "geckodriver" /\ solve.n < PassiveBailout
      /\ UNCHANGED <<pageVars, engine>> /\ at = "solve"
  <2>1. solve \in SolveStates /\ VerifyTypeOK
    BY SolverTypes DEF RunInv, SolveStates
  <2>2. UNCHANGED <<pageVars, engine>>
    BY DEF Solver, Look, WaitGone, WeighTargets, Tick, pageVars
  <2>3. solve.at # "idle"
    BY DEF Solver, Look, WaitGone, WeighTargets, Tick
  <2> QED BY <2>1, <2>2, <2>3 DEF RunInv, LoopsInv
<1>2. CASE Look
  <2>1. solve.at = "look" /\ Quiet /\ Asked("gone") /\ UNCHANGED <<verify, box>>
    BY <1>2 DEF Look
  <2>2. VerifyTypeOK'
    BY <1>1, <2>1, VerifyStays
  <2> QED BY <1>1, <2>1, <2>2, AskedIs DEF Solving, Quiet
<1>3. CASE WaitGone
  <2>1. solve.at = "gone" /\ UNCHANGED box
    BY <1>3 DEF WaitGone
  <2>2. Quiet
    BY <1>1, <2>1 DEF RunInv, LoopsInv
  <2>3. CASE engine = "chromedp" /\ Goes("look") /\ StartVerify(1)
    BY <1>1, <2>1, <2>2, <2>3, GoesIs, StartedIsTyped DEF Solving, Quiet
  <2>4. CASE (Asked("weigh") \/ Over) /\ UNCHANGED verify
    <3>1. VerifyTypeOK'
      BY <1>1, <2>4, VerifyStays
    <3> QED BY <1>1, <2>1, <2>2, <2>4, <3>1, AskedIs, OverIs DEF Solving, Quiet
  <2> QED BY <1>3, <2>3, <2>4 DEF WaitGone
<1>4. CASE WeighTargets
  <2>1. solve.at = "weigh" /\ UNCHANGED box
    BY <1>4 DEF WeighTargets
  <2>2. Quiet
    BY <1>1, <2>1 DEF RunInv, LoopsInv
  <2>3. CASE UNCHANGED verify /\ solve' = [at |-> IF solve.n + 1 < PassiveBailout THEN "look" ELSE "failed",
                                           n |-> solve.n + 1]
    <3>1. VerifyTypeOK'
      BY <1>1, <2>3, VerifyStays
    <3>2. solve.n + 1 \in 0..MaxAttempts + PassiveBailout
      BY <1>1, <2>1, SolverAssumption DEF SolveStates, PassiveBailout
    <3>3. /\ solve' \in SolveStates /\ solve'.at \in {"look", "failed"}
          /\ solve'.at = "look" => solve'.n < PassiveBailout
      BY <2>3, <3>2 DEF SolveStates
    <3> QED BY <1>1, <2>1, <2>2, <2>3, <3>1, <3>3 DEF Solving, Quiet
  <2>4. CASE solve' = [at |-> "look", n |-> 0] /\ StartVerify(1)
    <3>1. solve' \in SolveStates /\ solve'.at = "look" /\ solve'.n = 0
      BY <2>4, SolverAssumption DEF SolveStates, PassiveBailout
    <3> QED BY <1>1, <2>1, <2>2, <2>4, <3>1, StartedIsTyped DEF Solving, Quiet, PassiveBailout
  <2> QED BY <1>4, <2>3, <2>4 DEF WeighTargets
<1>5. CASE Tick
  <2>1. solve.at = "tick" /\ Quiet /\ UNCHANGED verify
    BY <1>5 DEF Tick
  <2>2. VerifyTypeOK'
    BY <1>1, <2>1, VerifyStays
  <2>3. CASE Goes("failed") /\ UNCHANGED box
    BY <1>1, <2>1, <2>2, <2>3, GoesIs DEF Solving, Quiet
  <2>4. CASE Over /\ UNCHANGED box
    BY <1>1, <2>1, <2>2, <2>4, OverIs DEF Solving, Quiet
  <2>5. CASE /\ solve.n # MaxAttempts /\ solve' = [solve EXCEPT !.n = solve.n + 1]
             /\ StartBox \/ UNCHANGED box
    <3>1. solve.n + 1 <= MaxAttempts /\ solve.n + 1 \in 0..MaxAttempts + PassiveBailout
      BY <1>1, <2>1, <2>5, SolverAssumption DEF SolveStates, PassiveBailout
    <3>2. solve' \in SolveStates /\ solve'.at = "tick" /\ solve'.n <= MaxAttempts
      BY <1>1, <2>1, <2>5, <3>1 DEF SolveStates
    <3>3. UNCHANGED box \/ (box'.at = "find" /\ box' \in BoxStates)
      <4>1. StartBox \/ UNCHANGED box
        BY <2>5
      <4>2. StartBox => box'.at = "find" /\ box' \in BoxStates
        BY DEF StartBox, BoxStates
      <4> QED BY <4>1, <4>2
    <3> QED BY <1>1, <2>1, <2>2, <3>2, <3>3 DEF Solving, Quiet
  <2> QED BY <1>5, <2>3, <2>4, <2>5 DEF Tick
<1> QED BY <1>2, <1>3, <1>4, <1>5 DEF Solver

LEMMA InSolveKeeps ==
  ASSUME PageInv, RunInv, InSolve
  PROVE  PageInv' /\ RunInv'
<1>1. /\ Solving /\ at = "solve"
      /\ UNCHANGED <<at, count, req, draft, result, ready, replaced, refused>>
  BY SolverSolves DEF InSolve, At, pipelineVars, history
<1>2. PageInv'
  BY <1>1, StayKeeps DEF Solving, Reading
<1>3. SolverTypeOK'
  BY <1>1 DEF Solving, RunInv, SolverTypeOK, SolveStates, VerifyTypeOK, VerifyStates, BoxStates
<1>4. PipelineTypeOK'
  BY <1>1 DEF RunInv, PipelineTypeOK
<1>5. LoopsInv'
  BY <1>1 DEF Solving, RunInv, LoopsInv, Quiet, pageVars
<1>6. FrameInv'
  BY <1>1 DEF Solving, RunInv, FrameInv, pageVars
<1>7. ResultIsOfRequest'
  BY <1>1 DEF RunInv, ResultIsOfRequest
<1> QED BY <1>2, <1>3, <1>4, <1>5, <1>6, <1>7 DEF RunInv

-----------------------------------------------------------------------------
(* The steps of ResolvePage.                                               *)

\* What concerns the page alone.
PageParts == PageTypeOK /\ DocumentsOwned /\ MediaInv /\ PagesInv /\ SeenInv

\* Where a step that leaves the page alone may go on.
Later == Places \ {"idle", "media", "navigate", "cookies", "again"}

LEMMA GoesOnKeeps ==
  ASSUME PageParts, UNCHANGED <<engine, doc, pending, frame, blocked, spent, count, req, refused>>,
         Underway, at' \in Later \/ (at = "cookies" /\ at' = "again"),
         seen' \in {seen, NothingSeen}
  PROVE  PageParts'
<1>1. at' \notin {"idle", "media", "navigate"} /\ at # "idle"
  BY DEF Later, Underway
<1>2. PageTypeOK'
  BY NothingIsSeen DEF PageParts, PageTypeOK
<1>3. DocumentsOwned'
  BY <1>1 DEF PageParts, DocumentsOwned, Underway, Ours
<1>4. MediaInv'
  BY <1>1 DEF PageParts, MediaInv, Ours, Later
<1>5. PagesInv'
  BY DEF PageParts, PagesInv
<1>6. SeenInv'
  <2>1. doc.kind \in Kinds
    BY DocumentFields DEF PageParts, PageTypeOK
  <2>2. NothingSeen[URLOf(doc.kind)] = NoResult
    BY <2>1, NothingIsSeen, URLIsURL
  <2> QED BY <2>2 DEF PageParts, SeenInv
<1> QED BY <1>2, <1>3, <1>4, <1>5, <1>6 DEF PageParts

\* No loop runs before or after the step.
LEMMA QuietKeeps ==
  ASSUME RunInv, UNCHANGED <<engine, verify, box>>, Quiet, at' # "solve",
         solve' = [at |-> "idle", n |-> 0] \/ (UNCHANGED solve /\ solve.at = "idle")
  PROVE  SolverTypeOK' /\ LoopsInv'
<1>1. solve' \in SolveStates /\ solve'.at = "idle"
  BY SolverTypes, SolverAssumption DEF RunInv, SolveStates, PassiveBailout
<1>2. VerifyTypeOK'
  BY SolverTypes, VerifyStays DEF RunInv
<1>3. SolverTypeOK'
  BY <1>1, <1>2 DEF RunInv, SolverTypeOK, SolveStates, VerifyTypeOK, VerifyStates
<1>4. LoopsInv'
  BY <1>1 DEF LoopsInv, Quiet
<1> QED BY <1>3, <1>4

LEMMA NoDraftIsDraft ==
  NoDraft \in Drafts /\ NoDraft.status = NoResult /\ NoDraft.html = NoResult
  BY DEF NoDraft, Drafts

\* A request ends where it is, and leaves the page as it is.
LEMMA ReturnKeeps ==
  ASSUME PageInv, RunInv, NEW r \in Drafts \cup {NoResult}, Returns(r),
         UNCHANGED <<engine, doc, pending, frame, blocked, seen, count, req>>,
         r # NoResult => /\ r.status # NoResult => r.status.of = count
                         /\ r.html # NoResult => r.html.doc.of = count,
         spent' \in BOOLEAN, UNCHANGED <<verify, box>>, Quiet, ~At("idle"),
         solve' = [at |-> "idle", n |-> 0] \/ (UNCHANGED solve /\ solve.at = "idle")
  PROVE  PageInv' /\ RunInv'
<1>1. at' = "idle" /\ result' = r /\ draft' = NoDraft 
      /\ ready' = FALSE /\ replaced' = FALSE /\ refused' = refused
  BY DEF Returns, GoTo
<1>2. PageTypeOK' /\ SeenInv'
  BY DEF PageInv, PageTypeOK, SeenInv
<1>3. DocumentsOwned' /\ PagesInv'
  BY <1>1 DEF PageInv, DocumentsOwned, PagesInv, Underway, Ours
<1>4. MediaInv' /\ StillInv'
  BY <1>1 DEF PageInv, MediaInv, StillInv, Ours, Answered
<1>5. PipelineTypeOK'
  BY <1>1, NoDraftIsDraft DEF RunInv, PipelineTypeOK, Places
<1>6. SolverTypeOK' /\ LoopsInv'
  BY <1>1, QuietKeeps
<1>7. FrameInv'
  BY DEF RunInv, FrameInv
<1>20. ResultIsOfRequest'
  BY <1>1 DEF ResultIsOfRequest
<1>21. AnswerInv'
  BY <1>1, NoDraftIsDraft DEF PageInv, AnswerInv, Answered
<1> QED BY <1>2, <1>3, <1>4, <1>5, <1>6, <1>7, <1>20, <1>21 DEF PageInv, RunInv

\* Only the loops of the places they belong to run.
LEMMA QuietElsewhere ==
  ASSUME RunInv, at \notin {"solve", "clicking", "reread"}
  PROVE  Quiet /\ solve.at = "idle"
  BY DEF RunInv, LoopsInv, Quiet

LEMMA BeginKeeps ==
  ASSUME PageInv, RunInv, Begin
  PROVE  PageInv' /\ RunInv'
<1>1. /\ at = "idle" /\ at' = "media" /\ count < MaxRequests /\ count' = count + 1
      /\ req' \in Requests /\ spent' = FALSE /\ refused' = FALSE /\ result' = NoResult
      /\ seen' \in {seen, NothingSeen} /\ (engine = "geckodriver" => seen' = seen)
      /\ UNCHANGED <<engine, doc, pending, frame, blocked, solve, verify, box, draft, ready, replaced>>
  BY DEF Begin, At, GoTo, solverVars
<1>2. count \in Nat /\ count' \in 0..MaxRequests
  BY <1>1, PageAssumption DEF RunInv, PipelineTypeOK
<1>3. /\ doc \in Documents /\ doc.of \in Nat /\ doc.of < count' /\ doc.kind \in Kinds
      /\ pending # NoDoc => pending.of \in Nat /\ pending.of < count'
  BY <1>1, <1>2, PageAssumption, DocumentFields DEF PageInv, PageTypeOK, DocumentsOwned
<1>4. PageTypeOK'
  BY <1>1, NothingIsSeen DEF PageInv, PageTypeOK
<1>5. DocumentsOwned' /\ MediaInv'
  BY <1>1, <1>2, <1>3 DEF DocumentsOwned, MediaInv, Underway, Ours
<1>6. PagesInv'
  BY <1>1 DEF PageInv, PagesInv
<1>7. SeenInv'
  <2>1. NothingSeen[URLOf(doc.kind)] = NoResult
    BY <1>3, NothingIsSeen, URLIsURL
  <2> QED BY <1>1, <2>1 DEF PageInv, SeenInv
<1>8. StillInv'
  BY <1>1 DEF PageInv, StillInv, Late, Answered
<1>9. PipelineTypeOK'
  BY <1>1, <1>2 DEF RunInv, PipelineTypeOK, Places
<1>10. SolverTypeOK' /\ LoopsInv'
  BY <1>1, QuietKeeps, QuietElsewhere
<1>11. FrameInv'
  BY <1>1 DEF RunInv, FrameInv
<1>20. ResultIsOfRequest'
  BY <1>1 DEF ResultIsOfRequest
<1>21. AnswerInv'
  <2>1. NothingSeen[URLOf(doc.kind)] = NoResult
    BY <1>3, NothingIsSeen, URLIsURL
  <2>2. draft.status = NoResult
    BY <1>1 DEF PageInv, AnswerInv, Answered
  <2> QED BY <1>1, <2>1, <2>2 DEF PageInv, AnswerInv
<1> QED BY <1>4, <1>5, <1>6, <1>7, <1>8, <1>9, <1>10, <1>11, <1>20, <1>21 DEF PageInv, RunInv

LEMMA SetMediaBlockedKeeps ==
  ASSUME PageInv, RunInv, SetMediaBlocked
  PROVE  PageInv' /\ RunInv'
<1>1. /\ at = "media" /\ at' = "navigate"
      /\ \/ (spent \/ engine = "geckodriver") /\ UNCHANGED <<blocked, refused>>
         \/ blocked' = req.media /\ UNCHANGED refused
         \/ blocked' \in {blocked, req.media} /\ refused' = TRUE
      /\ UNCHANGED <<engine, doc, pending, frame, seen, spent, solve, verify, box, draft, ready, replaced>>
      /\ UNCHANGED <<count, req, result>>
  BY DEF SetMediaBlocked, At, GoTo, solverVars, Keep
<1>2. count > 0 /\ req \in Requests /\ req.media \in BOOLEAN
  BY <1>1, PipelineAssumption DEF RunInv, PipelineTypeOK, PageInv, DocumentsOwned
<1>3. PageTypeOK'
  BY <1>1, <1>2 DEF PageInv, PageTypeOK
<1>4. DocumentsOwned' /\ MediaInv'
  BY <1>1 DEF PageInv, DocumentsOwned, MediaInv, Underway, Ours
<1>5. PagesInv' /\ SeenInv' /\ StillInv'
  BY <1>1 DEF PageInv, PagesInv, SeenInv, StillInv, Underway, Late, Answered
<1>6. PipelineTypeOK'
  BY <1>1 DEF RunInv, PipelineTypeOK, Places
<1>7. SolverTypeOK' /\ LoopsInv'
  BY <1>1, QuietKeeps, QuietElsewhere
<1>8. FrameInv'
  BY <1>1 DEF RunInv, FrameInv
<1>20. ResultIsOfRequest'
  BY <1>1 DEF RunInv, ResultIsOfRequest
<1>21. AnswerInv'
  BY <1>1 DEF PageInv, AnswerInv, Answered
<1> QED BY <1>3, <1>4, <1>5, <1>6, <1>7, <1>8, <1>20, <1>21 DEF PageInv, RunInv

\* The page has answered, or a form that is about to ask it.
LEMMA NavigatedKeeps ==
  ASSUME PageInv, RunInv, NEW place \in {"navigate", "again"}, At(place),
         NEW next \in {"cookies", "denied"}, place = "again" => next = "denied",
         Navigated(next), UNCHANGED <<engine, blocked, solverVars, count, req>>
  PROVE  PageInv' /\ RunInv'
<1> DEFINE r == [of |-> count, kind |-> doc'.kind]
<1>1. /\ ~spent /\ at = place /\ at' = next /\ frame' = "top" /\ doc' \in Documents
      /\ doc'.of = count /\ Asks(doc')
      /\ Remember(r) /\ UNCHANGED <<spent, draft, result, ready, replaced, refused>>
      /\ UNCHANGED <<engine, blocked, solve, verify, box, count, req>>
  BY DEF Navigated, At, GoTo, Noted, history, solverVars
<1>2. /\ count \in 0..MaxRequests /\ count > 0
      /\ seen \in [URLs -> Responses \cup {NoResult}] /\ engine \in Engines
      /\ engine # "geckodriver" /\ ~refused => blocked = req.media
  BY <1>1 DEF RunInv, PipelineTypeOK, PageInv, PageTypeOK, DocumentsOwned, MediaInv
<1>3. doc'.kind \in Kinds /\ doc'.kind # "cleared"
  BY <1>1, DocumentFields DEF Asks, Answers, Challenges
<1>4. r \in Responses /\ r.kind = doc'.kind
  BY <1>2, <1>3 DEF Responses
<1> HIDE DEF r
<1>5. /\ seen' \in [URLs -> Responses \cup {NoResult}]
      /\ engine # "geckodriver" => seen'[URLOf(doc'.kind)] = r
      /\ engine = "geckodriver" => seen' = seen
  BY <1>1, <1>2, <1>4, Remembered
<1>6. \/ pending' = NoDoc
      \/ /\ doc'.kind = "form" /\ pending' \in Documents /\ pending' # NoDoc
         /\ pending'.of = count /\ pending'.kind \in Answers
  BY <1>1, FreshDocuments DEF Asks
<1>7. PageTypeOK'
  BY <1>1, <1>5, <1>6 DEF PageInv, PageTypeOK
<1>8. DocumentsOwned' /\ MediaInv'
  BY <1>1, <1>2, <1>6 DEF DocumentsOwned, MediaInv, Underway, Ours
<1>9. PagesInv'
  BY <1>1, <1>3, <1>6 DEF PagesInv
<1>10. SeenInv'
  <2>1. engine = "geckodriver" => seen'[URLOf(doc'.kind)] = NoResult
    BY <1>3, <1>5, URLIsURL, NothingIsSeen DEF PageInv, SeenInv
  <2> QED BY <1>1, <1>5, <2>1 DEF PageInv, SeenInv, r
<1>11. StillInv'
  BY <1>1 DEF PageInv, StillInv, Late, Answered
<1>12. PipelineTypeOK'
  BY <1>1 DEF RunInv, PipelineTypeOK, Places
<1>13. SolverTypeOK' /\ LoopsInv'
  BY <1>1, QuietKeeps, QuietElsewhere
<1>14. FrameInv'
  BY <1>1 DEF FrameInv
<1>20. ResultIsOfRequest'
  BY <1>1 DEF RunInv, ResultIsOfRequest
<1>21. AnswerInv'
  <2>1. r.of = count
    BY DEF r
  <2>2. engine = "geckodriver" => seen'[URLOf(doc'.kind)] = NoResult
    BY <1>3, <1>5, URLIsURL, NothingIsSeen DEF PageInv, SeenInv
  <2>3. draft.status = NoResult /\ draft.html = NoResult
    BY <1>1 DEF PageInv, AnswerInv, Answered
  <2> QED BY <1>1, <1>5, <2>1, <2>2, <2>3 DEF AnswerInv
<1> QED BY <1>7, <1>8, <1>9, <1>10, <1>11, <1>12, <1>13, <1>14, <1>20, <1>21 DEF PageInv, RunInv

\* The request has ended, its navigation perhaps has not.
LEMMA NavigateFailsKeeps ==
  ASSUME PageInv, RunInv, NEW place \in {"navigate", "again"}, At(place),
         NavigateFails, UNCHANGED <<engine, blocked, solverVars, count, req>>
  PROVE  PageInv' /\ RunInv'
<1>1. /\ at = place /\ at' = "idle" /\ result' = NoResult /\ draft' = NoDraft
      /\ ready' = FALSE /\ replaced' = FALSE /\ refused' = refused /\ spent' = TRUE /\ UNCHANGED <<doc, frame, seen>>
      /\ UNCHANGED <<engine, blocked, solve, verify, box, count, req>>
  BY DEF NavigateFails, Returns, At, GoTo, solverVars
<1>2. \/ UNCHANGED pending
      \/ /\ pending' \in Documents /\ pending' # NoDoc /\ ~spent
         /\ pending'.of = count /\ pending'.kind \in Answers
  BY FreshDocuments DEF NavigateFails
<1>3. count \in Nat /\ count > 0
  BY <1>1, PageAssumption DEF RunInv, PipelineTypeOK, PageInv, DocumentsOwned
<1>4. PageTypeOK'
  BY <1>1, <1>2 DEF PageInv, PageTypeOK
<1>5. DocumentsOwned'
  BY <1>1, <1>2, <1>3 DEF PageInv, DocumentsOwned, Underway, Ours
<1>6. MediaInv'
  BY <1>1, <1>2 DEF PageInv, MediaInv, Ours
<1>7. PagesInv'
  BY <1>1, <1>2 DEF PageInv, PagesInv
<1>8. SeenInv' /\ StillInv'
  BY <1>1 DEF PageInv, SeenInv, StillInv, Answered
<1>9. PipelineTypeOK'
  BY <1>1, NoDraftIsDraft DEF RunInv, PipelineTypeOK, Places
<1>10. SolverTypeOK' /\ LoopsInv'
  BY <1>1, QuietKeeps, QuietElsewhere
<1>11. FrameInv'
  BY <1>1 DEF RunInv, FrameInv
<1>20. ResultIsOfRequest'
  BY <1>1 DEF ResultIsOfRequest
<1>21. AnswerInv'
  BY <1>1, NoDraftIsDraft DEF PageInv, AnswerInv, Answered
<1> QED BY <1>4, <1>5, <1>6, <1>7, <1>8, <1>9, <1>10, <1>11, <1>20, <1>21 DEF PageInv, RunInv

LEMMA NavigateKeeps ==
  ASSUME PageInv, RunInv,
         \/ Navigate("navigate", IF req.cookies THEN "cookies" ELSE "denied")
         \/ Navigate("again", "denied")
  PROVE  PageInv' /\ RunInv'
  BY NavigatedKeeps, NavigateFailsKeeps DEF Navigate

\* The steps before anything is read, from one place to a later one.
LEMMA WayKeeps ==
  ASSUME PageInv, RunInv, UNCHANGED <<pageVars, verify, box, count, req, draft, result, ready, replaced, refused>>,
         Underway, Quiet, at \notin Late,
         at' \in Later \ {"clicking"} \/ (at = "cookies" /\ at' = "again"),
         at' \notin {"jar", "response"} \cup Answered,
         \/ at' # "solve" /\ (solve' = [at |-> "idle", n |-> 0] \/ (UNCHANGED solve /\ solve.at = "idle"))
         \/ at' = "solve" /\ BeginSolve
  PROVE  PageInv' /\ RunInv'
<1>1. PageParts'
  BY GoesOnKeeps DEF PageInv, PageParts, pageVars
<1>2. StillInv'
  BY DEF PageInv, StillInv
<1>3. PipelineTypeOK'
  BY DEF RunInv, PipelineTypeOK, Later, Places
<1>4. SolverTypeOK' /\ LoopsInv'
  <2>1. CASE at' # "solve"
    BY <2>1, QuietKeeps DEF pageVars
  <2>2. CASE at' = "solve"
    <3>1. /\ solve' \in SolveStates /\ solve'.n = 0
          /\ solve'.at = IF engine = "geckodriver" THEN "tick" ELSE "look"
      BY <2>2, SolverAssumption DEF BeginSolve, SolveStates, PassiveBailout
    <3>2. VerifyTypeOK'
      BY SolverTypes, VerifyStays DEF RunInv, pageVars
    <3>3. SolverTypeOK'
      BY <3>1, <3>2 DEF RunInv, SolverTypeOK, SolveStates, VerifyTypeOK, VerifyStates
    <3>4. LoopsInv'
      BY <2>2, <3>1, SolverAssumption DEF LoopsInv, Quiet, pageVars, PassiveBailout
    <3> QED BY <3>3, <3>4
  <2> QED BY <2>1, <2>2
<1>5. FrameInv'
  BY DEF RunInv, FrameInv, pageVars
<1>20. ResultIsOfRequest'
  BY DEF RunInv, ResultIsOfRequest
<1>21. AnswerInv'
  BY DEF PageInv, AnswerInv, Late, Answered, pageVars
<1> QED BY <1>1, <1>2, <1>3, <1>4, <1>5, <1>20, <1>21 DEF PageParts, PageInv, RunInv

\* The steps that read the page, which they leave alone.
LEMMA LateKeeps ==
  ASSUME PageInv, RunInv, UNCHANGED <<engine, doc, pending, frame, blocked, spent, count, req, refused>>,
         UNCHANGED <<solve, verify, box, result, replaced>>, Quiet, at \in {"ready"} \cup Late, at' \in Late,
         seen' \in {seen, NothingSeen}, draft' \in Drafts,
         ready' \in BOOLEAN, StillInv', AnswerInv', at' = "clicking" => req.tabs > 0
  PROVE  PageInv' /\ RunInv'
<1>1. Underway /\ at' \in Later /\ at' # "solve" /\ at # "solve" /\ at' \in Places
  BY DEF Underway, Late, Later, Places
<1>2. PageParts'
  BY <1>1, GoesOnKeeps DEF PageInv, PageParts
<1>3. PipelineTypeOK'
  BY <1>1 DEF RunInv, PipelineTypeOK
<1>4. solve.at = "idle"
  BY <1>1 DEF RunInv, LoopsInv
<1>5. SolverTypeOK' /\ LoopsInv'
  BY <1>1, <1>4, QuietKeeps
<1>6. FrameInv'
  BY DEF RunInv, FrameInv
<1>20. ResultIsOfRequest'
  BY DEF RunInv, ResultIsOfRequest
<1> QED BY <1>2, <1>3, <1>5, <1>6, <1>20 DEF PageParts, PageInv, RunInv

\* An exchange that fails ends the request.
LEMMA FailsKeeps ==
  ASSUME PageInv, RunInv, Fails, Quiet, at \notin {"idle", "solve"}
  PROVE  PageInv' /\ RunInv'
<1>1. solve.at = "idle" /\ spent' \in BOOLEAN
  BY DEF Fails, RunInv, LoopsInv, PageInv, PageTypeOK, pageVars
<1> QED BY <1>1, ReturnKeeps DEF Fails, At, pageVars, solverVars

LEMMA PassingKeeps ==
  ASSUME PageInv, RunInv, SetPageCookies \/ CheckDenied \/ DetectChallenge \/ SolveEnds
  PROVE  PageInv' /\ RunInv'
<1> DEFINE On == /\ UNCHANGED <<pageVars, verify, box, count, req, draft, result>>
                 /\ UNCHANGED <<ready, replaced, refused>>
<1>1. ASSUME at \in {"cookies", "denied", "detect"}, Fails
      PROVE  PageInv' /\ RunInv'
  BY <1>1, FailsKeeps, QuietElsewhere
<1>2. ASSUME at \in {"cookies", "denied", "detect"}, On,
             \/ at = "cookies" /\ at' = "again" /\ UNCHANGED solve
             \/ at' = "detect" /\ UNCHANGED solve
             \/ at' = "ready" /\ UNCHANGED solve
             \/ at' = "solve" /\ BeginSolve
      PROVE  PageInv' /\ RunInv'
  BY <1>2, WayKeeps, QuietElsewhere DEF Underway, Late, Later, Places, Answered
<1>3. CASE SetPageCookies
  <2>1. at = "cookies" /\ (Fails \/ (On /\ at' = "again" /\ UNCHANGED solve))
    BY <1>3 DEF SetPageCookies, Must, At, GoTo, Keep, Noted, history, solverVars
  <2> HIDE DEF On
  <2> QED BY <1>1, <1>2, <2>1
<1>4. CASE CheckDenied
  <2>1. at = "denied" /\ (Fails \/ (On /\ at' = "detect" /\ UNCHANGED solve))
    BY <1>4 DEF CheckDenied, Must, At, GoTo, Keep, Noted, history, solverVars
  <2> HIDE DEF On
  <2> QED BY <1>1, <1>2, <2>1
<1>5. CASE DetectChallenge
  <2>1. /\ at = "detect"
        /\ \/ Fails
           \/ On /\ at' = "solve" /\ BeginSolve
           \/ On /\ at' = "ready" /\ UNCHANGED solve
    BY <1>5 DEF DetectChallenge, Must, At, GoTo, Keep, Noted, history
  <2> HIDE DEF On
  <2> QED BY <1>1, <1>2, <2>1
<1>6. CASE SolveEnds
  <2>1. at = "solve" /\ Quiet /\ spent \in BOOLEAN
    BY <1>6 DEF SolveEnds, At, RunInv, LoopsInv, PageInv, PageTypeOK
  <2>2. CASE solve.at = "failed"
    BY <1>6, <2>1, <2>2, ReturnKeeps DEF SolveEnds, At, pageVars
  <2>3. CASE solve.at # "failed"
    BY <1>6, <2>1, <2>3, WayKeeps
    DEF SolveEnds, At, GoTo, Underway, Late, Later, Places, Answered, Noted, history, pageVars
  <2> QED BY <2>2, <2>3
<1> QED BY <1>3, <1>4, <1>5, <1>6

LEMMA AwaitKeeps ==
  ASSUME PageInv, RunInv, AwaitDocumentReady
  PROVE  PageInv' /\ RunInv'
<1>1. /\ at = "ready" /\ at' \in {"wait", "url"}
      /\ UNCHANGED <<engine, doc, pending, frame, blocked, spent, count, req, replaced, refused>>
      /\ UNCHANGED <<solve, verify, box, result, seen, draft>> /\ Quiet
  BY QuietElsewhere
  DEF AwaitDocumentReady, At, GoTo, AfterReady, Keep, history, pageVars, solverVars
<1>2. ready' = ready \/ (ready' = TRUE /\ doc.loaded)
  BY DEF AwaitDocumentReady
<1>3. ready = FALSE /\ draft \in Drafts
  BY <1>1 DEF PageInv, StillInv, Late, RunInv, PipelineTypeOK
<1>4. StillInv'
  BY <1>1, <1>2, <1>3 DEF PageInv, StillInv, Late, Answered
<1>5. AnswerInv'
  BY <1>1 DEF PageInv, AnswerInv, Answered
<1>6. ready' \in BOOLEAN
  BY <1>2, <1>3
<1> QED BY <1>1, <1>3, <1>4, <1>5, <1>6, LateKeeps DEF Late

\* What has been read stays as it is.
LEMMA ReadOn ==
  ASSUME PageInv, RunInv, UNCHANGED <<engine, doc, pending, frame, blocked, spent, count, req>>,
         UNCHANGED <<solve, verify, box, result, ready, replaced, refused, seen>>, Quiet,
         draft' \in Drafts, draft'.url = draft.url, draft'.status = draft.status,
         draft'.html = draft.html,
         <<at, at'>> \in {<<"wait", "url">>, <<"jar", "response">>, <<"token", "html">>,
                          <<"token", "clicking">>, <<"token", "reread">>,
                          <<"clicking", "html">>, <<"reread", "html">>},
         at' = "clicking" => req.tabs > 0
  PROVE  PageInv' /\ RunInv'
<1>1. at \in Late /\ at' \in Late
  BY DEF Late
<1>2. StillInv'
  BY DEF PageInv, StillInv, Late, Answered
<1>3. ready' \in BOOLEAN
  BY DEF RunInv, PipelineTypeOK
<1>4. AnswerInv'
  BY DEF PageInv, AnswerInv, Answered
<1> QED BY <1>1, <1>2, <1>3, <1>4, LateKeeps

LEMMA ReadsKeep ==
  ASSUME PageInv, RunInv, Wait \/ ReadURL \/ ReadJar \/ ReadResponse
  PROVE  PageInv' /\ RunInv'
<1>1. draft \in Drafts /\ ready \in BOOLEAN
  BY DEF RunInv, PipelineTypeOK
<1>2. ASSUME at \in {"wait", "url", "jar"}, Fails
      PROVE  PageInv' /\ RunInv'
  BY <1>2, FailsKeeps, QuietElsewhere
<1>3. CASE Wait
  <2>1. CASE ~Fails
    BY <1>1, <1>3, <2>1, ReadOn, QuietElsewhere
    DEF Wait, At, GoTo, Keep, Noted, history, pageVars, solverVars
  <2> QED BY <1>2, <1>3, <2>1 DEF Wait, At
<1>4. CASE ReadJar
  <2>1. CASE ~Fails
    BY <1>1, <1>4, <2>1, ReadOn, QuietElsewhere
    DEF ReadJar, Must, At, GoTo, Keep, Noted, history, pageVars, solverVars
  <2> QED BY <1>2, <1>4, <2>1 DEF ReadJar, Must, At
<1>5. CASE ReadURL
  <2>1. CASE ~Fails
    <3>1. /\ at = "url" /\ at' = "jar" /\ draft' = [draft EXCEPT !.url = URLOf(doc.kind)]
          /\ UNCHANGED <<engine, doc, pending, frame, blocked, spent, count, req>>
          /\ UNCHANGED <<solve, verify, box, result, ready, replaced, refused, seen>> /\ Quiet
      BY <1>5, <2>1, QuietElsewhere
      DEF ReadURL, Must, At, GoTo, Keep, Noted, history, pageVars, solverVars
    <3>2. doc.kind \in Kinds /\ URLOf(doc.kind) \in URLs
      BY DocumentFields, URLIsURL DEF PageInv, PageTypeOK
    <3>3. /\ draft' \in Drafts /\ draft'.url = URLOf(doc.kind)
          /\ draft'.status = draft.status /\ draft'.html = draft.html
      BY <1>1, <3>1, <3>2 DEF Drafts
    <3>4. StillInv'
      BY <3>1, <3>2, <3>3 DEF PageInv, StillInv, Late, Answered
    <3>5. doc.of = count
      BY <3>1 DEF PageInv, DocumentsOwned, Underway
    <3>6. AnswerInv'
      BY <3>1, <3>2, <3>3, <3>5 DEF PageInv, AnswerInv, Answered
    <3> QED BY <1>1, <3>1, <3>3, <3>4, <3>6, LateKeeps DEF Late
  <2> QED BY <1>2, <1>5, <2>1 DEF ReadURL, Must, At
<1>6. CASE ReadResponse
  <2>1. /\ at = "response" /\ at' = "token" /\ seen' \in {seen, NothingSeen}
        /\ draft' = draft \/ draft' = [draft EXCEPT !.status = seen[draft.url]]
        /\ UNCHANGED <<engine, doc, pending, frame, blocked, spent, count, req>>
        /\ UNCHANGED <<solve, verify, box, result, ready, replaced, refused>> /\ Quiet
    BY <1>6, QuietElsewhere
    DEF ReadResponse, ResponseOf, At, GoTo, Keep, Noted, history, solverVars
  <2>2. draft.url \in URLs /\ draft.status = NoResult
    BY <2>1 DEF PageInv, AnswerInv, Answered
  <2>3. seen[draft.url] \in Responses \cup {NoResult}
    BY <2>2 DEF PageInv, PageTypeOK
  <2>4. /\ draft' \in Drafts /\ draft'.url = draft.url /\ draft'.html = draft.html
        /\ draft'.status \in {NoResult, seen[draft.url]}
    BY <1>1, <2>1, <2>2, <2>3 DEF Drafts
  <2>5. ~replaced => draft.url = URLOf(doc.kind)
    BY <2>1 DEF PageInv, StillInv
  <2>6. ~replaced /\ pending = NoDoc =>
          draft'.status \in {NoResult, [of |-> count, kind |-> doc.kind]}
    <3>1. doc.kind # "cleared" \/ pending # NoDoc
      BY DEF PageInv, PagesInv
    <3>2. doc.of = count
      BY <2>1 DEF PageInv, DocumentsOwned, Underway
    <3>3. doc.kind # "cleared" =>
            seen[URLOf(doc.kind)] \in {NoResult, [of |-> count, kind |-> doc.kind]}
      BY <3>2 DEF PageInv, SeenInv
    <3> QED BY <2>4, <2>5, <3>1, <3>3
  <2>7. StillInv'
    BY <2>1, <2>4, <2>5, <2>6 DEF PageInv, StillInv, Late, Answered
  <2>8. NothingSeen[URLOf(doc.kind)] = NoResult
    BY DocumentFields, URLIsURL, NothingIsSeen DEF PageInv, PageTypeOK
  <2>9. AnswerInv'
    BY <2>1, <2>4, <2>8 DEF PageInv, AnswerInv, Answered
  <2> QED BY <1>1, <2>1, <2>4, <2>7, <2>9, LateKeeps DEF Late
<1> QED BY <1>3, <1>4, <1>5, <1>6

\* The token is looked for, and the page clicked on for it.
LEMMA ApplyOnChromiumKeeps ==
  ASSUME PageInv, RunInv, ApplyOnChromium \/ TokenFails
  PROVE  PageInv' /\ RunInv'
<1>1. CASE TokenFails
  BY <1>1, FailsKeeps DEF TokenFails, At
<1>2. CASE ApplyOnChromium
  <2>1. /\ engine # "geckodriver" /\ Quiet /\ UNCHANGED pageVars /\ UNCHANGED solve
        /\ UNCHANGED <<engine, doc, pending, frame, blocked, seen, spent>>
        /\ UNCHANGED <<count, req, result, ready, replaced, refused>>
        /\ draft \in Drafts /\ at \in {"token", "clicking"}
    BY <1>2 DEF ApplyOnChromium, pageVars, At, RunInv, PipelineTypeOK, Keep, Noted, history
  <2>2. CASE At("token") /\ SkipToken
    BY <2>1, <2>2, ReadOn DEF At, GoTo, SkipToken
  <2>3. CASE /\ At("token") /\ GoTo("clicking") /\ req.tabs > 0
             /\ UNCHANGED <<draft, verify, box>>
    BY <2>1, <2>3, ReadOn DEF At, GoTo
  <2>4. CASE At("clicking") /\ TakeToken
    <3>1. draft' \in Drafts /\ draft'.url = draft.url /\ draft'.status = draft.status
          /\ draft'.html = draft.html
      BY <2>1, <2>4 DEF TakeToken, Drafts
    <3> QED BY <2>1, <2>4, <3>1, ReadOn DEF At, GoTo, TakeToken
  <2>5. CASE At("clicking") /\ StartVerify(req.tabs) /\ UNCHANGED <<at, box, draft>>
    <3>1. UNCHANGED <<at, box, draft>> /\ at = "clicking"
      BY <2>5 DEF At
    <3>2. PageInv'
      BY <2>1, <3>1, StayKeeps DEF Reading
    <3>3. req.tabs \in Nat \ {0}
      BY <3>1, PipelineAssumption DEF RunInv, PipelineTypeOK, PageInv, DocumentsOwned
    <3>4. VerifyTypeOK' /\ verify'.at = "collect"
      BY <2>1, <2>5, <3>3, Started
    <3>5. SolverTypeOK'
      BY <2>1, <3>1, <3>4 DEF RunInv, SolverTypeOK, VerifyTypeOK, VerifyStates, BoxStates
    <3>6. PipelineTypeOK' /\ FrameInv'
      BY <2>1, <3>1 DEF RunInv, PipelineTypeOK, FrameInv
    <3>7. LoopsInv'
      BY <2>1, <3>1, <3>4 DEF RunInv, LoopsInv, Quiet
    <3>8. ResultIsOfRequest'
      BY <2>1 DEF RunInv, ResultIsOfRequest
    <3> QED BY <3>2, <3>5, <3>6, <3>7, <3>8 DEF RunInv
  <2> QED BY <1>2, <2>2, <2>3, <2>4, <2>5 DEF ApplyOnChromium
<1> QED BY <1>1, <1>2

LEMMA ApplyOnFirefoxKeeps ==
  ASSUME PageInv, RunInv, ApplyOnFirefox
  PROVE  PageInv' /\ RunInv'
<1>1. /\ engine = "geckodriver" /\ Quiet /\ UNCHANGED pageVars /\ UNCHANGED solve
      /\ UNCHANGED <<ready, replaced, refused>>
      /\ UNCHANGED <<engine, doc, pending, frame, blocked, seen, spent, count, req, result>>
      /\ draft \in Drafts /\ at \in {"token", "reread"}
  BY DEF ApplyOnFirefox, pageVars, At, RunInv, PipelineTypeOK, Keep, Noted, history
<1>2. CASE SkipToken
  BY <1>1, <1>2, ReadOn DEF GoTo, SkipToken
<1>3. CASE TakeToken
  <2>1. draft' \in Drafts /\ draft'.url = draft.url /\ draft'.status = draft.status
        /\ draft'.html = draft.html
    BY <1>1, <1>3 DEF TakeToken, Drafts
  <2> QED BY <1>1, <1>3, <2>1, ReadOn DEF GoTo, TakeToken
<1>4. CASE At("token") /\ StartBox /\ GoTo("reread") /\ UNCHANGED <<draft, verify>>
  <2>1. /\ at = "token" /\ at' = "reread" /\ UNCHANGED <<draft, verify>>
        /\ box'.at = "find" /\ box' \in BoxStates
    BY <1>4 DEF At, GoTo, StartBox, BoxStates
  <2>2. PageParts'
    BY <1>1, <2>1, GoesOnKeeps DEF PageInv, PageParts, Underway, Later, Places
  <2>3. StillInv'
    BY <1>1, <2>1 DEF PageInv, StillInv, Late, Answered
  <2>4. VerifyTypeOK'
    BY <1>1, <2>1, SolverTypes, VerifyStays DEF RunInv
  <2>5. SolverTypeOK'
    BY <1>1, <2>1, <2>4 DEF RunInv, SolverTypeOK, VerifyTypeOK, VerifyStates, BoxStates
  <2>6. PipelineTypeOK'
    BY <1>1, <2>1 DEF RunInv, PipelineTypeOK, Places
  <2>7. LoopsInv' /\ FrameInv'
    BY <1>1, <2>1 DEF RunInv, LoopsInv, FrameInv, Quiet
  <2>9. AnswerInv' /\ ResultIsOfRequest'
    BY <1>1, <2>1 DEF PageInv, AnswerInv, Answered, RunInv, ResultIsOfRequest
  <2> QED BY <2>2, <2>3, <2>5, <2>6, <2>7, <2>9 DEF PageParts, PageInv, RunInv
<1> QED BY <1>2, <1>3, <1>4 DEF ApplyOnFirefox

LEMMA ReadHTMLKeeps ==
  ASSUME PageInv, RunInv, ReadHTML
  PROVE  PageInv' /\ RunInv'
<1>1. /\ at = "html" /\ Quiet /\ solve.at = "idle" /\ draft \in Drafts /\ ~At("idle")
      /\ UNCHANGED <<count, req, pageVars, solverVars>>
      /\ spent \in BOOLEAN
  BY QuietElsewhere DEF ReadHTML, At, RunInv, PipelineTypeOK, PageInv, PageTypeOK
<1>2. PICK r : r \in {draft, NoResult, [draft EXCEPT !.html = [doc |-> doc, frame |-> frame]]}
               /\ Returns(r)
  BY DEF ReadHTML
<1>3. [draft EXCEPT !.html = [doc |-> doc, frame |-> frame]] \in Drafts
  BY <1>1 DEF Drafts, PageInv, PageTypeOK
<1>4. doc.of = count /\ draft.html = NoResult /\ (draft.status # NoResult => draft.status.of = count)
  BY <1>1 DEF PageInv, DocumentsOwned, Underway, AnswerInv
<1>5. r # NoResult => /\ r.status # NoResult => r.status.of = count
                      /\ r.html # NoResult => r.html.doc.of = count
  BY <1>1, <1>2, <1>4 DEF Drafts
<1> QED BY <1>1, <1>2, <1>3, <1>5, ReturnKeeps DEF pageVars, solverVars

LEMMA ExpireKeeps ==
  ASSUME PageInv, RunInv, Expire
  PROVE  PageInv' /\ RunInv'
<1>1. /\ spent' = TRUE /\ UNCHANGED <<engine, doc, pending, frame, blocked, seen>>
      /\ UNCHANGED <<solve, verify, box, at, count, req, draft, result, ready, replaced, refused>>
  BY DEF Expire, solverVars, pipelineVars, history
<1>2. PageTypeOK' /\ DocumentsOwned' /\ MediaInv'
  BY <1>1 DEF PageInv, PageTypeOK, DocumentsOwned, MediaInv, Underway, Ours
<1>3. PagesInv' /\ SeenInv' /\ StillInv'
  BY <1>1 DEF PageInv, PagesInv, SeenInv, StillInv, Underway, Late, Answered
<1>4. VerifyTypeOK'
  BY <1>1, SolverTypes, VerifyStays DEF RunInv
<1>5. SolverTypeOK' /\ PipelineTypeOK'
  BY <1>1, <1>4 DEF RunInv, SolverTypeOK, PipelineTypeOK, VerifyTypeOK, VerifyStates, BoxStates
<1>6. LoopsInv' /\ FrameInv'
  BY <1>1 DEF RunInv, LoopsInv, FrameInv, Quiet
<1>20. ResultIsOfRequest'
  BY <1>1 DEF RunInv, ResultIsOfRequest
<1>21. AnswerInv'
  BY <1>1 DEF PageInv, AnswerInv, Answered
<1> QED BY <1>2, <1>3, <1>5, <1>6, <1>20, <1>21 DEF PageInv, RunInv

LEMMA StutterKeeps ==
  ASSUME PageInv, RunInv, UNCHANGED vars
  PROVE  PageInv' /\ RunInv'
<1>1. /\ UNCHANGED <<engine, doc, pending, frame, blocked, seen, spent>>
      /\ UNCHANGED <<solve, verify, box, at, count, req, draft, result, ready, replaced, refused>>
  BY DEF vars, pageVars, solverVars, pipelineVars, history
<1>2. PageInv'
  BY <1>1, StayKeeps DEF pageVars, Reading
<1>4. VerifyTypeOK'
  BY <1>1, SolverTypes, VerifyStays DEF RunInv
<1>5. SolverTypeOK' /\ PipelineTypeOK'
  BY <1>1, <1>4 DEF RunInv, SolverTypeOK, PipelineTypeOK, VerifyTypeOK, VerifyStates, BoxStates
<1>6. LoopsInv' /\ FrameInv'
  BY <1>1 DEF RunInv, LoopsInv, FrameInv, Quiet, Underway
<1>20. ResultIsOfRequest'
  BY <1>1 DEF RunInv, ResultIsOfRequest
<1> QED BY <1>2, <1>5, <1>6, <1>20 DEF RunInv

-----------------------------------------------------------------------------

LEMMA FirstState == Init => PageInv /\ RunInv
<1> SUFFICES ASSUME Init PROVE PageInv /\ RunInv
  OBVIOUS
<1>1. /\ engine \in Engines /\ doc = [of |-> 0, kind |-> "blank", loaded |-> TRUE, token |-> "absent"]
      /\ pending = NoDoc /\ frame = "top" /\ blocked = FALSE /\ seen = NothingSeen /\ spent = FALSE
      /\ solve = [at |-> "idle", n |-> 0] /\ verify = Resting /\ box = [at |-> "idle", clicked |-> FALSE]
      /\ at = "idle" /\ count = 0 /\ draft = NoDraft /\ result = NoResult
      /\ ready = FALSE /\ replaced = FALSE /\ refused = FALSE
  BY DEF Init, PageInit, SolverInit
<1>2. doc \in Documents
  BY <1>1, PageAssumption DEF Documents, Kinds
<1>3. PageTypeOK
  BY <1>1, <1>2, NothingIsSeen DEF PageTypeOK
<1>4. SeenInv
  BY <1>1, NothingIsSeen, URLIsURL DEF SeenInv, Kinds
<1>5. DocumentsOwned /\ MediaInv /\ PagesInv /\ StillInv
  BY <1>1 DEF DocumentsOwned, MediaInv, PagesInv, StillInv, Underway, Ours, Answered
<1>6. VerifyTypeOK /\ verify.at = "idle"
  <2>1. 1 <= Len(Steps)
    BY StepsAre
  <2>2. /\ verify \in VerifyStates /\ verify.at = "idle" /\ verify.step = 1
        /\ verify.todo = {}
    BY <1>1, RestingIs
  <2> QED BY <2>1, <2>2 DEF VerifyTypeOK
<1>7. solve \in SolveStates /\ box \in BoxStates
  BY <1>1, SolverAssumption DEF SolveStates, BoxStates, PassiveBailout
<1>8. SolverTypeOK
  BY <1>6, <1>7 DEF SolverTypeOK, SolveStates, BoxStates, VerifyTypeOK, VerifyStates
<1>9. PipelineTypeOK
  <2>1. 0 \in 0..MaxRequests
    BY PageAssumption
  <2>2. ready \in BOOLEAN /\ replaced \in BOOLEAN /\ refused \in BOOLEAN
    BY <1>1
  <2> QED BY <1>1, <2>1, <2>2, NoDraftIsDraft DEF PipelineTypeOK, Places
<1>10. LoopsInv /\ FrameInv
  BY <1>1, <1>6 DEF LoopsInv, FrameInv, Quiet, Underway
<1>20. ResultIsOfRequest
  BY <1>1 DEF ResultIsOfRequest
<1>21. AnswerInv
  BY <1>1, NothingIsSeen, NoDraftIsDraft, URLIsURL DEF AnswerInv, Kinds, Answered
<1> QED BY <1>3, <1>4, <1>5, <1>8, <1>9, <1>10, <1>20, <1>21 DEF PageInv, RunInv

LEMMA EveryStepKeeps ==
  ASSUME PageInv, RunInv, [Next]_vars
  PROVE  PageInv' /\ RunInv'
<1>1. CASE Begin
  BY <1>1, BeginKeeps
<1>2. CASE Program
  BY <1>2, SetMediaBlockedKeeps, NavigateKeeps, PassingKeeps, AwaitKeeps, ReadsKeep,
     ApplyOnChromiumKeeps, ApplyOnFirefoxKeeps, ReadHTMLKeeps, InSolveKeeps,
     InVerifyKeeps, InBoxKeeps
  DEF Program
<1>3. CASE Expire
  BY <1>3, ExpireKeeps
<1>4. CASE PagesMove
  BY <1>4, PagesMoveKeeps
<1>5. CASE UNCHANGED vars
  BY <1>5, StutterKeeps
<1> QED BY <1>1, <1>2, <1>3, <1>4, <1>5 DEF Next

\* Every state the pipeline reaches, whatever the pages and the deadline do and
\* whichever exchange fails, is one of PipelineInv: its loops run where and as
\* far as they should, only Firefox is ever left inside a frame, and what is
\* remembered of responses is of the page (resolve.go, solveChallenge,
\* clickVerify and clickTurnstileCheckbox of the backends).
THEOREM PipelineInvariant == Spec => []PipelineInv
<1>1. Init => PageInv /\ RunInv
  BY FirstState
<1>2. PageInv /\ RunInv /\ [Next]_vars => PageInv' /\ RunInv'
  BY EveryStepKeeps
<1>3. PageInv /\ RunInv => PipelineInv
  BY InvariantParts
<1> QED BY <1>1, <1>2, <1>3, PTL DEF Spec

\* Media are blocked as the request whose page is shown asks, unless the browser
\* refused that setting: nothing but a refusal, no request that ran out of time
\* and no navigation it left behind, shows a page under the block list of an
\* earlier request (resolve.go, SetMediaBlocked of the backends).
THEOREM MediaFollowsRequest == Spec => []MediaBlockFollowsRequest
<1>1. PipelineInv => MediaBlockFollowsRequest
  BY DEF PipelineInv
<1> QED BY <1>1, PipelineInvariant, PTL

\* Even when pages change under its hands, no answer is made of the document of
\* an earlier request or of a response to it (resolve.go, ResolvePage).
THEOREM AnswersAreOwn == Spec => []ResultIsOfRequest
<1>1. PipelineInv => ResultIsOfRequest
  BY DEF PipelineInv
<1> QED BY <1>1, PipelineInvariant, PTL

\* The page that a request comes to read is always one of its own; and what it
\* reads is of one document, parsed if the wait has seen that, unless another
\* page takes its place after the wait, which the wait does not exclude
\* (resolve.go, awaitDocumentReady and what follows it).
THEOREM SnapshotsAreWhole == Spec => []SnapshotIsWhole
<1>1. PipelineInv => SnapshotIsWhole
  <2> SUFFICES ASSUME PipelineInv, at = "html"
               PROVE  /\ doc.of = count
                      /\ ready /\ ~replaced => doc.loaded
                      /\ ~replaced => draft.url = URLOf(doc.kind)
                      /\ ~replaced /\ pending = NoDoc /\ draft.status # NoResult =>
                           draft.status = [of |-> count, kind |-> doc.kind]
    BY DEF SnapshotIsWhole, At
  <2>1. doc.of = count
    BY DEF PipelineInv, DocumentsOwned, Underway
  <2>2. /\ ready /\ ~replaced => doc.loaded
        /\ ~replaced => draft.url = URLOf(doc.kind)
        /\ ~replaced /\ pending = NoDoc =>
             draft.status \in {NoResult, [of |-> count, kind |-> doc.kind]}
    BY DEF PipelineInv, StillInv, Answered
  <2> QED BY <2>1, <2>2
<1> QED BY <1>1, PipelineInvariant, PTL

-----------------------------------------------------------------------------
(* Choices among the controls of a page.                                   *)

\* Every set of numbers that is not empty has a least one.
LEMMA LeastNumber ==
  ASSUME NEW T \in SUBSET Nat, T # {}
  PROVE  \E x \in T : \A y \in T : x <= y
<1> DEFINE R == OpToRel(<, Nat)
<1>1. IsWellFoundedOn(R, Nat)
  BY NatLessThanWellFounded
<1>2. \A x, y \in Nat : x < y => <<x, y>> \in R
  BY DEF OpToRel
<1> HIDE DEF R
<1>3. PICK x \in T : \A y \in T : ~ (<<y, x>> \in R)
  BY <1>1, WFMin
<1>4. \A y \in T : ~(y < x)
  BY <1>2, <1>3
<1> QED BY <1>4

LEMMA FirstIsThere ==
  ASSUME NEW T \in SUBSET Nat, T # {}
  PROVE  First(T) \in T
  BY LeastNumber DEF First

\* How many of a set of numbers there are up to some number grows by one from
\* each of them to the next.
Count(T, i) == Cardinality({j \in T : j <= i})

LEMMA CountGrows ==
  ASSUME NEW n \in Nat, NEW T \in SUBSET (1..n)
  PROVE  /\ \A i \in 0..n : Count(T, i) \in Nat
         /\ Count(T, 0) = 0 /\ Count(T, n) = Cardinality(T)
         /\ \A i \in 1..n : Count(T, i) = Count(T, i - 1) + (IF i \in T THEN 1 ELSE 0)
         /\ \A i \in 0..n, j \in T : i < j => Count(T, i) < Count(T, j)
<1> DEFINE Upto(i) == {j \in T : j <= i}
<1>0. IsFiniteSet(T) /\ \A j \in T : j \in Int /\ 1 <= j /\ j <= n
  <2>1. IsFiniteSet(1..n)
    BY FS_Interval
  <2>2. IsFiniteSet(T)
    BY <2>1, FS_Subset
  <2>3. \A j \in T : j \in 1..n
    OBVIOUS
  <2> QED BY <2>2, <2>3
<1>1. ASSUME NEW i \in 0..n
      PROVE  IsFiniteSet(Upto(i)) /\ Cardinality(Upto(i)) \in Nat
  <2>1. Upto(i) \in SUBSET T
    OBVIOUS
  <2> HIDE DEF Upto
  <2> QED BY <1>0, <2>1, FS_Subset, FS_CardinalityType
<1>2. Upto(0) = {} /\ Upto(n) = T
  <2>1. \A j \in T : ~(j <= 0) /\ j <= n
    BY <1>0
  <2> QED BY <2>1
<1>3. ASSUME NEW i \in 1..n
      PROVE  Cardinality(Upto(i)) = Cardinality(Upto(i - 1)) + (IF i \in T THEN 1 ELSE 0)
  <2>0. i - 1 \in 0..n /\ i \notin Upto(i - 1)
    OBVIOUS
  <2>1. IsFiniteSet(Upto(i - 1)) /\ Cardinality(Upto(i - 1)) \in Nat
    BY <1>1, <2>0
  <2>2. CASE i \in T
    <3>1. Upto(i) = Upto(i - 1) \cup {i}
      <4>1. \A j \in T : j <= i <=> (j <= i - 1 \/ j = i)
        BY <1>0
      <4> QED BY <2>2, <4>1
    <3> HIDE DEF Upto
    <3> QED BY <2>0, <2>1, <2>2, <3>1, FS_AddElement
  <2>3. CASE i \notin T
    <3>1. Upto(i) = Upto(i - 1)
      <4>1. \A j \in T : j <= i <=> j <= i - 1
        BY <1>0, <2>3
      <4> QED BY <4>1
    <3> HIDE DEF Upto
    <3> QED BY <2>1, <2>3, <3>1
  <2> QED BY <2>2, <2>3
<1>4. ASSUME NEW i \in 0..n, NEW j \in T, i < j
      PROVE  Cardinality(Upto(i)) < Cardinality(Upto(j))
  <2>1. Upto(i) \subseteq Upto(j) /\ j \in Upto(j) /\ j \notin Upto(i) /\ j \in 0..n
    <3>1. \A k \in T : k <= i => k <= j
      BY <1>0, <1>4
    <3>2. j <= j /\ ~(j <= i) /\ j \in 0..n
      BY <1>0, <1>4
    <3> QED BY <3>1, <3>2
  <2>2. IsFiniteSet(Upto(j)) /\ Cardinality(Upto(i)) \in Nat /\ Cardinality(Upto(j)) \in Nat
    BY <1>1, <2>1
  <2> HIDE DEF Upto
  <2>3. Cardinality(Upto(i)) <= Cardinality(Upto(j)) /\ Cardinality(Upto(i)) # Cardinality(Upto(j))
    BY <2>1, <2>2, FS_Subset
  <2> QED BY <2>2, <2>3
<1> HIDE DEF Upto
<1>5. \A i : Count(T, i) = Cardinality(Upto(i))
  BY DEF Count, Upto
<1> QED BY <1>1, <1>2, <1>3, <1>4, <1>5, FS_EmptySet

\* The tabbable step of the ladder clicks on one control, whichever controls a page
\* has and however often it is asked to tab (clickTabbable of webdriver,
\* clickVerify of chromedp): the tabs-th that can have the focus, or the last.
THEOREM TabbableTargetIsOne ==
  ASSUME NEW found \in Seq(Targets), NEW tabs \in Nat \ {0}, TabbableTargets(found) # {}
  PROVE  \E i \in TabbableTargets(found) :
           /\ TabbableTarget(found, tabs) = {i}
           /\ LET before == Cardinality({j \in TabbableTargets(found) : j < i})
              IN  \/ before = tabs - 1
                  \/ before < tabs - 1 /\ \A j \in TabbableTargets(found) : j <= i
<1> DEFINE T == TabbableTargets(found)
           n == Len(found)
           index == IF tabs > Cardinality(T) THEN Cardinality(T) ELSE tabs
           Reach == {i \in 0..n : Count(T, i) >= index}
<1>1. n \in Nat /\ T \in SUBSET (1..n)
  BY DEF TabbableTargets
<1>2. IsFiniteSet(T) /\ Cardinality(T) \in Nat
  <2>1. IsFiniteSet(1..n)
    BY <1>1, FS_Interval
  <2> HIDE DEF T, n
  <2> QED BY <1>1, <2>1, FS_Subset, FS_CardinalityType
<1>3. Cardinality(T) > 0
  BY <1>2, FS_EmptySet
<1> HIDE DEF T, n
<1>4. index \in Nat /\ 1 <= index /\ index <= Cardinality(T)
  BY <1>2, <1>3
<1>5. /\ \A i \in 0..n : Count(T, i) \in Nat
      /\ Count(T, 0) = 0 /\ Count(T, n) = Cardinality(T)
      /\ \A i \in 1..n : Count(T, i) = Count(T, i - 1) + (IF i \in T THEN 1 ELSE 0)
      /\ \A i \in 0..n, j \in T : i < j => Count(T, i) < Count(T, j)
  BY <1>1, CountGrows
<1>6. PICK m \in Reach : \A i \in Reach : m <= i
  <2>1. Reach \in SUBSET Nat /\ n \in Reach
    BY <1>1, <1>2, <1>4, <1>5
  <2> QED BY <2>1, LeastNumber
<1> HIDE DEF index
<1>7. m \in 1..n /\ m - 1 \in 0..n /\ Count(T, m - 1) < index /\ Count(T, m) >= index
  <2>1. m \in 0..n /\ Count(T, m) >= index /\ m # 0
    BY <1>4, <1>5, <1>6
  <2>2. m - 1 \in 0..n /\ m - 1 \notin Reach
    BY <1>1, <1>6, <2>1
  <2> QED BY <1>1, <1>4, <1>5, <2>1, <2>2
<1>8. m \in T /\ Count(T, m) = index /\ Count(T, m - 1) = index - 1
  <2>1. Count(T, m) = Count(T, m - 1) + (IF m \in T THEN 1 ELSE 0)
    BY <1>5, <1>7
  <2>2. Count(T, m) \in Nat /\ Count(T, m - 1) \in Nat
    BY <1>1, <1>5, <1>7
  <2> QED BY <1>4, <1>7, <2>1, <2>2
<1>9. ASSUME NEW i \in T, Count(T, i) = index
      PROVE  i = m
  <2>1. i \in 0..n /\ m \in 0..n /\ i \in Int /\ m \in Int
    BY <1>1, <1>7
  <2>2. ~(i < m) /\ ~(m < i)
    BY <1>4, <1>5, <1>8, <1>9, <2>1
  <2> QED BY <2>1, <2>2
<1>10. TabbableTarget(found, tabs) = {i \in T : Count(T, i) = index}
  BY DEF TabbableTarget, T, Count, index
<1>11. {j \in T : j < m} = {j \in T : j <= m - 1}
  <2>1. \A j \in T : j < m <=> j <= m - 1
    BY <1>1, <1>7
  <2> QED BY <2>1
<1>12. \/ index = tabs
       \/ index < tabs /\ \A j \in T : j <= m
  <2>1. CASE tabs > Cardinality(T)
    <3>1. index = Cardinality(T) /\ index < tabs
      BY <1>2, <2>1 DEF index
    <3>2. \A j \in T : ~(m < j)
      <4> SUFFICES ASSUME NEW j \in T, m < j PROVE FALSE
        OBVIOUS
      <4>1. Count(T, m) < Count(T, j) /\ j \in 0..n /\ n \in 0..n
        BY <1>1, <1>5, <1>7
      <4>2. Count(T, j) <= Cardinality(T)
        <5>1. {k \in T : k <= j} \subseteq T
          OBVIOUS
        <5> QED BY <1>2, <5>1, FS_Subset DEF Count
      <4> QED BY <1>2, <1>5, <1>8, <3>1, <4>1, <4>2
    <3> QED BY <1>1, <1>8, <3>1, <3>2
  <2>2. CASE ~(tabs > Cardinality(T))
    <3>1. index = tabs
      BY <2>2 DEF index
    <3> QED BY <3>1
  <2> QED BY <2>1, <2>2
<1>13. TabbableTarget(found, tabs) = {m}
  BY <1>8, <1>9, <1>10
<1>14. Cardinality({j \in T : j < m}) = index - 1
  <2>1. Cardinality({j \in T : j < m}) = Count(T, m - 1)
    BY <1>11 DEF Count
  <2> QED BY <1>8, <2>1
<1>15. \/ Cardinality({j \in T : j < m}) = tabs - 1
       \/ Cardinality({j \in T : j < m}) < tabs - 1 /\ \A j \in T : j <= m
  BY <1>4, <1>12, <1>14
<1> QED BY <1>8, <1>13, <1>15 DEF T
-----------------------------------------------------------------------------
(* An ended request winds down.                                            *)

LEMMA TodoIsFinite ==
  ASSUME VerifyTypeOK
  PROVE  IsFiniteSet(verify.todo) /\ Cardinality(verify.todo) \in Nat
<1>1. verify.found \in Seq(Targets) /\ verify.todo \subseteq DOMAIN verify.found
  BY DEF VerifyTypeOK, VerifyStates
<1>2. DOMAIN verify.found = 1..Len(verify.found) /\ Len(verify.found) \in Nat
  BY <1>1
<1>3. IsFiniteSet(1..Len(verify.found))
  BY <1>2, FS_Interval
<1>4. IsFiniteSet(verify.todo)
  BY <1>1, <1>2, <1>3, FS_Subset
<1> QED BY <1>4, FS_CardinalityType

LEMMA LadderNumber ==
  ASSUME VerifyTypeOK
  PROVE  LadderLeft \in Nat
<1>1. Cardinality(verify.todo) \in Nat
  BY TodoIsFinite
<1>2. verify.step \in 1..4 /\ verify.point \in 1..3
  BY DEF VerifyTypeOK, VerifyStates
<1> QED BY <1>1, <1>2 DEF LadderLeft

LEMMA NextStepNearer ==
  ASSUME VerifyTypeOK, verify' = NextStep, UNCHANGED engine
  PROVE  LadderLeft' <= 5 - verify.step /\ LadderLeft' \in Nat
<1>1. Len(Steps) \in 3..4 /\ verify.step \in 1..4 /\ verify.step <= Len(Steps)
  BY StepsAre DEF VerifyTypeOK, VerifyStates
<1>2. CASE verify.step < Len(Steps)
  <2>1. verify' = [[Resting EXCEPT !.at = "collect", !.tabs = verify.tabs]
                   EXCEPT !.step = verify.step + 1]
    BY <1>2 DEF NextStep
  <2>2. verify'.at = "collect" /\ verify'.step = verify.step + 1
    BY <2>1, RestingIs DEF VerifyStates
  <2> QED BY <1>1, <2>2 DEF LadderLeft
<1>3. CASE ~(verify.step < Len(Steps))
  <2>1. verify'.at = "keys"
    BY <1>3, RestingIs DEF NextStep, VerifyStates
  <2> QED BY <1>1, <2>1 DEF LadderLeft
<1> QED BY <1>2, <1>3

LEMMA StepEndsNearer ==
  ASSUME VerifyTypeOK, NEW clicked \in BOOLEAN, verify' = StepEnds(clicked), UNCHANGED engine
  PROVE  LadderLeft' <= 6 - verify.step /\ LadderLeft' \in Nat
<1>1. verify.step \in 1..4
  BY DEF VerifyTypeOK, VerifyStates
<1>2. CASE clicked
  <2>1. verify'.at = "judge" /\ verify'.step = verify.step
    BY <1>2 DEF StepEnds, VerifyTypeOK, VerifyStates
  <2> QED BY <1>1, <2>1 DEF LadderLeft
<1>3. CASE ~clicked
  BY <1>1, <1>3, NextStepNearer DEF StepEnds
<1> QED BY <1>2, <1>3

LEMMA NextPointNearer ==
  ASSUME VerifyTypeOK, verify.at \in {"click", "probe"}, NEW clicked \in BOOLEAN,
         verify' = NextPoint(clicked), UNCHANGED engine
  PROVE  LadderLeft' < LadderLeft
<1> DEFINE moved == [verify EXCEPT !.at = "click", !.clicked = clicked]
           first == First(verify.todo)
           rest  == verify.todo \ {first}
<1>1. /\ moved \in VerifyStates /\ moved.todo = verify.todo /\ moved.at = "click"
      /\ moved.step = verify.step /\ moved.point = verify.point
  BY DEF VerifyTypeOK, VerifyStates
<1>2. /\ verify.step \in 1..4 /\ verify.point \in 1..3 /\ Cardinality(verify.todo) \in Nat
      /\ verify.todo \in SUBSET Nat /\ verify.todo # {} /\ IsFiniteSet(verify.todo)
  BY TodoIsFinite DEF VerifyTypeOK, VerifyStates
<1>3. LadderLeft = 6 - verify.step + 4 * Cardinality(verify.todo) + 4 - verify.point
  BY <1>2 DEF LadderLeft
<1>4. CASE verify.point < ClickPointsForTarget(Current)
  <2>1. verify' = [moved EXCEPT !.point = moved.point + 1]
    BY <1>4 DEF NextPoint
  <2> HIDE DEF moved
  <2>2. /\ verify'.at = "click" /\ verify'.step = verify.step
        /\ verify'.todo = verify.todo /\ verify'.point = verify.point + 1
    BY <1>1, <2>1 DEF VerifyStates
  <2>3. LadderLeft' = 6 - verify.step + 4 * Cardinality(verify.todo) + 4 - (verify.point + 1)
    BY <2>2 DEF LadderLeft
  <2> QED BY <1>2, <1>3, <2>3
<1>5. CASE ~(verify.point < ClickPointsForTarget(Current)) /\ verify.todo # {first}
  <2>1. verify' = [moved EXCEPT !.point = 1, !.todo = moved.todo \ {First(moved.todo)}]
    BY <1>5 DEF NextPoint
  <2> HIDE DEF moved
  <2> DEFINE back == [moved EXCEPT !.point = 1]
  <2>2. back \in VerifyStates /\ back.at = "click" /\ back.step = verify.step /\ back.point = 1
    BY <1>1 DEF VerifyStates
  <2>3. verify' = [back EXCEPT !.todo = rest]
    BY <1>1, <2>1
  <2> HIDE DEF back, rest
  <2>4. verify'.at = "click" /\ verify'.step = verify.step /\ verify'.point = 1 /\ verify'.todo = rest
    BY <2>2, <2>3 DEF VerifyStates
  <2>5. first \in verify.todo
    BY <1>2, FirstIsThere
  <2>6. Cardinality(rest) = Cardinality(verify.todo) - 1
    BY <1>2, <2>5, FS_RemoveElement DEF rest
  <2>7. LadderLeft' = 6 - verify.step + 4 * Cardinality(rest) + 4 - 1
    BY <2>4 DEF LadderLeft
  <2> QED BY <1>2, <1>3, <2>6, <2>7
<1>6. CASE ~(verify.point < ClickPointsForTarget(Current)) /\ verify.todo = {first}
  <2>1. LadderLeft' <= 6 - verify.step /\ LadderLeft' \in Nat
    BY <1>6, StepEndsNearer DEF NextPoint
  <2> HIDE DEF first
  <2> QED BY <1>2, <1>3, <2>1
<1> QED BY <1>4, <1>5, <1>6

\* Without an answer the ladder only goes down.
LEMMA LadderNearer ==
  ASSUME VerifyTypeOK, spent, UNCHANGED engine, ClickVerify
  PROVE  LadderLeft' < LadderLeft
<1>1. /\ verify.step \in 1..4 /\ verify.point \in 1..3 /\ Cardinality(verify.todo) \in Nat
      /\ verify.clicked \in BOOLEAN
  BY TodoIsFinite DEF VerifyTypeOK, VerifyStates
<1>2. CASE CollectTargets
  <2>1. ToClick(Steps[verify.step], <<>>) = {}
    <3>1. Steps[verify.step] \in {"iframe", "human", "buttons", "tabbable"}
      BY StepsAre DEF VerifyTypeOK, VerifyStates
    <3>2. <<>> \in Seq(Targets) /\ DOMAIN <<>> = {}
      OBVIOUS
    <3> QED BY <3>1, <3>2, ToClickFound
  <2>2. verify.at = "collect" /\ verify' = NextStep
    BY <1>2, <2>1 DEF CollectTargets, ClickTargetsFound
  <2> QED BY <1>1, <2>2, NextStepNearer DEF LadderLeft
<1>3. CASE ClickAt
  BY <1>1, <1>3, NextPointNearer DEF ClickAt
<1>4. CASE ProbeAfterClick
  BY <1>4, NextPointNearer DEF ProbeAfterClick, Misses
<1>5. CASE JudgeStep
  BY <1>1, <1>5, NextStepNearer DEF JudgeStep, Misses, LadderLeft
<1>6. CASE KeySequence
  BY <1>6, RestingIs DEF KeySequence, LadderLeft
<1> QED BY <1>2, <1>3, <1>4, <1>5, <1>6 DEF ClickVerify

LEMMA LeftNumbers ==
  ASSUME RunInv
  PROVE  /\ LadderLeft \in Nat /\ SolveLeft \in 0..3 /\ BoxLeft \in 0..3
         /\ PlaceLeft[at] \in Nat
         /\ Left = PlaceLeft[at] + SolveLeft + BoxLeft + LadderLeft
         /\ Left \in Nat
<1>1. LadderLeft \in Nat
  BY SolverTypes, LadderNumber DEF RunInv
<1>2. SolveLeft \in 0..3 /\ BoxLeft \in 0..3
  BY DEF SolveLeft, BoxLeft
<1>3. PlaceLeft[at] \in Nat
  BY DEF PlaceLeft, RunInv, PipelineTypeOK, Places
<1> QED BY <1>1, <1>2, <1>3 DEF Left

LEMMA QuietIsNone ==
  ASSUME Quiet
  PROVE  LadderLeft = 0 /\ BoxLeft = 0
  BY DEF Quiet, LadderLeft, BoxLeft

\* A request that answers has nothing left to do.
LEMMA ReturnsNearer ==
  ASSUME RunInv, RunInv', at' = "idle", ~At("idle"), UNCHANGED <<verify, box>>, Quiet
  PROVE  Left' < Left
<1>1. LadderLeft = 0 /\ BoxLeft = 0 /\ LadderLeft' = 0 /\ BoxLeft' = 0
  BY DEF Quiet, LadderLeft, BoxLeft
<1>2. SolveLeft' = 0
  BY DEF RunInv, LoopsInv, SolveLeft
<1>3. PlaceLeft[at'] = 0 /\ PlaceLeft[at] > 0
  BY DEF PlaceLeft, RunInv, PipelineTypeOK, Places, At
<1>4. PlaceLeft[at] \in Nat /\ SolveLeft \in Nat
  BY LeftNumbers
<1> QED BY <1>1, <1>2, <1>3, <1>4 DEF Left

\* And so has one less that goes on to the next place.
LEMMA PlaceNearer ==
  ASSUME RunInv, at' \in Places, PlaceLeft[at'] < PlaceLeft[at],
         UNCHANGED <<solve, verify, box>>
  PROVE  Left' < Left
<1>1. LadderLeft \in Nat /\ SolveLeft \in Nat /\ BoxLeft \in Nat /\ PlaceLeft[at] \in Nat
  BY LeftNumbers
<1>2. PlaceLeft[at'] \in Nat
  BY DEF PlaceLeft, Places
<1>3. LadderLeft' = LadderLeft /\ SolveLeft' = SolveLeft /\ BoxLeft' = BoxLeft
  BY DEF LadderLeft, SolveLeft, BoxLeft
<1>4. Left' = PlaceLeft[at'] + SolveLeft + BoxLeft + LadderLeft
  BY <1>3 DEF Left
<1> QED BY <1>1, <1>2, <1>4 DEF Left

\* solveChallenge stops when nobody answers.
LEMMA SolverNearer ==
  ASSUME PageInv, RunInv, spent, Solver
  PROVE  SolveLeft' < SolveLeft /\ UNCHANGED <<verify, box>>
<1>1. solve \in SolveStates
  BY SolverTypes DEF RunInv, SolveStates
<1>2. ASSUME NEW onward \in {"gone", "weigh"}, Asked(onward) \/ Over
      PROVE  solve'.at = "failed"
  BY <1>1, <1>2, AskedIs, OverIs
<1>3. CASE Look
  BY <1>2, <1>3 DEF Look, SolveLeft
<1>4. CASE WaitGone
  <2>1. /\ solve.at = "gone" /\ UNCHANGED <<verify, box>>
        /\ Over \/ Asked("weigh")
    BY <1>4 DEF WaitGone, Sees
  <2>2. solve'.at = "failed"
    BY <1>2, <2>1
  <2> QED BY <2>1, <2>2 DEF SolveLeft
<1>5. CASE WeighTargets
  <2>1. RelevantChallengeTargets(<<>>) = {} /\ FallbackChallengeTargets(<<>>) = {}
    BY DEF RelevantChallengeTargets, FallbackChallengeTargets
  <2>2. /\ solve.at = "weigh" /\ UNCHANGED <<verify, box>>
        /\ solve' = [at |-> IF solve.n + 1 < PassiveBailout THEN "look" ELSE "failed",
                     n |-> solve.n + 1]
    BY <1>5, <2>1 DEF WeighTargets, ClickTargetsFound
  <2>3. solve'.at \in {"look", "failed"}
    BY <2>2
  <2> QED BY <2>2, <2>3 DEF SolveLeft
<1>6. CASE Tick
  <2>1. solve.at = "tick" /\ UNCHANGED <<verify, box>> /\ (Goes("failed") \/ Over)
    BY <1>6 DEF Tick, Sees
  <2>2. solve'.at = "failed"
    BY <1>1, <2>1, GoesIs, OverIs
  <2> QED BY <2>1, <2>2 DEF SolveLeft
<1> QED BY <1>3, <1>4, <1>5, <1>6 DEF Solver

LEMMA LoopNearer ==
  ASSUME PageInv, RunInv, RunInv', spent, InSolve \/ InVerify \/ InBox
  PROVE  Left' < Left
<1>1. /\ LadderLeft \in Nat /\ SolveLeft \in Nat /\ BoxLeft \in Nat /\ PlaceLeft[at] \in Nat
      /\ UNCHANGED at
  BY LeftNumbers DEF InSolve, InVerify, InBox, pipelineVars
<1>2. LadderLeft' \in Nat /\ SolveLeft' \in Nat /\ BoxLeft' \in Nat
  <2>1. /\ verify'.found \in Seq(Targets) /\ verify'.todo \subseteq DOMAIN verify'.found
        /\ verify'.step \in 1..4 /\ verify'.point \in 1..3
    BY DEF RunInv, SolverTypeOK
  <2>2. IsFiniteSet(1..Len(verify'.found)) /\ DOMAIN verify'.found = 1..Len(verify'.found)
    BY <2>1, FS_Interval
  <2>3. Cardinality(verify'.todo) \in Nat
    BY <2>1, <2>2, FS_Subset, FS_CardinalityType
  <2>4. LadderLeft' \in Nat
    BY <2>1, <2>3 DEF LadderLeft
  <2> QED BY <2>4 DEF SolveLeft, BoxLeft
<1>3. Left' = PlaceLeft[at] + SolveLeft' + BoxLeft' + LadderLeft'
  BY <1>1 DEF Left
<1>4. CASE InSolve
  <2>1. SolveLeft' < SolveLeft /\ UNCHANGED <<verify, box>>
    BY <1>4, SolverNearer DEF InSolve
  <2>2. LadderLeft' = LadderLeft /\ BoxLeft' = BoxLeft
    BY <2>1 DEF LadderLeft, BoxLeft
  <2> QED BY <1>1, <1>2, <1>3, <2>1, <2>2 DEF Left
<1>5. CASE InVerify
  <2>1. ClickVerify /\ UNCHANGED <<solve, box>>
    BY <1>5, ClickPages DEF InVerify
  <2>2. UNCHANGED engine
    BY <2>1 DEF ClickVerify, CollectTargets, ClickAt, ProbeAfterClick, JudgeStep, KeySequence,
                pageVars, Clicked, Pass, FillToken, Follow, Refresh
  <2>3. LadderLeft' < LadderLeft
    BY <2>1, <2>2, LadderNearer, SolverTypes DEF RunInv
  <2>4. SolveLeft' = SolveLeft /\ BoxLeft' = BoxLeft
    BY <2>1 DEF SolveLeft, BoxLeft
  <2> QED BY <1>1, <1>2, <1>3, <2>3, <2>4 DEF Left
<1>6. CASE InBox
  <2>1. ClickTurnstileCheckbox /\ UNCHANGED <<solve, verify>>
    BY <1>6 DEF InBox, ClickTurnstileCheckbox, FindFrame, ClickCheckbox, ConfirmCheckbox, LeaveFrame
  <2>2. box \in BoxStates
    BY SolverTypes DEF RunInv
  <2>3. \/ box.at = "find" /\ box'.at = "idle"
        \/ box.at \in {"inside", "confirm"} /\ box'.at = "leave"
        \/ box.at = "leave" /\ box'.at = "idle"
    <3>1. CASE FindFrame
      BY <2>2, <3>1 DEF FindFrame, BoxStates
    <3>2. CASE ClickCheckbox
      BY <2>2, <3>2 DEF ClickCheckbox, BoxStates
    <3>3. CASE ConfirmCheckbox
      BY <3>3 DEF ConfirmCheckbox
    <3>4. CASE LeaveFrame
      BY <2>2, <3>4 DEF LeaveFrame, BoxStates
    <3> QED BY <2>1, <3>1, <3>2, <3>3, <3>4 DEF ClickTurnstileCheckbox
  <2>4. BoxLeft' < BoxLeft
    BY <2>3 DEF BoxLeft
  <2>5. SolveLeft' = SolveLeft /\ LadderLeft' = LadderLeft
    BY <2>1 DEF SolveLeft, LadderLeft
  <2> QED BY <1>1, <1>2, <1>3, <2>4, <2>5 DEF Left
<1> QED BY <1>4, <1>5, <1>6

\* The places follow each other.
LEMMA WayNearer ==
  ASSUME RunInv, RunInv', spent,
         \/ SetMediaBlocked \/ AwaitDocumentReady \/ ReadResponse
         \/ Navigate("navigate", IF req.cookies THEN "cookies" ELSE "denied")
         \/ Navigate("again", "denied")
         \/ SetPageCookies \/ CheckDenied \/ DetectChallenge \/ Wait \/ ReadURL \/ ReadJar
         \/ ReadHTML
  PROVE  Left' < Left
<1>1. at \notin {"idle", "solve", "clicking", "reread"} /\ UNCHANGED <<solve, verify, box>>
  BY DEF SetMediaBlocked, AwaitDocumentReady, ReadResponse, Navigate, SetPageCookies,
         CheckDenied, DetectChallenge, Wait, ReadURL, ReadJar, ReadHTML, Must, Fails, At,
         Sees, Misses, solverVars
<1>2. Quiet
  BY <1>1, QuietElsewhere
<1>3. \/ at' = "idle"
      \/ at = "media" /\ at' = "navigate"
      \/ at = "ready" /\ at' \in {"wait", "url"}
      \/ at = "response" /\ at' = "token"
  <2>1. draft \in Drafts
    BY DEF RunInv, PipelineTypeOK
  <2>2. CASE SetMediaBlocked
    BY <2>2 DEF SetMediaBlocked, At, GoTo
  <2>3. CASE AwaitDocumentReady
    <3>1. at = "ready" /\ at' = AfterReady
      BY <2>3 DEF AwaitDocumentReady, At, GoTo
    <3>2. AfterReady \in {"wait", "url"}
      BY DEF AfterReady
    <3> QED BY <3>1, <3>2
  <2>4. CASE ReadResponse
    BY <2>4 DEF ReadResponse, At, GoTo
  <2>5. ASSUME NEW place, NEW next, Navigate(place, next)
        PROVE  at' = "idle"
    BY <2>5 DEF Navigate, Navigated, NavigateFails, Returns, GoTo
  <2>6. CASE \/ SetPageCookies \/ CheckDenied \/ DetectChallenge \/ Wait \/ ReadURL \/ ReadJar
    BY <2>6, <2>1 DEF SetPageCookies, CheckDenied, DetectChallenge, Wait, ReadURL, ReadJar,
                      Must, Fails, Returns, GoTo, Drafts
  <2>7. CASE ReadHTML
    <3>1. CASE req.onlyCookies
      BY <2>7, <3>1 DEF ReadHTML, Returns, GoTo
    <3>2. CASE ~req.onlyCookies
      BY <2>7, <3>2 DEF ReadHTML, Returns, GoTo
    <3> QED BY <3>1, <3>2
  <2> QED BY <2>2, <2>3, <2>4, <2>5, <2>6, <2>7
<1>4. CASE at' = "idle"
  BY <1>1, <1>2, <1>4, ReturnsNearer DEF At
<1>5. CASE at' # "idle"
  <2>1. PlaceLeft[at'] < PlaceLeft[at] /\ at' \in Places
    BY <1>3, <1>5 DEF PlaceLeft, Places
  <2> QED BY <1>1, <2>1, PlaceNearer
<1> QED BY <1>4, <1>5

LEMMA TokenNearer ==
  ASSUME RunInv, RunInv', spent, ApplyOnChromium \/ TokenFails \/ ApplyOnFirefox
  PROVE  Left' < Left
<1>1. Quiet /\ at \in {"token", "clicking", "reread"} /\ UNCHANGED solve
  BY DEF ApplyOnChromium, TokenFails, ApplyOnFirefox, Fails, solverVars, At
<1>2. \/ at' = "idle" /\ UNCHANGED <<verify, box>>
      \/ at' = "html" /\ UNCHANGED <<verify, box>>
      \/ at = "token" /\ at' = "reread" /\ box'.at = "find" /\ UNCHANGED verify
  BY DEF ApplyOnChromium, TokenFails, Fails, solverVars, ApplyOnFirefox, SkipToken, TakeToken, Returns, GoTo, At, StartBox
<1>3. CASE at' = "idle" /\ UNCHANGED <<verify, box>>
  BY <1>1, <1>3, ReturnsNearer DEF At
<1>4. CASE at' = "html" /\ UNCHANGED <<verify, box>>
  <2>1. PlaceLeft[at'] < PlaceLeft[at] /\ at' \in Places
    BY <1>1, <1>4 DEF PlaceLeft, Places
  <2> QED BY <1>1, <1>4, <2>1, PlaceNearer
<1>5. CASE at = "token" /\ at' = "reread" /\ box'.at = "find" /\ UNCHANGED verify
  <2>1. PlaceLeft[at] = 6 /\ PlaceLeft[at'] = 2 /\ BoxLeft' = 3 /\ BoxLeft = 0
    BY <1>1, <1>5 DEF PlaceLeft, BoxLeft, Quiet
  <2>2. SolveLeft' = SolveLeft /\ LadderLeft' = LadderLeft
    BY <1>1, <1>5 DEF SolveLeft, LadderLeft
  <2> QED BY <2>1, <2>2, LeftNumbers DEF Left
<1> QED BY <1>2, <1>3, <1>4, <1>5

LEMMA SolveEndsNearer ==
  ASSUME RunInv, RunInv', SolveEnds
  PROVE  Left' < Left
<1>1. /\ at = "solve" /\ at' \in {"idle", "ready"} /\ UNCHANGED <<verify, box>>
      /\ solve.at \in {"solved", "failed"} /\ solve'.at = "idle"
  BY DEF SolveEnds, At, GoTo, Returns
<1>2. SolveLeft = 1 /\ SolveLeft' = 0 /\ LadderLeft' = LadderLeft /\ BoxLeft' = BoxLeft
  BY <1>1 DEF SolveLeft, LadderLeft, BoxLeft
<1>3. PlaceLeft[at] = 12 /\ PlaceLeft[at'] \in {0, 11}
  BY <1>1 DEF PlaceLeft
<1> QED BY <1>2, <1>3, LeftNumbers DEF Left

\* Once the context of a request has ended, each step of the program brings its
\* answer nearer by a count that starts from a bound and cannot fall below zero,
\* whatever loop it is in and whatever its pages do (resolve.go, ResolvePage;
\* solveChallenge, clickVerify and clickTurnstileCheckbox of the backends).
THEOREM EndedRequestsWindDown == Spec => EndedWindsDown
<1>1. PipelineInv /\ PipelineInv' /\ [Next]_vars =>
        [spent /\ count' = count => IF Program THEN Left' < Left ELSE Left' <= Left]_vars
  <2> SUFFICES ASSUME PipelineInv, PipelineInv', Next, spent, count' = count
               PROVE  IF Program THEN Left' < Left ELSE Left' <= Left
    OBVIOUS
  <2>1. PageInv /\ RunInv /\ RunInv'
    BY InvariantParts DEF PipelineInv, RunInv
  <2>2. CASE Program
    BY <2>1, <2>2, WayNearer, TokenNearer, SolveEndsNearer, LoopNearer DEF Program
  <2>3. CASE ~Program
    <3>1. ~Begin /\ ~Expire
      BY <2>1 DEF Begin, Expire, RunInv, PipelineTypeOK
    <3>2. PagesMove
      BY <2>3, <3>1 DEF Next
    <3>3. UNCHANGED <<at, solve, verify, box>>
      BY <3>2 DEF PagesMove, solverVars
    <3>4. Left' = Left
      BY <3>3 DEF Left, LadderLeft, SolveLeft, BoxLeft
    <3> QED BY <2>1, <2>3, <3>4, LeftNumbers
  <2> QED BY <2>2, <2>3
<1> QED BY <1>1, PipelineInvariant, PTL DEF Spec, EndedWindsDown

===============================================================================
