---------------------------- MODULE ResolvePipeline ----------------------------
(***************************************************************************)
(* ResolvePage of server/browser/resolve.go: requests served one after the *)
(* other by one browser of any of the three backends, each under its own   *)
(* deadline, while the pages go their own way.                             *)
(***************************************************************************)
EXTENDS ChallengeSolver

CONSTANT Requests  \* the requests clients may make

ASSUME PipelineAssumption ==
  Requests \subseteq [post: BOOLEAN, media: BOOLEAN, cookies: BOOLEAN,
                      wait: BOOLEAN, tabs: Nat, onlyCookies: BOOLEAN]

VARIABLES
  at,      \* where ResolvePage is
  count,   \* the requests so far; the last is the current one
  req,     \* the current request; tabs is 0 when it asks for no token
  draft,   \* the result under construction
  result,  \* what the last request returned
  ready,   \* the page has said that it is ready
  \* What happened to the current request, which only the properties refer to:
  replaced,  \* a navigation has committed since the wait for the page
  refused    \* the browser has not taken its media setting

history == <<replaced, refused>>
pipelineVars == <<at, count, req, draft, result, ready, history>>
vars == <<pageVars, solverVars, pipelineVars>>

Places == {"idle", "media", "navigate", "cookies", "again", "denied", "detect",
           "solve", "ready", "wait", "url", "jar", "response", "token", "clicking",
           "reread", "html"}

NoDraft == [url |-> "none", status |-> NoResult, token |-> FALSE, html |-> NoResult]

Drafts == [url: {"none"} \cup {URLOf(k) : k \in Kinds},
           status: Responses \cup {NoResult}, token: BOOLEAN,
           html: [doc: Documents, frame: {"top", "widget", "lost"}] \cup {NoResult}]

PipelineTypeOK ==
  /\ at \in Places /\ count \in 0..MaxRequests
  /\ count > 0 => req \in Requests
  /\ at = "clicking" => req.tabs > 0
  /\ draft \in Drafts /\ result \in Drafts \cup {NoResult}
  /\ ready \in BOOLEAN /\ replaced \in BOOLEAN /\ refused \in BOOLEAN

Init ==
  /\ PageInit /\ SolverInit
  /\ at = "idle" /\ count = 0 /\ req = NoResult
  /\ draft = NoDraft /\ result = NoResult
  /\ ready = FALSE /\ replaced = FALSE /\ refused = FALSE

-----------------------------------------------------------------------------
(* The steps of ResolvePage.                                               *)

At(place) == at = place
GoTo(place) == at' = place

Returns(r) ==
  /\ GoTo("idle") /\ result' = r /\ draft' = NoDraft
  /\ ready' = FALSE /\ replaced' = FALSE /\ UNCHANGED refused

\* An exchange may fail at any time, and does once the context has ended; most
\* end the request.
Fails == Returns(NoResult) /\ UNCHANGED <<count, req, pageVars, solverVars>>

Must(place, A) == At(place) /\ (Fails \/ (~spent /\ A))

Noted == UNCHANGED <<ready, history>>

Keep == UNCHANGED <<count, req, result>>

\* A request reaches the browser; chromedp forgets the last response.
Begin ==
  /\ At("idle") /\ count < MaxRequests
  /\ req' \in Requests /\ count' = count + 1
  /\ spent' = FALSE /\ refused' = FALSE /\ result' = NoResult /\ GoTo("media")
  /\ seen' = IF engine = "chromedp" THEN NothingSeen ELSE seen
  /\ UNCHANGED <<engine, doc, pending, frame, blocked, solverVars, draft, ready, replaced>>

\* Mutant: media are only ever blocked.
BlockOnly ==
  /\ At("media") /\ GoTo("navigate")
  /\ blocked' = IF spent \/ engine = "geckodriver" \/ ~req.media THEN blocked ELSE TRUE
  /\ UNCHANGED <<engine, doc, pending, frame, seen, spent, solverVars, draft>>
  /\ Keep /\ Noted

\* Firefox has no such command.  A failure is only logged, whether or not the
\* context has ended, and leaves what an earlier request has set.
SetMediaBlocked ==
  /\ At("media") /\ GoTo("navigate")
  /\ IF spent \/ engine = "geckodriver" THEN UNCHANGED <<blocked, refused>>
     ELSE \/ blocked' = req.media /\ UNCHANGED refused
          \/ blocked' \in {blocked, req.media} /\ refused' = TRUE
  /\ UNCHANGED <<engine, doc, pending, frame, seen, spent, solverVars, draft, ready, replaced>>
  /\ Keep

\* The form of a POST submits itself once it is there.
Asks(d) ==
  IF ~req.post THEN d.kind \in Answers /\ pending' = NoDoc
  ELSE /\ d.kind = "form"
       /\ \E kind \in Answers : pending' \in Fresh(kind, count)

\* The driver returns to the top and waits for the load event, that of Firefox
\* only for the parser.
Navigated(next) ==
  /\ ~spent /\ GoTo(next) /\ frame' = "top"
  /\ doc' \in Documents
  /\ doc'.of = count /\ Asks(doc')
  /\ doc'.token # "absent" => doc'.kind = "target"
  /\ doc'.loaded \/ engine = "geckodriver"
  /\ Remember([of |-> count, kind |-> doc'.kind])
  /\ UNCHANGED <<spent, draft, result>> /\ Noted

\* A context that ends meanwhile leaves a navigation behind.
NavigateFails ==
  /\ Returns(NoResult) /\ spent' = TRUE
  /\ \/ UNCHANGED pending
     \/ ~spent /\ \E kind \in Answers : pending' \in Fresh(kind, count)
  /\ UNCHANGED <<doc, frame, seen>>

Navigate(place, next) ==
  /\ At(place) /\ (Navigated(next) \/ NavigateFails)
  /\ UNCHANGED <<engine, blocked, solverVars, count, req>>

SetPageCookies ==
  Must("cookies",
    GoTo("again") /\ Keep /\ Noted /\ UNCHANGED <<pageVars, solverVars, draft>>)

\* The title and the selectors of a blocked request.
CheckDenied ==
  Must("denied",
    /\ doc.kind # "denied"
    /\ GoTo("detect") /\ Keep /\ Noted /\ UNCHANGED <<pageVars, solverVars, draft>>)

DetectChallenge ==
  Must("detect",
    /\ \/ Sees /\ GoTo("solve") /\ BeginSolve
       \/ Misses /\ GoTo("ready") /\ UNCHANGED solve
    /\ Keep /\ Noted /\ UNCHANGED <<pageVars, verify, box, draft>>)

SolveEnds ==
  /\ At("solve") /\ solve.at \in {"solved", "failed"}
  /\ solve' = [at |-> "idle", n |-> 0]
  /\ IF solve.at = "failed" THEN Returns(NoResult)
     ELSE GoTo("ready") /\ Noted /\ UNCHANGED <<draft, result>>
  /\ UNCHANGED <<count, req, pageVars, verify, box>>

AfterReady == IF req.wait THEN "wait" ELSE "url"

\* Mutant: nothing is waited for.
ReadyAtOnce ==
  /\ At("ready") /\ GoTo(AfterReady) /\ ready' = TRUE
  /\ Keep /\ UNCHANGED <<pageVars, solverVars, draft, history>>

\* awaitDocumentReady: the document that is shown is ready, though it may be
\* about to be left; or the budget is over, or nobody answers, or a frame does.
AwaitDocumentReady ==
  /\ At("ready") /\ GoTo(AfterReady)
  /\ \/ UNCHANGED ready
     \/ ~spent /\ frame = "top" /\ doc.loaded /\ ready' = TRUE
  /\ Keep /\ UNCHANGED <<pageVars, solverVars, draft, history>>

\* To sleep fails only with the context.
Wait ==
  /\ At("wait")
  /\ IF spent THEN Fails
     ELSE GoTo("url") /\ Keep /\ Noted /\ UNCHANGED <<pageVars, solverVars, draft>>

ReadURL ==
  Must("url",
    /\ draft' = [draft EXCEPT !.url = URLOf(doc.kind)] /\ GoTo("jar")
    /\ Keep /\ Noted /\ UNCHANGED <<pageVars, solverVars>>)

\* The user agent and the cookies.
ReadJar ==
  Must("jar",
    GoTo("response") /\ Keep /\ Noted /\ UNCHANGED <<pageVars, solverVars, draft>>)

\* The newest response of the URL that was read.
ResponseOf(url) == seen[url]

\* chromedp answers from memory; reading the log of chromedriver empties it,
\* and may fail, which leaves the default.
ReadResponse ==
  /\ At("response") /\ GoTo("token")
  /\ \/ /\ engine = "chromedp" \/ (engine = "webdriver" /\ ~spent)
        /\ draft' = [draft EXCEPT !.status = ResponseOf(draft.url)]
        /\ seen' = IF engine = "webdriver" THEN NothingSeen ELSE seen
     \/ /\ engine # "chromedp"
        /\ UNCHANGED <<draft, seen>>
  /\ Keep /\ Noted
  /\ UNCHANGED <<engine, doc, pending, frame, blocked, spent, solverVars>>

-----------------------------------------------------------------------------
(* ApplyTurnstileToken.                                                    *)

HasToken == frame = "top" /\ doc.token = "filled"

TakeToken ==
  /\ draft' = [draft EXCEPT !.token = TRUE] /\ GoTo("html")
  /\ UNCHANGED <<verify, box>>

SkipToken == GoTo("html") /\ UNCHANGED <<draft, verify, box>>

\* Chromium: a page with the field is clicked on until the field is filled.
ApplyOnChromium ==
  /\ engine # "geckodriver" /\ Quiet
  /\ \/ At("token") /\ req.tabs = 0 /\ SkipToken
     \/ At("token") /\ req.tabs > 0 /\ ~spent /\ doc.token = "absent" /\ SkipToken
     \/ /\ At("token") /\ req.tabs > 0 /\ ~spent /\ doc.token # "absent"
        /\ GoTo("clicking") /\ UNCHANGED <<draft, verify, box>>
     \/ At("clicking") /\ ~spent /\ HasToken /\ TakeToken
     \/ /\ At("clicking") /\ ~spent /\ ~HasToken
        /\ StartVerify(req.tabs) /\ UNCHANGED <<at, box, draft>>
  /\ Keep /\ Noted /\ UNCHANGED <<pageVars, solve>>

TokenFails ==
  /\ engine # "geckodriver" /\ Quiet
  /\ At("clicking") \/ (At("token") /\ req.tabs > 0)
  /\ Fails

\* Firefox: the field is read, and clicked for once if the request asks for it;
\* a read that fails finds no token, and nothing here ends the request.
ApplyOnFirefox ==
  /\ engine = "geckodriver" /\ Quiet
  /\ \/ At("token") /\ ~spent /\ HasToken /\ TakeToken
     \/ At("token") /\ req.tabs = 0 /\ SkipToken
     \/ /\ At("token") /\ req.tabs > 0
        /\ StartBox /\ GoTo("reread") /\ UNCHANGED <<draft, verify>>
     \/ At("reread") /\ box.clicked /\ ~spent /\ HasToken /\ TakeToken
     \/ At("reread") /\ SkipToken
  /\ Keep /\ Noted /\ UNCHANGED <<pageVars, solve>>

\* The page and its picture.
ReadHTML ==
  /\ At("html")
  /\ \/ Returns(NoResult)
     \/ req.onlyCookies /\ Returns(draft)
     \/ /\ ~req.onlyCookies /\ ~spent /\ frame # "lost"
        /\ Returns([draft EXCEPT !.html = [doc |-> doc, frame |-> frame]])
  /\ UNCHANGED <<count, req, pageVars, solverVars>>

-----------------------------------------------------------------------------

InSolve == At("solve") /\ Solver /\ UNCHANGED pipelineVars

InVerify == ClickVerify /\ UNCHANGED pipelineVars
InBox == ClickTurnstileCheckbox /\ UNCHANGED pipelineVars

Program ==
  \/ SetMediaBlocked
  \/ Navigate("navigate", IF req.cookies THEN "cookies" ELSE "denied")
  \/ SetPageCookies \/ Navigate("again", "denied")
  \/ CheckDenied \/ DetectChallenge \/ SolveEnds \/ AwaitDocumentReady \/ Wait
  \/ ReadURL \/ ReadJar \/ ReadResponse
  \/ ApplyOnChromium \/ TokenFails \/ ApplyOnFirefox \/ ReadHTML
  \/ InSolve \/ InVerify \/ InBox

\* The time of the request, or the browser, ends.
Never  == FALSE /\ UNCHANGED vars
Expire ==
  /\ ~At("idle") /\ ~spent /\ spent' = TRUE
  /\ UNCHANGED <<engine, doc, pending, frame, blocked, seen, solverVars, pipelineVars>>

\* The wait for the page is over.
Late == {"wait", "url", "jar", "response", "token", "clicking", "reread", "html"}

PagesMove ==
  /\ Site
  /\ replaced' = IF at \in Late /\ pending # NoDoc /\ pending' = NoDoc THEN TRUE ELSE replaced
  /\ UNCHANGED <<solverVars, at, count, req, draft, result, ready, refused>>

Next == Begin \/ Program \/ Expire \/ PagesMove

\* A request goes on as long as it can, and its deadline comes.
Spec == Init /\ [][Next]_vars /\ WF_vars(Program) /\ WF_vars(Expire)

-----------------------------------------------------------------------------
(* Properties.                                                             *)

\* While the page of a request is shown, media are blocked as that request
\* asks, whatever the requests before it asked and wherever they or it ran out of
\* time, unless the browser refuses the setting (resolve.go: a block list left in
\* place made disableMedia sticky for the rest of a session).
MediaBlockFollowsRequest ==
  engine # "geckodriver" /\ count > 0 /\ doc.of = count /\ ~refused
    => blocked = req.media

\* What a request comes to read is a page of its own, never one that an earlier
\* request of the session has left.  Its URL, status and HTML are those of one
\* document, fully loaded if the wait has seen that, unless a navigation commits
\* after the wait; and a status that is read while a navigation is under way may
\* already be that of the next (resolve.go: ResolvePage).
SnapshotIsWhole ==
  At("html") /\ ~req.onlyCookies /\ ~spent =>
    /\ doc.of = count
    /\ ready /\ ~replaced => doc.loaded
    /\ ~replaced => draft.url = URLOf(doc.kind)
    /\ ~replaced /\ pending = NoDoc /\ draft.status # NoResult =>
         draft.status = [of |-> count, kind |-> doc.kind]

\* scripts.go:179-181, a navigation that has not committed is not mistaken for
\* one that has: once the page has said that it is ready, no half-parsed document
\* is read.  It is stated of chromedp, where no driver holds commands back.
ReadyMeansParsed ==
  engine = "chromedp" /\ At("html") /\ ready /\ ~req.onlyCookies /\ ~spent
    => doc.loaded

\* However pages change while a request reads them, no answer is made of what an
\* earlier request of the session has left: not of its document, and not of a
\* response to it that chromedp or the log of chromedriver still held.
ResultIsOfRequest ==
  result # NoResult =>
    /\ result.status # NoResult => result.status.of = count
    /\ result.html # NoResult => result.html.doc.of = count

\* Every request is answered (resolve.go, clickVerify: none of the loops goes
\* on once the context has ended).
ResolveReturns == []<>At("idle")

\* What a request has left to do at most, once its context has ended.
PlaceLeft ==
  [idle |-> 0, html |-> 1, reread |-> 2, clicking |-> 2, token |-> 6, response |-> 7,
   jar |-> 8, url |-> 9, wait |-> 10, ready |-> 11, solve |-> 12, detect |-> 13,
   denied |-> 14, again |-> 15, cookies |-> 16, navigate |-> 17, media |-> 18]

Left == PlaceLeft[at] + SolveLeft + BoxLeft + LadderLeft

\* Once the context of a request has ended, every step the program still takes
\* brings its answer nearer, in whatever loop it was, and pages delay nothing
\* (resolve.go, clickVerify: none of the loops goes on once the context has ended).
EndedWindsDown ==
  [][spent /\ count' = count =>
       IF Program THEN Left' < Left ELSE Left' <= Left]_vars

-----------------------------------------------------------------------------
(* Why they hold.                                                          *)

\* The page is the current request's: it has asked for it.
Underway == at \notin {"idle", "media", "navigate"}
Answered == {"token", "clicking", "reread", "html"}

\* A navigation under way is the current request's.
Ours == pending # NoDoc /\ pending.of = count

DocumentsOwned ==
  /\ doc.of <= count /\ (pending # NoDoc => pending.of <= count)
  /\ Underway => doc.of = count /\ (pending # NoDoc => Ours)
  /\ at # "idle" => count > 0

\* The setting is the request's before it asks for anything; a request that ran
\* out of time before it made it asks for nothing.
MediaInv ==
  engine # "geckodriver" =>
    /\ at = "media" => doc.of # count /\ ~Ours
    /\ at \in {"navigate", "cookies", "again"} /\ ~spent /\ ~refused => blocked = req.media
    /\ count > 0 /\ (doc.of = count \/ Ours) /\ ~refused => blocked = req.media

\* A page that is seen no more has somewhere to go.
PagesInv ==
  /\ pending # NoDoc => pending.kind \in Answers \cup {"away"}
  /\ doc.kind = "cleared" => pending # NoDoc

\* The newest response of its URL is that of the page, or has been taken.
SeenInv ==
  /\ engine = "geckodriver" => seen = NothingSeen
  /\ doc.kind # "cleared" =>
       seen[URLOf(doc.kind)] \in {NoResult, [of |-> doc.of, kind |-> doc.kind]}

\* Which loop runs when, and how far it has got.
LoopsInv ==
  /\ verify.at # "idle" => engine # "geckodriver" /\ at \in {"solve", "clicking"}
  /\ box.at # "idle" => engine = "geckodriver" /\ at \in {"solve", "reread"}
  /\ at = "solve" <=> solve.at # "idle"
  /\ ~Quiet /\ at = "solve" => solve.at \in {"look", "tick"}
  /\ solve.at = "tick" => engine = "geckodriver" /\ solve.n <= MaxAttempts
  /\ solve.at \in {"look", "gone", "weigh"} => engine # "geckodriver" /\ solve.n < PassiveBailout

\* Only Firefox is ever inside a frame.
FrameInv == engine # "geckodriver" => frame = "top"

\* What has been read of a page that has not been replaced is still true of it.
StillInv ==
  /\ ready \/ replaced => at \in Late
  /\ ready /\ ~replaced => doc.loaded
  /\ at \in {"jar", "response"} \cup Answered /\ ~replaced => draft.url = URLOf(doc.kind)
  /\ at \in Answered /\ ~replaced /\ pending = NoDoc =>
       draft.status \in {NoResult, [of |-> count, kind |-> doc.kind]}

\* What is kept for the answer is of the request.
AnswerInv ==
  /\ seen[URLOf(doc.kind)] # NoResult => seen[URLOf(doc.kind)].of = doc.of
  /\ at \in {"jar", "response"} =>
       draft.url \in URLs /\ (seen[draft.url] # NoResult => seen[draft.url].of = count)
  /\ draft.html = NoResult
  /\ draft.status # NoResult => at \in Answered /\ draft.status.of = count

\* While the page of a request is shown its media are blocked, an answer is of
\* the request it answers, what has been read stays true of a page that stays,
\* and the state is such that it goes on so.
PipelineInv ==
  /\ PageTypeOK /\ SolverTypeOK /\ PipelineTypeOK
  /\ MediaBlockFollowsRequest /\ ResultIsOfRequest
  /\ DocumentsOwned /\ MediaInv /\ PagesInv /\ SeenInv /\ AnswerInv
  /\ LoopsInv /\ FrameInv /\ StillInv
=============================================================================
