# TLA+ models of flaresolverr-go

flaresolverr-go is an HTTP service that drives real browsers. A client asks it
to fetch a page, either in a browser started for that one request or in a named
session whose browser stays up between requests; the service waits for an
anti-bot challenge to go away and returns the page, its cookies and the user
agent. The hard part of the program is not the browsing: it is who owns which
browser process when requests, renewals, settings saves and a shutdown race, and
what a browser is made of: a display, a driver, a port, directories, a session,
each of which may fail to come up or go away. Around it are the parts that a browser passes
through: the configuration and the driver it is started with, the proxy that challenges
its requests, and the pipeline that drives one page under a deadline. These modules
model all of that, TLC checks it on small instances, and TLAPS proves the main
invariants for every size.

Paths below are relative to the repository; `sessions.go`, `service.go` and so on are in `server/`.

## The system

| component | source | state | operations |
|---|---|---|---|
| session store | `sessions.go` | the map from names to sessions, the configuration sessions are built from; per session `ready`, `err`, `browser`, `closed`, `mu`, `createdAt` | `create` (also with forceNew), `get` (renewal after a TTL), `destroy`, `applyConfig`, `destroyAll`, `session.close` |
| API service | `service.go` | its copy of the configuration, the cached user agent | the `/v1` commands, `resolveChallenge`, `ApplyConfig`, `Close` |
| HTTP server, process | `server.go`, `cmd/flaresolverr/main.go` | its copy of the configuration, `applyMu`, the listener, a wait group | routes, `applyConfig`, `Shutdown`, the signal handler |
| settings | `settings.go`, `config.go`, `settings_ui.go` | `init.yaml` | load, precedence of defaults, file and environment, validation, save, the page that edits them |
| metrics exporter | `metrics.go` | enabled, port, the published `http.Server`, one goroutine per server | `Start`, `ApplyConfig`, `Shutdown`, `Observe` |
| browser factory | `default_browser_factory.go`, `browser_path.go` | none | chooses a backend, validates proxies, finds executables |
| driver managers | `driver_manager.go`, `geckodriver_manager.go` | a cache directory, cached paths | resolve a version, download, unpack, patch, rename |
| challenge pipeline | `browser/resolve.go`, `browser/common.go`, `browser/scripts.go` | none of its own: drives one browser under `maxTimeout` | `ResolvePage`, `awaitDocumentReady`, the turnstile and challenge loops |
| backends | `browser/webdriver`, `browser/geckodriver`, `browser/chromedp`, `browser/cdpauth` | display, driver, temporary directories, remote session; intercepted CDP requests | construction, navigation, `Close` |
| display | `browser/common.go` | the Xvfb process and the channel its waiter fills | `StartXvfb`, `Stop` |
| driver process | `browser/w3c` | child process, port, exit channel, remote session | start, poll for readiness, commands, escalating stop |
| BiDi connection | `browser/bidi/bidi.go` | pending commands, event handlers, closed flag | `Send`, read loop, `Close`, proxy authentication |

How they meet: the server calls the service for each request and hands it a new
configuration after a save; the service calls the store and the factory; the
store calls the factory from `create` and `browser.Close` from `close`; a browser
is driven by the pipeline while `session.mu` is held. `net/http` runs each
request on a goroutine of its own, so every call of the service and the store can
race with every other one.

What is hard, and what makes each part correct:

* **Store.** A browser takes seconds to start and to close, both happen
  with the store unlocked, and the name may change hands meanwhile. Correct
  means: no browser is leaked, used by two callers, used after its close, closed
  twice or closed while it is being built; a failed construction does not keep
  its name; after a settings save no session with the old configuration is left;
  every call returns.
* **Service and settings.** Four copies of the configuration (`init.yaml`,
  `Server.cfg`, `Service.cfg`, `sessionStore.cfg`) change one after the other
  while requests read them. Correct means: they agree between saves, requests
  that arrive after a save run on the new one, and a save that waits for running
  requests cannot be waited for by them.
* **Shutdown.** A deadline bounds the wait for requests, not the requests. Correct
  means: every step runs, and an orderly shutdown leaves no browser.
* **Exporter.** The old HTTP server is stopped and the new one bound without the
  lock, and binding fails asynchronously. Correct means: one exporter at most, on
  the configured port, and none that outlives its registry.
* **Backends, display, driver.** A construction takes up to six steps, any of which
  can fail; Xvfb and the drivers are processes that exit, hang or never answer;
  displays and ports are chosen by looking for a free one, which another browser
  may take meanwhile; `DISPLAY` belongs to the whole process. Correct means: a
  construction that fails and a `Close` leave no process, directory, session or
  connection behind and return; a browser keeps its profile and its display as
  long as it runs.
* **Configuration file.** It is written by users and rewritten line by line by the program.
  Correct means: what was saved is what the next start runs with, unless a user
  edits over it.
* **Driver managers.** Two constructions may want the same driver, Chrome is upgraded while the service
  runs, files go away, a download stops in the middle. Correct means: a driver that is
  half written is never run, nothing is downloaded twice at once, and a driver fits
  the Chrome it is for.
* **Proxy authentication.** Answers, events and the end of a connection race with callers that
  wait. Correct means: an answer reaches its command, a request the program made the browser hold is
  answered, rejected credentials do not go round in circles, what is paused goes on, and a
  dead connection is left by everybody.
* **Challenge pipeline.** It drives a page that changes by itself, under a budget of time that
  ends anywhere. Correct means: a snapshot shows one whole document, what a request sets on the
  browser does not outlive it, nothing is read of what an earlier request left, and every request is answered.

## Modules

| module | what it is |
|---|---|
| `SessionLifecycle` | what the store promises about one session object: the abstract specification |
| `SessionStore` | `sessions.go` and the use of `session.mu` in `service.go` |
| `Service` | extends `SessionStore`: the commands, ephemeral browsers, the user agent cache, settings saves, shutdown |
| `MetricsExporter` | `metrics.go` with the part of `server.go` that starts and stops it |
| `BackendLifecycle` | what a backend promises the store: the abstract specification |
| `DisplayServer` | `StartXvfb` and `XvfbProcess` of `browser/common.go` |
| `DriverProcess` | the driver process and the session on it, `browser/w3c` |
| `Backend` | extends both (over `BackendBase`): construction and `Close` of the three backends |
| `ConfigFile` | `config.go`: where the configuration comes from, and its save |
| `DriverCache` | `driver_manager.go`, `geckodriver_manager.go` |
| `Startup` | extends both: the process, the choice of an engine and a driver by `default_browser_factory.go` |
| `ProxyChallenges` | a browser whose requests are challenged, as the two handlers use it (external) |
| `BiDi` | the connection of `browser/bidi/bidi.go` |
| `BiDiAuth` | extends both: `InstallProxyAuth` and its handlers |
| `CdpAuth` | extends `ProxyChallenges`: `browser/cdpauth` |
| `ProxyAuth` | `BiDiAuth` or `CdpAuth`, and the properties of both |
| `ClickTargets` | `browser/common.go`: where a click may go, from the boxes and labels of controls |
| `BrowserPage` | extends it: the document, the frame and the browser under the pipeline (mostly external) |
| `ChallengeSolver` | extends it: the challenge and token loops of `browser/resolve.go`, with what the backends do in them |
| `ResolvePipeline` | extends it: `ResolvePage` from the first exchange to the snapshot |
| `MCSessionStore`, `MCService`, `MCMetricsExporter`, `MCBackend`, `MCStartup`, `MCResolvePipeline` | instances for TLC: symmetry sets, tables of configurations, files and requests |
| `SessionStoreProofs`, `SessionRefinement` | theorems about `SessionStore`, and its refinement of `SessionLifecycle` |
| `ServiceProofs`, `MetricsExporterProofs`, `BackendProofs`, `StartupProofs`, `ProxyAuthProofs`, `PipelineProofs` | theorems about `Service`, `MetricsExporter`, `Backend`, `Startup`, `ProxyAuth` and `ResolvePipeline` |

`SessionStore` takes a browser as something that is built, used and closed; `Backend` opens the
construction and `Close`, `ResolvePipeline` the use, `ProxyAuth` and `Startup` what happens on
the way. Each stands on its own because they share no state but the browser, which the store
proves to be in one pair of hands at a time (`UseIsSerialized`).

### SessionStore

A handler is a goroutine inside a call. `pc` says where it is, `op` and `arg` which
call it serves, `item` which object it has in hand, and `todo` which objects a drain
still has to close. A session object is an element of `Objects`; it is allocated
while `idOf` names it and collected when nothing refers to it any more, so that a
small `Objects` is a bound on the heap and not on the length of a behaviour.

Each critical section of `sessionStore.mu` is one action, because nothing else
can see its inside: `Evict`, `Join` and `Reserve` are the three ways through
`create` under the lock, `Present`/`Absent` the check after the construction, `Unlist`
the cleanup of a failed one, `Unlink` that of `destroy`, `InstallConfig` and `Sweep`
those of `applyConfig` and `destroyAll`. The construction (`BuildOk`, `BuildFail`) and
`browser.Close` (`CloseBegin`, `CloseEnd`) are steps of their own. `session.mu` is a
variable, as it is held across both `Resolve` and `browser.Close`. Time is
the action `Age`: a session's lifetime exceeds the caller's TTL from some moment on.

The caller's part of a call is in the model too: the user agent probe after
`sessions.create`, which runs without `session.mu` (`Probe`), and `Lock`, `Refuse` and
`Resolved` around `Resolve`.

### Service

`Service` conjoins its own variables to the actions of `SessionStore`. A handler that is
outside the store has a `stage`; every read of a configuration or of the cached
user agent is a step, because each takes and releases its own lock, and the
order of these reads is what races with a save. `settled` is a history
variable: the request arrived with no save in progress, and none has published
its configuration since. A configuration stands for all the settings; the
constants `DefaultProxy`, `FixedAgent` and `NativeAgent` say what the properties
need to know of it.

`StoreStep` lists the steps of the store that the service adds nothing to; the others
appear with what the service does in the same step. That the composition restricts
the store and never bypasses it is itself a property, `KeepsStore`.

### MetricsExporter

A server object goes from prepared to `starting`, `serving` and `ended`; `shut` is the flag
that makes `ListenAndServe` return at once, also when `Shutdown` comes first. A
port can be taken by another process (`Busy`) or by an old server that has not
closed its listener. `life` follows the steps of `Server.Shutdown`. Saves and the boot may be
late: nothing makes them end before the deadline of the shutdown.

### DisplayServer, DriverProcess, Backend

An element of `Backends` is one call of a constructor and, if it succeeds, one
later `Close`. `place` says how far it has got: the stages of `Building` are the steps of
`NewWebDriver`, `NewGeckoDriver` and `NewChromedp`, those of `Closing` the steps of
their `Close`, which a failing constructor runs too. `kind` is the engine the factory
chose; the three constructors share the stages and differ in the way through them.

`DisplayServer` has a variable for the call of `StartXvfb` (`start`) and one for the process
(`xvfb`). The channel the waiting goroutine fills is not a variable: it holds a value while
the process is `exited`, and the value has been received when it is `reaped`. Stale socket
and lock files are in `files`. `DriverProcess` has `ctl` for the control flow of
`StartDriver` and `Stop` and `driver` for the process; `browser` says whose driver runs
the browser of a session, since a driver is addressed by a port and another one may answer.
`lost` is a history variable: the driver went without quitting its browsers.

Xvfb, drivers and browsers are the environment: they come up, exit, crash and hang at any
time (`Environment`). The context that bounds a construction ends by `Expire`; a model of it is
needed only in `StartXvfb`, because the other users of the context can time out anyway.
The order of `Close` is the order of the code, step by step. Removing the directories is one
step: nothing can see it half done but the browser, and `BrowserKeepsItsGround` is about
the whole of it.

### ConfigFile, DriverCache, Startup

A configuration gives each key the text of its line. A line of `init.yaml` may also be
absent, null or of the wrong kind, and a file may be missing or no YAML at all: what decoding
does with each of these is the point of the module. `loadConfig` is the precedence of
defaults, the first file found, environment and flags; `SaveConfig` edits the lines it owns and
leaves the others. `unapplied` stands between the write of the file and `applyConfig`, where a crash may
fall. `saved` is a ghost: the last save no user has edited over.

In `DriverCache` a goroutine walks through a resolution (`at`); each access of a cache in memory or of a file
is a step, and a critical section of `managedDriverMu` or `managedGeckoDriverMu` is the steps
between `Lock` and `Unlock`, since downloads happen inside. `detected`, `known` and `geckoPath` are the
caches in memory, `disk` and `temp` the files. `Forget` is the end of the process: the memory
goes, files stay, a temporary one half written as it may be. `oldest` is a ghost: the Chrome that
was there when the call began, so that `DriverFitsBrowser` can say "a Chrome that was
installed while the call ran". `Startup` adds what both need: which engine the
configuration means, given the browsers installed, and that a stop takes everything in memory.

### BiDi, BiDiAuth, CdpAuth, ProxyAuth

In `BiDi` a call of `Send` registers (`pending`, `nextID`), writes, waits and leaves; each critical section
of `Session.mu` is an action. The one-place channel of a command is `box`, and the read loop looks a
waiter up and hands over in two steps (`carrying`), since it unlocks between them. `lost` is the far end
going, `closed` the near one; the read loop notices either. The driver answers in any order.

`BiDiAuth` has one more caller per challenge, as each event is handled on a goroutine of its own
(`task`), and the counters those goroutines share (`attempts`). `resets` and `given` are history: how often the
counters were emptied at `maxTrackedRequests`, and how often a request was given
credentials. `CdpAuth` has no commands with waiters; every event is answered by a goroutine that gives
up after `replyTimeout` (`abandoned`). Here every request is paused, so every one has to be let go.
`source` says whether the proxy or a server asks: `CdpAuth` gives the credentials to the proxy only, and lets
the request of a server go on. A variable, `protocol`, chooses between the two.

### ClickTargets, BrowserPage, ChallengeSolver, ResolvePipeline

`doc` is the document on the screen, `pending` the one a navigation is about to commit, `frame` where
WebDriver commands go, `seen` the newest document response of each URL that chromedp or the log of chromedriver
still holds, `spent` the deadline having passed. A document
has a kind (a page, one of three kinds of challenge, a denial, a challenge that is seen no more), says which request it is of and whether it
has loaded. Pages commit, load and grow a token when they like, and a challenge clears, starts again or leads to
another one (`Onward`, `Refresh`); all that is the environment (`PagesMove`). The pure operators of `ClickTargets` choose among controls by geometry and label.

`at` says where `ResolvePage` is, and `solve`, `verify` and `box` where the challenge loop, the click
ladder of the Chromium backends and the checkbox of the Firefox one are, as they nest; `verify.todo` holds the places, in the
list `verify.found`, of the controls a step of the ladder has yet to click on. `draft` is the answer being put together. Each exchange with
the browser is one action, and between any two of them the page may move or the deadline
end. An exchange may fail at any time and does once the time is up; a failure either ends the request (`Must`) or is
swallowed, as the code does at that place: a media setting that the browser refuses leaves that of an
earlier request, and a Firefox that cannot leave the challenge's frame stays in it. The engines differ in the steps that `engine` guards: what CDP, WebDriver and
geckodriver do for the same call. `ready` says that the page has answered "complete" to `awaitDocumentReady`, which may be the answer of a page that is about
to be replaced. Two variables are history: `replaced`, that a navigation has committed since that wait, and `refused`, that
the browser has not taken the media setting.
`Left` bounds what a request whose context has ended still has to do: the place in `ResolvePage`, and what is left of each loop.

## Runs

| run | instance | what it shows |
|---|---|---|
| `store` | 2 goroutines, 2 names, 2 objects, 1 configuration; creations, renewals, destroys, saves, drains | no browser leaks, is used by two, closed twice or closed while it is built; the inductive invariant; the store implements `SessionLifecycle`; every session that left the store is closed |
| `service_requests` | 2 requests and the shutdown goroutine, 1 object, 2 configurations, every command | the inductive invariant, with the copies of the configuration that agree between saves; later requests run on the saved one; no old configuration survives a drain; a fixed user agent is presented by sessions; an orderly shutdown leaves no browser; the store is used by its rules |
| `service_liveness` | 2 requests, saves, ephemeral browsers, a shutdown that may time out | every request that the process outlives is answered; the shutdown ends |
| `exporter` | 2 savers and the boot, 2 servers, 2 ports, one taken | no stray exporter; it comes up; a shutdown gets past it unless one was published after it looked |
| `backend` | 2 browsers of any engine, 2 ports, 2 display numbers, any stale files; Chromes that need an Xvfb, or any engine under a `DISPLAY` that is there | nothing is left behind or waited for in vain, orphans have a cause, a browser keeps its profile and display, `DISPLAY` is kept, constructions (but for the case below) and `Close` return, the backends implement `BackendLifecycle` |
| `bidi` | either protocol, 2 requests, 3 challenges, 1 counter | answers reach their commands, no held request is forgotten, credentials do not go round in circles; what is reported is answered, what CDP pauses goes on; a dead connection is left |
| `pipeline` | 2 requests of 3 kinds on one browser of each engine | the inductive invariant; a snapshot is of one document of the request unless a page takes its place meanwhile; media are blocked as the request asks unless the browser refuses; an answer is about its own request; every request is answered, and an ended one winds down |
| `startup` | 2 constructions, 2 directories, 2 versions, 6 keys, 3 events | saved settings survive; no part of a driver is run; a driver fits the Chrome that was there |
| `xvfb_exit` | 1 browser, 1 display number | violation: a construction hangs when Xvfb exits while the scan polls for it |
| `late_save` | 1 saver and the boot, 2 servers | violation: an exporter that a late save or boot starts keeps the shutdown from the sessions |
| `half_parsed` | 1 request on one browser | violation: the wait for the page is answered by the challenge's page, and a half-parsed document is read |
| `null_proxy` | as `startup`, with a proxy line that has no children | violation: the next start cannot read what a save wrote |

**Bounds.** Two goroutines with two names are what the races of the store need: one that builds
or drains while the other removes, renews or takes the name; with two names a drain holds several objects. Two objects
are enough, since an object is reused once the program has dropped it. The safety of the store, three or more goroutines and objects included,
is proved for every size, so that the instance only has to keep the formulas honest and to show
liveness. Two configurations distinguish old from new in `service_requests`, where `NoStaleConfig` is checked too. The service has one
handler more, `main`, which only runs the shutdown. With one object a second session
waits until the first is gone; the store's own run has two. An exporter can be published while its
predecessor stops, hence two servers; the port that is taken makes binds fail. Two
browsers are enough to fight over a display, a port or `DISPLAY`; two display numbers let a scan go
on after a failure (the code has 101). The steps of displays and of
drivers meet only in `place`: an instance with all of both is too large for TLC, so `MCInit` starts from
two Chromes that need an Xvfb each, or from two browsers of any engine under a `DISPLAY` that is there. That a driver and an Xvfb
of one browser do not disturb each other is covered by the theorems, which restrict nothing.

Four modules bound what would go on for ever, by constants their guards name. `BiDi` sends at most `MaxId` = 5
commands: the two of the installation and one for each of `MaxChallenges` = 3 challenges, which are
enough for a request to be challenged again after its counter was emptied (`MaxTracked` = 1,
in the code 4096) by another's. `ResolvePipeline` serves `MaxRequests` = 2 requests, so that one meets what the
other left on the browser; the kinds of requests in `MCResolvePipeline` are chosen so that each option occurs and
meets its opposite. `MaxAttempts` = 4 stands for the 30 attempts of geckodriver's challenge loop, which clicks on the
fourth and on every sixth from there: four have a click and the end, and the theorems have any number. `Startup` counts what happens from
outside (`MaxEvents` = 3: saves, edits, crashes, upgrades, cleared files): a save, an edit or a crash and a
restart are the longest story its properties tell apart. Two scenarios share that run, as the
file and the drivers meet only in the configuration of the process: in one the file changes in
every way and no driver is resolved, in the other `/settings` changes the configuration while drivers are.
The theorems about `BiDiAuth`, `CdpAuth`, `ResolvePipeline` and `Startup` hold for every value of these bounds.

**Symmetry** is used in `service_requests`, for goroutines and objects; the other runs have liveness
properties or are small. Configurations are not permuted where the tables of `MCService` tell them apart.

**Deadlock** is checked for the store, the service and the backends, where the end of
the process is a stuttering action (`Exited`, `AllDone`). It is not in the runs of the exporter, where a
shutdown that waits for a late exporter is stuck (the finding of `late_save`), nor in `bidi`, `pipeline`, `half_parsed`,
`startup` and `null_proxy`: a connection that is gone, a client that has no more requests
and a process that is down, with the bounds used up, really stop.

**Fairness.** A goroutine inside a call keeps running. Everything it waits for
outside the model is bounded by the code: `factory.New`, `Resolve` and `browser.Close` all run
under timeouts. What it waits for inside the model is a Go mutex, and
`sync.Mutex` hands itself over first come, first served after a millisecond of
starvation, so a waiter that is enabled again and again gets its turn: strong
fairness of a handler's steps (`Fairness`, `ServiceFairness`), as long as the process is up (`Up`): a
shutdown whose deadline passes ends it with requests in flight. Nothing makes a client
call, a session age or a signal arrive. Weak fairness of `Collect` is an artefact of the
bounded heap: it says that memory does not run out. The exporter's goroutines
need weak fairness only, and so do constructors and `Close` in `Backend`: their waits are for a timer, for
an answer under the HTTP client's timeout or for a process that has been killed. Two things
are assumed of the environment: a driver that is not hung obeys SIGTERM (`DriverTerminates`), and a
Chrome that chromedp runs answers or goes, since chromedp's calls have no limit.
No browser has to come up, and nobody has to build or close one. In `ProxyAuth` the program's
goroutines and the driver at the other end keep going: the read loop blocks on the socket only, and
`Send` on an answer, on its context or on the close; over CDP the listener is called with every event and its goroutines
answer, unless their time is over (`Abandon`). In `ResolvePipeline` the program keeps going, every
exchange being under the request's context, and that context ends (`WF_vars(Expire)`): it is a timer. Pages,
proxies and challenges need do nothing.

`Service` takes the outcome of `factory.New` for granted: it returns. `ConstructionReturns`
says when it does not, which is the finding of `xvfb_exit`; a session in that state is
never ready, and every caller that wants it waits for good.

## What is proved

All theorems are for any number of goroutines, names, objects, configurations, ports, requests,
files and versions, and for any bounds; they assume only what the modules say of their constants: that `None` is none
of them, that tables have the right ranges and that the shutdown runs on a handler of its
own. Two assume something more, which is said where they are listed.

* `StoreInvariant`: `IInv` of `SessionStore`. The properties alone are not
  inductive. To show that no browser is leaked one has to know that what left
  the store unclosed has a closer (`Accounted`), that a closer's object is never
  listed again (`ClosersUnlisted`), that objects are listed under their own name
  (`References`), what the fields of an object say together (`Stages`), and who can
  hold `session.mu` (`Mutex`). Each part is preserved by itself given the ones before
  it, and has one lemma per group of actions.
* `BrowsersAreAccountedFor`, `UseIsSerialized`, `ClosesAreOrderly`, `ConfigurationIsCurrent`,
  `FailuresAreUnlisted`: the safety properties of the store, from `IInv`.
* `StoreImplementsLifecycle`: `SessionStore` implements `SessionLifecycle` under the
  mapping `Phase`. Each action maps to one abstract step or to a stutter; `IInv` supplies
  the phase an object is in before the step.
* `ServiceKeepsStore`: every step of `Service` is a step of `SessionStore` or leaves it
  alone. It needs the invariant of the saves, because `Install` uses the configuration the
  save has in hand. `StorePromisesInService` puts it together with the theorems above: inside the
  service no browser is leaked, used by two, closed out of order or kept with an old
  configuration, and the service implements `SessionLifecycle`.
* `ServiceInvariant`: `ServiceInv`. The copies of the configuration agree between saves
  (`ConfigLayersAgree`) because saves exclude each other from the lock to the end of the drain
  (`SavesExclude`), and each stage of a save says how far the new configuration has got (`Layers`).
* `SessionsPresentTheirAgent`, `SavesReachNextRequests`: what requests carry. A stage belongs to a
  command and a place of the store (`StagePlaces`), the user agent in hand is that of the configuration in hand
  (`AgentsInHand`), and while a request is settled no save is past its publication (`SettledInv`), so that
  every read it makes finds the same configuration.
* `OrderlyShutdown`: `ShutdownLeavesNoBrowser`, assuming `~Deadline`. By the time the sweep runs
  every handler but the main goroutine is back, so that nothing is listed after it (`ShutdownInv`).
  With a deadline that passes it does not hold, which is one of the observations below.
* `ExporterInvariant`, `ExporterIsTracked`: `NoStrayExporter` and `ExporterInv`, because a running
  server that is not published is in the hands of the goroutine about to stop it (`Tracked`).
* `BackendInvariant`: `IInv` of `Backend`. That nothing is left behind follows from what each
  place of a constructor and of `Close` says about the display, the driver and the directories
  (`Settled`, `Controlled`, `Inventory`) and what the stages of those say about the
  processes (`DisplayStages`, `DriverStages`). The steps of `DisplayServer` and
  `DriverProcess` have lemmas on their own variables, which `Backend` uses as they are.
* `NothingIsLeftBehind`, `OrphansHaveACause`, `OwnedXvfbIsUnreaped`,
  `BrowsersKeepTheirGround`: the other invariants of the backends. The orphans and the ground need
  to know who runs a browser (`OwnBrowser`, `Hosted`).
* `DisplayIsKept`: `DisplayVariableKept`, because every backend has read `DISPLAY` before anybody
  wrote it (`DisplaySaved`), and writes back what it read.
* `BackendImplementsLifecycle`: `Backend` implements `BackendLifecycle`. The view of a backend depends
  on its own variables only (`Frame`), so that a step of one is invisible to the others; `IInv`
  says that the last step of `Close` has nothing left but the display.

* `SettingsSurviveRestarts`: `SavedSurvivesRestart`, assuming that no user writes a proxy line that is no
  mapping (`CarefulUsers`); `null_proxy` shows that it is needed. The file that would be read holds what was
  saved, line by line (`FileHoldsSaved`), and its proxy is a mapping or absent (`ProxyIsMapping`).
* `DriversAreSafe`, `DriverInvAlways`, `DriverFitsAlways`: from `DriverIInv`. The mutex gives each temporary file one writer,
  so a rename moves a whole file (`RenamesAreWhole`); a version in hand is one Chrome had while the
  call ran, because the cache is keyed by the identity of the executable (`VersionsFit`).
* `ProxyAuthInvariant`, `ConnectionIsSafe`, `NothingIsForgotten`: from `AuthIInv` and `CdpInv`.
  Identifiers are never reused and a waiter's channel is filled only by its own answer; a held request
  is with the driver, the read loop or a goroutine (`ChallengesInHand`, `PausedInHand`); and a request has been
  given credentials at most once per filling of the counters, its present count included (`BoundInv`).
* `PipelineInvariant`: `PipelineInv`, for any requests, any number of them on one browser, and any engine, whatever exchange fails and wherever challenges lead. What a request
  is answered with depends on what the browser shows, and that moves by itself; so the invariant says which request the document, the
  navigation under way and the remembered responses belong to (`DocumentsOwned`, `PagesInv`, `SeenInv`, `AnswerInv`),
  which loop runs when (`LoopsInv`), who is in a frame (`FrameInv`) and what has been read of a page that stays (`StillInv`).
  Everything the pages can do between two exchanges has lemmas of its own, which the steps that click use too.
* `MediaFollowsRequest`, `AnswersAreOwn`: conjuncts of it. The media setting is made
  before anything is asked for (`MediaInv`), so that a request whose time was over before it could make it shows no page of its own; a
  request whose setting the browser refused is excepted, as the code only logs that. An
  answer is about its own request because the newest response of a URL counts, and a page writes its own over the one an
  earlier request left there.
* `SnapshotsAreWhole`: `SnapshotIsWhole`, from `StillInv` and `FrameInv`. It excepts what a navigation that commits after the wait
  brings, and nothing else: a request that never saw its page ready is included, with a document that may not be loaded but is its own.
* `EndedRequestsWindDown`: `EndedWindsDown`. Once the context of a request has ended each step of the program lowers `Left`,
  which is a natural number, and pages do not raise it; so there is no loop that goes on without noticing. That is the safety half
  of `ResolveReturns`: the other half, that there is a step to take and that it is taken, is TLC's.
* `TabbableTargetIsOne`: about an operator. On whatever page and however many tabs are asked for, the tabbable step clicks on exactly one
  control, the tabs-th that can have the focus or the last.

Only model-checked: everything about liveness, because it depends on fairness and on `ENABLED`, which the provers do not
handle: `UnlistedIsClosed`, `RequestsAreAnswered`, `ShutdownEnds`, `ExporterComesUp`, `ShutdownGetsPast`,
`ConstructionReturns`, `CloseReturns`, `ReportedIsAnswered`, `PausedGoesOn`, `ConnectionEnds` and `ResolveReturns`. Every invariant, action property
and refinement that a passing run checks is stated by a theorem.

## Findings

* `browser/common.go:730`. The polling loop of the display scan receives the exit of Xvfb, and
  the code after it waits for the exit again, on a channel that gets one value: `StartXvfb` does
  not return, whatever its context says (`xvfb_exit`). `CHANGELOG.md:278` says the context bounds it.
* `server.go:87`. A settings save that is in flight at the shutdown deadline, or a boot that is late, finds no published
  exporter after `metrics.Shutdown`, starts one and publishes it; nobody stops it, `wg.Wait` does not return, and
  `service.Close` never runs (`late_save`): `server.go:79` says that every step runs unconditionally. `ShutdownGetsPast` is what is true.
* `browser/scripts.go:182`. `DocumentReadyScript` looks at `document.body` beside `readyState` so that a navigation that has
  not committed is not mistaken for one that has (`scripts.go:179-181`). The page of a challenge has a body too: once the
  challenge is seen no more, its page answers "ready", `awaitDocumentReady` ends, the navigation commits, and the HTML is
  read of a document that is still being parsed (`half_parsed`), which `resolve.go:163-167` says the wait is for. The run is about chromedp,
  where no driver holds a command back until a page has loaded.
* `config.go:401`. A save over an `init.yaml` whose `proxy:` line stands without children, which is the shipped
  file with the first line of that block uncommented, replaces the null by an empty string. The next
  start cannot decode a string into the proxy mapping, rejects the file and runs on defaults
  (`null_proxy`). `settings.go:25` says that a save survives a restart, and `config.go:390-393` that an
  absent field "means empty".

Observations that the models show and that no run states as a property:

Store and service:

* After a construction `create` checks that its *name* is listed, not its own object (`sessions.go:154`).
  Destroy the session while it is being built and create the name again, and the first caller is
  handed a browser that is being closed; the comment at `sessions.go:150` says it must not be. `SerializedUse` still
  holds: a request on it is refused under `session.mu`.
* `get` creates and renews with a nil proxy, whatever the request carries and whatever the
  default is (`sessions.go:165`), though `CHANGELOG.md:206-212` says that a default proxy applies. A request
  with a proxy can run in a browser without one.
* Callers that joined a construction get the error of its creator, also when only the
  creator's request was at fault (`sessions.go:113`).
* A panic inside `factory.New` leaves `ready` unclosed and the name taken (`sessions.go:134`).
* Two callers that both found a session expired renew it one after the other, and
  the second evicts a young browser (`sessions.go:172`).
* `runtimeBrowserConfig` (`service.go:335`) replaces the configured user agent by the
  cached one even when the cache is empty; session browsers do not do this.
* An ephemeral request of the old configuration can fill the user agent cache
  after a save has emptied it (`service.go:63`).
* A session created across a save can combine the old default proxy with the rest
  of the new configuration (`service.go:142`).
* A request that outlives the shutdown deadline can create a session after the drain, so `ShutdownLeavesNoBrowser` is
  about shutdowns that outlast their requests (`Deadline = FALSE`); `ShutdownEnds` is checked for the others.

Exporter, backends, display, driver:

* An exporter that fails to bind stays published (`metrics.go:144`): saving the same
  configuration again does not start one. `NoStrayExporter` allows it, and
  `ExporterComesUp` asks only for ports that are free.
* Two scans can settle on one display: the loop looks for the socket, and the socket may be
  that of another browser's server (`common.go:719`). The browser then draws on a display that
  goes away with the other browser; its own Xvfb exits and is reaped by `Close`.
* A killed Xvfb leaves its files, and the scan skips a display with files (`common.go:683-690`),
  so that a display number can be used up for good.
* A port is released before the driver binds it (`w3c/session.go:311`), and whatever driver
  answers `/status` there is taken for one's own. The session is then created in a driver that
  `Close` does not stop (`NoNeedlessOrphan` names this case).
* The creation of a session and the stealth scripts do not run under the context of the
  construction (`webdriver/browser.go:287` and `:602`, `geckodriver/browser.go:296`,
  `chromedp/browser.go:114`), though `CHANGELOG.md:278` says so of them too. With a driver the HTTP
  client's 30 seconds bound them; chromedp has no bound.
* `chromedpBrowser.UserAgent` after `Close` derives a context from a nil one
  (`chromedp/browser.go:537`) and panics; `Probe` can call it on a session that was
  destroyed since. The error middleware recovers the panic.

Configuration and drivers:

* The temporary file of a download has a fixed name (`driver_manager.go:442`, `geckodriver_manager.go:235`): two processes that share a cache directory
  write the same one. A write that fails leaves it there.
* A cached path of geckodriver is used although the cache directory was changed since (`geckodriver_manager.go:334`).
* A Chrome that is replaced by an older one of the same size and time stamp keeps the version of the newer.
* `driver_path` is used for whichever engine is chosen, and without any driver Chrome falls back to
  chromedp while Firefox fails.

Proxy authentication:

* The BiDi handler does not look at who asks, as `cdpauth` does, so a server's challenge is answered
  with the proxy's credentials too. `cdpauth` in turn has no limit of attempts.
* A request that is challenged between `addIntercept` and `subscribe` is held and never reported
  (`InstallProxyAuth`); `ReportedIsAnswered` asks only for what was reported.
* With more than `maxTrackedRequests` requests in turn the counters are emptied, and a rejected request is given its
  credentials once more (`CredentialsBounded` counts the emptyings).
* A pong is written without `writeMu` (`bidi.go:135`).

Pipeline:

* Geckodriver is started with `pageLoadStrategy` "eager" (`geckodriver/browser.go:266`), so that a navigation returns before the
  document is complete; the comment at `resolve.go:169` takes for granted that it blocks until the load event. The wait that follows
  covers the difference.
* A browser that refuses the media setting shows the page with the block list of an earlier request, as the
  failure is only logged (`resolve.go:109-111`).
* A snapshot taken while the page moves on is of an older or a newer document than the URL, the
  cookies or the status beside it, and may be of one more challenge. When the budget of the wait is over, or the browser does not
  answer it, the page is read as it is.
* A Firefox that cannot leave the frame of the challenge stays in it (`geckodriver/browser.go:697`): what the request reads
  then is the frame's, until the next navigation.
* A click is sent to where a control was. If the page has changed, it hits whatever is there
  now; a step of the ladder that did not click is not followed by another look (`chromedp/browser.go:771`, `webdriver/browser.go:854`). On an
  interstitial the tabbable step can follow a link of the footer.
* Keystrokes of the chromedp backend never arrive, as their context is not one of a target; what does is the click
  in the corner of the page that precedes them (`chromedp/browser.go:858`).
* With chromedp the document response of a frame overwrites that of the page.
* An error while the controls are listed counts as "no controls" with WebDriver.
* A geckodriver request that has only cookies left to read can succeed after its deadline.

## Not modelled

Of the store, service and server: parameter checks and the wording of answers,
`sessions.list` (it only reads), logging and error middleware, the Prometheus
counters, a main listener that fails to start, a handler that panics, which of two texts a timeout
error gets (`service.go:298`). Of the settings: the page, its HTML and JavaScript, and the checks of a
payload, which keep no state; a flag that is given and empty; a key that occurs twice in
`init.yaml` (it stays undecodable after a save).

Of the backends: the
mutex `mu` that orders `Resolve`, `UserAgent` and `Close` of one browser (the store orders them before
it), two browsers that share the user's own profile directory, capabilities, flags and stealth scripts, the path of
the mouse between two points, the roots of temporary directories, log files and the tail of the
driver's log, the encoding of commands. Of the factory: the validation of a proxy and the
places executables are looked for. Of the drivers: platforms and archives, and which release a
version stands for. What the scripts compute on a page is kept as far as a step depends on it.

Out of scope: the JavaScript that browsers execute, release and build files.

Worth adding next: two processes on one cache directory; what a goroutine of the store and a `Close` of a
backend have left to do, as `Left` says it of a request; a pipeline whose browser is closed under it by a driver that dies.
