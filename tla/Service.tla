------------------------------- MODULE Service -------------------------------
(***************************************************************************)
(* The API service around the session store: server/service.go, the /v1    *)
(* route and the configuration swap of server/server.go, the settings POST *)
(* of server/settings.go and the shutdown of cmd/flaresolverr/main.go.     *)
(*                                                                         *)
(* A handler is in the store while its `stage` is "none" and its pc is not *)
(* "idle"; the stages are the points of a request outside the store.  Each *)
(* read or write of a configuration or of the cached user agent is a step, *)
(* because each takes its own lock.                                        *)
(***************************************************************************)
EXTENDS SessionStore

CONSTANTS Main,         \* the goroutine that runs Server.Shutdown
          Agents,       \* user agents
          Proxies,      \* proxies
          Carried,      \* what requests carry as their proxy, None included
          DefaultProxy, \* the default proxy of each configuration, or None
          FixedAgent,   \* startup_user_agent of each configuration, or None
          NativeAgent,  \* what a browser of that configuration presents itself
          Once,         \* requests without a session are made
          Deadline      \* shutdown may run out of time with requests in flight

ASSUME ServiceAssumption ==
  /\ Main \in Handlers
  /\ None \notin Agents /\ None \notin Proxies
  /\ Carried \subseteq Proxies \cup {None}
  /\ DefaultProxy \in [Configs -> Proxies \cup {None}]
  /\ FixedAgent \in [Configs -> Agents \cup {None}]
  /\ NativeAgent \in [Configs -> Agents]
  /\ Once \in BOOLEAN /\ Deadline \in BOOLEAN

VARIABLES
  diskCfg,    \* init.yaml
  serverCfg,  \* Server.cfg
  serviceCfg, \* Service.cfg
  applyMu,    \* the handler holding Server.applyMu
  userAgent,  \* Service.userAgent, None while empty
  proxyOf,    \* the proxy each session's browser is built with
  agentOf,    \* the user agent each session's browser presents
  stage,      \* where a handler is outside the store
  proxy,      \* req.Proxy of its request
  chosen,     \* the configuration it has in hand
  agent,      \* the user agent it has in hand
  ephemeral,  \* it runs a browser of its own, for one request
  life,       \* of the process
  settled     \* history: no save was in progress since the request arrived

configVars  == <<diskCfg, serverCfg, serviceCfg, applyMu>>
builtVars   == <<proxyOf, agentOf>>
requestVars == <<stage, proxy, chosen, agent, ephemeral, settled>>
serviceVars == <<configVars, userAgent, builtVars, requestVars, life>>

RequestStages == {"none", "create", "once", "peek", "launch", "solve", "stop", "ask",
            "keep", "settings", "save", "publish", "pass"}

ServiceTypeOK ==
  /\ TypeOK
  /\ diskCfg \in Configs /\ serverCfg \in Configs /\ serviceCfg \in Configs
  /\ applyMu \in Handlers \cup {None}
  /\ userAgent \in Agents \cup {None}
  /\ proxyOf \in [Objects -> Proxies \cup {None}]
  /\ agentOf \in [Objects -> Agents \cup {None}]
  /\ stage \in [Handlers -> RequestStages]
  /\ proxy \in [Handlers -> Proxies \cup {None}]
  /\ chosen \in [Handlers -> Configs \cup {None}]
  /\ \A h \in Handlers : stage[h] \in {"peek", "launch"} => chosen[h] \in Configs
  /\ agent \in [Handlers -> Agents \cup {None}]
  /\ ephemeral \in [Handlers -> BOOLEAN]
  /\ life \in {"up", "draining", "closing", "down"}
  /\ settled \in [Handlers -> BOOLEAN]

ServiceInit ==
  /\ Init
  /\ diskCfg = cfg /\ serverCfg = cfg /\ serviceCfg = cfg
  /\ applyMu = None
  /\ userAgent = None
  /\ proxyOf = [s \in Objects |-> None]
  /\ agentOf = [s \in Objects |-> None]
  /\ stage = [h \in Handlers |-> "none"]
  /\ proxy = [h \in Handlers |-> None]
  /\ chosen = [h \in Handlers |-> None]
  /\ agent = [h \in Handlers |-> None]
  /\ ephemeral = [h \in Handlers |-> FALSE]
  /\ life = "up"
  /\ settled = [h \in Handlers |-> FALSE]

-----------------------------------------------------------------------------
Free(h) == pc[h] = "idle" /\ stage[h] = "none"

\* x if it is set, the fallback y otherwise.
OrElse(x, y) == IF x # None THEN x ELSE y

At(h, l) == stage' = [stage EXCEPT ![h] = l]

\* A request of handler h arrives carrying the proxy q; the /v1 route fills in
\* the default proxy of the server's configuration (server.go:145-148).
Arrive(h, q) ==
  /\ Free(h) /\ h # Main /\ life = "up"
  /\ proxy' = [proxy EXCEPT ![h] = OrElse(q, DefaultProxy[serverCfg])]
  /\ settled' = [settled EXCEPT ![h] = applyMu = None]

\* The request leaves the service with nothing in hand.
Leave(h) == /\ At(h, "none")
            /\ proxy' = [proxy EXCEPT ![h] = None]
            /\ chosen' = [chosen EXCEPT ![h] = None]
            /\ agent' = [agent EXCEPT ![h] = None]
            /\ settled' = [settled EXCEPT ![h] = FALSE]

-----------------------------------------------------------------------------
(* Requests for sessions.                                                  *)

RouteCreate(h) ==
  /\ "create" \in Calls
  /\ \E q \in Carried : Arrive(h, q)
  /\ At(h, "create")
  /\ UNCHANGED <<vars, configVars, userAgent, builtVars, chosen, agent, ephemeral, life>>

\* cmdSessionsCreate reads the service's configuration, then calls the store.
CmdCreate(h) ==
  /\ stage[h] = "create"
  /\ \E i \in Ids : CallCreate(h, i)
  /\ At(h, "none")
  /\ proxy' = [proxy EXCEPT ![h] = OrElse(@, DefaultProxy[serviceCfg])]
  /\ UNCHANGED <<configVars, userAgent, builtVars, chosen, agent, ephemeral, settled, life>>

\* request.get and request.post with a session.
RouteSession(h) ==
  /\ \E q \in Carried : Arrive(h, q)
  /\ \E i \in Ids : CallGet(h, i)
  /\ UNCHANGED <<configVars, userAgent, builtVars, stage, chosen, agent, ephemeral, life>>

RouteDestroy(h) ==
  /\ Arrive(h, None)
  /\ \E i \in Ids : CallDestroy(h, i)
  /\ UNCHANGED <<configVars, userAgent, builtVars, stage, chosen, agent, ephemeral, life>>

\* Mutant: the cached user agent wins over the configured one.
ReserveCached(h, s) ==
  /\ Reserve(h, s)
  /\ proxyOf' = [proxyOf EXCEPT ![s] = IF op[h] = "create" THEN proxy[h] ELSE None]
  /\ At(h, "ask")
  /\ UNCHANGED <<configVars, userAgent, agentOf, proxy, chosen, agent, ephemeral,
                 settled, life>>

\* create reserves the entry.  get passes it a nil proxy, whatever the request
\* carries.  The cached user agent is asked for only if none is configured.
ReserveEntry(h, s) ==
  /\ Reserve(h, s)
  /\ proxyOf' = [proxyOf EXCEPT ![s] = IF op[h] = "create" THEN proxy[h] ELSE None]
  /\ agent' = [agent EXCEPT ![h] = FixedAgent[cfg]]
  /\ At(h, IF FixedAgent[cfg] = None THEN "ask" ELSE "none")
  /\ UNCHANGED <<configVars, userAgent, agentOf, proxy, chosen, ephemeral, settled, life>>

AskAgent(h) ==
  /\ stage[h] = "ask"
  /\ agent' = [agent EXCEPT ![h] = userAgent]
  /\ At(h, "none")
  /\ UNCHANGED <<vars, configVars, userAgent, builtVars, proxy, chosen, ephemeral,
                 settled, life>>

FinishBuild(h) ==
  /\ stage[h] = "none"
  /\ \/ /\ BuildOk(h)
        /\ agentOf' = [agentOf EXCEPT ![item[h]] =
                         OrElse(agent[h], NativeAgent[builtWith[item[h]]])]
     \/ /\ BuildFail(h)
        /\ UNCHANGED agentOf
  /\ agent' = [agent EXCEPT ![h] = None]
  /\ UNCHANGED <<configVars, userAgent, proxyOf, stage, proxy, chosen, ephemeral,
                 settled, life>>

\* storeUserAgentFromBrowser: nothing to do if an agent is cached or the
\* browser does not answer, otherwise read it and keep it if none is cached yet.
SkipProbe(h) ==
  /\ stage[h] = "none"
  /\ Probe(h)
  /\ Leave(h)
  /\ UNCHANGED <<configVars, userAgent, builtVars, ephemeral, life>>

ReadAgent(h) ==
  /\ pc[h] = "probe" /\ stage[h] = "none"
  /\ userAgent = None /\ browser[item[h]] = "live"
  /\ agent' = [agent EXCEPT ![h] = agentOf[item[h]]]
  /\ At(h, "keep")
  /\ UNCHANGED <<vars, configVars, userAgent, builtVars, proxy, chosen, ephemeral,
                 settled, life>>

KeepAgent(h) ==
  /\ stage[h] = "keep"
  /\ Probe(h)
  /\ userAgent' = OrElse(userAgent, agent[h])
  /\ Leave(h)
  /\ UNCHANGED <<configVars, builtVars, ephemeral, life>>

\* Resolve returns; a success leaves its user agent in the cache if it is empty.
FinishResolve(h) ==
  /\ Resolved(h)
  /\ userAgent' \in {userAgent, OrElse(userAgent, agentOf[item[h]])}
  /\ Leave(h)
  /\ UNCHANGED <<configVars, builtVars, ephemeral, life>>

-----------------------------------------------------------------------------
(* Requests without a session: resolveChallenge builds a browser, uses it  *)
(* once and closes it.                                                     *)

RouteOnce(h) ==
  /\ Once
  /\ \E q \in Carried : Arrive(h, q)
  /\ At(h, "once")
  /\ UNCHANGED <<vars, configVars, userAgent, builtVars, chosen, agent, ephemeral, life>>

\* runtimeBrowserConfig: the configuration, then the cached user agent, which
\* replaces the configured one even when it is empty.
OnceConfig(h) ==
  /\ stage[h] = "once"
  /\ chosen' = [chosen EXCEPT ![h] = serviceCfg]
  /\ proxy' = [proxy EXCEPT ![h] = OrElse(@, DefaultProxy[serviceCfg])]
  /\ At(h, "peek")
  /\ UNCHANGED <<vars, configVars, userAgent, builtVars, agent, ephemeral, settled, life>>

StartupAgent(c) == userAgent

OncePeek(h) ==
  /\ stage[h] = "peek"
  /\ agent' = [agent EXCEPT ![h] = StartupAgent(chosen[h])]
  /\ At(h, "launch")
  /\ UNCHANGED <<vars, configVars, userAgent, builtVars, proxy, chosen, ephemeral,
                 settled, life>>

OnceLaunch(h) ==
  /\ stage[h] = "launch"
  /\ agent' = [agent EXCEPT ![h] = OrElse(@, NativeAgent[chosen[h]])]
  /\ ephemeral' = [ephemeral EXCEPT ![h] = TRUE]
  /\ At(h, "solve")
  /\ UNCHANGED <<vars, configVars, userAgent, builtVars, proxy, chosen, settled, life>>

OnceFail(h) ==
  /\ stage[h] = "launch"
  /\ Leave(h)
  /\ UNCHANGED <<vars, configVars, userAgent, builtVars, ephemeral, life>>

OnceSolve(h) ==
  /\ stage[h] = "solve"
  /\ userAgent' \in {userAgent, OrElse(userAgent, agent[h])}
  /\ At(h, "stop")
  /\ UNCHANGED <<vars, configVars, builtVars, proxy, chosen, agent, ephemeral, settled, life>>

OnceStop(h) ==
  /\ stage[h] = "stop"
  /\ ephemeral' = [ephemeral EXCEPT ![h] = FALSE]
  /\ Leave(h)
  /\ UNCHANGED <<vars, configVars, userAgent, builtVars, life>>

-----------------------------------------------------------------------------
(* A settings save: POST /api/settings, under applyMu from the snapshot to *)
(* the end of the apply.                                                   *)

PostSettings(h) ==
  /\ "apply" \in Calls
  /\ Free(h) /\ h # Main /\ life = "up"
  /\ At(h, "settings")
  /\ UNCHANGED <<vars, configVars, userAgent, builtVars, proxy, chosen, agent, ephemeral,
                 settled, life>>

LockSettings(h) ==
  /\ stage[h] = "settings" /\ applyMu = None
  /\ applyMu' = h
  /\ At(h, "save")
  /\ UNCHANGED <<vars, diskCfg, serverCfg, serviceCfg, userAgent, builtVars, proxy, chosen,
                 agent, ephemeral, settled, life>>

\* Mutant: a refused save returns with applyMu held.
RefuseLocked(h) ==
  /\ stage[h] = "save"
  /\ Leave(h)
  /\ UNCHANGED <<vars, configVars, userAgent, builtVars, ephemeral, life>>

\* The payload is refused, or init.yaml cannot be written: nothing changes.
RefuseSettings(h) ==
  /\ stage[h] = "save"
  /\ applyMu' = None
  /\ Leave(h)
  /\ UNCHANGED <<vars, diskCfg, serverCfg, serviceCfg, userAgent, builtVars, ephemeral, life>>

SaveConfig(h, c) ==
  /\ stage[h] = "save"
  /\ diskCfg' = c
  /\ chosen' = [chosen EXCEPT ![h] = c]
  /\ At(h, "publish")
  /\ UNCHANGED <<vars, serverCfg, serviceCfg, applyMu, userAgent, builtVars, proxy, agent,
                 ephemeral, settled, life>>

PublishConfig(h) ==
  /\ stage[h] = "publish"
  /\ serverCfg' = chosen[h]
  /\ settled' = [g \in Handlers |-> FALSE]
  /\ At(h, "pass")
  /\ UNCHANGED <<vars, diskCfg, serviceCfg, applyMu, userAgent, builtVars, proxy, chosen,
                 agent, ephemeral, life>>

\* Mutant: the service keeps its old configuration.
PassNothing(h) ==
  /\ stage[h] = "pass"
  /\ CallApply(h)
  /\ At(h, "none")
  /\ UNCHANGED <<configVars, userAgent, builtVars, proxy, chosen, agent, ephemeral,
                 settled, life>>

\* Service.ApplyConfig swaps its own configuration, then the store's, drains
\* the store and forgets the cached user agent.
PassConfig(h) ==
  /\ stage[h] = "pass"
  /\ serviceCfg' = chosen[h]
  /\ CallApply(h)
  /\ At(h, "none")
  /\ UNCHANGED <<diskCfg, serverCfg, applyMu, userAgent, builtVars, proxy, chosen, agent,
                 ephemeral, settled, life>>

\* Mutant: the store is not drained.
InstallUndrained(h) == /\ pc[h] = "install"
                       /\ cfg' = chosen[h]
                       /\ Goto(h, "swept", None)
                       /\ UNCHANGED <<sessions, sessionVars, serviceVars>>

Install(h) == InstallConfig(h, chosen[h]) /\ UNCHANGED serviceVars

FinishApply(h) ==
  /\ Swept(h) /\ op[h] = "apply"
  /\ userAgent' = None
  /\ applyMu' = None
  /\ Leave(h)
  /\ UNCHANGED <<diskCfg, serverCfg, serviceCfg, builtVars, ephemeral, life>>

-----------------------------------------------------------------------------
(* Shutdown.  The listener closes, requests in flight get until the        *)
(* deadline, then Service.Close drains the store and the process exits.    *)

Signal ==
  /\ "shutdown" \in Calls /\ life = "up"
  /\ life' = "draining"
  /\ UNCHANGED <<vars, configVars, userAgent, builtVars, requestVars>>

\* Mutant: an error of the first step skips Service.Close.
CloseNothing ==
  /\ life = "draining"
  /\ life' = "down"
  /\ UNCHANGED <<vars, configVars, userAgent, builtVars, requestVars>>

CloseService ==
  /\ life = "draining"
  /\ Deadline \/ \A h \in Handlers : Free(h)
  /\ life' = "closing"
  /\ CallShutdown(Main)
  /\ UNCHANGED <<configVars, userAgent, builtVars, requestVars>>

FinishShutdown(h) ==
  /\ Swept(h) /\ op[h] = "shutdown"
  /\ life' = "down"
  /\ UNCHANGED <<configVars, userAgent, builtVars, requestVars>>

\* The process has exited: nothing runs any more.
Exited == life = "down" /\ UNCHANGED <<vars, serviceVars>>

-----------------------------------------------------------------------------
\* Steps inside the store that the service adds nothing to.
StoreStep(h) ==
  /\ \/ Evict(h) \/ Join(h) \/ Unlist(h) \/ Present(h) \/ Absent(h)
     \/ AwaitFailed(h) \/ AwaitDone(h) \/ Renew(h)
     \/ Unlink(h) \/ UnlinkMissing(h) \/ Sweep(h)
     \/ CloseStep(h) \/ Lock(h) \/ Refuse(h)
  /\ IF pc'[h] = "idle" THEN Leave(h)
     ELSE UNCHANGED <<stage, proxy, chosen, agent, settled>>
  /\ UNCHANGED <<configVars, userAgent, builtVars, ephemeral, life>>

RequestStep(h) ==
  \/ StoreStep(h) \/ CmdCreate(h) \/ (\E s \in Objects : ReserveEntry(h, s))
  \/ AskAgent(h) \/ FinishBuild(h) \/ SkipProbe(h) \/ ReadAgent(h) \/ KeepAgent(h)
  \/ FinishResolve(h)
  \/ OnceConfig(h) \/ OncePeek(h) \/ OnceLaunch(h) \/ OnceFail(h) \/ OnceSolve(h) \/ OnceStop(h)
  \/ LockSettings(h) \/ RefuseSettings(h) \/ (\E c \in Configs : SaveConfig(h, c))
  \/ PublishConfig(h) \/ PassConfig(h) \/ Install(h) \/ FinishApply(h)
  \/ FinishShutdown(h)

NewRequest(h) == \/ RouteCreate(h) \/ RouteSession(h) \/ RouteDestroy(h) \/ RouteOnce(h)
                 \/ PostSettings(h)

World(s) ==
  \/ Age(s) /\ UNCHANGED serviceVars
  \/ /\ Collect(s)
     /\ proxyOf' = [proxyOf EXCEPT ![s] = None]
     /\ agentOf' = [agentOf EXCEPT ![s] = None]
     /\ UNCHANGED <<configVars, userAgent, requestVars, life>>

Up == life # "down"

ServiceNext ==
  \/ /\ Up
     /\ \/ \E h \in Handlers : NewRequest(h) \/ RequestStep(h)
        \/ \E s \in Objects : World(s)
        \/ Signal \/ CloseService
  \/ Exited

serviceAll == <<vars, serviceVars>>

ServiceSpec == ServiceInit /\ [][ServiceNext]_serviceAll

\* As in SessionStore; applyMu is one more Go mutex that is waited for.  All of it
\* ends with the process: main returns from Shutdown whatever is still in flight.
ServiceFairness == /\ \A h \in Handlers : SF_serviceAll(Up /\ RequestStep(h))
                   /\ \A s \in Objects : WF_serviceAll(Up /\ Collect(s) /\ World(s))
                   /\ WF_serviceAll(CloseService)

FairService == ServiceSpec /\ ServiceFairness

-----------------------------------------------------------------------------
(* Properties.                                                             *)

\* The service uses the store only through its calls, so that what holds of
\* the store holds of it inside the service.
KeepsStore == Spec

\* Between saves init.yaml, the server, the service and the store agree on the
\* configuration, whatever saves raced and failed (settings.go:118-121).
ConfigLayersAgree ==
  applyMu = None => /\ diskCfg = serverCfg
                    /\ serverCfg = serviceCfg
                    /\ serviceCfg = cfg

\* The parts of the inductive invariant behind it.  A save is in progress from
\* the moment its handler has applyMu until the store is drained.
InProgress(h) == stage[h] \in {"save", "publish", "pass"} \/ op[h] = "apply"

SaveStages ==
  /\ stage[Main] \notin {"settings", "save", "publish", "pass"}
  /\ \A h \in Handlers :
       /\ op[h] = "apply" => pc[h] \in {"install", "sweep", "drain", "swept"}
                              /\ stage[h] = "none"
       /\ pc[h] = "install" => op[h] = "apply"
       /\ stage[h] \in {"settings", "save", "publish", "pass"} => pc[h] = "idle"

SavesExclude == \A h \in Handlers : InProgress(h) => applyMu = h

\* How far each stage of a save has brought the new configuration.
Agreed == diskCfg = serverCfg /\ serverCfg = serviceCfg /\ serviceCfg = cfg

Layers ==
  /\ \A h \in Handlers :
       /\ stage[h] \in {"publish", "pass"} \/ pc[h] = "install" =>
            chosen[h] \in Configs /\ diskCfg = chosen[h]
       /\ stage[h] = "publish" => serverCfg = serviceCfg /\ serviceCfg = cfg
       /\ stage[h] = "pass" => serverCfg = chosen[h] /\ serviceCfg = cfg
       /\ pc[h] = "install" => serverCfg = chosen[h] /\ serviceCfg = chosen[h]
  /\ (\A h \in Handlers : stage[h] \notin {"publish", "pass"} /\ pc[h] # "install")
     => Agreed

ConfigInv == SaveStages /\ SavesExclude /\ Layers

\* An object that is allocated has a configuration its browser is built from.
BuiltConfigured == \A s \in Objects : Allocated(s) => builtWith[s] \in Configs

\* The invariant of the service: the store's, and the copies of the configuration
\* that agree between saves because each stage of a save knows how far it has come,
\* and saves exclude each other until the store is drained (settings.go:118-126).
ServiceInv ==
  IInv /\ ServiceTypeOK /\ BuiltConfigured /\ ConfigInv /\ ConfigLayersAgree

\* README.md:138: a request that arrives after a save has finished runs in a
\* browser built from the saved configuration, until the next save.
NextRequestsUseNewConfig ==
  \A h \in Handlers : settled[h] =>
    /\ pc[h] = "resolve" => builtWith[item[h]] = serverCfg
    /\ stage[h] = "solve" => chosen[h] = serverCfg

\* A configured startup user agent is presented by every session's browser.
SessionsPresentFixedAgent ==
  \A s \in Objects : browser[s] = "live" /\ FixedAgent[builtWith[s]] # None =>
    agentOf[s] = FixedAgent[builtWith[s]]

\* An orderly shutdown leaves no browser behind.
ShutdownLeavesNoBrowser ==
  life = "down" => /\ \A s \in Objects : browser[s] # "live"
                   /\ \A h \in Handlers : ~ephemeral[h]

\* Every request is answered, with its ephemeral browser closed, and every
\* settings save gets applyMu, drains the store and releases it, however many
\* requests and other saves are in flight; or the process exits first, which it
\* may once a shutdown has begun (main.go: it waits for Shutdown, not for them).
RequestsAreAnswered ==
  \A h \in Handlers : ~Free(h) ~> (Free(h) /\ ~ephemeral[h]) \/ ~Up

\* A shutdown comes to its end, also when its deadline passes with requests
\* in flight: the drain waits for them, and they do not wait for the drain.
ShutdownEnds == life = "draining" ~> life = "down"

=============================================================================
