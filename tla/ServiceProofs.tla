---------------------------- MODULE ServiceProofs ----------------------------
(* The service uses the session store only through its calls, so that what *)
(* is proved of the store holds of it inside the service; settings saves   *)
(* keep the four copies of the configuration together and reach the next   *)
(* requests; and an orderly shutdown leaves no browser behind.             *)
EXTENDS Service, SessionRefinement

\* Every step of the service is a step of the store or leaves it alone.
LEMMA ServiceStepIsStoreStep == Layers /\ [ServiceNext]_serviceAll => [Next]_vars
<1> SUFFICES ASSUME Layers, [ServiceNext]_serviceAll PROVE Next \/ UNCHANGED vars
  OBVIOUS
<1>1. ASSUME NEW h \in Handlers, NewRequest(h) PROVE Next \/ UNCHANGED vars
  <2>1. CASE RouteCreate(h) \/ RouteOnce(h) \/ PostSettings(h)
    BY <2>1 DEF RouteCreate, RouteOnce, PostSettings
  <2>2. CASE RouteSession(h) \/ RouteDestroy(h)
    BY <2>2 DEF RouteSession, RouteDestroy, Next, NewCall
  <2> QED BY <1>1, <2>1, <2>2 DEF NewRequest
<1>2. ASSUME NEW h \in Handlers, RequestStep(h) PROVE Next \/ UNCHANGED vars
  <2>1. CASE StoreStep(h)
    BY <2>1 DEF StoreStep, Next, Step, CreateStep, DestroyStep, UseStep
  <2>2. CASE CmdCreate(h)
    BY <2>2 DEF CmdCreate, Next, NewCall
  <2>3. ASSUME NEW s \in Objects, ReserveEntry(h, s) PROVE Next
    BY <2>3 DEF ReserveEntry, Next, Step, CreateStep
  <2>4. CASE FinishBuild(h)
    BY <2>4 DEF FinishBuild, Next, Step, CreateStep
  <2>5. CASE SkipProbe(h) \/ KeepAgent(h) \/ FinishResolve(h)
    BY <2>5 DEF SkipProbe, KeepAgent, FinishResolve, Next, Step, UseStep
  <2>6. CASE AskAgent(h) \/ ReadAgent(h)
    BY <2>6 DEF AskAgent, ReadAgent
  <2>7. CASE OnceConfig(h) \/ OncePeek(h) \/ OnceLaunch(h) \/ OnceFail(h) \/ OnceSolve(h)
             \/ OnceStop(h)
    BY <2>7 DEF OnceConfig, OncePeek, OnceLaunch, OnceFail, OnceSolve, OnceStop
  <2>8. CASE LockSettings(h) \/ RefuseSettings(h) \/ PublishConfig(h)
             \/ \E c \in Configs : SaveConfig(h, c)
    BY <2>8 DEF LockSettings, RefuseSettings, PublishConfig, SaveConfig
  <2>9. CASE PassConfig(h)
    BY <2>9 DEF PassConfig, Next, NewCall
  <2>10. CASE FinishApply(h) \/ FinishShutdown(h)
    BY <2>10 DEF FinishApply, FinishShutdown, Next, Step, DestroyStep
  <2>11. CASE Install(h)
    <3>1. chosen[h] \in Configs
      BY <2>11 DEF Install, InstallConfig, Layers
    <3> QED BY <2>11, <3>1 DEF Install, Next, Step, DestroyStep
  <2> QED BY <1>2, <2>1, <2>2, <2>3, <2>4, <2>5, <2>6, <2>7, <2>8, <2>9, <2>10, <2>11
             DEF RequestStep
<1>3. ASSUME NEW s \in Objects, World(s) PROVE Next
  BY <1>3 DEF World, Next, Environment
<1>4. CASE Signal \/ Exited
  BY <1>4 DEF Signal, Exited
<1>5. CASE CloseService
  BY <1>5, ServiceAssumption DEF CloseService, Next, NewCall
<1>6. CASE UNCHANGED serviceAll
  BY <1>6 DEF serviceAll
<1> QED BY <1>1, <1>2, <1>3, <1>4, <1>5, <1>6 DEF ServiceNext, Up

-----------------------------------------------------------------------------
(* What a step of the store that is not the service's own does to a save.  *)

Quiet(h) ==
  /\ cfg' = cfg
  /\ pc[h] \notin {"idle", "install"}
  /\ \A g \in Handlers \ {h} : pc'[g] = pc[g] /\ op'[g] = op[g]
  /\ pc'[h] # "install"
  /\ op'[h] = "apply" => op[h] = "apply" /\ pc'[h] \in {"sweep", "drain", "swept"}

\* A handler inside the store keeps the store's configuration, never starts to
\* install one, and a save in progress stays one until its drain is over.
LEMMA StoreIsQuiet ==
  ASSUME TypeOK, SaveStages, NEW h \in Handlers,
         CreateStep(h) \/ Unlink(h) \/ UnlinkMissing(h) \/ Sweep(h) \/ CloseStep(h)
         \/ UseStep(h) \/ Swept(h)
  PROVE  Quiet(h)
<1>a. pc \in [Handlers -> Places] /\ op \in [Handlers -> Ops \cup {None}]
  BY DEF TypeOK
<1>b. op[h] = "apply" => pc[h] \in {"install", "sweep", "drain", "swept"}
  BY DEF SaveStages
<1>c. None # "apply"
  BY CallsAssumption DEF Ops
<1> USE <1>a, <1>b, <1>c DEF Goto, Return, Quiet
<1>1. CASE CreateStep(h)
  <2>0. CASE Evict(h) \/ Join(h)
    BY <2>0 DEF Evict, Join, LookingUp, storeVars
  <2>1. ASSUME NEW s \in Objects, Reserve(h, s)
        PROVE  /\ cfg' = cfg /\ op' = op
               /\ \A g \in Handlers \ {h} : pc'[g] = pc[g]
               /\ pc'[h] # "install" /\ op[h] # "apply"
               /\ pc[h] \notin {"idle", "install"}
    BY <2>1 DEF Reserve, LookingUp
  <2>2. CASE BuildOk(h) \/ BuildFail(h) \/ Unlist(h) \/ Present(h) \/ Absent(h)
    BY <2>2 DEF BuildOk, BuildFail, Unlist, Present, Absent, storeVars
  <2>3. CASE AwaitFailed(h) \/ AwaitDone(h) \/ Renew(h)
    BY <2>3 DEF AwaitFailed, AwaitDone, Renew, storeVars
  <2> QED BY <1>1, <2>0, <2>1, <2>2, <2>3 DEF CreateStep
<1>2. CASE Unlink(h) \/ UnlinkMissing(h) \/ Swept(h)
  BY <1>2 DEF Unlink, UnlinkMissing, Swept, storeVars
<1>3. CASE Sweep(h)
  BY <1>3 DEF Sweep, CloseNext
<1>4. CASE CloseBegin(h)
  BY <1>4 DEF CloseBegin, CanClose, Closing, storeVars, handlerVars
<1>5. CASE CloseSkip(h) \/ CloseEnd(h)
  BY <1>5 DEF CloseSkip, CloseEnd, CanClose, AfterClose, CloseNext, Closing, storeVars
<1>6. CASE UseStep(h)
  BY <1>6 DEF UseStep, Probe, Lock, Refuse, Resolved, storeVars
<1> QED BY <1>1, <1>2, <1>3, <1>4, <1>5, <1>6 DEF CloseStep

SettingsStages == {"settings", "save", "publish", "pass"}

\* A step of handler h that changes no configuration and takes no part in a
\* save, except that it may go on draining the store for one.
Aside(h) ==
  /\ UNCHANGED <<configVars, cfg>>
  /\ stage[h] \notin {"publish", "pass"} /\ pc[h] # "install"
  /\ \A g \in Handlers \ {h} : /\ pc'[g] = pc[g] /\ op'[g] = op[g]
                              /\ stage'[g] = stage[g] /\ chosen'[g] = chosen[g]
  /\ stage'[h] \notin SettingsStages /\ pc'[h] # "install"
  /\ op'[h] = "apply" => /\ op[h] = "apply" /\ stage'[h] = "none"
                         /\ pc'[h] \in {"sweep", "drain", "swept"}

LEMMA AsideKeeps ==
  ASSUME ConfigInv, NEW h \in Handlers, Aside(h)
  PROVE  ConfigInv'
<1>1. SaveStages'
  BY ServiceAssumption DEF ConfigInv, SaveStages, Aside, SettingsStages
<1>2. SavesExclude'
  BY DEF ConfigInv, SavesExclude, InProgress, Aside, SettingsStages, configVars
<1>3. Layers'
  <2>1. ASSUME NEW g \in Handlers, stage'[g] \in {"publish", "pass"} \/ pc'[g] = "install"
        PROVE  /\ g # h /\ stage'[g] = stage[g] /\ pc'[g] = pc[g] /\ chosen'[g] = chosen[g]
    BY <2>1 DEF Aside, SettingsStages
  <2>2. ASSUME \A g \in Handlers : stage'[g] \notin {"publish", "pass"} /\ pc'[g] # "install"
        PROVE  \A g \in Handlers : stage[g] \notin {"publish", "pass"} /\ pc[g] # "install"
    BY <2>2 DEF Aside, SettingsStages
  <2> QED BY <2>1, <2>2 DEF ConfigInv, Layers, Agreed, Aside, configVars
<1> QED BY <1>1, <1>2, <1>3 DEF ConfigInv

\* Requests arrive, and the ones that are served outside the store go on.
LEMMA RequestsStandAside ==
  ASSUME ServiceTypeOK, SaveStages, NEW h \in Handlers,
         \/ RouteCreate(h) \/ RouteSession(h) \/ RouteDestroy(h) \/ RouteOnce(h)
         \/ CmdCreate(h) \/ AskAgent(h) \/ ReadAgent(h)
         \/ OnceConfig(h) \/ OncePeek(h) \/ OnceLaunch(h) \/ OnceFail(h)
         \/ OnceSolve(h) \/ OnceStop(h)
  PROVE  Aside(h)
<1>a. /\ pc \in [Handlers -> Places] /\ op \in [Handlers -> Ops \cup {None}]
      /\ stage \in [Handlers -> RequestStages] /\ chosen \in [Handlers -> Configs \cup {None}]
  BY DEF ServiceTypeOK, TypeOK
<1>b. /\ op[h] = "apply" => pc[h] \in {"install", "sweep", "drain", "swept"}
                            /\ stage[h] = "none"
      /\ pc[h] = "install" => op[h] = "apply"
      /\ stage[h] \in SettingsStages => pc[h] = "idle"
  BY DEF SaveStages, SettingsStages
<1> USE <1>a, <1>b DEF Aside, SettingsStages, At, Leave, storeVars, sessionVars, handlerVars
<1>1. CASE RouteCreate(h) \/ RouteOnce(h)
  BY <1>1 DEF RouteCreate, RouteOnce, Arrive, Free, vars
<1>2. CASE RouteSession(h) \/ RouteDestroy(h)
  BY <1>2 DEF RouteSession, RouteDestroy, Arrive, Free, CallGet, CallDestroy, Call
<1>3. CASE CmdCreate(h)
  BY <1>3 DEF CmdCreate, CallCreate, Call
<1>4. CASE AskAgent(h) \/ ReadAgent(h)
  BY <1>4 DEF AskAgent, ReadAgent, vars
<1>5. CASE OnceConfig(h) \/ OncePeek(h) \/ OnceLaunch(h)
  BY <1>5 DEF OnceConfig, OncePeek, OnceLaunch, vars
<1>6. CASE OnceFail(h) \/ OnceSolve(h) \/ OnceStop(h)
  BY <1>6 DEF OnceFail, OnceSolve, OnceStop, vars
<1> QED BY <1>1, <1>2, <1>3, <1>4, <1>5, <1>6

\* So do the steps the service takes inside the store, but for the save's own.
LEMMA StoreStepsStandAside ==
  ASSUME ServiceTypeOK, SaveStages, NEW h \in Handlers,
         \/ StoreStep(h) \/ FinishBuild(h) \/ SkipProbe(h) \/ KeepAgent(h)
         \/ FinishResolve(h) \/ FinishShutdown(h)
         \/ \E s \in Objects : ReserveEntry(h, s)
  PROVE  Aside(h)
<1>a. TypeOK /\ stage \in [Handlers -> RequestStages] /\ chosen \in [Handlers -> Configs \cup {None}]
  BY DEF ServiceTypeOK
<1>b. /\ op[h] = "apply" => stage[h] = "none"
      /\ stage[h] \in SettingsStages => pc[h] = "idle"
  BY DEF SaveStages, SettingsStages
<1>c. op' = op => (op'[h] = "apply" => op[h] = "apply")
  OBVIOUS
<1> USE <1>b DEF Aside, SettingsStages, At, Leave, Quiet
<1>1. CASE StoreStep(h)
  <2>1. Quiet(h)
    BY <1>a, <1>1, StoreIsQuiet DEF StoreStep, CreateStep, UseStep
  <2> QED BY <1>a, <1>1, <2>1 DEF StoreStep
<1>2. CASE FinishBuild(h)
  <2>1. Quiet(h)
    BY <1>a, <1>2, StoreIsQuiet DEF FinishBuild, CreateStep
  <2> QED BY <1>a, <1>2, <2>1 DEF FinishBuild
<1>3. CASE SkipProbe(h) \/ KeepAgent(h) \/ FinishResolve(h)
  <2>1. Quiet(h)
    BY <1>a, <1>3, StoreIsQuiet DEF SkipProbe, KeepAgent, FinishResolve, UseStep
  <2> QED BY <1>a, <1>3, <2>1 DEF SkipProbe, KeepAgent, FinishResolve
<1>4. CASE FinishShutdown(h)
  <2>1. Quiet(h)
    BY <1>a, <1>4, StoreIsQuiet DEF FinishShutdown
  <2> QED BY <1>a, <1>4, <2>1 DEF FinishShutdown, requestVars
<1>5. ASSUME NEW s \in Objects, ReserveEntry(h, s) PROVE Aside(h)
  <2>1. Quiet(h)
    BY <1>a, <1>5, StoreIsQuiet DEF ReserveEntry, CreateStep
  <2>2. op[h] # "apply"
    BY <1>5 DEF ReserveEntry, Reserve, LookingUp, SaveStages
  <2>3. op'[h] # "apply"
    BY <2>1, <2>2
  <2> QED BY <1>a, <1>5, <2>1, <2>3 DEF ReserveEntry
<1> QED BY <1>1, <1>2, <1>3, <1>4, <1>5

-----------------------------------------------------------------------------
(* The steps of a save, under applyMu.                                     *)

\* Nobody else is in the middle of a save while h is.
LEMMA OneSave ==
  ASSUME SavesExclude, NEW h \in Handlers, NEW g \in Handlers, g # h, InProgress(h)
  PROVE  ~InProgress(g)
  BY DEF SavesExclude

LEMMA SaveKeeps ==
  ASSUME ServiceTypeOK, ConfigInv, NEW h \in Handlers,
         \/ PostSettings(h) \/ LockSettings(h) \/ RefuseSettings(h)
         \/ (\E c \in Configs : SaveConfig(h, c)) \/ PublishConfig(h) \/ PassConfig(h)
         \/ Install(h) \/ FinishApply(h)
  PROVE  ConfigInv'
<1>a. /\ pc \in [Handlers -> Places] /\ op \in [Handlers -> Ops \cup {None}]
      /\ stage \in [Handlers -> RequestStages] /\ chosen \in [Handlers -> Configs \cup {None}]
      /\ applyMu \in Handlers \cup {None} /\ None \notin Handlers /\ Main \in Handlers
      /\ None # "apply"
  BY ServiceAssumption, StoreAssumption, CallsAssumption DEF ServiceTypeOK, TypeOK, Ops
<1>b. SaveStages /\ SavesExclude /\ Layers
  BY DEF ConfigInv
<1> USE <1>a, <1>b DEF At, InProgress
<1>1. CASE PostSettings(h)
  <2>0. UNCHANGED <<pc, op, cfg, chosen, diskCfg, serverCfg, serviceCfg, applyMu>>
        /\ stage' = [stage EXCEPT ![h] = "settings"] /\ stage[h] = "none" /\ pc[h] = "idle"
        /\ h # Main
    BY <1>1 DEF PostSettings, Free, vars, storeVars, handlerVars, configVars
  <2>1. SaveStages'
    BY <2>0 DEF SaveStages
  <2>2. SavesExclude'
    BY <2>0 DEF SavesExclude
  <2>3. Layers'
    BY <2>0 DEF Layers, Agreed
  <2> QED BY <2>1, <2>2, <2>3 DEF ConfigInv
<1>2. CASE LockSettings(h)
  <2>0. UNCHANGED <<pc, op, cfg, chosen, diskCfg, serverCfg, serviceCfg>> /\ applyMu' = h
        /\ stage' = [stage EXCEPT ![h] = "save"] /\ stage[h] = "settings" /\ applyMu = None
    BY <1>2 DEF LockSettings, vars, storeVars, handlerVars
  <2>1. SaveStages'
    BY <2>0 DEF SaveStages
  <2>2. SavesExclude'
    BY <2>0 DEF SavesExclude
  <2>3. Layers'
    BY <2>0 DEF Layers, Agreed
  <2> QED BY <2>1, <2>2, <2>3 DEF ConfigInv
<1>3. CASE RefuseSettings(h)
  <2>0. /\ UNCHANGED <<pc, op, cfg, diskCfg, serverCfg, serviceCfg>> /\ applyMu' = None
        /\ stage' = [stage EXCEPT ![h] = "none"] /\ stage[h] = "save"
        /\ chosen' = [chosen EXCEPT ![h] = None]
    BY <1>3 DEF RefuseSettings, Leave, vars, storeVars, handlerVars
  <2>1. SaveStages'
    BY <2>0 DEF SaveStages
  <2>2. SavesExclude'
    BY <2>0, <2>1 DEF SavesExclude, SaveStages
  <2>3. Layers'
    BY <2>0, <2>1 DEF Layers, Agreed, SaveStages
  <2> QED BY <2>1, <2>2, <2>3 DEF ConfigInv
<1>4. ASSUME NEW c \in Configs, SaveConfig(h, c) PROVE ConfigInv'
  <2>0. /\ UNCHANGED <<pc, op, cfg, serverCfg, serviceCfg, applyMu>> /\ diskCfg' = c
        /\ stage' = [stage EXCEPT ![h] = "publish"] /\ stage[h] = "save"
        /\ chosen' = [chosen EXCEPT ![h] = c]
    BY <1>4 DEF SaveConfig, vars, storeVars, handlerVars
  <2>1. SaveStages'
    BY <2>0 DEF SaveStages
  <2>2. SavesExclude'
    BY <2>0 DEF SavesExclude
  <2>3. \A g \in Handlers \ {h} : stage[g] \notin {"publish", "pass"} /\ pc[g] # "install"
    BY <2>0, OneSave DEF SaveStages
  <2>4. Layers'
    BY <2>0, <2>3 DEF Layers, Agreed, SaveStages
  <2> QED BY <2>1, <2>2, <2>4 DEF ConfigInv
<1>5. CASE PublishConfig(h)
  <2>0. /\ UNCHANGED <<pc, op, cfg, diskCfg, serviceCfg, applyMu, chosen>>
        /\ serverCfg' = chosen[h]
        /\ stage' = [stage EXCEPT ![h] = "pass"] /\ stage[h] = "publish"
    BY <1>5 DEF PublishConfig, vars, storeVars, handlerVars
  <2>1. SaveStages'
    BY <2>0 DEF SaveStages
  <2>2. SavesExclude'
    BY <2>0 DEF SavesExclude
  <2>3. \A g \in Handlers \ {h} : stage[g] \notin {"publish", "pass"} /\ pc[g] # "install"
    BY <2>0, OneSave DEF SaveStages
  <2>4. Layers'
    BY <2>0, <2>3 DEF Layers, Agreed, SaveStages
  <2> QED BY <2>1, <2>2, <2>4 DEF ConfigInv
<1>6. CASE PassConfig(h)
  <2>0. /\ UNCHANGED <<cfg, diskCfg, serverCfg, applyMu, chosen>>
        /\ serviceCfg' = chosen[h]
        /\ pc' = [pc EXCEPT ![h] = "install"] /\ op' = [op EXCEPT ![h] = "apply"]
        /\ stage' = [stage EXCEPT ![h] = "none"] /\ stage[h] = "pass"
    BY <1>6 DEF PassConfig, CallApply, Call, storeVars
  <2>1. SaveStages'
    BY <2>0 DEF SaveStages
  <2>2. SavesExclude'
    BY <2>0 DEF SavesExclude
  <2>3. \A g \in Handlers \ {h} : stage[g] \notin {"publish", "pass"} /\ pc[g] # "install"
    BY <2>0, OneSave DEF SaveStages
  <2>4. Layers'
    BY <2>0, <2>3 DEF Layers, Agreed, SaveStages
  <2> QED BY <2>1, <2>2, <2>4 DEF ConfigInv
<1>7. CASE Install(h)
  <2>0. /\ UNCHANGED <<diskCfg, serverCfg, serviceCfg, applyMu, chosen, stage, op>>
        /\ cfg' = chosen[h] /\ pc[h] = "install" /\ op[h] = "apply"
        /\ pc' = [pc EXCEPT ![h] = "sweep"]
    BY <1>7 DEF Install, InstallConfig, Goto, serviceVars, configVars, requestVars, SaveStages
  <2>1. SaveStages'
    BY <2>0 DEF SaveStages
  <2>2. SavesExclude'
    BY <2>0 DEF SavesExclude
  <2>3. \A g \in Handlers \ {h} : stage[g] \notin {"publish", "pass"} /\ pc[g] # "install"
    BY <2>0, OneSave DEF SaveStages
  <2>4. Layers'
    BY <2>0, <2>3 DEF Layers, Agreed, SaveStages
  <2> QED BY <2>1, <2>2, <2>4 DEF ConfigInv
<1>8. CASE FinishApply(h)
  <2>0. /\ UNCHANGED <<cfg, diskCfg, serverCfg, serviceCfg>> /\ applyMu' = None
        /\ pc[h] = "swept" /\ op[h] = "apply"
        /\ pc' = [pc EXCEPT ![h] = "idle"] /\ op' = [op EXCEPT ![h] = None]
        /\ stage' = [stage EXCEPT ![h] = "none"] /\ chosen' = [chosen EXCEPT ![h] = None]
    BY <1>8 DEF FinishApply, Swept, Return, Leave, storeVars
  <2>1. SaveStages'
    BY <2>0 DEF SaveStages
  <2>2. SavesExclude'
    BY <2>0 DEF SavesExclude
  <2>3. Layers'
    BY <2>0 DEF Layers, Agreed, SaveStages
  <2> QED BY <2>1, <2>2, <2>3 DEF ConfigInv
<1> QED BY <1>1, <1>2, <1>3, <1>4, <1>5, <1>6, <1>7, <1>8

-----------------------------------------------------------------------------
(* Types.                                                                  *)

LEMMA BuiltConfiguredNext ==
  ASSUME TypeOK, BuiltConfigured, [Next]_vars
  PROVE  BuiltConfigured'
<1>1. ASSUME NEW h \in Handlers,
             \/ CallApply(h) \/ CallShutdown(h)
             \/ \E i \in Ids : CallCreate(h, i) \/ CallGet(h, i) \/ CallDestroy(h, i)
      PROVE  BuiltConfigured'
  BY <1>1 DEF CallCreate, CallGet, CallDestroy, CallApply, CallShutdown, Call, sessionVars,
              BuiltConfigured, Allocated
<1>2. ASSUME NEW h \in Handlers, Step(h) PROVE BuiltConfigured'
  <2>1. ASSUME NEW s \in Objects, Reserve(h, s) PROVE BuiltConfigured'
    BY <2>1 DEF Reserve, BuiltConfigured, Allocated, TypeOK
  <2>2. CASE UNCHANGED <<idOf, builtWith>>
    BY <2>2 DEF BuiltConfigured, Allocated
  <2>3. CASE Evict(h) \/ Join(h) \/ BuildOk(h) \/ BuildFail(h) \/ Unlist(h) \/ Present(h)
             \/ Absent(h) \/ AwaitFailed(h) \/ AwaitDone(h) \/ Renew(h)
    BY <2>2, <2>3 DEF Evict, Join, BuildOk, BuildFail, Unlist, Present, Absent, AwaitFailed,
                      AwaitDone, Renew, sessionVars
  <2>4. CASE DestroyStep(h)
    BY <2>2, <2>4 DEF DestroyStep, Unlink, UnlinkMissing, InstallConfig, Sweep, Swept, sessionVars
  <2>5. CASE CloseStep(h) \/ UseStep(h)
    BY <2>2, <2>5 DEF CloseStep, CloseBegin, CloseSkip, CloseEnd, UseStep, Probe, Refuse, Lock,
                      Resolved, sessionVars
  <2> QED BY <1>2, <2>1, <2>3, <2>4, <2>5 DEF Step, CreateStep
<1>3. ASSUME NEW s \in Objects, Age(s) \/ Collect(s) PROVE BuiltConfigured'
  BY <1>3 DEF Age, Collect, BuiltConfigured, Allocated, TypeOK
<1>4. CASE UNCHANGED vars
  BY <1>4 DEF vars, sessionVars, BuiltConfigured, Allocated
<1> QED BY <1>1, <1>2, <1>3, <1>4, NextCases

LEMMA ServiceTypes ==
  ASSUME ServiceTypeOK, TypeOK', Layers, References, BuiltConfigured, [ServiceNext]_serviceAll
  PROVE  ServiceTypeOK'
<1>a. /\ Main \in Handlers /\ Carried \subseteq Proxies \cup {None}
      /\ DefaultProxy \in [Configs -> Proxies \cup {None}]
      /\ FixedAgent \in [Configs -> Agents \cup {None}]
      /\ NativeAgent \in [Configs -> Agents]
  BY ServiceAssumption
<1> USE <1>a DEF ServiceTypeOK, configVars, builtVars, requestVars, At, Leave, OrElse,
                 RequestStages
<1>1. ASSUME NEW h \in Handlers, NewRequest(h) PROVE ServiceTypeOK'
  <2>1. CASE RouteCreate(h)
    BY <2>1 DEF RouteCreate, Arrive
  <2>4. CASE RouteOnce(h)
    BY <2>4 DEF RouteOnce, Arrive
  <2>2. CASE RouteSession(h) \/ RouteDestroy(h)
    BY <2>2 DEF RouteSession, RouteDestroy, Arrive
  <2>3. CASE PostSettings(h)
    BY <2>3 DEF PostSettings
  <2> QED BY <1>1, <2>1, <2>2, <2>3, <2>4 DEF NewRequest
<1>2. ASSUME NEW h \in Handlers,
             StoreStep(h) \/ CmdCreate(h) \/ AskAgent(h) \/ SkipProbe(h) \/ KeepAgent(h)
      PROVE  ServiceTypeOK'
  <2>1. CASE StoreStep(h)
    <3>1. UNCHANGED <<configVars, userAgent, builtVars, ephemeral, life>>
      BY <2>1 DEF StoreStep
    <3>2. Leave(h) \/ UNCHANGED <<stage, proxy, chosen, agent, settled>>
      BY <2>1 DEF StoreStep
    <3> QED BY <3>1, <3>2
  <2>2. CASE CmdCreate(h)
    BY <2>2 DEF CmdCreate
  <2>3. CASE AskAgent(h)
    BY <2>3 DEF AskAgent
  <2>4. CASE SkipProbe(h)
    BY <2>4 DEF SkipProbe
  <2>5. CASE KeepAgent(h)
    BY <2>5 DEF KeepAgent
  <2> QED BY <1>2, <2>1, <2>2, <2>3, <2>4, <2>5
<1>3. ASSUME NEW h \in Handlers, NEW s \in Objects, ReserveEntry(h, s) PROVE ServiceTypeOK'
  BY <1>3 DEF ReserveEntry, TypeOK
<1>4. ASSUME NEW h \in Handlers, FinishBuild(h) PROVE ServiceTypeOK'
  <2>1. /\ UNCHANGED <<configVars, userAgent, proxyOf, stage, proxy, chosen, ephemeral,
                       settled, life>>
        /\ agent' = [agent EXCEPT ![h] = None]
    BY <1>4 DEF FinishBuild
  <2>2. agentOf' \in [Objects -> Agents \cup {None}]
    <3>1. CASE UNCHANGED agentOf
      BY <3>1
    <3>2. CASE BuildOk(h) /\ agentOf' = [agentOf EXCEPT ![item[h]] =
                               OrElse(agent[h], NativeAgent[builtWith[item[h]]])]
      <4>1. item[h] \in Objects /\ builtWith[item[h]] \in Configs
        BY <3>2, StoreAssumption DEF BuildOk, References, Holds, BuiltConfigured, TypeOK
      <4>2. OrElse(agent[h], NativeAgent[builtWith[item[h]]]) \in Agents \cup {None}
        BY <4>1
      <4> QED BY <3>2, <4>2
    <3> QED BY <1>4, <3>1, <3>2 DEF FinishBuild
  <2> QED BY <2>1, <2>2
<1>5. ASSUME NEW h \in Handlers, ReadAgent(h) \/ FinishResolve(h) PROVE ServiceTypeOK'
  <2>0. item[h] \in Objects
    <3>1. pc[h] \in {"probe", "resolve"}
      BY <1>5 DEF ReadAgent, FinishResolve, Resolved
    <3>2. item[h] # None
      BY <3>1 DEF References
    <3> QED BY <3>2 DEF TypeOK
  <2>1. CASE ReadAgent(h)
    BY <2>0, <2>1 DEF ReadAgent
  <2>2. CASE FinishResolve(h)
    BY <2>0, <2>2 DEF FinishResolve
  <2> QED BY <1>5, <2>1, <2>2
<1>6. ASSUME NEW h \in Handlers,
             \/ OnceConfig(h) \/ OncePeek(h) \/ OnceLaunch(h) \/ OnceFail(h) \/ OnceSolve(h)
             \/ OnceStop(h)
      PROVE  ServiceTypeOK'
  <2>1. CASE OnceConfig(h)
    BY <2>1 DEF OnceConfig
  <2>2. CASE OncePeek(h)
    BY <2>2 DEF OncePeek, StartupAgent
  <2>4. CASE OnceLaunch(h)
    <3>1. NativeAgent[chosen[h]] \in Agents
      BY <2>4 DEF OnceLaunch
    <3> QED BY <2>4, <3>1 DEF OnceLaunch
  <2>3. CASE OnceFail(h) \/ OnceSolve(h) \/ OnceStop(h)
    BY <2>3 DEF OnceFail, OnceSolve, OnceStop
  <2> QED BY <1>6, <2>1, <2>2, <2>3, <2>4
<1>7. ASSUME NEW h \in Handlers,
             LockSettings(h) \/ RefuseSettings(h) \/ (\E c \in Configs : SaveConfig(h, c))
      PROVE  ServiceTypeOK'
  <2>1. CASE LockSettings(h)
    BY <2>1 DEF LockSettings
  <2>2. CASE RefuseSettings(h)
    BY <2>2 DEF RefuseSettings
  <2>3. ASSUME NEW c \in Configs, SaveConfig(h, c) PROVE ServiceTypeOK'
    BY <2>3 DEF SaveConfig
  <2> QED BY <1>7, <2>1, <2>2, <2>3
<1>8. ASSUME NEW h \in Handlers, PublishConfig(h) \/ PassConfig(h) PROVE ServiceTypeOK'
  BY <1>8 DEF PublishConfig, PassConfig, Layers
<1>9. ASSUME NEW h \in Handlers, Install(h) \/ FinishApply(h) \/ FinishShutdown(h)
      PROVE  ServiceTypeOK'
  BY <1>9 DEF Install, FinishApply, FinishShutdown, serviceVars
<1>10. ASSUME NEW s \in Objects, World(s) PROVE ServiceTypeOK'
  BY <1>10 DEF World, serviceVars
<1>11. CASE Signal \/ CloseService \/ Exited \/ UNCHANGED serviceAll
  BY <1>11 DEF Signal, CloseService, Exited, serviceAll, serviceVars
<1> QED BY <1>1, <1>2, <1>3, <1>4, <1>5, <1>6, <1>7, <1>8, <1>9, <1>10, <1>11
           DEF ServiceNext, Up, RequestStep

LEMMA ServiceTypesInit == ServiceInit => ServiceTypeOK
  BY TypedInit DEF ServiceInit, Init, ServiceTypeOK, RequestStages, Typed, TypeOK

-----------------------------------------------------------------------------
(* The theorems.                                                           *)

LEMMA ConfigInit == ServiceInit => ConfigInv
<1> SUFFICES ASSUME ServiceInit PROVE ConfigInv
  OBVIOUS
<1>a. \A h \in Handlers : pc[h] = "idle" /\ op[h] = None /\ stage[h] = "none"
  BY DEF ServiceInit, Init
<1>b. None # "apply" /\ Main \in Handlers
  BY CallsAssumption, ServiceAssumption DEF Ops
<1> QED BY <1>a, <1>b DEF ServiceInit, ConfigInv, SaveStages, SavesExclude, InProgress,
                          Layers, Agreed

LEMMA ConfigNext ==
  ASSUME ServiceTypeOK, ConfigInv, [ServiceNext]_serviceAll
  PROVE  ConfigInv'
<1>a. SaveStages /\ SavesExclude /\ Layers
  BY DEF ConfigInv
<1>1. ASSUME NEW h \in Handlers, NewRequest(h) \/ RequestStep(h) PROVE ConfigInv'
  BY <1>a, <1>1, RequestsStandAside, StoreStepsStandAside, SaveKeeps, AsideKeeps
     DEF NewRequest, RequestStep
<1>2. CASE CloseService
  <2>1. op'[Main] # "apply" /\ pc'[Main] = "sweep" /\ Main \in Handlers /\ pc[Main] = "idle"
    BY <1>2, ServiceAssumption DEF CloseService, CallShutdown, Call, ServiceTypeOK, TypeOK
  <2>2. /\ UNCHANGED <<diskCfg, serverCfg, serviceCfg, cfg, applyMu, stage, chosen>>
        /\ \A g \in Handlers \ {Main} : pc'[g] = pc[g] /\ op'[g] = op[g]
    BY <1>2 DEF CloseService, CallShutdown, Call, ServiceTypeOK, TypeOK, configVars,
                requestVars, storeVars
  <2>3. stage[Main] \notin SettingsStages
    BY <1>a DEF SaveStages, SettingsStages
  <2>4. Aside(Main)
    BY <2>1, <2>2, <2>3 DEF Aside, SettingsStages, configVars
  <2> QED BY <2>1, <2>4, AsideKeeps
<1>3. ASSUME NEW s \in Objects, World(s) PROVE ConfigInv'
  <2>1. UNCHANGED <<pc, op, cfg, diskCfg, serverCfg, serviceCfg, applyMu, stage, chosen>>
    BY <1>3 DEF World, Age, Collect, storeVars, handlerVars, serviceVars, configVars, requestVars
  <2> QED BY <1>a, <2>1 DEF ConfigInv, SaveStages, SavesExclude, InProgress, Layers, Agreed
<1>4. CASE Signal \/ Exited \/ UNCHANGED serviceAll
  <2>1. UNCHANGED <<pc, op, cfg, diskCfg, serverCfg, serviceCfg, applyMu, stage, chosen>>
    BY <1>4 DEF Signal, Exited, serviceAll, vars, storeVars, handlerVars, serviceVars,
                configVars, requestVars
  <2> QED BY <1>a, <2>1 DEF ConfigInv, SaveStages, SavesExclude, InProgress, Layers, Agreed
<1> QED BY <1>1, <1>2, <1>3, <1>4 DEF ServiceNext, Up

\* Nobody is saving, and so the copies agree.
LEMMA NoSaveAgrees ==
  ASSUME ConfigInv
  PROVE  ConfigLayersAgree
<1> SUFFICES ASSUME applyMu = None
             PROVE  /\ diskCfg = serverCfg
                    /\ serverCfg = serviceCfg
                    /\ serviceCfg = cfg
  BY DEF ConfigLayersAgree
<1>1. \A h \in Handlers : ~InProgress(h)
  BY StoreAssumption DEF ConfigInv, SavesExclude
<1> QED BY <1>1 DEF ConfigInv, SaveStages, InProgress, Layers, Agreed

\* The invariant of the service, with the store's, for any number of concurrent
\* requests and saves: between saves init.yaml, the server, the service and the
\* store agree on the configuration (settings.go:123-126).
THEOREM ServiceInvariant == ServiceSpec => []ServiceInv
<1> DEFINE Rest == IInv /\ ServiceTypeOK /\ BuiltConfigured /\ ConfigInv
<1>1. ServiceInit => Rest
  BY InvariantInit, ServiceTypesInit, ConfigInit
     DEF ServiceInit, Init, BuiltConfigured, Allocated
<1>2. Rest /\ [ServiceNext]_serviceAll => Rest'
  <2> SUFFICES ASSUME Rest, [ServiceNext]_serviceAll
               PROVE  Rest'
    OBVIOUS
  <2>1. Layers /\ References /\ TypeOK
    BY DEF ConfigInv, IInv
  <2>2. [Next]_vars
    BY <2>1, ServiceStepIsStoreStep
  <2>3. IInv'
    BY <2>2, InvariantNext
  <2>4. BuiltConfigured'
    BY <2>1, <2>2, BuiltConfiguredNext
  <2>5. ServiceTypeOK'
    BY <2>1, <2>3, ServiceTypes DEF IInv
  <2>6. ConfigInv'
    BY ConfigNext
  <2> QED BY <2>3, <2>4, <2>5, <2>6
<1>3. Rest => ServiceInv
  BY NoSaveAgrees DEF ServiceInv
<1> QED BY <1>1, <1>2, <1>3, PTL DEF ServiceSpec

\* The service only ever uses the store as the store's specification lets its
\* callers use it: every theorem about the store holds inside the service.
THEOREM ServiceKeepsStore == ServiceSpec => KeepsStore
<1>1. ServiceInit => Init
  BY DEF ServiceInit
<1>2. ServiceInv /\ [ServiceNext]_serviceAll => [Next]_vars
  BY ServiceStepIsStoreStep DEF ServiceInv, ConfigInv
<1> QED BY <1>1, <1>2, ServiceInvariant, PTL DEF ServiceSpec, Spec, KeepsStore

\* And so what the store promises it promises to every request: no browser is
\* leaked, used after its close, or closed twice, whatever requests, saves and a
\* shutdown the service makes of it (service.go, sessions.go).
THEOREM StorePromisesInService ==
  ServiceSpec => /\ [](NoOrphan /\ SerializedUse /\ OrderlyClose /\ NoStaleConfig)
                 /\ KeepsLifecycle
<1>1. Spec => [](NoOrphan /\ SerializedUse /\ OrderlyClose /\ NoStaleConfig)
  BY StoreInvariant, InvariantImplies, PTL
<1> QED BY <1>1, ServiceKeepsStore, StoreImplementsLifecycle, PTL DEF KeepsStore

-----------------------------------------------------------------------------
(* What a client sees of a save and of a shutdown: the configuration its   *)
(* browser is built from, the user agent its session presents, and the     *)
(* browsers that are left when the process exits.                          *)

\* Where in the store a handler can be at each stage of its request.  The main
\* goroutine serves none.
StagePlaces ==
  /\ \A h \in Handlers :
       /\ stage[h] = "ask" => pc[h] = "build"
       /\ stage[h] = "keep" => pc[h] = "probe"
       /\ stage[h] \notin {"none", "ask", "keep"} => pc[h] = "idle"
  /\ stage[Main] = "none" /\ pc[Main] \in {"idle", "sweep", "drain", "swept"}

\* The agent a construction has in hand: the configured one, if there is one.
AgentsInHand ==
  \A h \in Handlers : pc[h] = "build" =>
    /\ stage[h] = "ask" => FixedAgent[builtWith[item[h]]] = None
    /\ stage[h] = "none" /\ FixedAgent[builtWith[item[h]]] # None =>
         agent[h] = FixedAgent[builtWith[item[h]]]

Using == {"await", "build", "present", "probe", "lock", "resolve"}

\* While a request is settled no save has gone past its publication, and the
\* request has the configuration of the store and of the service in hand.
SettledInv ==
  \A h \in Handlers : settled[h] =>
    /\ \A g \in Handlers : stage[g] # "pass" /\ op[g] # "apply"
    /\ pc[h] \in Using => builtWith[item[h]] = cfg
    /\ stage[h] \in {"peek", "launch", "solve"} => chosen[h] = serviceCfg

\* Shutdown is the main goroutine's, and starts when all requests are answered.
ShutdownInv ==
  /\ \A h \in Handlers : /\ op[h] = "shutdown" => h = Main
                         /\ ephemeral[h] => stage[h] \in {"solve", "stop"}
  /\ life # "closing" <=> pc[Main] = "idle"
  /\ pc[Main] # "idle" => op[Main] = "shutdown"
  /\ life \in {"closing", "down"} => \A h \in Handlers \ {Main} : Free(h)
  /\ pc[Main] \in {"drain", "swept"} \/ life = "down" => \A i \in Ids : sessions[i] = None

RequestInv == StagePlaces /\ AgentsInHand /\ SettledInv /\ SessionsPresentFixedAgent

-----------------------------------------------------------------------------
(* What a step inside the store does for the request it is part of.        *)

\* The rest of the requests see nothing of it.
OthersKeep(h) ==
  \A g \in Handlers \ {h} :
    /\ pc'[g] = pc[g] /\ op'[g] = op[g] /\ item'[g] = item[g]
    /\ stage'[g] = stage[g] /\ chosen'[g] = chosen[g] /\ agent'[g] = agent[g]
    /\ settled'[g] = settled[g] /\ ephemeral'[g] = ephemeral[g]

\* Handler h moves on with the session it has, or with one that is listed.
Moves(h) ==
  /\ UNCHANGED <<cfg, builtWith>>
  /\ \A g \in Handlers \ {h} : pc'[g] = pc[g] /\ op'[g] = op[g] /\ item'[g] = item[g]
  /\ pc[h] \notin {"idle", "build", "probe", "resolve", "install", "swept"}
  /\ pc'[h] # "build"
  /\ pc[h] \in {"sweep", "drain"} => pc'[h] \in {"drain", "swept"}
  /\ op'[h] = "apply" => op[h] = "apply"
  /\ pc'[h] \in Using => \/ pc[h] \in Using /\ item'[h] = item[h]
                         \/ Listed(item'[h]) /\ item'[h] \in Objects
  /\ \A s \in Objects : browser'[s] = "live" => browser[s] = "live"

LEMMA StoreStepMoves ==
  ASSUME TypeOK, Arguments, References, NEW h \in Handlers, StoreStep(h)
  PROVE  Moves(h)
<1>a. /\ pc \in [Handlers -> Places] /\ op \in [Handlers -> Ops \cup {None}]
      /\ item \in [Handlers -> Objects \cup {None}]
      /\ browser \in [Objects -> {"none", "live", "gone"}]
      /\ None # "apply"
  BY CallsAssumption DEF TypeOK, Ops
<1> USE <1>a DEF Moves, Using, Goto, Return, storeVars, sessionVars
<1>1. CASE Evict(h)
  BY <1>1 DEF Evict
<1>2. CASE Join(h)
  <2>1. arg[h] \in Ids
    BY <1>2 DEF Join, LookingUp, Arguments
  <2>2. sessions[arg[h]] \in Objects /\ Listed(sessions[arg[h]])
    BY <1>2, <2>1, StoreAssumption DEF Join, TypeOK, References, Listed, Allocated
  <2> QED BY <1>2, <2>2 DEF Join, LookingUp, TypeOK
<1>3. CASE Unlist(h) \/ Present(h) \/ Absent(h)
  BY <1>3 DEF Unlist, Present, Absent
<1>4. CASE AwaitFailed(h) \/ AwaitDone(h) \/ Renew(h)
  BY <1>4 DEF AwaitFailed, AwaitDone, Renew
<1>5. CASE Unlink(h) \/ UnlinkMissing(h)
  BY <1>5 DEF Unlink, UnlinkMissing
<1>6. CASE Sweep(h)
  BY <1>6 DEF Sweep, CloseNext
<1>7. CASE CloseBegin(h)
  BY <1>7 DEF CloseBegin, CanClose, Closing, handlerVars
<1>8. CASE CloseSkip(h) \/ CloseEnd(h)
  BY <1>8 DEF CloseSkip, CloseEnd, CanClose, AfterClose, CloseNext, Closing
<1>9. CASE Lock(h) \/ Refuse(h)
  BY <1>9 DEF Lock, Refuse
<1> QED BY <1>1, <1>2, <1>3, <1>4, <1>5, <1>6, <1>7, <1>8, <1>9 DEF StoreStep, CloseStep

-----------------------------------------------------------------------------
(* Settled requests and the agents in hand.                                *)

\* What the invariant is proved from: the store's, the service's, the saves'.
Given == IInv /\ ServiceTypeOK /\ ConfigInv

LEMMA GivenFacts ==
  ASSUME Given
  PROVE  /\ pc \in [Handlers -> Places] /\ op \in [Handlers -> Ops \cup {None}]
         /\ item \in [Handlers -> Objects \cup {None}]
         /\ stage \in [Handlers -> RequestStages]
         /\ chosen \in [Handlers -> Configs \cup {None}]
         /\ agent \in [Handlers -> Agents \cup {None}]
         /\ settled \in [Handlers -> BOOLEAN] /\ ephemeral \in [Handlers -> BOOLEAN]
         /\ browser \in [Objects -> {"none", "live", "gone"}]
         /\ builtWith \in [Objects -> Configs \cup {None}]
         /\ agentOf \in [Objects -> Agents \cup {None}]
         /\ None # "apply" /\ None # "shutdown" /\ Main \in Handlers
  BY CallsAssumption, ServiceAssumption DEF Given, IInv, ServiceTypeOK, TypeOK, Ops

\* A handler that uses a session has an object that is allocated in hand.
LEMMA UsingHolds ==
  ASSUME Given, NEW h \in Handlers, pc[h] \in Using
  PROVE  item[h] \in Objects /\ Allocated(item[h])
<1>1. item[h] # None
  BY DEF Given, IInv, References, Using
<1>2. item[h] \in Objects
  BY <1>1 DEF Given, IInv, TypeOK
<1> QED BY <1>2 DEF Given, IInv, References, Holds

\* A listed session is built from the store's configuration, for a request that
\* no save has overtaken.
LEMMA ListedIsCurrent ==
  ASSUME Given, SettledInv, NEW h \in Handlers, settled[h],
         NEW s \in Objects, Listed(s)
  PROVE  builtWith[s] = cfg
  BY DEF Given, IInv, NoStaleConfig, SettledInv

\* A request that arrives while no save is in progress is settled.
LEMMA ArrivesSettled ==
  ASSUME Given, applyMu = None
  PROVE  \A g \in Handlers : stage[g] # "pass" /\ op[g] # "apply"
  BY StoreAssumption DEF Given, ConfigInv, SavesExclude, InProgress

LEMMA RequestArrives ==
  ASSUME Given, RequestInv, NEW h \in Handlers, NewRequest(h)
  PROVE  RequestInv'
<1> USE GivenFacts, ArrivesSettled
        DEF RequestInv, StagePlaces, AgentsInHand, SettledInv, SessionsPresentFixedAgent, Using,
            Arrive, Free, At, Call, vars, storeVars, sessionVars, handlerVars, configVars, builtVars
<1>1. CASE RouteCreate(h)
  BY <1>1 DEF RouteCreate
<1>2. CASE RouteSession(h)
  BY <1>2 DEF RouteSession, CallGet
<1>3. CASE RouteDestroy(h)
  BY <1>3 DEF RouteDestroy, CallDestroy
<1>4. CASE RouteOnce(h)
  BY <1>4 DEF RouteOnce
<1>5. CASE PostSettings(h)
  BY <1>5 DEF PostSettings
<1> QED BY <1>1, <1>2, <1>3, <1>4, <1>5 DEF NewRequest

LEMMA RequestMovesInStore ==
  ASSUME Given, RequestInv, NEW h \in Handlers, StoreStep(h)
  PROVE  RequestInv'
<1>1. Moves(h)
  BY StoreStepMoves DEF Given, IInv
<1>2. /\ UNCHANGED <<agentOf, serviceCfg>>
      /\ IF pc'[h] = "idle" THEN Leave(h)
         ELSE UNCHANGED <<stage, proxy, chosen, agent, settled>>
  BY <1>1 DEF StoreStep, builtVars, configVars
<1> USE <1>1, <1>2, GivenFacts DEF Moves, Leave, At
<1>3. StagePlaces'
  BY DEF RequestInv, StagePlaces
<1>4. AgentsInHand'
  BY DEF RequestInv, AgentsInHand
<1>5. SettledInv'
  <2>1. ASSUME NEW g \in Handlers, settled'[g]
        PROVE  /\ \A f \in Handlers : stage'[f] # "pass" /\ op'[f] # "apply"
               /\ stage'[g] \in {"peek", "launch", "solve"} => chosen'[g] = serviceCfg'
    BY <2>1 DEF RequestInv, SettledInv
  <2>2. ASSUME NEW g \in Handlers, settled'[g], pc'[g] \in Using
        PROVE  builtWith'[item'[g]] = cfg'
    <3>1. settled[g]
      BY <2>2
    <3>2. CASE pc[g] \in Using /\ item'[g] = item[g]
      BY <3>1, <3>2 DEF RequestInv, SettledInv
    <3>3. CASE Listed(item'[g]) /\ item'[g] \in Objects
      BY <3>1, <3>3, ListedIsCurrent DEF RequestInv
    <3> QED BY <2>2, <3>2, <3>3
  <2> QED BY <2>1, <2>2 DEF SettledInv
<1>6. SessionsPresentFixedAgent'
  BY DEF RequestInv, SessionsPresentFixedAgent
<1> QED BY <1>3, <1>4, <1>5, <1>6 DEF RequestInv

\* A construction begins, and the agent it presents is chosen.
LEMMA RequestBuilds ==
  ASSUME Given, RequestInv, NEW h \in Handlers,
         (\E s \in Objects : ReserveEntry(h, s)) \/ AskAgent(h) \/ FinishBuild(h)
  PROVE  RequestInv'
<1> USE GivenFacts DEF At, Goto, builtVars, configVars
<1>1. ASSUME NEW s \in Objects, ReserveEntry(h, s) PROVE RequestInv'
  <2>0. /\ pc' = [pc EXCEPT ![h] = "build"] /\ item' = [item EXCEPT ![h] = s]
        /\ builtWith' = [builtWith EXCEPT ![s] = cfg] /\ ~Allocated(s)
        /\ agent' = [agent EXCEPT ![h] = FixedAgent[cfg]]
        /\ stage' = [stage EXCEPT ![h] = IF FixedAgent[cfg] = None THEN "ask" ELSE "none"]
        /\ UNCHANGED <<op, cfg, browser, agentOf, serviceCfg, settled, chosen>>
        /\ pc[h] \in {"create", "relock"}
    BY <1>1 DEF ReserveEntry, Reserve, LookingUp
  <2>1. \A g \in Handlers : pc[g] \in Using => item[g] # s
    BY <2>0, UsingHolds
  <2>2. StagePlaces'
    BY <2>0 DEF RequestInv, StagePlaces
  <2>3. AgentsInHand'
    BY <2>0, <2>1 DEF RequestInv, AgentsInHand, Using
  <2>4. SettledInv'
    BY <2>0, <2>1 DEF RequestInv, SettledInv, Using
  <2>5. browser[s] # "live"
    BY <2>0 DEF Given, IInv, Stages
  <2>6. SessionsPresentFixedAgent'
    BY <2>0, <2>5 DEF RequestInv, SessionsPresentFixedAgent
  <2> QED BY <2>2, <2>3, <2>4, <2>6 DEF RequestInv
<1>2. CASE AskAgent(h)
  BY <1>2 DEF AskAgent, vars, storeVars, sessionVars, handlerVars, RequestInv, StagePlaces,
              AgentsInHand, SettledInv, SessionsPresentFixedAgent
<1>3. CASE FinishBuild(h)
  <2>0. /\ pc[h] = "build" /\ stage[h] = "none"
        /\ UNCHANGED <<op, cfg, builtWith, item, serviceCfg, settled, chosen, stage>>
        /\ pc' = [pc EXCEPT ![h] = pc'[h]] /\ pc'[h] \in {"present", "unlist"}
        /\ agent' = [agent EXCEPT ![h] = None]
    BY <1>3 DEF FinishBuild, BuildOk, BuildFail, storeVars
  <2>1. item[h] \in Objects /\ Allocated(item[h])
    BY <2>0, UsingHolds DEF Using
  <2>2. StagePlaces'
    BY <2>0 DEF RequestInv, StagePlaces
  <2>3. AgentsInHand'
    BY <2>0 DEF RequestInv, AgentsInHand
  <2>4. SettledInv'
    BY <2>0 DEF RequestInv, SettledInv, Using
  <2>5. SessionsPresentFixedAgent'
    <3>1. CASE BuildOk(h) /\ agentOf' = [agentOf EXCEPT ![item[h]] =
                               OrElse(agent[h], NativeAgent[builtWith[item[h]]])]
      <4>1. browser' = [browser EXCEPT ![item[h]] = "live"]
        BY <3>1 DEF BuildOk
      <4>2. FixedAgent[builtWith[item[h]]] # None =>
              agentOf'[item[h]] = FixedAgent[builtWith[item[h]]]
        BY <2>0, <2>1, <3>1 DEF RequestInv, AgentsInHand, OrElse
      <4> QED BY <2>0, <2>1, <3>1, <4>1, <4>2 DEF RequestInv, SessionsPresentFixedAgent
    <3>2. CASE BuildFail(h) /\ UNCHANGED agentOf
      BY <2>0, <3>2 DEF BuildFail, RequestInv, SessionsPresentFixedAgent
    <3> QED BY <1>3, <3>1, <3>2 DEF FinishBuild
  <2> QED BY <2>2, <2>3, <2>4, <2>5 DEF RequestInv
<1> QED BY <1>1, <1>2, <1>3

\* A session is used, and its user agent kept.
LEMMA RequestUses ==
  ASSUME Given, RequestInv, NEW h \in Handlers,
         \/ CmdCreate(h) \/ SkipProbe(h) \/ ReadAgent(h) \/ KeepAgent(h) \/ FinishResolve(h)
  PROVE  RequestInv'
<1> USE GivenFacts
        DEF RequestInv, StagePlaces, AgentsInHand, SettledInv, SessionsPresentFixedAgent, Using,
            At, Leave, Return, vars, storeVars, sessionVars, handlerVars, configVars, builtVars
<1>1. CASE CmdCreate(h)
  BY <1>1 DEF CmdCreate, CallCreate, Call
<1>2. CASE SkipProbe(h)
  BY <1>2 DEF SkipProbe, Probe
<1>3. CASE ReadAgent(h)
  BY <1>3 DEF ReadAgent
<1>4. CASE KeepAgent(h)
  BY <1>4 DEF KeepAgent, Probe
<1>5. CASE FinishResolve(h)
  BY <1>5 DEF FinishResolve, Resolved
<1> QED BY <1>1, <1>2, <1>3, <1>4, <1>5

\* A browser is used for one request.
LEMMA RequestOnce ==
  ASSUME Given, RequestInv, NEW h \in Handlers,
         \/ OnceConfig(h) \/ OncePeek(h) \/ OnceLaunch(h) \/ OnceFail(h) \/ OnceSolve(h)
         \/ OnceStop(h)
  PROVE  RequestInv'
<1> USE GivenFacts
        DEF RequestInv, StagePlaces, AgentsInHand, SettledInv, SessionsPresentFixedAgent, Using,
            At, Leave, vars, storeVars, sessionVars, handlerVars, configVars, builtVars
<1>1. CASE OnceConfig(h)
  BY <1>1 DEF OnceConfig
<1>2. CASE OncePeek(h) \/ OnceLaunch(h)
  BY <1>2 DEF OncePeek, OnceLaunch
<1>3. CASE OnceFail(h) \/ OnceSolve(h) \/ OnceStop(h)
  BY <1>3 DEF OnceFail, OnceSolve, OnceStop
<1> QED BY <1>1, <1>2, <1>3

\* A save settles nobody: what is settled when it publishes stops being so.
LEMMA RequestSaves ==
  ASSUME Given, RequestInv, NEW h \in Handlers,
         \/ LockSettings(h) \/ RefuseSettings(h) \/ (\E c \in Configs : SaveConfig(h, c))
         \/ PublishConfig(h) \/ PassConfig(h) \/ Install(h) \/ FinishApply(h)
         \/ FinishShutdown(h)
  PROVE  RequestInv'
<1>a. /\ stage[h] \in {"settings", "save", "publish", "pass"} => pc[h] = "idle"
      /\ pc[h] = "install" => op[h] = "apply"
      /\ op[h] = "apply" => stage[h] = "none"
  BY DEF Given, ConfigInv, SaveStages
<1> USE GivenFacts, <1>a
        DEF RequestInv, StagePlaces, AgentsInHand, SettledInv, SessionsPresentFixedAgent, Using,
            At, Leave, Return, vars, storeVars, sessionVars, handlerVars, configVars, builtVars,
            requestVars
<1>1. CASE LockSettings(h) \/ RefuseSettings(h)
  BY <1>1 DEF LockSettings, RefuseSettings
<1>2. ASSUME NEW c \in Configs, SaveConfig(h, c) PROVE RequestInv'
  BY <1>2 DEF SaveConfig
<1>3. CASE PublishConfig(h)
  BY <1>3 DEF PublishConfig
<1>4. CASE PassConfig(h)
  BY <1>4 DEF PassConfig, CallApply, Call
<1>5. CASE Install(h)
  BY <1>5 DEF Install, InstallConfig, Goto, serviceVars
<1>6. CASE FinishApply(h) \/ FinishShutdown(h)
  BY <1>6 DEF FinishApply, FinishShutdown, Swept
<1> QED BY <1>1, <1>2, <1>3, <1>4, <1>5, <1>6

\* Objects age and are freed, and the process is told to stop.
LEMMA RequestStays ==
  ASSUME Given, RequestInv,
         \/ \E s \in Objects : World(s)
         \/ Signal \/ CloseService \/ Exited \/ UNCHANGED serviceAll
  PROVE  RequestInv'
<1> USE GivenFacts
        DEF RequestInv, StagePlaces, AgentsInHand, SettledInv, SessionsPresentFixedAgent, Using,
            vars, storeVars, sessionVars, handlerVars, configVars, builtVars, requestVars,
            serviceVars
<1>1. ASSUME NEW s \in Objects, Age(s), UNCHANGED serviceVars PROVE RequestInv'
  BY <1>1 DEF Age
<1>2. ASSUME NEW s \in Objects, Collect(s), agentOf' = [agentOf EXCEPT ![s] = None],
             UNCHANGED <<configVars, requestVars>>
      PROVE  RequestInv'
  <2>1. \A g \in Handlers : pc[g] \in Using => item[g] # s
    BY <1>2 DEF Collect, Holds
  <2> QED BY <1>2, <2>1 DEF Collect
<1>3. CASE Signal \/ Exited \/ UNCHANGED serviceAll
  BY <1>3 DEF Signal, Exited, serviceAll
<1>4. CASE CloseService
  BY <1>4 DEF CloseService, CallShutdown, Call
<1> QED BY <1>1, <1>2, <1>3, <1>4 DEF World

LEMMA RequestInit == ServiceInit => RequestInv
  BY ServiceAssumption DEF ServiceInit, Init, RequestInv, StagePlaces, AgentsInHand, SettledInv,
         SessionsPresentFixedAgent

LEMMA RequestNext == Given /\ RequestInv /\ [ServiceNext]_serviceAll => RequestInv'
  BY RequestArrives, RequestMovesInStore, RequestBuilds, RequestUses, RequestOnce,
     RequestSaves, RequestStays DEF ServiceNext, Up, RequestStep

LEMMA RequestInvariant == ServiceSpec => [](ServiceInv /\ RequestInv)
<1>1. ServiceInit => RequestInv
  BY RequestInit
<1>2. ServiceInv /\ RequestInv /\ [ServiceNext]_serviceAll => RequestInv'
  BY RequestNext DEF ServiceInv, Given
<1> QED BY <1>1, <1>2, ServiceInvariant, PTL DEF ServiceSpec

\* A configured startup user agent is what every session's browser presents,
\* whatever agents are cached or saves are made during its construction
\* (sessions.go:126-134).
THEOREM SessionsPresentTheirAgent == ServiceSpec => []SessionsPresentFixedAgent
  BY RequestInvariant, PTL DEF RequestInv

\* A request that arrives after a save runs in a browser built from the saved
\* configuration, for any number of requests, sessions and earlier saves.
THEOREM SavesReachNextRequests == ServiceSpec => []NextRequestsUseNewConfig
<1>1. ServiceInv /\ RequestInv => NextRequestsUseNewConfig
  <2> SUFFICES ASSUME ServiceInv, RequestInv, NEW h \in Handlers, settled[h]
               PROVE  /\ pc[h] = "resolve" => builtWith[item[h]] = serverCfg
                      /\ stage[h] = "solve" => chosen[h] = serverCfg
    BY DEF NextRequestsUseNewConfig
  <2>1. \A g \in Handlers : stage[g] # "pass" /\ op[g] # "apply"
    BY DEF RequestInv, SettledInv
  <2>2. \A g \in Handlers : pc[g] # "install"
    BY <2>1 DEF ServiceInv, ConfigInv, SaveStages
  <2>3. serverCfg = serviceCfg /\ serviceCfg = cfg
    BY <2>1, <2>2 DEF ServiceInv, ConfigInv, Layers, Agreed
  <2> QED BY <2>3 DEF RequestInv, SettledInv, Using
<1> QED BY <1>1, RequestInvariant, PTL

-----------------------------------------------------------------------------
(* Shutdown without running out of time.                                   *)

\* A handler that serves no request takes no step of one.
LEMMA FreeRests ==
  ASSUME Given, NEW h \in Handlers, Free(h)
  PROVE  ~RequestStep(h)
<1>1. ~StoreStep(h)
  <2>1. StoreStep(h) => Moves(h)
    BY StoreStepMoves DEF Given, IInv
  <2> QED BY <2>1 DEF Moves, Free
<1>2. ~(\E s \in Objects : ReserveEntry(h, s)) /\ ~FinishBuild(h)
  BY DEF Free, ReserveEntry, Reserve, LookingUp, FinishBuild, BuildOk, BuildFail
<1>3. ~CmdCreate(h) /\ ~AskAgent(h) /\ ~SkipProbe(h) /\ ~ReadAgent(h) /\ ~KeepAgent(h)
      /\ ~FinishResolve(h)
  BY DEF Free, CmdCreate, AskAgent, SkipProbe, Probe, ReadAgent, KeepAgent, FinishResolve, Resolved
<1>4. ~OnceConfig(h) /\ ~OncePeek(h) /\ ~OnceLaunch(h) /\ ~OnceFail(h) /\ ~OnceSolve(h)
      /\ ~OnceStop(h)
  BY DEF Free, OnceConfig, OncePeek, OnceLaunch, OnceFail, OnceSolve, OnceStop
<1>5. ~LockSettings(h) /\ ~RefuseSettings(h) /\ ~(\E c \in Configs : SaveConfig(h, c))
      /\ ~PublishConfig(h) /\ ~PassConfig(h) /\ ~Install(h) /\ ~FinishApply(h)
      /\ ~FinishShutdown(h)
  BY DEF Free, LockSettings, RefuseSettings, SaveConfig, PublishConfig, PassConfig, Install,
         InstallConfig, FinishApply, FinishShutdown, Swept
<1> QED BY <1>1, <1>2, <1>3, <1>4, <1>5 DEF RequestStep

\* While requests are served, a step of one leaves the main goroutine alone.
Serves(h) ==
  /\ h # Main /\ life' = life
  /\ \A g \in Handlers \ {h} : /\ pc'[g] = pc[g] /\ op'[g] = op[g]
                              /\ stage'[g] = stage[g] /\ ephemeral'[g] = ephemeral[g]
  /\ op'[h] # "shutdown"
  /\ ephemeral'[h] => stage'[h] \in {"solve", "stop"}

LEMMA ServingKeeps ==
  ASSUME Given, ShutdownInv, life \in {"up", "draining"}, NEW h \in Handlers, Serves(h)
  PROVE  ShutdownInv'
  BY GivenFacts DEF ShutdownInv, Serves

\* A step inside the store never turns another call into a shutdown.
LEMMA StoreStepOp ==
  ASSUME Given, NEW h \in Handlers, StoreStep(h), op[h] # "shutdown"
  PROVE  op'[h] # "shutdown"
<1>1. op' = op \/ op' = [op EXCEPT ![h] = None] \/ op' = [op EXCEPT ![h] = "renew"]
  <2> USE DEF Goto, Return
  <2>1. CASE Evict(h) \/ Join(h) \/ Unlist(h) \/ Present(h) \/ Absent(h) \/ Lock(h) \/ Refuse(h)
    BY <2>1 DEF Evict, Join, Unlist, Present, Absent, Lock, Refuse
  <2>2. CASE AwaitFailed(h) \/ AwaitDone(h) \/ Renew(h) \/ Unlink(h) \/ UnlinkMissing(h)
    BY <2>2 DEF AwaitFailed, AwaitDone, Renew, Unlink, UnlinkMissing
  <2>3. CASE Sweep(h) \/ CloseStep(h)
    BY <2>3 DEF Sweep, CloseNext, CloseStep, CloseBegin, CloseSkip, CloseEnd, AfterClose, handlerVars
  <2> QED BY <2>1, <2>2, <2>3 DEF StoreStep
<1> QED BY <1>1, GivenFacts

LEMMA Served ==
  ASSUME Given, RequestInv, ShutdownInv, life \in {"up", "draining"}, NEW h \in Handlers,
         NewRequest(h) \/ RequestStep(h)
  PROVE  Serves(h)
<1>1. h # Main
  <2>1. Free(Main)
    BY DEF ShutdownInv, RequestInv, StagePlaces, Free
  <2>2. ~RequestStep(Main)
    BY <2>1, FreeRests, GivenFacts
  <2>3. ~NewRequest(Main)
    BY DEF NewRequest, RouteCreate, RouteSession, RouteDestroy, RouteOnce, PostSettings, Arrive
  <2> QED BY <2>2, <2>3
<1>2. op[h] # "shutdown" /\ (ephemeral[h] => stage[h] \in {"solve", "stop"})
  BY <1>1 DEF ShutdownInv
<1> USE <1>1, <1>2, GivenFacts
        DEF Serves, At, Leave, Goto, Return, vars, storeVars, sessionVars, handlerVars,
            requestVars, serviceVars
<1>3. CASE NewRequest(h)
  <2> USE DEF Arrive, Free, Call
  <2>1. CASE RouteCreate(h) \/ RouteOnce(h) \/ PostSettings(h)
    BY <2>1 DEF RouteCreate, RouteOnce, PostSettings
  <2>2. CASE RouteSession(h)
    BY <2>2 DEF RouteSession, CallGet
  <2>3. CASE RouteDestroy(h)
    BY <2>3 DEF RouteDestroy, CallDestroy
  <2> QED BY <1>3, <2>1, <2>2, <2>3 DEF NewRequest
<1>4. CASE StoreStep(h)
  <2>1. Moves(h)
    BY <1>4, StoreStepMoves DEF Given, IInv
  <2>2. op'[h] # "shutdown"
    BY <1>4, StoreStepOp
  <2>3. stage[h] \notin {"solve", "stop"}
    BY <2>1 DEF RequestInv, StagePlaces, Moves
  <2> QED BY <1>4, <2>1, <2>2, <2>3 DEF StoreStep, Moves
<1>5. CASE CmdCreate(h) \/ AskAgent(h) \/ ReadAgent(h) \/ \E s \in Objects : ReserveEntry(h, s)
  <2>1. CASE CmdCreate(h)
    BY <2>1 DEF CmdCreate, CallCreate, Call
  <2>2. CASE AskAgent(h) \/ ReadAgent(h)
    BY <2>2 DEF AskAgent, ReadAgent
  <2>3. ASSUME NEW s \in Objects, ReserveEntry(h, s) PROVE Serves(h)
    <3>1. stage[h] \notin {"solve", "stop"}
      BY <2>3 DEF ReserveEntry, Reserve, LookingUp, RequestInv, StagePlaces
    <3> QED BY <2>3, <3>1 DEF ReserveEntry, Reserve
  <2> QED BY <1>5, <2>1, <2>2, <2>3
<1>6. CASE FinishBuild(h) \/ SkipProbe(h) \/ KeepAgent(h) \/ FinishResolve(h)
  <2>1. CASE FinishBuild(h)
    BY <2>1 DEF FinishBuild, BuildOk, BuildFail
  <2>2. CASE SkipProbe(h) \/ KeepAgent(h) \/ FinishResolve(h)
    <3>1. pc[h] \in {"probe", "resolve"}
      BY <2>2 DEF SkipProbe, KeepAgent, FinishResolve, Probe, Resolved
    <3>2. ~ephemeral[h]
      BY <3>1 DEF RequestInv, StagePlaces
    <3> QED BY <2>2, <3>2 DEF SkipProbe, KeepAgent, FinishResolve, Probe, Resolved
  <2> QED BY <1>6, <2>1, <2>2
<1>7. CASE \/ OnceConfig(h) \/ OncePeek(h) \/ OnceLaunch(h) \/ OnceFail(h) \/ OnceSolve(h)
           \/ OnceStop(h)
  BY <1>7 DEF OnceConfig, OncePeek, OnceLaunch, OnceFail, OnceSolve, OnceStop
<1>8. CASE \/ LockSettings(h) \/ RefuseSettings(h) \/ (\E c \in Configs : SaveConfig(h, c))
           \/ PublishConfig(h) \/ PassConfig(h)
  <2>1. CASE LockSettings(h) \/ RefuseSettings(h) \/ PublishConfig(h)
    BY <2>1 DEF LockSettings, RefuseSettings, PublishConfig
  <2>2. ASSUME NEW c \in Configs, SaveConfig(h, c) PROVE Serves(h)
    BY <2>2 DEF SaveConfig
  <2>3. CASE PassConfig(h)
    BY <2>3 DEF PassConfig, CallApply, Call
  <2> QED BY <1>8, <2>1, <2>2, <2>3
<1>9. CASE Install(h) \/ FinishApply(h) \/ FinishShutdown(h)
  <2>1. CASE Install(h)
    BY <2>1 DEF Install, InstallConfig
  <2>2. CASE FinishApply(h)
    <3>1. ~ephemeral[h]
      BY <2>2 DEF FinishApply, Swept, RequestInv, StagePlaces
    <3> QED BY <2>2, <3>1 DEF FinishApply, Swept
  <2>3. CASE FinishShutdown(h)
    BY <2>3 DEF FinishShutdown
  <2> QED BY <1>9, <2>1, <2>2, <2>3
<1> QED BY <1>3, <1>4, <1>5, <1>6, <1>7, <1>8, <1>9 DEF RequestStep

\* The drain of the shutdown is the only thing that still runs.
LEMMA DrainKeeps ==
  ASSUME Given, RequestInv, ShutdownInv, life = "closing", NEW h \in Handlers,
         NewRequest(h) \/ RequestStep(h)
  PROVE  ShutdownInv'
<1>1. ~NewRequest(h)
  BY DEF NewRequest, RouteCreate, RouteSession, RouteDestroy, RouteOnce, PostSettings, Arrive
<1>2. h = Main
  BY <1>1, FreeRests, GivenFacts DEF ShutdownInv
<1>3. /\ pc[Main] \in {"sweep", "drain", "swept"} /\ op[Main] = "shutdown"
      /\ stage[Main] = "none" /\ ~ephemeral[Main]
  BY GivenFacts DEF ShutdownInv, RequestInv, StagePlaces
<1> USE <1>2, <1>3, GivenFacts DEF At, Leave, Return, Goto
<1>4. StoreStep(Main) \/ FinishShutdown(Main)
  <2>1. ~(\E s \in Objects : ReserveEntry(Main, s)) /\ ~FinishBuild(Main)
    BY DEF ReserveEntry, Reserve, LookingUp, FinishBuild, BuildOk, BuildFail
  <2>2. ~CmdCreate(Main) /\ ~AskAgent(Main) /\ ~SkipProbe(Main) /\ ~ReadAgent(Main)
        /\ ~KeepAgent(Main) /\ ~FinishResolve(Main)
    BY DEF CmdCreate, AskAgent, SkipProbe, Probe, ReadAgent, KeepAgent, FinishResolve, Resolved
  <2>3. ~OnceConfig(Main) /\ ~OncePeek(Main) /\ ~OnceLaunch(Main) /\ ~OnceFail(Main)
        /\ ~OnceSolve(Main) /\ ~OnceStop(Main)
    BY DEF OnceConfig, OncePeek, OnceLaunch, OnceFail, OnceSolve, OnceStop
  <2>4. ~LockSettings(Main) /\ ~RefuseSettings(Main) /\ ~(\E c \in Configs : SaveConfig(Main, c))
        /\ ~PublishConfig(Main) /\ ~PassConfig(Main) /\ ~Install(Main) /\ ~FinishApply(Main)
    BY DEF LockSettings, RefuseSettings, SaveConfig, PublishConfig, PassConfig, Install,
           InstallConfig, FinishApply
  <2> QED BY <1>1, <2>1, <2>2, <2>3, <2>4 DEF RequestStep
<1>5. CASE StoreStep(Main)
  <2>1. Moves(Main)
    BY <1>5, StoreStepMoves DEF Given, IInv
  <2>2. pc'[Main] \in {"drain", "swept"}
    BY <2>1 DEF Moves
  <2>3. op' = op /\ life' = life /\ ephemeral' = ephemeral /\ UNCHANGED stage
        /\ \A i \in Ids : sessions'[i] = None
    <3>1. CASE Sweep(Main)
      BY <1>5, <2>2, <3>1 DEF Sweep, CloseNext, StoreStep
    <3>2. CASE CloseStep(Main)
      BY <1>5, <2>2, <3>2 DEF CloseStep, CloseBegin, CloseSkip, CloseEnd, CanClose, AfterClose,
                             CloseNext, Closing, handlerVars, storeVars, StoreStep, ShutdownInv
    <3>3. Sweep(Main) \/ CloseStep(Main)
      BY <1>5 DEF StoreStep, Evict, Join, LookingUp, Unlist, Present, Absent, AwaitFailed,
                  AwaitDone, Renew, Unlink, UnlinkMissing, Lock, Refuse
    <3> QED BY <3>1, <3>2, <3>3
  <2> QED BY <2>1, <2>2, <2>3 DEF Moves, ShutdownInv, Free
<1>6. CASE FinishShutdown(Main)
  BY <1>6 DEF FinishShutdown, Swept, requestVars, storeVars, ShutdownInv, Free
<1> QED BY <1>4, <1>5, <1>6

LEMMA ShutdownNext ==
  ASSUME ~Deadline, Given, RequestInv, ShutdownInv, [ServiceNext]_serviceAll
  PROVE  ShutdownInv'
<1> USE GivenFacts
<1>1. ASSUME life # "down", NEW h \in Handlers, NewRequest(h) \/ RequestStep(h)
      PROVE  ShutdownInv'
  <2>1. CASE life \in {"up", "draining"}
    BY <1>1, <2>1, Served, ServingKeeps
  <2>2. CASE life = "closing"
    BY <1>1, <2>2, DrainKeeps
  <2> QED BY <1>1, <2>1, <2>2 DEF Given, ServiceTypeOK
<1>2. ASSUME NEW s \in Objects, World(s) PROVE ShutdownInv'
  BY <1>2 DEF World, Age, Collect, storeVars, handlerVars, serviceVars, requestVars,
              ShutdownInv, Free
<1>3. CASE Signal \/ Exited \/ UNCHANGED serviceAll
  BY <1>3 DEF Signal, Exited, serviceAll, vars, storeVars, handlerVars, serviceVars, requestVars,
              ShutdownInv, Free
<1>4. CASE CloseService
  BY <1>4 DEF CloseService, CallShutdown, Call, storeVars, requestVars, ShutdownInv, Free
<1> QED BY <1>1, <1>2, <1>3, <1>4 DEF ServiceNext, Up

\* A shutdown that is given the time to answer the requests in flight leaves no
\* browser behind, of a session or of a single request, for any number of them
\* (server.go:84-90).
THEOREM OrderlyShutdown ==
  ASSUME ~Deadline
  PROVE  ServiceSpec => []ShutdownLeavesNoBrowser
<1>1. ServiceInit => ShutdownInv
  BY ServiceAssumption, CallsAssumption DEF ServiceInit, Init, ShutdownInv, Free, Ops
<1>2. ServiceInv /\ RequestInv /\ ShutdownInv /\ [ServiceNext]_serviceAll => ShutdownInv'
  BY ShutdownNext DEF ServiceInv, Given
<1>3. ServiceInv /\ RequestInv /\ ShutdownInv => ShutdownLeavesNoBrowser
  <2> SUFFICES ASSUME ServiceInv, RequestInv, ShutdownInv, life = "down"
               PROVE  /\ \A s \in Objects : browser[s] # "live"
                      /\ \A h \in Handlers : ~ephemeral[h]
    BY DEF ShutdownLeavesNoBrowser
  <2>1. \A h \in Handlers : pc[h] = "idle" /\ stage[h] = "none"
    BY DEF ShutdownInv, RequestInv, StagePlaces, Free
  <2>2. \A s \in Objects : ~Listed(s)
    <3> SUFFICES ASSUME NEW s \in Objects, Listed(s) PROVE FALSE
      OBVIOUS
    <3>1. idOf[s] \in Ids
      BY DEF Listed, Allocated, ServiceInv, IInv, TypeOK
    <3>2. sessions[idOf[s]] = None
      BY <3>1 DEF ShutdownInv
    <3> QED BY <3>2, StoreAssumption DEF Listed
  <2>3. \A s \in Objects : browser[s] # "live"
    BY <2>1, <2>2, InvariantImplies DEF ServiceInv, NoOrphan, Closer, Closing
  <2>4. \A h \in Handlers : ~ephemeral[h]
    BY <2>1 DEF ShutdownInv
  <2> QED BY <2>3, <2>4
<1> QED BY <1>1, <1>2, <1>3, RequestInvariant, PTL DEF ServiceSpec
=============================================================================
