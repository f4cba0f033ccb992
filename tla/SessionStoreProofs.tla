------------------------- MODULE SessionStoreProofs -------------------------
(* Proofs about SessionStore, for any number of handlers, names, objects   *)
(* and configurations.                                                     *)
EXTENDS SessionStore, TLAPS

\* Every step is a new call, a step of a handler inside a call, the passing of
\* time or a collection.
LEMMA NextCases ==
  ASSUME [Next]_vars
  PROVE  \/ \E h \in Handlers, i \in Ids : CallCreate(h, i) \/ CallGet(h, i) \/ CallDestroy(h, i)
         \/ \E h \in Handlers : CallApply(h) \/ CallShutdown(h)
         \/ \E h \in Handlers : Step(h)
         \/ \E s \in Objects : Age(s) \/ Collect(s)
         \/ UNCHANGED vars
  BY DEF Next, NewCall, Environment

-----------------------------------------------------------------------------
(* Type correctness, with the arguments the calls carry.                   *)

Typed == TypeOK /\ Arguments

LEMMA TypedInit == Init => Typed
  BY StoreAssumption DEF Init, Typed, TypeOK, Arguments, Places, Closing

LEMMA TypedCall ==
  ASSUME Typed, NEW h \in Handlers, NEW o, NEW i \in Ids \cup {None}, NEW l \in Places,
         Call(h, o, i, l), i = None => l \in {"install", "sweep"}
  PROVE  Typed'
  BY CallsAssumption, StoreAssumption
     DEF Typed, TypeOK, Arguments, Call, storeVars, sessionVars, Ops

LEMMA TypedCreate ==
  ASSUME Typed, NEW h \in Handlers, CreateStep(h)
  PROVE  Typed'
  <1> USE StoreAssumption DEF Typed, TypeOK, Arguments, storeVars, sessionVars, Places, Closing
  <1>1. CASE Evict(h)
    BY <1>1 DEF Evict, Goto
  <1>2. CASE Join(h)
    BY <1>2 DEF Join, LookingUp, Goto
  <1>3. ASSUME NEW s \in Objects, Reserve(h, s)
        PROVE  Typed'
    BY <1>3 DEF Reserve, LookingUp, Goto
  <1>4. CASE BuildOk(h)
    BY <1>4 DEF BuildOk, Goto
  <1>5. CASE BuildFail(h)
    BY <1>5 DEF BuildFail, Goto
  <1>6. CASE Unlist(h)
    BY <1>6 DEF Unlist, Return
  <1>7. CASE Present(h)
    BY <1>7 DEF Present, Goto
  <1>8. CASE Absent(h)
    BY <1>8 DEF Absent, Goto
  <1>9. CASE AwaitFailed(h)
    BY <1>9 DEF AwaitFailed, Return
  <1>10. CASE AwaitDone(h)
    BY <1>10 DEF AwaitDone, Goto
  <1>11. CASE Renew(h)
    BY <1>11 DEF Renew, Ops
  <1>12. QED
    BY <1>1, <1>2, <1>3, <1>4, <1>5, <1>6, <1>7, <1>8, <1>9, <1>10, <1>11 DEF CreateStep

LEMMA TypedDestroy ==
  ASSUME Typed, NEW h \in Handlers, DestroyStep(h)
  PROVE  Typed'
  <1> USE StoreAssumption DEF Typed, TypeOK, Arguments, storeVars, sessionVars, Places, Closing
  <1>1. CASE Unlink(h)
    BY <1>1 DEF Unlink, Goto
  <1>2. CASE UnlinkMissing(h)
    BY <1>2 DEF UnlinkMissing, Return
  <1>3. ASSUME NEW c \in Configs, InstallConfig(h, c)
        PROVE  Typed'
    BY <1>3 DEF InstallConfig, Goto
  <1>4. CASE Sweep(h)
    BY <1>4 DEF Sweep, CloseNext, Goto
  <1>5. CASE Swept(h)
    BY <1>5 DEF Swept, Return
  <1>6. QED
    BY <1>1, <1>2, <1>3, <1>4, <1>5 DEF DestroyStep

\* session.close() returning leaves the handler's own variables well typed.
LEMMA TypedAfterClose ==
  ASSUME Typed, NEW h \in Handlers, AfterClose(h)
  PROVE  /\ pc' \in [Handlers -> Places]
         /\ op' \in [Handlers -> Ops \cup {None}]
         /\ arg' \in [Handlers -> Ids \cup {None}]
         /\ item' \in [Handlers -> Objects \cup {None}]
         /\ todo' \in [Handlers -> SUBSET Objects]
         /\ Arguments'
  <1> USE DEF Typed, TypeOK, Arguments, Places, Closing
  <1>1. CASE pc[h] = "evict" /\ Goto(h, "relock", None)
    BY <1>1 DEF Goto
  <1>2. CASE Return(h)
    BY <1>2 DEF Return
  <1>3. CASE CloseNext(h, todo[h])
    BY <1>3 DEF CloseNext, Goto
  <1>4. QED
    BY <1>1, <1>2, <1>3 DEF AfterClose

LEMMA TypedClose ==
  ASSUME Typed, NEW h \in Handlers, CloseStep(h)
  PROVE  Typed'
  <1>1. CASE CloseBegin(h)
    BY <1>1 DEF CloseBegin, Typed, TypeOK, Arguments, storeVars, handlerVars
  <1>2. CASE CloseSkip(h)
    BY <1>2, TypedAfterClose DEF CloseSkip, Typed, TypeOK, storeVars
  <1>3. CASE CloseEnd(h)
    BY <1>3, TypedAfterClose DEF CloseEnd, Typed, TypeOK, storeVars
  <1>4. QED
    BY <1>1, <1>2, <1>3 DEF CloseStep

LEMMA TypedUse ==
  ASSUME Typed, NEW h \in Handlers, UseStep(h)
  PROVE  Typed'
  <1> USE StoreAssumption DEF Typed, TypeOK, Arguments, storeVars, sessionVars, Places, Closing
  <1>1. CASE Probe(h) \/ Refuse(h)
    BY <1>1 DEF Probe, Refuse, Return
  <1>2. CASE Lock(h)
    BY <1>2 DEF Lock, Goto
  <1>3. CASE Resolved(h)
    BY <1>3 DEF Resolved, Return
  <1>4. QED
    BY <1>1, <1>2, <1>3 DEF UseStep

LEMMA TypedNext == Typed /\ [Next]_vars => Typed'
  <1> SUFFICES ASSUME Typed, [Next]_vars
               PROVE  Typed'
    OBVIOUS
  <1>1. ASSUME NEW h \in Handlers, NEW i \in Ids,
               CallCreate(h, i) \/ CallGet(h, i) \/ CallDestroy(h, i)
        PROVE  Typed'
    BY <1>1, TypedCall, StoreAssumption
       DEF CallCreate, CallGet, CallDestroy, Places
  <1>2. ASSUME NEW h \in Handlers, CallApply(h) \/ CallShutdown(h)
        PROVE  Typed'
    BY <1>2, TypedCall DEF CallApply, CallShutdown, Places
  <1>3. ASSUME NEW h \in Handlers, Step(h)
        PROVE  Typed'
    BY <1>3, TypedCreate, TypedDestroy, TypedClose, TypedUse DEF Step
  <1>4. ASSUME NEW s \in Objects, Age(s) \/ Collect(s)
        PROVE  Typed'
    <2>1. CASE Age(s)
      BY <2>1 DEF Age, Typed, TypeOK, Arguments, storeVars, handlerVars
    <2>2. CASE Collect(s)
      BY <2>2 DEF Collect, Typed, TypeOK, Arguments, storeVars, handlerVars
    <2>3. QED
      BY <1>4, <2>1, <2>2
  <1>5. CASE UNCHANGED vars
    BY <1>5 DEF vars, storeVars, sessionVars, handlerVars, Typed, TypeOK, Arguments
  <1>6. QED
    BY <1>1, <1>2, <1>3, <1>4, <1>5, NextCases

\* Type correctness of the store, its sessions and its handlers.
THEOREM TypeCorrect == Spec => []Typed
  BY TypedInit, TypedNext, PTL DEF Spec

-----------------------------------------------------------------------------
(* References: objects are listed under their own name and nothing refers  *)
(* to a free object.                                                       *)

LEMMA ReferencesCall ==
  ASSUME Typed, References, NEW h \in Handlers, NEW o, NEW i \in Ids \cup {None},
         NEW l \in {"create", "unlink", "install", "sweep"}, Call(h, o, i, l)
  PROVE  References'
  BY DEF Typed, TypeOK, References, Holds, Allocated, Call, storeVars, sessionVars

LEMMA ReferencesCreate ==
  ASSUME Typed, References, NEW h \in Handlers, CreateStep(h)
  PROVE  References'
  <1> USE StoreAssumption
      DEF Typed, TypeOK, Arguments, References, Holds, Allocated, storeVars, sessionVars
  <1>1. CASE Evict(h)
    BY <1>1 DEF Evict, Goto
  <1>2. CASE Join(h)
    BY <1>2 DEF Join, LookingUp, Goto
  <1>3. ASSUME NEW s \in Objects, Reserve(h, s)
        PROVE  References'
    BY <1>3 DEF Reserve, LookingUp, Goto
  <1>4. CASE BuildOk(h)
    BY <1>4 DEF BuildOk, Goto
  <1>5. CASE BuildFail(h)
    BY <1>5 DEF BuildFail, Goto
  <1>6. CASE Unlist(h)
    BY <1>6 DEF Unlist, Return
  <1>7. CASE Present(h)
    BY <1>7 DEF Present, Goto
  <1>8. CASE Absent(h)
    BY <1>8 DEF Absent, Goto
  <1>9. CASE AwaitFailed(h)
    BY <1>9 DEF AwaitFailed, Return
  <1>10. CASE AwaitDone(h)
    BY <1>10 DEF AwaitDone, Goto
  <1>11. CASE Renew(h)
    BY <1>11 DEF Renew, Ops
  <1>12. QED
    BY <1>1, <1>2, <1>3, <1>4, <1>5, <1>6, <1>7, <1>8, <1>9, <1>10, <1>11 DEF CreateStep

LEMMA ReferencesDestroy ==
  ASSUME Typed, References, NEW h \in Handlers, DestroyStep(h)
  PROVE  References'
  <1> USE StoreAssumption
      DEF Typed, TypeOK, Arguments, References, Holds, Allocated, storeVars, sessionVars
  <1>1. CASE Unlink(h)
    BY <1>1 DEF Unlink, Goto
  <1>2. CASE UnlinkMissing(h)
    BY <1>2 DEF UnlinkMissing, Return
  <1>3. ASSUME NEW c \in Configs, InstallConfig(h, c)
        PROVE  References'
    BY <1>3 DEF InstallConfig, Goto
  <1>4. CASE Sweep(h)
    BY <1>4 DEF Sweep, CloseNext, Goto
  <1>5. CASE Swept(h)
    BY <1>5 DEF Swept, Return
  <1>6. QED
    BY <1>1, <1>2, <1>3, <1>4, <1>5 DEF DestroyStep

LEMMA ReferencesClose ==
  ASSUME Typed, References, NEW h \in Handlers, CloseStep(h)
  PROVE  References'
  <1> USE StoreAssumption DEF Typed, TypeOK, References, Holds, Allocated, storeVars, Closing
  <1>1. CASE CloseBegin(h)
    BY <1>1 DEF CloseBegin, CanClose, handlerVars
  <1>2. ASSUME AfterClose(h), UNCHANGED <<sessions, idOf>>
        PROVE  References'
    BY <1>2 DEF AfterClose, CloseNext, Goto, Return
  <1>3. QED
    BY <1>1, <1>2 DEF CloseStep, CloseSkip, CloseEnd

LEMMA ReferencesUse ==
  ASSUME Typed, References, NEW h \in Handlers, UseStep(h)
  PROVE  References'
  <1> USE StoreAssumption
      DEF Typed, TypeOK, References, Holds, Allocated, storeVars, sessionVars
  <1>1. CASE Probe(h) \/ Refuse(h)
    BY <1>1 DEF Probe, Refuse, Return
  <1>2. CASE Lock(h)
    BY <1>2 DEF Lock, Goto
  <1>3. CASE Resolved(h)
    BY <1>3 DEF Resolved, Return
  <1>4. QED
    BY <1>1, <1>2, <1>3 DEF UseStep

LEMMA ReferencesNext == Typed /\ References /\ [Next]_vars => References'
  <1> SUFFICES ASSUME Typed, References, [Next]_vars
               PROVE  References'
    OBVIOUS
  <1>1. ASSUME NEW h \in Handlers, NEW i \in Ids,
               CallCreate(h, i) \/ CallGet(h, i) \/ CallDestroy(h, i)
        PROVE  References'
    BY <1>1, ReferencesCall DEF CallCreate, CallGet, CallDestroy
  <1>2. ASSUME NEW h \in Handlers, CallApply(h) \/ CallShutdown(h)
        PROVE  References'
    BY <1>2, ReferencesCall DEF CallApply, CallShutdown
  <1>3. ASSUME NEW h \in Handlers, Step(h)
        PROVE  References'
    BY <1>3, ReferencesCreate, ReferencesDestroy, ReferencesClose, ReferencesUse DEF Step
  <1>4. ASSUME NEW s \in Objects, Age(s)
        PROVE  References'
    BY <1>4 DEF Age, References, Holds, Allocated, storeVars, handlerVars
  <1>5. ASSUME NEW s \in Objects, Collect(s)
        PROVE  References'
    BY <1>5, StoreAssumption
       DEF Collect, Typed, TypeOK, References, Holds, Listed, Allocated, storeVars, handlerVars
  <1>6. CASE UNCHANGED vars
    BY <1>6 DEF vars, storeVars, sessionVars, handlerVars, References, Holds, Allocated
  <1>7. QED
    BY <1>1, <1>2, <1>3, <1>4, <1>5, <1>6, NextCases

LEMMA ReferencesInit == Init => References
  BY StoreAssumption DEF Init, References, Holds, Allocated

-----------------------------------------------------------------------------
(* Stages: the fields of an object agree at each stage of its life.        *)

LEMMA StagesCall ==
  ASSUME Typed, References, Stages, Mutex, NEW h \in Handlers, NEW o, NEW i \in Ids \cup {None},
         NEW l \in {"create", "unlink", "install", "sweep"}, Call(h, o, i, l),
         l = "install" => o = "apply"
  PROVE  Stages'
  BY StoreAssumption
     DEF Typed, TypeOK, References, Stages, Mutex, Holds,
          Allocated, Listed, Closing, storeVars, sessionVars, handlerVars, Call

LEMMA StagesCreate ==
  ASSUME Typed, References, Stages, Mutex, NEW h \in Handlers, CreateStep(h)
  PROVE  Stages'
  <1> USE StoreAssumption
      DEF Typed, TypeOK, References, Stages, Mutex, Holds,
          Allocated, Listed, Closing, storeVars, sessionVars, handlerVars
  <1>1. CASE Evict(h)
    BY <1>1 DEF Evict, Goto
  <1>2. CASE Join(h)
    BY <1>2 DEF Join, LookingUp, Goto
  <1>3. ASSUME NEW s \in Objects, Reserve(h, s)
        PROVE  Stages'
    BY <1>3 DEF Reserve, LookingUp, Goto
  <1>4. CASE BuildOk(h)
    BY <1>4 DEF BuildOk, Goto
  <1>5. CASE BuildFail(h)
    BY <1>5 DEF BuildFail, Goto
  <1>6. CASE Unlist(h)
    BY <1>6 DEF Unlist, Return
  <1>7. CASE Present(h)
    BY <1>7 DEF Present, Goto
  <1>8. CASE Absent(h)
    BY <1>8 DEF Absent, StillListed, Goto
  <1>9. CASE AwaitFailed(h)
    BY <1>9 DEF AwaitFailed, Return
  <1>10. CASE AwaitDone(h)
    BY <1>10 DEF AwaitDone, Goto
  <1>11. CASE Renew(h)
    BY <1>11 DEF Renew
  <1>12. QED
    BY <1>1, <1>2, <1>3, <1>4, <1>5, <1>6, <1>7, <1>8, <1>9, <1>10, <1>11 DEF CreateStep

LEMMA StagesDestroy ==
  ASSUME Typed, References, Stages, Mutex, NEW h \in Handlers, DestroyStep(h)
  PROVE  Stages'
  <1> USE StoreAssumption
      DEF Typed, TypeOK, References, Stages, Mutex, Holds,
          Allocated, Listed, Closing, storeVars, sessionVars, handlerVars
  <1>1. CASE Unlink(h)
    BY <1>1 DEF Unlink, Goto
  <1>2. CASE UnlinkMissing(h)
    BY <1>2 DEF UnlinkMissing, Return
  <1>3. ASSUME NEW c \in Configs, InstallConfig(h, c)
        PROVE  Stages'
    BY <1>3 DEF InstallConfig, Goto
  <1>4. CASE Sweep(h)
    BY <1>4 DEF Sweep, CloseNext, Goto
  <1>5. CASE Swept(h)
    BY <1>5 DEF Swept, Return
  <1>6. QED
    BY <1>1, <1>2, <1>3, <1>4, <1>5 DEF DestroyStep

LEMMA StagesClose ==
  ASSUME Typed, References, Stages, Mutex, NEW h \in Handlers, CloseStep(h)
  PROVE  Stages'
  <1> USE StoreAssumption
      DEF Typed, TypeOK, References, Stages, Mutex, Holds,
          Allocated, Listed, Closing, storeVars, sessionVars, handlerVars,
          AfterClose, CloseNext, CanClose
  <1>1. CASE CloseBegin(h)
    BY <1>1 DEF CloseBegin
  <1>2. CASE CloseSkip(h)
    BY <1>2 DEF CloseSkip, Goto, Return
  <1>3. CASE CloseEnd(h)
    BY <1>3, SMTT(30) DEF CloseEnd, Goto, Return
  <1>4. QED
    BY <1>1, <1>2, <1>3 DEF CloseStep

LEMMA StagesUse ==
  ASSUME Typed, References, Stages, Mutex, NEW h \in Handlers, UseStep(h)
  PROVE  Stages'
  <1> USE StoreAssumption
      DEF Typed, TypeOK, References, Stages, Mutex, Holds,
          Allocated, Listed, Closing, storeVars, sessionVars, handlerVars
  <1>1. CASE Probe(h) \/ Refuse(h)
    BY <1>1 DEF Probe, Refuse, Return
  <1>2. CASE Lock(h)
    BY <1>2 DEF Lock, Goto
  <1>3. CASE Resolved(h)
    BY <1>3 DEF Resolved, Return
  <1>4. QED
    BY <1>1, <1>2, <1>3 DEF UseStep

LEMMA StagesNext == Typed /\ References /\ Stages /\ Mutex /\ [Next]_vars => Stages'
  <1> SUFFICES ASSUME Typed, References, Stages, Mutex, [Next]_vars
               PROVE  Stages'
    OBVIOUS
  <1>1. ASSUME NEW h \in Handlers, NEW i \in Ids,
               CallCreate(h, i) \/ CallGet(h, i) \/ CallDestroy(h, i)
        PROVE  Stages'
    BY <1>1, StagesCall DEF CallCreate, CallGet, CallDestroy
  <1>2. ASSUME NEW h \in Handlers, CallApply(h) \/ CallShutdown(h)
        PROVE  Stages'
    BY <1>2, StagesCall DEF CallApply, CallShutdown
  <1>3. ASSUME NEW h \in Handlers, Step(h)
        PROVE  Stages'
    BY <1>3, StagesCreate, StagesDestroy, StagesClose, StagesUse DEF Step
  <1>4. ASSUME NEW s \in Objects, Age(s)
        PROVE  Stages'
    BY <1>4 DEF Age, Typed, TypeOK, References, Stages, Mutex, Holds,
          Allocated, Listed, Closing, storeVars, sessionVars, handlerVars
  <1>5. ASSUME NEW s \in Objects, Collect(s)
        PROVE  Stages'
    BY <1>5, StoreAssumption
       DEF Collect, Typed, TypeOK, References, Stages, Mutex, Holds,
          Allocated, Listed, Closing, storeVars, sessionVars, handlerVars
  <1>6. CASE UNCHANGED vars
    BY <1>6 DEF vars, Typed, TypeOK, References, Stages, Mutex, Holds,
          Allocated, Listed, Closing, storeVars, sessionVars, handlerVars
  <1>7. QED
    BY <1>1, <1>2, <1>3, <1>4, <1>5, <1>6, NextCases

-----------------------------------------------------------------------------
(* Mutex: session.mu belongs to the one handler that drives or closes it.  *)

LEMMA MutexCall ==
  ASSUME Typed, References, Stages, Mutex, NEW h \in Handlers, NEW o, NEW i \in Ids \cup {None},
         NEW l \in {"create", "unlink", "install", "sweep"}, Call(h, o, i, l),
         l = "install" => o = "apply"
  PROVE  Mutex'
  BY StoreAssumption
     DEF Typed, TypeOK, References, Stages, Mutex,
          Holds, Allocated, Listed, Closing, storeVars, sessionVars, handlerVars, Call

LEMMA MutexCreate ==
  ASSUME Typed, References, Stages, Mutex, NEW h \in Handlers, CreateStep(h)
  PROVE  Mutex'
  <1> USE StoreAssumption
      DEF Typed, TypeOK, References, Stages, Mutex,
          Holds, Allocated, Listed, Closing, storeVars, sessionVars, handlerVars
  <1>1. CASE Evict(h)
    BY <1>1 DEF Evict, Goto
  <1>2. CASE Join(h)
    BY <1>2 DEF Join, LookingUp, Goto
  <1>3. ASSUME NEW s \in Objects, Reserve(h, s)
        PROVE  Mutex'
    BY <1>3 DEF Reserve, LookingUp, Goto
  <1>4. CASE BuildOk(h)
    BY <1>4 DEF BuildOk, Goto
  <1>5. CASE BuildFail(h)
    BY <1>5 DEF BuildFail, Goto
  <1>6. CASE Unlist(h)
    BY <1>6 DEF Unlist, Return
  <1>7. CASE Present(h)
    BY <1>7 DEF Present, Goto
  <1>8. CASE Absent(h)
    BY <1>8 DEF Absent, StillListed, Goto
  <1>9. CASE AwaitFailed(h)
    BY <1>9 DEF AwaitFailed, Return
  <1>10. CASE AwaitDone(h)
    BY <1>10 DEF AwaitDone, Goto
  <1>11. CASE Renew(h)
    BY <1>11 DEF Renew
  <1>12. QED
    BY <1>1, <1>2, <1>3, <1>4, <1>5, <1>6, <1>7, <1>8, <1>9, <1>10, <1>11 DEF CreateStep

LEMMA MutexDestroy ==
  ASSUME Typed, References, Stages, Mutex, NEW h \in Handlers, DestroyStep(h)
  PROVE  Mutex'
  <1> USE StoreAssumption
      DEF Typed, TypeOK, References, Stages, Mutex,
          Holds, Allocated, Listed, Closing, storeVars, sessionVars, handlerVars
  <1>1. CASE Unlink(h)
    BY <1>1 DEF Unlink, Goto
  <1>2. CASE UnlinkMissing(h)
    BY <1>2 DEF UnlinkMissing, Return
  <1>3. ASSUME NEW c \in Configs, InstallConfig(h, c)
        PROVE  Mutex'
    BY <1>3 DEF InstallConfig, Goto
  <1>4. CASE Sweep(h)
    BY <1>4, SMTT(30) DEF Sweep, CloseNext, Goto
  <1>5. CASE Swept(h)
    BY <1>5 DEF Swept, Return
  <1>6. QED
    BY <1>1, <1>2, <1>3, <1>4, <1>5 DEF DestroyStep

LEMMA MutexClose ==
  ASSUME Typed, References, Stages, Mutex, NEW h \in Handlers, CloseStep(h)
  PROVE  Mutex'
  <1> USE StoreAssumption
      DEF Typed, TypeOK, References, Stages, Mutex,
          Holds, Allocated, Listed, Closing, storeVars, sessionVars, handlerVars,
          AfterClose, CloseNext, CanClose
  <1>1. CASE CloseBegin(h)
    BY <1>1 DEF CloseBegin
  <1>2. CASE CloseSkip(h)
    BY <1>2 DEF CloseSkip, Goto, Return
  <1>3. CASE CloseEnd(h)
    <2>1. ASSUME NEW s \in Objects, mu'[s] # None
          PROVE  /\ s # item[h] /\ mu'[s] = mu[s] /\ mu[s] \in Handlers \ {h}
                 /\ browser'[s] = browser[s] /\ closed'[s] = closed[s]
      BY <1>3, <2>1 DEF CloseEnd
    <2>2. ASSUME NEW g \in Handlers \ {h}
          PROVE  pc'[g] = pc[g] /\ item'[g] = item[g]
      BY <1>3 DEF CloseEnd, Goto, Return
    <2>3. pc'[h] # "resolve"
      BY <1>3 DEF CloseEnd, Goto, Return
    <2>4. ASSUME NEW g \in Handlers, pc'[g] = "resolve"
          PROVE  mu'[item'[g]] = g
      BY <1>3, <2>2, <2>3, <2>4 DEF CloseEnd
    <2>5. ASSUME NEW s \in Objects, closed'[s], browser'[s] = "live"
          PROVE  mu'[s] # None
      BY <1>3, <2>5 DEF CloseEnd
    <2>6. ASSUME NEW s \in Objects, mu'[s] # None
          PROVE  /\ item'[mu'[s]] = s /\ browser'[s] = "live"
                 /\ pc'[mu'[s]] \in Closing \cup {"resolve"}
                 /\ closed'[s] <=> pc'[mu'[s]] \in Closing
      BY <2>1, <2>2, <2>6
    <2>7. QED
      BY <2>4, <2>5, <2>6
  <1>4. QED
    BY <1>1, <1>2, <1>3 DEF CloseStep

LEMMA MutexUse ==
  ASSUME Typed, References, Stages, Mutex, NEW h \in Handlers, UseStep(h)
  PROVE  Mutex'
  <1> USE StoreAssumption
      DEF Typed, TypeOK, References, Stages, Mutex,
          Holds, Allocated, Listed, Closing, storeVars, sessionVars, handlerVars
  <1>1. CASE Probe(h) \/ Refuse(h)
    BY <1>1 DEF Probe, Refuse, Return
  <1>2. CASE Lock(h)
    BY <1>2 DEF Lock, Goto
  <1>3. CASE Resolved(h)
    BY <1>3 DEF Resolved, Return
  <1>4. QED
    BY <1>1, <1>2, <1>3 DEF UseStep

LEMMA MutexNext == Typed /\ References /\ Stages /\ Mutex /\ [Next]_vars => Mutex'
  <1> SUFFICES ASSUME Typed, References, Stages, Mutex, [Next]_vars
               PROVE  Mutex'
    OBVIOUS
  <1>1. ASSUME NEW h \in Handlers, NEW i \in Ids,
               CallCreate(h, i) \/ CallGet(h, i) \/ CallDestroy(h, i)
        PROVE  Mutex'
    BY <1>1, MutexCall DEF CallCreate, CallGet, CallDestroy
  <1>2. ASSUME NEW h \in Handlers, CallApply(h) \/ CallShutdown(h)
        PROVE  Mutex'
    BY <1>2, MutexCall DEF CallApply, CallShutdown
  <1>3. ASSUME NEW h \in Handlers, Step(h)
        PROVE  Mutex'
    BY <1>3, MutexCreate, MutexDestroy, MutexClose, MutexUse DEF Step
  <1>4. ASSUME NEW s \in Objects, Age(s)
        PROVE  Mutex'
    BY <1>4 DEF Age, Typed, TypeOK, References, Stages, Mutex,
          Holds, Allocated, Listed, Closing, storeVars, sessionVars, handlerVars
  <1>5. ASSUME NEW s \in Objects, Collect(s)
        PROVE  Mutex'
    BY <1>5, StoreAssumption
       DEF Collect, Typed, TypeOK, References, Stages, Mutex,
          Holds, Allocated, Listed, Closing, storeVars, sessionVars, handlerVars
  <1>6. CASE UNCHANGED vars
    BY <1>6 DEF vars, Typed, TypeOK, References, Stages, Mutex,
          Holds, Allocated, Listed, Closing, storeVars, sessionVars, handlerVars
  <1>7. QED
    BY <1>1, <1>2, <1>3, <1>4, <1>5, <1>6, NextCases

-----------------------------------------------------------------------------
(* Accounted: an object that left the store has a closer.                  *)

LEMMA AccountedCall ==
  ASSUME Typed, References, Stages, Mutex, Accounted, NEW h \in Handlers, NEW o, NEW i \in Ids \cup {None},
         NEW l \in {"create", "unlink", "install", "sweep"}, Call(h, o, i, l),
         l = "install" => o = "apply"
  PROVE  Accounted'
  BY StoreAssumption
     DEF Typed, TypeOK, References, Stages, Mutex,
          Accounted, Closer, Holds, Allocated, Listed, Closing, storeVars, sessionVars, handlerVars, Call

LEMMA AccountedCreate ==
  ASSUME Typed, References, Stages, Mutex, Accounted, NEW h \in Handlers, CreateStep(h)
  PROVE  Accounted'
  <1> USE StoreAssumption
      DEF Typed, TypeOK, References, Stages, Mutex,
          Accounted, Closer, Holds, Allocated, Listed, Closing, storeVars, sessionVars, handlerVars
  <1>1. CASE Evict(h)
    BY <1>1 DEF Evict, Goto
  <1>2. CASE Join(h)
    BY <1>2 DEF Join, LookingUp, Goto
  <1>3. ASSUME NEW s \in Objects, Reserve(h, s)
        PROVE  Accounted'
    BY <1>3 DEF Reserve, LookingUp, Goto
  <1>4. CASE BuildOk(h)
    BY <1>4 DEF BuildOk, Goto
  <1>5. CASE BuildFail(h)
    BY <1>5 DEF BuildFail, Goto
  <1>6. CASE Unlist(h)
    BY <1>6 DEF Unlist, Return
  <1>7. CASE Present(h)
    BY <1>7 DEF Present, Goto
  <1>8. CASE Absent(h)
    BY <1>8 DEF Absent, StillListed, Goto
  <1>9. CASE AwaitFailed(h)
    BY <1>9 DEF AwaitFailed, Return
  <1>10. CASE AwaitDone(h)
    BY <1>10 DEF AwaitDone, Goto
  <1>11. CASE Renew(h)
    BY <1>11 DEF Renew
  <1>12. QED
    BY <1>1, <1>2, <1>3, <1>4, <1>5, <1>6, <1>7, <1>8, <1>9, <1>10, <1>11 DEF CreateStep

LEMMA AccountedDestroy ==
  ASSUME Typed, References, Stages, Mutex, Accounted, NEW h \in Handlers, DestroyStep(h)
  PROVE  Accounted'
  <1> USE StoreAssumption
      DEF Typed, TypeOK, References, Stages, Mutex,
          Accounted, Closer, Holds, Allocated, Listed, Closing, storeVars, sessionVars, handlerVars
  <1>1. CASE Unlink(h)
    BY <1>1 DEF Unlink, Goto
  <1>2. CASE UnlinkMissing(h)
    BY <1>2 DEF UnlinkMissing, Return
  <1>3. ASSUME NEW c \in Configs, InstallConfig(h, c)
        PROVE  Accounted'
    BY <1>3 DEF InstallConfig, Goto
  <1>4. CASE Sweep(h)
    <2> DEFINE Drained == {sessions[i] : i \in Ids} \ {None}
    <2>1. ASSUME NEW s \in Drained
          PROVE  Closer(h, s)'
      <3>1. CloseNext(h, Drained)
        BY <1>4 DEF Sweep
      <3>2. PICK x \in Drained : /\ pc' = [pc EXCEPT ![h] = "drain"]
                                /\ item' = [item EXCEPT ![h] = x]
                                /\ todo' = [todo EXCEPT ![h] = Drained \ {x}]
        <4> HIDE DEF Drained
        <4> QED
          BY <2>1, <3>1 DEF CloseNext
      <3>3. CASE s = x
        BY <3>2, <3>3
      <3>4. CASE s # x
        <4>1. s \in todo'[h]
          BY <2>1, <3>2, <3>4
        <4> QED
          BY <3>2, <4>1
      <3>5. QED
        BY <3>3, <3>4
    <2>2. ASSUME NEW s \in Objects, Allocated(s), s \notin Drained
          PROVE  ~Listed(s)
      BY <2>2
    <2>3. ASSUME NEW g \in Handlers, NEW s \in Objects, Closer(g, s)
          PROVE  Closer(g, s)'
      BY <1>4, <2>3 DEF Sweep, CloseNext, Goto
    <2>4. UNCHANGED sessionVars
      BY <1>4 DEF Sweep
    <2>5. QED
      BY <2>1, <2>2, <2>3, <2>4
  <1>5. CASE Swept(h)
    BY <1>5 DEF Swept, Return
  <1>6. QED
    BY <1>1, <1>2, <1>3, <1>4, <1>5 DEF DestroyStep

LEMMA AccountedClose ==
  ASSUME Typed, References, Stages, Mutex, Accounted, NEW h \in Handlers, CloseStep(h)
  PROVE  Accounted'
  <1> USE StoreAssumption
      DEF Typed, TypeOK, References, Stages, Mutex,
          Accounted, Closer, Holds, Allocated, Listed, Closing, storeVars, sessionVars, handlerVars,
          AfterClose, CloseNext, CanClose
  <1>1. CASE CloseBegin(h)
    BY <1>1 DEF CloseBegin
  <1>2. CASE CloseSkip(h)
    BY <1>2 DEF CloseSkip, Goto, Return
  <1>3. CASE CloseEnd(h)
    BY <1>3 DEF CloseEnd, Goto, Return
  <1>4. QED
    BY <1>1, <1>2, <1>3 DEF CloseStep

LEMMA AccountedUse ==
  ASSUME Typed, References, Stages, Mutex, Accounted, NEW h \in Handlers, UseStep(h)
  PROVE  Accounted'
  <1> USE StoreAssumption
      DEF Typed, TypeOK, References, Stages, Mutex,
          Accounted, Closer, Holds, Allocated, Listed, Closing, storeVars, sessionVars, handlerVars
  <1>1. CASE Probe(h) \/ Refuse(h)
    BY <1>1 DEF Probe, Refuse, Return
  <1>2. CASE Lock(h)
    BY <1>2 DEF Lock, Goto
  <1>3. CASE Resolved(h)
    BY <1>3 DEF Resolved, Return
  <1>4. QED
    BY <1>1, <1>2, <1>3 DEF UseStep

LEMMA AccountedNext == Typed /\ References /\ Stages /\ Mutex /\ Accounted /\ [Next]_vars => Accounted'
  <1> SUFFICES ASSUME Typed, References, Stages, Mutex, Accounted, [Next]_vars
               PROVE  Accounted'
    OBVIOUS
  <1>1. ASSUME NEW h \in Handlers, NEW i \in Ids,
               CallCreate(h, i) \/ CallGet(h, i) \/ CallDestroy(h, i)
        PROVE  Accounted'
    BY <1>1, AccountedCall DEF CallCreate, CallGet, CallDestroy
  <1>2. ASSUME NEW h \in Handlers, CallApply(h) \/ CallShutdown(h)
        PROVE  Accounted'
    BY <1>2, AccountedCall DEF CallApply, CallShutdown
  <1>3. ASSUME NEW h \in Handlers, Step(h)
        PROVE  Accounted'
    BY <1>3, AccountedCreate, AccountedDestroy, AccountedClose, AccountedUse DEF Step
  <1>4. ASSUME NEW s \in Objects, Age(s)
        PROVE  Accounted'
    BY <1>4 DEF Age, Typed, TypeOK, References, Stages, Mutex,
          Accounted, Closer, Holds, Allocated, Listed, Closing, storeVars, sessionVars, handlerVars
  <1>5. ASSUME NEW s \in Objects, Collect(s)
        PROVE  Accounted'
    BY <1>5, StoreAssumption
       DEF Collect, Typed, TypeOK, References, Stages, Mutex,
          Accounted, Closer, Holds, Allocated, Listed, Closing, storeVars, sessionVars, handlerVars
  <1>6. CASE UNCHANGED vars
    BY <1>6 DEF vars, Typed, TypeOK, References, Stages, Mutex,
          Accounted, Closer, Holds, Allocated, Listed, Closing, storeVars, sessionVars, handlerVars
  <1>7. QED
    BY <1>1, <1>2, <1>3, <1>4, <1>5, <1>6, NextCases

-----------------------------------------------------------------------------
(* ClosersUnlisted: an object leaves the store before it is closed.         *)

LEMMA ClosersUnlistedCall ==
  ASSUME Typed, References, ClosersUnlisted, NEW h \in Handlers, NEW o, NEW i \in Ids \cup {None},
         NEW l \in {"create", "unlink", "install", "sweep"}, Call(h, o, i, l),
         l = "install" => o = "apply"
  PROVE  ClosersUnlisted'
  BY StoreAssumption
     DEF Typed, TypeOK, Arguments, References,
          ClosersUnlisted, Closer, Holds, Allocated, Listed, Closing, storeVars, sessionVars,
          handlerVars, Call

LEMMA ClosersUnlistedCreate ==
  ASSUME Typed, References, ClosersUnlisted, NEW h \in Handlers, CreateStep(h)
  PROVE  ClosersUnlisted'
  <1> USE StoreAssumption
      DEF Typed, TypeOK, Arguments, References,
          ClosersUnlisted, Closer, Holds, Allocated, Listed, Closing, storeVars, sessionVars,
          handlerVars
  <1>1. CASE Evict(h)
    BY <1>1 DEF Evict, Goto
  <1>2. CASE Join(h)
    BY <1>2 DEF Join, LookingUp, Goto
  <1>3. ASSUME NEW s \in Objects, Reserve(h, s)
        PROVE  ClosersUnlisted'
    BY <1>3 DEF Reserve, LookingUp, Goto
  <1>4. CASE BuildOk(h)
    BY <1>4 DEF BuildOk, Goto
  <1>5. CASE BuildFail(h)
    BY <1>5 DEF BuildFail, Goto
  <1>6. CASE Unlist(h)
    BY <1>6 DEF Unlist, Return
  <1>7. CASE Present(h)
    BY <1>7 DEF Present, Goto
  <1>8. CASE Absent(h)
    BY <1>8 DEF Absent, StillListed, Goto
  <1>9. CASE AwaitFailed(h)
    BY <1>9 DEF AwaitFailed, Return
  <1>10. CASE AwaitDone(h)
    BY <1>10 DEF AwaitDone, Goto
  <1>11. CASE Renew(h)
    BY <1>11 DEF Renew
  <1>12. QED
    BY <1>1, <1>2, <1>3, <1>4, <1>5, <1>6, <1>7, <1>8, <1>9, <1>10, <1>11 DEF CreateStep

LEMMA ClosersUnlistedDestroy ==
  ASSUME Typed, References, ClosersUnlisted, NEW h \in Handlers, DestroyStep(h)
  PROVE  ClosersUnlisted'
  <1> USE StoreAssumption
      DEF Typed, TypeOK, Arguments, References,
          ClosersUnlisted, Closer, Holds, Allocated, Listed, Closing, storeVars, sessionVars,
          handlerVars
  <1>1. CASE Unlink(h)
    BY <1>1 DEF Unlink, Goto
  <1>2. CASE UnlinkMissing(h)
    BY <1>2 DEF UnlinkMissing, Return
  <1>3. ASSUME NEW c \in Configs, InstallConfig(h, c)
        PROVE  ClosersUnlisted'
    BY <1>3 DEF InstallConfig, Goto
  <1>4. CASE Sweep(h)
    BY <1>4 DEF Sweep, CloseNext, Goto
  <1>5. CASE Swept(h)
    BY <1>5 DEF Swept, Return
  <1>6. QED
    BY <1>1, <1>2, <1>3, <1>4, <1>5 DEF DestroyStep

LEMMA ClosersUnlistedClose ==
  ASSUME Typed, References, ClosersUnlisted, NEW h \in Handlers, CloseStep(h)
  PROVE  ClosersUnlisted'
  <1> USE StoreAssumption
      DEF Typed, TypeOK, Arguments, References,
          ClosersUnlisted, Closer, Holds, Allocated, Listed, Closing, storeVars, sessionVars,
          handlerVars,
          AfterClose, CloseNext, CanClose
  <1>1. CASE CloseBegin(h)
    BY <1>1 DEF CloseBegin
  <1>2. CASE CloseSkip(h)
    BY <1>2 DEF CloseSkip, Goto, Return
  <1>3. CASE CloseEnd(h)
    BY <1>3 DEF CloseEnd, Goto, Return
  <1>4. QED
    BY <1>1, <1>2, <1>3 DEF CloseStep

LEMMA ClosersUnlistedUse ==
  ASSUME Typed, References, ClosersUnlisted, NEW h \in Handlers, UseStep(h)
  PROVE  ClosersUnlisted'
  <1> USE StoreAssumption
      DEF Typed, TypeOK, Arguments, References,
          ClosersUnlisted, Closer, Holds, Allocated, Listed, Closing, storeVars, sessionVars,
          handlerVars
  <1>1. CASE Probe(h) \/ Refuse(h)
    BY <1>1 DEF Probe, Refuse, Return
  <1>2. CASE Lock(h)
    BY <1>2 DEF Lock, Goto
  <1>3. CASE Resolved(h)
    BY <1>3 DEF Resolved, Return
  <1>4. QED
    BY <1>1, <1>2, <1>3 DEF UseStep

LEMMA ClosersUnlistedNext == Typed /\ References /\ ClosersUnlisted /\ [Next]_vars => ClosersUnlisted'
  <1> SUFFICES ASSUME Typed, References, ClosersUnlisted, [Next]_vars
               PROVE  ClosersUnlisted'
    OBVIOUS
  <1>1. ASSUME NEW h \in Handlers, NEW i \in Ids,
               CallCreate(h, i) \/ CallGet(h, i) \/ CallDestroy(h, i)
        PROVE  ClosersUnlisted'
    BY <1>1, ClosersUnlistedCall DEF CallCreate, CallGet, CallDestroy
  <1>2. ASSUME NEW h \in Handlers, CallApply(h) \/ CallShutdown(h)
        PROVE  ClosersUnlisted'
    BY <1>2, ClosersUnlistedCall DEF CallApply, CallShutdown
  <1>3. ASSUME NEW h \in Handlers, Step(h)
        PROVE  ClosersUnlisted'
    BY <1>3, ClosersUnlistedCreate, ClosersUnlistedDestroy, ClosersUnlistedClose, ClosersUnlistedUse DEF Step
  <1>4. ASSUME NEW s \in Objects, Age(s)
        PROVE  ClosersUnlisted'
    BY <1>4 DEF Age, Typed, TypeOK, Arguments, References,
          ClosersUnlisted, Closer, Holds, Allocated, Listed, Closing, storeVars, sessionVars,
          handlerVars
  <1>5. ASSUME NEW s \in Objects, Collect(s)
        PROVE  ClosersUnlisted'
    BY <1>5, StoreAssumption
       DEF Collect, Typed, TypeOK, Arguments, References,
          ClosersUnlisted, Closer, Holds, Allocated, Listed, Closing, storeVars, sessionVars,
          handlerVars
  <1>6. CASE UNCHANGED vars
    BY <1>6 DEF vars, Typed, TypeOK, Arguments, References,
          ClosersUnlisted, Closer, Holds, Allocated, Listed, Closing, storeVars, sessionVars,
          handlerVars
  <1>7. QED
    BY <1>1, <1>2, <1>3, <1>4, <1>5, <1>6, NextCases

-----------------------------------------------------------------------------
(* FailedUnlisted: a failed construction is about to be unlisted.          *)

LEMMA FailedUnlistedCall ==
  ASSUME Typed, References, Stages, FailedUnlisted, NEW h \in Handlers, NEW o, NEW i \in Ids \cup {None},
         NEW l \in {"create", "unlink", "install", "sweep"}, Call(h, o, i, l),
         l = "install" => o = "apply"
  PROVE  FailedUnlisted'
  BY StoreAssumption
     DEF Typed, TypeOK, References, Stages, FailedUnlisted,
          Holds, Allocated, Listed, Closing, storeVars, sessionVars, handlerVars, Call

LEMMA FailedUnlistedCreate ==
  ASSUME Typed, References, Stages, FailedUnlisted, NEW h \in Handlers, CreateStep(h)
  PROVE  FailedUnlisted'
  <1> USE StoreAssumption
      DEF Typed, TypeOK, References, Stages, FailedUnlisted,
          Holds, Allocated, Listed, Closing, storeVars, sessionVars, handlerVars
  <1>1. CASE Evict(h)
    BY <1>1 DEF Evict, Goto
  <1>2. CASE Join(h)
    BY <1>2 DEF Join, LookingUp, Goto
  <1>3. ASSUME NEW s \in Objects, Reserve(h, s)
        PROVE  FailedUnlisted'
    BY <1>3 DEF Reserve, LookingUp, Goto
  <1>4. CASE BuildOk(h)
    BY <1>4 DEF BuildOk, Goto
  <1>5. CASE BuildFail(h)
    BY <1>5 DEF BuildFail, Goto
  <1>6. CASE Unlist(h)
    BY <1>6 DEF Unlist, Return
  <1>7. CASE Present(h)
    BY <1>7 DEF Present, Goto
  <1>8. CASE Absent(h)
    BY <1>8 DEF Absent, StillListed, Goto
  <1>9. CASE AwaitFailed(h)
    BY <1>9 DEF AwaitFailed, Return
  <1>10. CASE AwaitDone(h)
    BY <1>10 DEF AwaitDone, Goto
  <1>11. CASE Renew(h)
    BY <1>11 DEF Renew
  <1>12. QED
    BY <1>1, <1>2, <1>3, <1>4, <1>5, <1>6, <1>7, <1>8, <1>9, <1>10, <1>11 DEF CreateStep

LEMMA FailedUnlistedDestroy ==
  ASSUME Typed, References, Stages, FailedUnlisted, NEW h \in Handlers, DestroyStep(h)
  PROVE  FailedUnlisted'
  <1> USE StoreAssumption
      DEF Typed, TypeOK, References, Stages, FailedUnlisted,
          Holds, Allocated, Listed, Closing, storeVars, sessionVars, handlerVars
  <1>1. CASE Unlink(h)
    BY <1>1 DEF Unlink, Goto
  <1>2. CASE UnlinkMissing(h)
    BY <1>2 DEF UnlinkMissing, Return
  <1>3. ASSUME NEW c \in Configs, InstallConfig(h, c)
        PROVE  FailedUnlisted'
    BY <1>3 DEF InstallConfig, Goto
  <1>4. CASE Sweep(h)
    BY <1>4 DEF Sweep, CloseNext, Goto
  <1>5. CASE Swept(h)
    BY <1>5 DEF Swept, Return
  <1>6. QED
    BY <1>1, <1>2, <1>3, <1>4, <1>5 DEF DestroyStep

LEMMA FailedUnlistedClose ==
  ASSUME Typed, References, Stages, FailedUnlisted, NEW h \in Handlers, CloseStep(h)
  PROVE  FailedUnlisted'
  <1> USE StoreAssumption
      DEF Typed, TypeOK, References, Stages, FailedUnlisted,
          Holds, Allocated, Listed, Closing, storeVars, sessionVars, handlerVars,
          AfterClose, CloseNext, CanClose
  <1>1. CASE CloseBegin(h)
    BY <1>1 DEF CloseBegin
  <1>2. CASE CloseSkip(h)
    BY <1>2 DEF CloseSkip, Goto, Return
  <1>3. CASE CloseEnd(h)
    BY <1>3 DEF CloseEnd, Goto, Return
  <1>4. QED
    BY <1>1, <1>2, <1>3 DEF CloseStep

LEMMA FailedUnlistedUse ==
  ASSUME Typed, References, Stages, FailedUnlisted, NEW h \in Handlers, UseStep(h)
  PROVE  FailedUnlisted'
  <1> USE StoreAssumption
      DEF Typed, TypeOK, References, Stages, FailedUnlisted,
          Holds, Allocated, Listed, Closing, storeVars, sessionVars, handlerVars
  <1>1. CASE Probe(h) \/ Refuse(h)
    BY <1>1 DEF Probe, Refuse, Return
  <1>2. CASE Lock(h)
    BY <1>2 DEF Lock, Goto
  <1>3. CASE Resolved(h)
    BY <1>3 DEF Resolved, Return
  <1>4. QED
    BY <1>1, <1>2, <1>3 DEF UseStep

LEMMA FailedUnlistedNext == Typed /\ References /\ Stages /\ FailedUnlisted /\ [Next]_vars => FailedUnlisted'
  <1> SUFFICES ASSUME Typed, References, Stages, FailedUnlisted, [Next]_vars
               PROVE  FailedUnlisted'
    OBVIOUS
  <1>1. ASSUME NEW h \in Handlers, NEW i \in Ids,
               CallCreate(h, i) \/ CallGet(h, i) \/ CallDestroy(h, i)
        PROVE  FailedUnlisted'
    BY <1>1, FailedUnlistedCall DEF CallCreate, CallGet, CallDestroy
  <1>2. ASSUME NEW h \in Handlers, CallApply(h) \/ CallShutdown(h)
        PROVE  FailedUnlisted'
    BY <1>2, FailedUnlistedCall DEF CallApply, CallShutdown
  <1>3. ASSUME NEW h \in Handlers, Step(h)
        PROVE  FailedUnlisted'
    BY <1>3, FailedUnlistedCreate, FailedUnlistedDestroy, FailedUnlistedClose, FailedUnlistedUse DEF Step
  <1>4. ASSUME NEW s \in Objects, Age(s)
        PROVE  FailedUnlisted'
    BY <1>4 DEF Age, Typed, TypeOK, References, Stages, FailedUnlisted,
          Holds, Allocated, Listed, Closing, storeVars, sessionVars, handlerVars
  <1>5. ASSUME NEW s \in Objects, Collect(s)
        PROVE  FailedUnlisted'
    BY <1>5, StoreAssumption
       DEF Collect, Typed, TypeOK, References, Stages, FailedUnlisted,
          Holds, Allocated, Listed, Closing, storeVars, sessionVars, handlerVars
  <1>6. CASE UNCHANGED vars
    BY <1>6 DEF vars, Typed, TypeOK, References, Stages, FailedUnlisted,
          Holds, Allocated, Listed, Closing, storeVars, sessionVars, handlerVars
  <1>7. QED
    BY <1>1, <1>2, <1>3, <1>4, <1>5, <1>6, NextCases

-----------------------------------------------------------------------------
(* ConfigKept: sessions of an older configuration await the sweep.          *)

ConfigKept == Saving /\ NoStaleConfig

LEMMA ConfigKeptCall ==
  ASSUME Typed, References, ConfigKept, NEW h \in Handlers, NEW o, NEW i \in Ids \cup {None},
         NEW l \in {"create", "unlink", "install", "sweep"}, Call(h, o, i, l),
         l = "install" => o = "apply"
  PROVE  ConfigKept'
  BY StoreAssumption
     DEF Typed, TypeOK, References, ConfigKept, Saving,
          NoStaleConfig, Holds, Allocated, Listed, storeVars, sessionVars, handlerVars, Call

LEMMA ConfigKeptCreate ==
  ASSUME Typed, References, ConfigKept, NEW h \in Handlers, CreateStep(h)
  PROVE  ConfigKept'
  <1> USE StoreAssumption
      DEF Typed, TypeOK, References, ConfigKept, Saving,
          NoStaleConfig, Holds, Allocated, Listed, storeVars, sessionVars, handlerVars
  <1>1. CASE Evict(h)
    BY <1>1 DEF Evict, Goto
  <1>2. CASE Join(h)
    BY <1>2 DEF Join, LookingUp, Goto
  <1>3. ASSUME NEW s \in Objects, Reserve(h, s)
        PROVE  ConfigKept'
    BY <1>3 DEF Reserve, LookingUp, Goto
  <1>4. CASE BuildOk(h)
    BY <1>4 DEF BuildOk, Goto
  <1>5. CASE BuildFail(h)
    BY <1>5 DEF BuildFail, Goto
  <1>6. CASE Unlist(h)
    BY <1>6 DEF Unlist, Return
  <1>7. CASE Present(h)
    BY <1>7 DEF Present, Goto
  <1>8. CASE Absent(h)
    BY <1>8 DEF Absent, StillListed, Goto
  <1>9. CASE AwaitFailed(h)
    BY <1>9 DEF AwaitFailed, Return
  <1>10. CASE AwaitDone(h)
    BY <1>10 DEF AwaitDone, Goto
  <1>11. CASE Renew(h)
    BY <1>11 DEF Renew
  <1>12. QED
    BY <1>1, <1>2, <1>3, <1>4, <1>5, <1>6, <1>7, <1>8, <1>9, <1>10, <1>11 DEF CreateStep

LEMMA ConfigKeptDestroy ==
  ASSUME Typed, References, ConfigKept, NEW h \in Handlers, DestroyStep(h)
  PROVE  ConfigKept'
  <1> USE StoreAssumption
      DEF Typed, TypeOK, References, ConfigKept, Saving,
          NoStaleConfig, Holds, Allocated, Listed, storeVars, sessionVars, handlerVars
  <1>1. CASE Unlink(h)
    BY <1>1 DEF Unlink, Goto
  <1>2. CASE UnlinkMissing(h)
    BY <1>2 DEF UnlinkMissing, Return
  <1>3. ASSUME NEW c \in Configs, InstallConfig(h, c)
        PROVE  ConfigKept'
    BY <1>3 DEF InstallConfig, Goto
  <1>4. CASE Sweep(h)
    BY <1>4 DEF Sweep, CloseNext, Goto
  <1>5. CASE Swept(h)
    BY <1>5 DEF Swept, Return
  <1>6. QED
    BY <1>1, <1>2, <1>3, <1>4, <1>5 DEF DestroyStep

LEMMA ConfigKeptClose ==
  ASSUME Typed, References, ConfigKept, NEW h \in Handlers, CloseStep(h)
  PROVE  ConfigKept'
  <1> USE StoreAssumption
      DEF Typed, TypeOK, References, ConfigKept, Saving,
          NoStaleConfig, Holds, Allocated, Listed, storeVars, sessionVars, handlerVars,
          AfterClose, CloseNext, CanClose
  <1>1. CASE CloseBegin(h)
    BY <1>1 DEF CloseBegin
  <1>2. CASE CloseSkip(h)
    BY <1>2 DEF CloseSkip, Goto, Return
  <1>3. CASE CloseEnd(h)
    BY <1>3 DEF CloseEnd, Goto, Return
  <1>4. QED
    BY <1>1, <1>2, <1>3 DEF CloseStep

LEMMA ConfigKeptUse ==
  ASSUME Typed, References, ConfigKept, NEW h \in Handlers, UseStep(h)
  PROVE  ConfigKept'
  <1> USE StoreAssumption
      DEF Typed, TypeOK, References, ConfigKept, Saving,
          NoStaleConfig, Holds, Allocated, Listed, storeVars, sessionVars, handlerVars
  <1>1. CASE Probe(h) \/ Refuse(h)
    BY <1>1 DEF Probe, Refuse, Return
  <1>2. CASE Lock(h)
    BY <1>2 DEF Lock, Goto
  <1>3. CASE Resolved(h)
    BY <1>3 DEF Resolved, Return
  <1>4. QED
    BY <1>1, <1>2, <1>3 DEF UseStep

LEMMA ConfigKeptNext == Typed /\ References /\ ConfigKept /\ [Next]_vars => ConfigKept'
  <1> SUFFICES ASSUME Typed, References, ConfigKept, [Next]_vars
               PROVE  ConfigKept'
    OBVIOUS
  <1>1. ASSUME NEW h \in Handlers, NEW i \in Ids,
               CallCreate(h, i) \/ CallGet(h, i) \/ CallDestroy(h, i)
        PROVE  ConfigKept'
    BY <1>1, ConfigKeptCall DEF CallCreate, CallGet, CallDestroy
  <1>2. ASSUME NEW h \in Handlers, CallApply(h) \/ CallShutdown(h)
        PROVE  ConfigKept'
    BY <1>2, ConfigKeptCall DEF CallApply, CallShutdown
  <1>3. ASSUME NEW h \in Handlers, Step(h)
        PROVE  ConfigKept'
    BY <1>3, ConfigKeptCreate, ConfigKeptDestroy, ConfigKeptClose, ConfigKeptUse DEF Step
  <1>4. ASSUME NEW s \in Objects, Age(s)
        PROVE  ConfigKept'
    BY <1>4 DEF Age, Typed, TypeOK, References, ConfigKept, Saving,
          NoStaleConfig, Holds, Allocated, Listed, storeVars, sessionVars, handlerVars
  <1>5. ASSUME NEW s \in Objects, Collect(s)
        PROVE  ConfigKept'
    BY <1>5, StoreAssumption
       DEF Collect, Typed, TypeOK, References, ConfigKept, Saving,
          NoStaleConfig, Holds, Allocated, Listed, storeVars, sessionVars, handlerVars
  <1>6. CASE UNCHANGED vars
    BY <1>6 DEF vars, Typed, TypeOK, References, ConfigKept, Saving,
          NoStaleConfig, Holds, Allocated, Listed, storeVars, sessionVars, handlerVars
  <1>7. QED
    BY <1>1, <1>2, <1>3, <1>4, <1>5, <1>6, NextCases

-----------------------------------------------------------------------------
(* The inductive invariant and the properties it implies.                  *)

LEMMA InvariantInit == Init => IInv
  <1> SUFFICES ASSUME Init
               PROVE  IInv
    OBVIOUS
  <1>1. TypeOK /\ Arguments
    BY TypedInit DEF Typed
  <1>2. References
    BY ReferencesInit
  <1>3. Stages /\ Mutex /\ Saving
    BY StoreAssumption DEF Init, Stages, Mutex, Saving
  <1>4. \A s \in Objects : ~Allocated(s) /\ ~Listed(s)
    BY DEF Init, Allocated, Listed
  <1>5. Accounted /\ ClosersUnlisted /\ NoStaleConfig /\ FailedUnlisted
    BY <1>4 DEF Accounted, ClosersUnlisted, NoStaleConfig, FailedUnlisted
  <1>6. QED
    BY <1>1, <1>2, <1>3, <1>5 DEF IInv

LEMMA InvariantNext == IInv /\ [Next]_vars => IInv'
  <1> SUFFICES ASSUME IInv, [Next]_vars
               PROVE  IInv'
    OBVIOUS
  <1>1. Typed /\ References /\ Stages /\ Mutex /\ Accounted /\ ClosersUnlisted
      /\ FailedUnlisted /\ ConfigKept
    BY DEF IInv, Typed, ConfigKept
  <1>2. Typed' /\ References' /\ Stages' /\ Mutex' /\ Accounted'
      /\ ClosersUnlisted' /\ FailedUnlisted' /\ ConfigKept'
    BY <1>1, TypedNext, ReferencesNext, StagesNext, MutexNext, AccountedNext,
       ClosersUnlistedNext, FailedUnlistedNext, ConfigKeptNext
  <1>3. QED
    BY <1>2 DEF IInv, Typed, ConfigKept

\* The invariant of the store holds in every state it reaches.
THEOREM StoreInvariant == Spec => []IInv
  BY InvariantInit, InvariantNext, PTL DEF Spec

LEMMA InvariantImplies ==
  IInv => NoOrphan /\ SerializedUse /\ OrderlyClose /\ NoStaleConfig /\ FailedUnlisted
  <1> SUFFICES ASSUME IInv
               PROVE  /\ NoOrphan /\ SerializedUse /\ OrderlyClose
                      /\ NoStaleConfig /\ FailedUnlisted
    OBVIOUS
  <1>1. NoOrphan
    BY DEF IInv, TypeOK, Stages, Accounted, NoOrphan
  <1>2. SerializedUse
    BY StoreAssumption DEF IInv, TypeOK, References, Mutex, SerializedUse, Closing
  <1>3. NoDoubleClose
    BY DEF IInv, Mutex, NoDoubleClose
  <1>4. ClosedAfterBuild
    BY DEF IInv, Stages, ClosedAfterBuild
  <1>5. QED
    BY <1>1, <1>2, <1>3, <1>4 DEF IInv, OrderlyClose

\* No interleaving of creations, renewals, destructions, drains and settings
\* saves leaks a live browser.
THEOREM BrowsersAreAccountedFor == Spec => []NoOrphan
  BY StoreInvariant, InvariantImplies, PTL

\* A browser is driven only under session.mu and never after its close began.
THEOREM UseIsSerialized == Spec => []SerializedUse
  BY StoreInvariant, InvariantImplies, PTL

\* A browser is closed at most once, and a close waits for the construction: no
\* session is closed before its browser exists or its construction has failed
\* (sessions.go:55).
THEOREM ClosesAreOrderly == Spec => []OrderlyClose
  BY StoreInvariant, InvariantImplies, PTL

\* Outside the window between installing a configuration and the drain, every
\* listed session was built from the configuration in force.
THEOREM ConfigurationIsCurrent == Spec => []NoStaleConfig
  BY StoreInvariant, InvariantImplies, PTL

\* A failed construction is listed only while its creator is about to unlist it.
THEOREM FailuresAreUnlisted == Spec => []FailedUnlisted
  BY StoreInvariant, InvariantImplies, PTL

=============================================================================
