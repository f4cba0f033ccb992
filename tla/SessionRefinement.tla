-------------------------- MODULE SessionRefinement --------------------------
(* SessionStore implements SessionLifecycle: every step of the store is a  *)
(* step of the life of one object, a release of names, or a stutter.       *)
EXTENDS SessionStoreProofs

\* The phase of an object, read off its fields.
PhaseTable(s) ==
  /\ Phase(s) = "free" <=> ~Allocated(s)
  /\ Phase(s) = "building" <=> Allocated(s) /\ ~ready[s]
  /\ Phase(s) = "dead" <=> ready[s] /\ browser[s] # "live"
  /\ Phase(s) = "idle" <=> browser[s] = "live" /\ mu[s] = None
  /\ Phase(s) = "busy" <=> browser[s] = "live" /\ mu[s] # None /\ ~closed[s]
  /\ Phase(s) = "closing" <=> browser[s] = "live" /\ mu[s] # None /\ closed[s]
  /\ Phase(s) \in {"free", "building", "dead", "idle", "busy", "closing"}

LEMMA PhaseOf ==
  ASSUME IInv, NEW s \in Objects
  PROVE  PhaseTable(s)
  BY DEF IInv, TypeOK, Stages, Phase, PhaseTable

LEMMA PhaseOfNext ==
  ASSUME IInv', NEW s \in Objects
  PROVE  PhaseTable(s)'
  BY DEF IInv, TypeOK, Stages, Phase, PhaseTable

\* An object is registered exactly if it is listed under its own name.
LEMMA RegisteredIsListed ==
  ASSUME IInv, NEW s \in Objects
  PROVE  Lifecycle!Registered(s) <=> Listed(s)
  BY StoreAssumption DEF IInv, TypeOK, References, Lifecycle!Registered, Listed, Allocated

\* The phase function of the refinement mapping.
Phases == [s \in Objects |-> Phase(s)]

\* What the phase of an object depends on.
Frame(s) == <<idOf[s], ready[s], browser[s], mu[s], closed[s]>>

LEMMA SamePhase ==
  ASSUME NEW s \in Objects, UNCHANGED Frame(s)
  PROVE  Phase(s)' = Phase(s)
  BY DEF Frame, Phase, Allocated

\* If only object s changes, and from phase p to phase q, then s moves.
LEMMA PhaseMoves ==
  ASSUME NEW s \in Objects, NEW p, NEW q,
         \A r \in Objects \ {s} : UNCHANGED Frame(r),
         Phase(s) = p, Phase(s)' = q
  PROVE  Lifecycle!Move(s, p, q)
  <1>1. \A r \in Objects \ {s} : Phase(r)' = Phase(r)
    BY SamePhase
  <1>2. QED
    BY <1>1 DEF Lifecycle!Move

LEMMA Stutters ==
  ASSUME UNCHANGED sessions, \A r \in Objects : UNCHANGED Frame(r)
  PROVE  UNCHANGED Lifecycle!vars
  BY SamePhase DEF Lifecycle!vars

LEMMA Retires ==
  ASSUME NEW I \in SUBSET Ids, \A r \in Objects : UNCHANGED Frame(r),
         sessions' = [i \in Ids |-> IF i \in I THEN None ELSE sessions[i]]
  PROVE  Lifecycle!Next
  BY SamePhase DEF Lifecycle!Next, Lifecycle!Retire

-----------------------------------------------------------------------------
Steps == Lifecycle!Next \/ UNCHANGED Lifecycle!vars

\* The steps that touch neither the store nor what a phase depends on.
LEMMA QuietSteps ==
  ASSUME NEW h \in Handlers,
         \/ Join(h) \/ Present(h) \/ Absent(h) \/ AwaitFailed(h) \/ AwaitDone(h)
         \/ Renew(h) \/ UnlinkMissing(h) \/ Swept(h) \/ Probe(h) \/ Refuse(h)
         \/ \E c \in Configs : InstallConfig(h, c)
  PROVE  Steps
  <1>1. UNCHANGED sessions /\ UNCHANGED sessionVars
    BY DEF Join, Present, Absent, AwaitFailed, AwaitDone, Renew, UnlinkMissing, Swept,
           Probe, Refuse, InstallConfig, storeVars
  <1>2. QED
    BY <1>1, Stutters DEF Frame, sessionVars, Steps

\* The steps that release names: evict, unlist, unlink and sweep.
LEMMA ReleaseSteps ==
  ASSUME IInv, NEW h \in Handlers, Evict(h) \/ Unlist(h) \/ Unlink(h) \/ Sweep(h)
  PROVE  Steps
  <1>1. UNCHANGED sessionVars
    BY DEF Evict, Unlist, Unlink, Sweep
  <1>2. PICK I \in SUBSET Ids :
          sessions' = [i \in Ids |-> IF i \in I THEN None ELSE sessions[i]]
    <2>1. CASE Evict(h) \/ Unlink(h)
      <3>1. arg[h] \in Ids /\ sessions' = [sessions EXCEPT ![arg[h]] = None]
        BY <2>1 DEF Evict, Unlink, IInv, Arguments
      <3>2. sessions' = [i \in Ids |-> IF i \in {arg[h]} THEN None ELSE sessions[i]]
        BY <3>1 DEF IInv, TypeOK
      <3>3. QED
        BY <3>1, <3>2
    <2>2. CASE Unlist(h)
      <3>1. CASE sessions[arg[h]] = item[h]
        <4>1. sessions' = [i \in Ids |-> IF i \in {arg[h]} THEN None ELSE sessions[i]]
          <5>1. sessions' = [sessions EXCEPT ![arg[h]] = None]
            BY <2>2, <3>1 DEF Unlist
          <5>2. sessions \in [Ids -> Objects \cup {None}]
            BY DEF IInv, TypeOK
          <5>3. QED
            BY <5>1, <5>2
        <4>2. arg[h] \in Ids
          BY <2>2 DEF Unlist, IInv, Arguments
        <4>3. QED
          BY <4>1, <4>2
      <3>2. CASE sessions[arg[h]] # item[h]
        <4>1. sessions' = [i \in Ids |-> IF i \in {} THEN None ELSE sessions[i]]
          BY <2>2, <3>2 DEF Unlist, IInv, TypeOK
        <4>2. WITNESS {} \in SUBSET Ids
        <4>3. QED
          BY <4>1
      <3>3. QED
        BY <3>1, <3>2
    <2>3. CASE Sweep(h)
      <3>1. sessions' = [i \in Ids |-> IF i \in Ids THEN None ELSE sessions[i]]
        BY <2>3 DEF Sweep
      <3>2. QED
        BY <3>1
    <2>4. QED
      BY <2>1, <2>2, <2>3
  <1>3. QED
    BY <1>1, <1>2, Retires DEF Frame, sessionVars, Steps

\* Reserve opens a free object under a free name.
LEMMA ReserveOpens ==
  ASSUME IInv, IInv', NEW h \in Handlers, NEW s \in Objects, Reserve(h, s)
  PROVE  Steps
  <1>1. arg[h] \in Ids
    BY DEF Reserve, LookingUp, IInv, Arguments
  <1>2. Phase(s) = "free"
    BY PhaseOf DEF PhaseTable, Reserve
  <1>3. Phase(s)' = "building"
    BY <1>1, PhaseOfNext, StoreAssumption
       DEF PhaseTable, Reserve, Allocated, IInv, TypeOK, Stages
  <1>4. \A r \in Objects \ {s} : UNCHANGED Frame(r)
    BY DEF Reserve, Frame, IInv, TypeOK
  <1>5. Lifecycle!Open(arg[h], s)
    BY <1>1, <1>2, <1>3, <1>4, PhaseMoves DEF Lifecycle!Open, Reserve, LookingUp
  <1>6. QED
    BY <1>1, <1>5 DEF Steps, Lifecycle!Next

\* The end of factory.New launches the browser or fails the object.
LEMMA BuildEnds ==
  ASSUME IInv, IInv', NEW h \in Handlers, BuildOk(h) \/ BuildFail(h)
  PROVE  Steps
  <1>0. pc[h] = "build"
    BY DEF BuildOk, BuildFail
  <1>1. PICK s \in Objects : s = item[h]
    <2>1. item[h] \in Objects \cup {None}
      BY DEF IInv, TypeOK
    <2>2. item[h] # None
      BY <1>0 DEF IInv, References
    <2>3. QED
      BY <2>1, <2>2
  <1>2. Phase(s) = "building"
    BY <1>1, PhaseOf, StoreAssumption
       DEF PhaseTable, BuildOk, BuildFail, IInv, TypeOK, References, Stages, Holds
  <1>3. UNCHANGED sessions /\ \A r \in Objects \ {s} : UNCHANGED Frame(r)
    BY <1>1 DEF BuildOk, BuildFail, Frame, IInv, TypeOK, storeVars
  <1>4. CASE BuildOk(h)
    <2>1. Phase(s)' = "idle"
      <3>1. mu[s] = None
        BY <1>1, <1>4 DEF BuildOk, IInv, Mutex, Stages
      <3>2. QED
        BY <1>1, <1>4, <3>1, PhaseOfNext DEF PhaseTable, BuildOk, IInv, TypeOK
    <2>2. Lifecycle!Launch(s)
      BY <1>1, <1>2, <1>3, <2>1, PhaseMoves DEF Lifecycle!Launch
    <2>3. QED
      BY <1>1, <2>2 DEF Steps, Lifecycle!Next
  <1>5. CASE BuildFail(h)
    <2>1. Phase(s)' = "dead"
      BY <1>1, <1>5, PhaseOfNext DEF PhaseTable, BuildFail, IInv, TypeOK, Stages
    <2>2. Lifecycle!Fail(s)
      BY <1>1, <1>2, <1>3, <2>1, PhaseMoves DEF Lifecycle!Fail
    <2>3. QED
      BY <1>1, <2>2 DEF Steps, Lifecycle!Next
  <1>6. QED
    BY <1>4, <1>5

\* close() starts on an unlisted idle object, skips a dead one, ends in a dead one.
LEMMA CloseRefines ==
  ASSUME IInv, IInv', NEW h \in Handlers, CloseStep(h)
  PROVE  Steps
  <1>0. pc[h] \in Closing /\ item[h] \in Objects
    <2>1. pc[h] \in Closing
      BY DEF CloseStep, CloseBegin, CloseSkip, CloseEnd, CanClose
    <2>2. item[h] \in Objects \cup {None}
      BY DEF IInv, TypeOK
    <2>3. item[h] # None
      BY <2>1 DEF Closing, IInv, References
    <2>4. QED
      BY <2>1, <2>2, <2>3
  <1>1. PICK s \in Objects : s = item[h] /\ ~Lifecycle!Registered(s) /\ pc[h] \in Closing
    <2>1. Closer(h, item[h])
      BY <1>0 DEF Closer, Holds
    <2>2. QED
      BY <1>0, <2>1, RegisteredIsListed DEF IInv, ClosersUnlisted
  <1>2. UNCHANGED sessions
    BY DEF CloseStep, CloseBegin, CloseSkip, CloseEnd, storeVars
  <1>3. \A r \in Objects \ {s} : UNCHANGED Frame(r)
    BY <1>1 DEF CloseStep, CloseBegin, CloseSkip, CloseEnd, Frame, IInv, TypeOK
  <1>4. CASE CloseBegin(h)
    <2>1. Phase(s) = "idle"
      BY <1>1, <1>4, PhaseOf DEF PhaseTable, CloseBegin, CanClose, IInv, TypeOK, Stages
    <2>2. Phase(s)' = "closing"
      <3>1. browser[s] = "live"
        BY <1>1, <2>1, PhaseOf DEF PhaseTable
      <3>2. QED
        BY <1>1, <1>4, <3>1, PhaseOfNext, StoreAssumption
           DEF PhaseTable, CloseBegin, IInv, TypeOK
    <2>3. Lifecycle!Close(s)
      BY <1>1, <1>2, <1>3, <2>1, <2>2, PhaseMoves DEF Lifecycle!Close
    <2>4. QED
      BY <1>1, <2>3 DEF Steps, Lifecycle!Next
  <1>5. CASE CloseSkip(h)
    <2>1. Phase(s) = "dead"
      BY <1>1, <1>5, PhaseOf DEF PhaseTable, CloseSkip, CanClose, IInv, TypeOK, Stages, Mutex
    <2>2. Phase(s)' = "dead"
      BY <1>1, <1>5, <2>1, PhaseOf, PhaseOfNext DEF PhaseTable, CloseSkip
    <2>3. \A r \in Objects : Phase(r)' = Phase(r)
      BY <1>3, <2>1, <2>2, SamePhase
    <2>4. QED
      BY <1>2, <2>3 DEF Steps, Lifecycle!vars
  <1>6. CASE CloseEnd(h)
    <2>1. Phase(s) = "closing"
      BY <1>1, <1>6, PhaseOf, StoreAssumption DEF PhaseTable, CloseEnd, IInv, TypeOK, Mutex
    <2>2. Phase(s)' = "dead"
      <3>1. ready[s]
        BY <1>1, <2>1, PhaseOf DEF PhaseTable, IInv, Stages
      <3>2. QED
        BY <1>1, <1>6, <3>1, PhaseOfNext DEF PhaseTable, CloseEnd, IInv, TypeOK
    <2>3. Lifecycle!Closed(s)
      BY <1>1, <1>2, <1>3, <2>1, <2>2, PhaseMoves DEF Lifecycle!Closed
    <2>4. QED
      BY <1>1, <2>3 DEF Steps, Lifecycle!Next
  <1>7. QED
    BY <1>4, <1>5, <1>6 DEF CloseStep

\* Locking a session uses it, the deferred unlock finishes the use.
LEMMA UseRefines ==
  ASSUME IInv, IInv', NEW h \in Handlers, Lock(h) \/ Resolved(h)
  PROVE  Steps
  <1>0. item[h] \in Objects
    <2>1. pc[h] \in {"lock", "resolve"}
      BY DEF Lock, Resolved
    <2>2. item[h] \in Objects \cup {None}
      BY DEF IInv, TypeOK
    <2>3. item[h] # None
      BY <2>1 DEF IInv, References
    <2>4. QED
      BY <2>2, <2>3
  <1>1. PICK s \in Objects : s = item[h]
    BY <1>0
  <1>2. UNCHANGED sessions /\ \A r \in Objects \ {s} : UNCHANGED Frame(r)
    <2>1. UNCHANGED <<sessions, idOf, ready, browser, closed>>
      BY DEF Lock, Resolved, storeVars
    <2>2. \A r \in Objects \ {s} : mu'[r] = mu[r]
      BY <1>1 DEF Lock, Resolved, IInv, TypeOK
    <2>3. QED
      BY <2>1, <2>2 DEF Frame
  <1>3. CASE Lock(h)
    <2>1. Phase(s) = "idle"
      BY <1>1, <1>3, PhaseOf DEF PhaseTable, Lock, IInv, TypeOK, Stages
    <2>2. Phase(s)' = "busy"
      <3>1. browser[s] = "live"
        BY <1>1, <2>1, PhaseOf DEF PhaseTable
      <3>2. QED
        BY <1>1, <1>3, <3>1, PhaseOfNext, StoreAssumption DEF PhaseTable, Lock, IInv, TypeOK
    <2>3. Lifecycle!Use(s)
      BY <1>1, <1>2, <2>1, <2>2, PhaseMoves DEF Lifecycle!Use
    <2>4. QED
      BY <1>1, <2>3 DEF Steps, Lifecycle!Next
  <1>4. CASE Resolved(h)
    <2>1. browser[s] = "live" /\ mu[s] = h /\ ~closed[s]
      BY <1>1, <1>4, InvariantImplies DEF Resolved, SerializedUse
    <2>2. Phase(s) = "busy"
      BY <1>1, <2>1, PhaseOf, StoreAssumption DEF PhaseTable
    <2>3. Phase(s)' = "idle"
      BY <1>1, <1>4, <2>1, PhaseOfNext DEF PhaseTable, Resolved, IInv, TypeOK
    <2>4. Lifecycle!Finish(s)
      BY <1>1, <1>2, <2>2, <2>3, PhaseMoves DEF Lifecycle!Finish
    <2>5. QED
      BY <1>1, <2>4 DEF Steps, Lifecycle!Next
  <1>5. QED
    BY <1>3, <1>4

\* A collected object is dead and unlisted; it becomes free.
LEMMA CollectFrees ==
  ASSUME IInv, IInv', NEW s \in Objects, Collect(s)
  PROVE  Steps
  <1>1. ready[s]
    <2>1. \A h \in Handlers : ~Closer(h, s)
      BY DEF Collect, Closer
    <2>2. QED
      BY <2>1 DEF Collect, IInv, TypeOK, Stages, Accounted
  <1>2. Phase(s) = "dead"
    BY <1>1, PhaseOf DEF PhaseTable, Collect
  <1>3. Phase(s)' = "free"
    BY PhaseOfNext DEF PhaseTable, Collect, Allocated, IInv, TypeOK
  <1>4. UNCHANGED sessions /\ \A r \in Objects \ {s} : UNCHANGED Frame(r)
    BY DEF Collect, Frame, IInv, TypeOK, storeVars
  <1>5. Lifecycle!Free(s)
    BY <1>2, <1>3, <1>4, PhaseMoves, RegisteredIsListed DEF Lifecycle!Free, Collect
  <1>6. QED
    BY <1>5 DEF Steps, Lifecycle!Next

LEMMA StepRefines == IInv /\ IInv' /\ [Next]_vars => [Lifecycle!Next]_(Lifecycle!vars)
  <1> SUFFICES ASSUME IInv, IInv', [Next]_vars
               PROVE  Steps
    BY DEF Steps
  <1>1. ASSUME NEW h \in Handlers, NewCall(h)
        PROVE  Steps
    <2>1. UNCHANGED sessions /\ UNCHANGED sessionVars
      BY <1>1 DEF NewCall, CallCreate, CallGet, CallDestroy, CallApply, CallShutdown, Call,
                  storeVars
    <2>2. QED
      BY <2>1, Stutters DEF Frame, sessionVars, Steps
  <1>2. ASSUME NEW h \in Handlers, Step(h)
        PROVE  Steps
    BY <1>2, QuietSteps, ReleaseSteps, ReserveOpens, BuildEnds, CloseRefines, UseRefines
       DEF Step, CreateStep, DestroyStep, UseStep
  <1>3. ASSUME NEW s \in Objects, Age(s)
        PROVE  Steps
    BY <1>3, Stutters DEF Age, Frame, Steps, storeVars
  <1>4. ASSUME NEW s \in Objects, Collect(s)
        PROVE  Steps
    BY <1>4, CollectFrees
  <1>5. CASE UNCHANGED vars
    BY <1>5, Stutters DEF vars, storeVars, sessionVars, Frame, Steps
  <1>6. QED
    BY <1>1, <1>2, <1>3, <1>4, <1>5 DEF Next, Environment

LEMMA InitRefines == Init => Lifecycle!Init
  BY DEF Init, Lifecycle!Init, Phase, Allocated

\* The session store keeps the promises of SessionLifecycle for any number of
\* handlers, names, objects and configurations.
THEOREM StoreImplementsLifecycle == Spec => KeepsLifecycle
  BY InitRefines, StepRefines, StoreInvariant, PTL DEF Spec, Lifecycle!Spec, KeepsLifecycle
=============================================================================
