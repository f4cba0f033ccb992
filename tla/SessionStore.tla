---------------------------- MODULE SessionStore ----------------------------
(***************************************************************************)
(* The session store of server/sessions.go and the per-session mutex its   *)
(* callers in server/service.go use: goroutines (Handlers) create, look    *)
(* up, renew, destroy and drain named browser sessions.                    *)
(*                                                                         *)
(* Every critical section under sessionStore.mu is one action; the work    *)
(* done outside it (factory.New, waiting on `ready`, session.close,        *)
(* Resolve) takes steps of its own.  session.mu is explicit because it is  *)
(* held across Resolve and across browser.Close.                           *)
(***************************************************************************)

CONSTANTS Handlers,   \* goroutines that serve requests
          Ids,        \* session names
          Objects,    \* session objects the heap can hold
          Configs,    \* configurations a settings save can install
          Calls,      \* the kinds of call the handlers make
          None        \* no session, no holder, no argument

ASSUME StoreAssumption == /\ None \notin Handlers
                          /\ None \notin Ids
                          /\ None \notin Objects
                          /\ None \notin Configs

VARIABLES
  sessions,   \* sessionStore.sessions: the object listed under each name
  cfg,        \* sessionStore.cfg
  idOf,       \* session.id; None while the object is not allocated
  ready,      \* session.ready is closed
  failed,     \* session.err is set
  browser,    \* session.browser: "none" (nil), "live", or "gone" (closed)
  closed,     \* session.closed
  mu,         \* the handler holding session.mu
  expired,    \* the lifetime of the session exceeds the callers' TTL
  builtWith,  \* the configuration snapshot the browser is built from
  pc,         \* where each handler is
  op,         \* the call it serves
  arg,        \* the session name of that call
  item,       \* the session object it has in hand
  todo        \* the drained objects destroyAll has not closed yet

storeVars   == <<sessions, cfg>>
sessionVars == <<idOf, ready, failed, browser, closed, mu, expired, builtWith>>
handlerVars == <<pc, op, arg, item, todo>>
vars        == <<storeVars, sessionVars, handlerVars>>

Ops == {"create", "get", "getTTL", "renew", "destroy", "apply", "shutdown"}

ASSUME CallsAssumption == Calls \subseteq Ops \ {"renew"} /\ None \notin Ops

\* Places where the handler is inside session.close() on item[h].
Closing == {"evict", "discard", "destroy", "drain"}

Places == Closing \cup {"idle", "create", "relock", "await", "build", "unlist",
                        "present", "probe", "lock", "resolve", "unlink",
                        "install", "sweep", "swept"}

TypeOK ==
  /\ sessions \in [Ids -> Objects \cup {None}]
  /\ cfg \in Configs
  /\ idOf \in [Objects -> Ids \cup {None}]
  /\ ready \in [Objects -> BOOLEAN]
  /\ failed \in [Objects -> BOOLEAN]
  /\ browser \in [Objects -> {"none", "live", "gone"}]
  /\ closed \in [Objects -> BOOLEAN]
  /\ mu \in [Objects -> Handlers \cup {None}]
  /\ expired \in [Objects -> BOOLEAN]
  /\ builtWith \in [Objects -> Configs \cup {None}]
  /\ pc \in [Handlers -> Places]
  /\ op \in [Handlers -> Ops \cup {None}]
  /\ arg \in [Handlers -> Ids \cup {None}]
  /\ item \in [Handlers -> Objects \cup {None}]
  /\ todo \in [Handlers -> SUBSET Objects]

Init ==
  /\ sessions = [i \in Ids |-> None]
  /\ cfg \in Configs
  /\ idOf = [s \in Objects |-> None]
  /\ ready = [s \in Objects |-> FALSE]
  /\ failed = [s \in Objects |-> FALSE]
  /\ browser = [s \in Objects |-> "none"]
  /\ closed = [s \in Objects |-> FALSE]
  /\ mu = [s \in Objects |-> None]
  /\ expired = [s \in Objects |-> FALSE]
  /\ builtWith = [s \in Objects |-> None]
  /\ pc = [h \in Handlers |-> "idle"]
  /\ op = [h \in Handlers |-> None]
  /\ arg = [h \in Handlers |-> None]
  /\ item = [h \in Handlers |-> None]
  /\ todo = [h \in Handlers |-> {}]

-----------------------------------------------------------------------------
(* Helpers.                                                                *)

Allocated(s) == idOf[s] # None
Listed(s)    == Allocated(s) /\ sessions[idOf[s]] = s
Holds(h, s)  == item[h] = s \/ s \in todo[h]

\* Handler h goes to place l with the object s in hand.
Goto(h, l, s) == /\ pc' = [pc EXCEPT ![h] = l]
                 /\ item' = [item EXCEPT ![h] = s]
                 /\ UNCHANGED <<op, arg, todo>>

\* The call of handler h returns.
Return(h) == /\ pc' = [pc EXCEPT ![h] = "idle"]
             /\ item' = [item EXCEPT ![h] = None]
             /\ op' = [op EXCEPT ![h] = None]
             /\ arg' = [arg EXCEPT ![h] = None]
             /\ UNCHANGED todo

\* Mutant: the drain closes one session and forgets the others.
CloseOne(h, S) ==
  \/ /\ S = {}
     /\ Goto(h, "swept", None)
  \/ \E s \in S : /\ pc' = [pc EXCEPT ![h] = "drain"]
                  /\ item' = [item EXCEPT ![h] = s]
                  /\ todo' = [todo EXCEPT ![h] = {}]
                  /\ UNCHANGED <<op, arg>>

\* destroyAll closes the drained objects one after the other, in map order.
CloseNext(h, S) ==
  \/ /\ S = {}
     /\ Goto(h, "swept", None)
  \/ \E s \in S : /\ pc' = [pc EXCEPT ![h] = "drain"]
                  /\ item' = [item EXCEPT ![h] = s]
                  /\ todo' = [todo EXCEPT ![h] = S \ {s}]
                  /\ UNCHANGED <<op, arg>>

\* session.close() has returned.
AfterClose(h) ==
  \/ pc[h] = "evict" /\ Goto(h, "relock", None)
  \/ pc[h] \in {"discard", "destroy"} /\ Return(h)
  \/ pc[h] = "drain" /\ CloseNext(h, todo[h])

-----------------------------------------------------------------------------
(* Calls.  An empty session id is given a name before the first lookup     *)
(* (sessions.go:98-100), so the model's calls carry a name already.        *)

Call(h, o, i, l) == /\ pc[h] = "idle" /\ o \in Calls
                    /\ op' = [op EXCEPT ![h] = o]
                    /\ arg' = [arg EXCEPT ![h] = i]
                    /\ pc' = [pc EXCEPT ![h] = l]
                    /\ UNCHANGED <<item, todo, storeVars, sessionVars>>

CallCreate(h, i)  == Call(h, "create", i, "create")
CallGet(h, i)     == \E o \in {"get", "getTTL"} : Call(h, o, i, "create")
CallDestroy(h, i) == Call(h, "destroy", i, "unlink")
CallApply(h)      == Call(h, "apply", None, "install")
CallShutdown(h)   == Call(h, "shutdown", None, "sweep")

-----------------------------------------------------------------------------
(* sessionStore.create and get.                                            *)

\* Mutant: the old object is closed while it stays listed.
EvictListed(h) ==
  /\ pc[h] = "create" /\ op[h] = "renew"
  /\ sessions[arg[h]] # None
  /\ Goto(h, "evict", sessions[arg[h]])
  /\ UNCHANGED <<storeVars, sessionVars>>

\* forceNew: unlist the old object, then close it with the store unlocked.
Evict(h) ==
  /\ pc[h] = "create" /\ op[h] = "renew"
  /\ sessions[arg[h]] # None
  /\ sessions' = [sessions EXCEPT ![arg[h]] = None]
  /\ Goto(h, "evict", sessions[arg[h]])
  /\ UNCHANGED <<cfg, sessionVars>>

\* The second half of create's first critical section.
LookingUp(h) == \/ pc[h] = "relock"
                \/ pc[h] = "create" /\ (op[h] = "renew" => sessions[arg[h]] = None)

Join(h) ==
  /\ LookingUp(h)
  /\ sessions[arg[h]] # None
  /\ Goto(h, "await", sessions[arg[h]])
  /\ UNCHANGED <<storeVars, sessionVars>>

\* Mutant: the entry is reserved although the name is taken.
ReserveOver(h, s) ==
  /\ LookingUp(h)
  /\ ~Allocated(s)
  /\ sessions' = [sessions EXCEPT ![arg[h]] = s]
  /\ idOf' = [idOf EXCEPT ![s] = arg[h]]
  /\ builtWith' = [builtWith EXCEPT ![s] = cfg]
  /\ Goto(h, "build", s)
  /\ UNCHANGED <<cfg, ready, failed, browser, closed, mu, expired>>

Reserve(h, s) ==
  /\ LookingUp(h)
  /\ sessions[arg[h]] = None
  /\ ~Allocated(s)
  /\ sessions' = [sessions EXCEPT ![arg[h]] = s]
  /\ idOf' = [idOf EXCEPT ![s] = arg[h]]
  /\ builtWith' = [builtWith EXCEPT ![s] = cfg]
  /\ Goto(h, "build", s)
  /\ UNCHANGED <<cfg, ready, failed, browser, closed, mu, expired>>

\* factory.New returns a browser, item.browser is set and ready closed.
BuildOk(h) ==
  /\ pc[h] = "build"
  /\ browser' = [browser EXCEPT ![item[h]] = "live"]
  /\ ready' = [ready EXCEPT ![item[h]] = TRUE]
  /\ Goto(h, "present", item[h])
  /\ UNCHANGED <<storeVars, idOf, failed, closed, mu, expired, builtWith>>

\* Mutant: the error path does not close ready.
BuildFailSilently(h) ==
  /\ pc[h] = "build"
  /\ failed' = [failed EXCEPT ![item[h]] = TRUE]
  /\ Goto(h, "unlist", item[h])
  /\ UNCHANGED <<storeVars, idOf, ready, browser, closed, mu, expired, builtWith>>

\* factory.New returns an error, which every waiter will see.
BuildFail(h) ==
  /\ pc[h] = "build"
  /\ failed' = [failed EXCEPT ![item[h]] = TRUE]
  /\ ready' = [ready EXCEPT ![item[h]] = TRUE]
  /\ Goto(h, "unlist", item[h])
  /\ UNCHANGED <<storeVars, idOf, browser, closed, mu, expired, builtWith>>

\* Mutant: whatever is listed under the name is removed.
UnlistAny(h) ==
  /\ pc[h] = "unlist"
  /\ sessions' = [sessions EXCEPT ![arg[h]] = None]
  /\ Return(h)
  /\ UNCHANGED <<cfg, sessionVars>>

\* The failed entry is removed only if it is still this object's.
Unlist(h) ==
  /\ pc[h] = "unlist"
  /\ sessions' = [sessions EXCEPT ![arg[h]] = IF @ = item[h] THEN None ELSE @]
  /\ Return(h)
  /\ UNCHANGED <<cfg, sessionVars>>

\* The presence check asks whether the name is listed, not which object is.
StillListed(h) == sessions[arg[h]] # None

\* create returns (item, true, nil): cmdSessionsCreate asks the new browser
\* for its user agent, a request goes on to lock the session.
Present(h) ==
  /\ pc[h] = "present"
  /\ StillListed(h)
  /\ Goto(h, IF op[h] = "create" THEN "probe" ELSE "lock", item[h])
  /\ UNCHANGED <<storeVars, sessionVars>>

Absent(h) ==
  /\ pc[h] = "present"
  /\ ~StillListed(h)
  /\ Goto(h, "discard", item[h])
  /\ UNCHANGED <<storeVars, sessionVars>>

\* existing.wait() returns; get compares the lifetime with the TTL.
MustRenew(h) == op[h] = "getTTL" /\ expired[item[h]]

AwaitFailed(h) ==
  /\ pc[h] = "await" /\ ready[item[h]]
  /\ failed[item[h]] \/ op[h] = "create"
  /\ Return(h)
  /\ UNCHANGED <<storeVars, sessionVars>>

AwaitDone(h) ==
  /\ pc[h] = "await" /\ ready[item[h]]
  /\ ~failed[item[h]] /\ op[h] # "create" /\ ~MustRenew(h)
  /\ Goto(h, "lock", item[h])
  /\ UNCHANGED <<storeVars, sessionVars>>

Renew(h) ==
  /\ pc[h] = "await" /\ ready[item[h]]
  /\ ~failed[item[h]] /\ MustRenew(h)
  /\ pc' = [pc EXCEPT ![h] = "create"]
  /\ op' = [op EXCEPT ![h] = "renew"]
  /\ item' = [item EXCEPT ![h] = None]
  /\ UNCHANGED <<arg, todo, storeVars, sessionVars>>

-----------------------------------------------------------------------------
(* destroy, applyConfig and destroyAll.                                    *)

Unlink(h) ==
  /\ pc[h] = "unlink"
  /\ sessions[arg[h]] # None
  /\ sessions' = [sessions EXCEPT ![arg[h]] = None]
  /\ Goto(h, "destroy", sessions[arg[h]])
  /\ UNCHANGED <<cfg, sessionVars>>

UnlinkMissing(h) ==
  /\ pc[h] = "unlink"
  /\ sessions[arg[h]] = None
  /\ Return(h)
  /\ UNCHANGED <<storeVars, sessionVars>>

\* Mutant: the new configuration is installed without a drain.
InstallOnly(h, c) ==
  /\ pc[h] = "install"
  /\ cfg' = c
  /\ Goto(h, "swept", None)
  /\ UNCHANGED <<sessions, sessionVars>>

InstallConfig(h, c) ==
  /\ pc[h] = "install"
  /\ cfg' = c
  /\ Goto(h, "sweep", None)
  /\ UNCHANGED <<sessions, sessionVars>>

Sweep(h) ==
  /\ pc[h] = "sweep"
  /\ sessions' = [i \in Ids |-> None]
  /\ CloseNext(h, {sessions[i] : i \in Ids} \ {None})
  /\ UNCHANGED <<cfg, sessionVars>>

\* destroyAll returns to Service.ApplyConfig or Service.Close.
Swept(h) ==
  /\ pc[h] = "swept"
  /\ Return(h)
  /\ UNCHANGED <<storeVars, sessionVars>>

-----------------------------------------------------------------------------
(* session.close(): wait for ready, lock session.mu, close the browser     *)
(* once, unlock.  browser.Close takes time, with the mutex held.           *)

\* Mutant: close does not wait for the construction.
CanCloseEarly(h) == pc[h] \in Closing /\ mu[item[h]] = None

CanClose(h) == pc[h] \in Closing /\ ready[item[h]] /\ mu[item[h]] = None

\* Mutant: the closed flag is not consulted.
CloseAgain(h) ==
  /\ CanClose(h)
  /\ browser[item[h]] # "none"
  /\ closed' = [closed EXCEPT ![item[h]] = TRUE]
  /\ mu' = [mu EXCEPT ![item[h]] = h]
  /\ UNCHANGED <<storeVars, idOf, ready, failed, browser, expired, builtWith,
                 handlerVars>>

CloseBegin(h) ==
  /\ CanClose(h)
  /\ ~closed[item[h]] /\ browser[item[h]] # "none"
  /\ closed' = [closed EXCEPT ![item[h]] = TRUE]
  /\ mu' = [mu EXCEPT ![item[h]] = h]
  /\ UNCHANGED <<storeVars, idOf, ready, failed, browser, expired, builtWith,
                 handlerVars>>

CloseSkip(h) ==
  /\ CanClose(h)
  /\ closed[item[h]] \/ browser[item[h]] = "none"
  /\ closed' = [closed EXCEPT ![item[h]] = TRUE]
  /\ AfterClose(h)
  /\ UNCHANGED <<storeVars, idOf, ready, failed, browser, mu, expired, builtWith>>

CloseEnd(h) ==
  /\ pc[h] \in Closing /\ mu[item[h]] = h
  /\ browser' = [browser EXCEPT ![item[h]] = "gone"]
  /\ mu' = [mu EXCEPT ![item[h]] = None]
  /\ AfterClose(h)
  /\ UNCHANGED <<storeVars, idOf, ready, failed, closed, expired, builtWith>>

-----------------------------------------------------------------------------
(* What service.go does with the session it was handed.                    *)

\* cmdSessionsCreate reads the user agent without session.mu.
Probe(h) ==
  /\ pc[h] = "probe"
  /\ Return(h)
  /\ UNCHANGED <<storeVars, sessionVars>>

\* Mutant: the session is used without asking whether it was closed.
LockBlindly(h) ==
  /\ pc[h] = "lock" /\ mu[item[h]] = None
  /\ mu' = [mu EXCEPT ![item[h]] = h]
  /\ Goto(h, "resolve", item[h])
  /\ UNCHANGED <<storeVars, idOf, ready, failed, browser, closed, expired, builtWith>>

\* resolveChallenge locks the session and refuses it when it was closed
\* between the lookup and the lock.
Lock(h) ==
  /\ pc[h] = "lock" /\ mu[item[h]] = None
  /\ ~closed[item[h]]
  /\ mu' = [mu EXCEPT ![item[h]] = h]
  /\ Goto(h, "resolve", item[h])
  /\ UNCHANGED <<storeVars, idOf, ready, failed, browser, closed, expired, builtWith>>

Refuse(h) ==
  /\ pc[h] = "lock" /\ mu[item[h]] = None
  /\ closed[item[h]]
  /\ Return(h)
  /\ UNCHANGED <<storeVars, sessionVars>>

\* Resolve returns and the deferred unlock runs.
Resolved(h) ==
  /\ pc[h] = "resolve"
  /\ mu' = [mu EXCEPT ![item[h]] = None]
  /\ Return(h)
  /\ UNCHANGED <<storeVars, idOf, ready, failed, browser, closed, expired, builtWith>>

-----------------------------------------------------------------------------
(* The environment: time passes, and the Go runtime frees objects nothing  *)
(* refers to.  An unreferenced object that still owns a live browser is    *)
(* kept: the browser process does not go away with it.                     *)

Age(s) ==
  /\ Allocated(s) /\ ~expired[s]
  /\ expired' = [expired EXCEPT ![s] = TRUE]
  /\ UNCHANGED <<storeVars, idOf, ready, failed, browser, closed, mu, builtWith,
                 handlerVars>>

Collect(s) ==
  /\ Allocated(s) /\ ~Listed(s) /\ browser[s] # "live"
  /\ \A h \in Handlers : ~Holds(h, s)
  /\ idOf' = [idOf EXCEPT ![s] = None]
  /\ ready' = [ready EXCEPT ![s] = FALSE]
  /\ failed' = [failed EXCEPT ![s] = FALSE]
  /\ browser' = [browser EXCEPT ![s] = "none"]
  /\ closed' = [closed EXCEPT ![s] = FALSE]
  /\ expired' = [expired EXCEPT ![s] = FALSE]
  /\ builtWith' = [builtWith EXCEPT ![s] = None]
  /\ UNCHANGED <<mu, storeVars, handlerVars>>

-----------------------------------------------------------------------------
NewCall(h) == \/ \E i \in Ids : CallCreate(h, i) \/ CallGet(h, i) \/ CallDestroy(h, i)
              \/ CallApply(h) \/ CallShutdown(h)

CreateStep(h) == \/ Evict(h) \/ Join(h) \/ (\E s \in Objects : Reserve(h, s))
                 \/ BuildOk(h) \/ BuildFail(h) \/ Unlist(h)
                 \/ Present(h) \/ Absent(h)
                 \/ AwaitFailed(h) \/ AwaitDone(h) \/ Renew(h)

DestroyStep(h) == \/ Unlink(h) \/ UnlinkMissing(h)
                  \/ (\E c \in Configs : InstallConfig(h, c)) \/ Sweep(h) \/ Swept(h)

CloseStep(h) == CloseBegin(h) \/ CloseSkip(h) \/ CloseEnd(h)

UseStep(h) == Probe(h) \/ Lock(h) \/ Refuse(h) \/ Resolved(h)

Step(h) == CreateStep(h) \/ DestroyStep(h) \/ CloseStep(h) \/ UseStep(h)

Environment == \E s \in Objects : Age(s) \/ Collect(s)

Next == \/ \E h \in Handlers : NewCall(h) \/ Step(h)
        \/ Environment

Spec == Init /\ [][Next]_vars

\* A goroutine inside a call keeps running; factory.New, Resolve and
\* browser.Close return (each is bounded by timeouts).  The fairness is strong
\* because a goroutine that waits for a Go mutex gets it in the end even under
\* contention: starvation mode hands it over first come, first served.
Fairness == /\ \A h \in Handlers : SF_vars(Step(h))
            /\ \A s \in Objects : WF_vars(Collect(s))

FairSpec == Spec /\ Fairness

-----------------------------------------------------------------------------
(* Properties.                                                             *)

Closer(h, s) == pc[h] \in Closing /\ Holds(h, s)

\* No browser process is leaked: a live browser belongs to a listed session,
\* or a goroutine is on its way to close it (sessions.go: evict, destroy,
\* destroyAll and the discard after a lost presence check).
NoOrphan ==
  \A s \in Objects : browser[s] = "live" =>
    Listed(s) \/ \E h \in Handlers : Closer(h, s)

\* Resolve runs with session.mu held, on a browser nobody has closed and
\* nobody closes meanwhile (the reason of service.go:257-268).
SerializedUse ==
  \A h \in Handlers : pc[h] = "resolve" =>
    mu[item[h]] = h /\ ~closed[item[h]] /\ browser[item[h]] = "live"

\* browser.Close is entered at most once per browser: whoever holds
\* session.mu holds the mutex of a browser that is still there.
NoDoubleClose ==
  \A s \in Objects : mu[s] # None => browser[s] = "live"

\* A session is never closed while its browser is still being built, however
\* early destroy, a renewal or a drain comes (sessions.go:51-55).
ClosedAfterBuild ==
  \A s \in Objects : closed[s] => ready[s]

\* A browser is closed once, and not before it is there, whoever of the goroutines
\* that destroy, renew, evict and drain comes first (sessions.go:54-66).
OrderlyClose == NoDoubleClose /\ ClosedAfterBuild

\* Once the drain of a settings save has happened no listed session is built
\* from an older configuration, whatever creations were in flight.
NoStaleConfig ==
  \A s \in Objects : Listed(s) /\ builtWith[s] # cfg =>
    \E h \in Handlers : pc[h] = "sweep" /\ op[h] = "apply"

\* A failed construction stays listed only until its creator unlists it.
FailedUnlisted ==
  \A s \in Objects : Listed(s) /\ failed[s] =>
    \E h \in Handlers : pc[h] = "unlist" /\ item[h] = s

\* What the fields of an object amount to for a client of the store.
Phase(s) ==
  CASE ~Allocated(s)                        -> "free"
    [] Allocated(s) /\ ~ready[s]            -> "building"
    [] ready[s] /\ browser[s] # "live"      -> "dead"
    [] browser[s] = "live" /\ mu[s] = None  -> "idle"
    [] OTHER -> IF closed[s] THEN "closing" ELSE "busy"

Lifecycle == INSTANCE SessionLifecycle
             WITH registry <- sessions, phase <- [s \in Objects |-> Phase(s)]

\* The store keeps the promises of SessionLifecycle: launched once, used by one
\* caller at a time, closed once and only after leaving the store, never
\* listed again.
KeepsLifecycle == Lifecycle!Spec

\* A browser whose session has left the store is closed in the end.
UnlistedIsClosed == Lifecycle!Live

-----------------------------------------------------------------------------
(* The inductive invariant, in the order in which its parts are proved.    *)

\* A handler that is about to use its session name has one.
Arguments ==
  \A h \in Handlers :
    pc[h] \in {"create", "evict", "relock", "await", "build", "unlist",
              "present", "unlink"} => arg[h] \in Ids

\* Objects are listed under their own name, and nothing refers to an object
\* that is not allocated.
References ==
  /\ \A i \in Ids : sessions[i] # None => idOf[sessions[i]] = i
  /\ \A h \in Handlers : \A s \in Objects : Holds(h, s) => Allocated(s)
  /\ \A h \in Handlers :
       /\ (item[h] = None) <=> pc[h] \in {"idle", "create", "relock", "unlink",
                                          "install", "sweep", "swept"}
       /\ todo[h] # {} => pc[h] = "drain"
       /\ pc[h] \in {"build", "unlist", "present"} => idOf[item[h]] = arg[h]

\* What the fields of an object say together at each stage of its life.
Stages ==
  /\ \A s \in Objects :
       /\ ready[s] => Allocated(s)
       /\ ~ready[s] => browser[s] = "none" /\ ~failed[s] /\ ~closed[s]
       /\ ready[s] => (failed[s] <=> browser[s] = "none")
       /\ browser[s] = "gone" => closed[s]
  /\ \A h \in Handlers :
       /\ pc[h] = "build" => ~ready[item[h]]
       /\ pc[h] = "unlist" => failed[item[h]]
       /\ pc[h] \in {"present", "probe", "lock", "resolve"} =>
            ready[item[h]] /\ ~failed[item[h]]
  /\ \A g, h \in Handlers :
       pc[g] = "build" /\ pc[h] = "build" /\ item[g] = item[h] => g = h

\* session.mu: its holder drives or closes this very object, whose browser is
\* there; a close in progress holds it.
Mutex ==
  /\ \A s \in Objects : mu[s] # None =>
       /\ item[mu[s]] = s
       /\ browser[s] = "live"
       /\ pc[mu[s]] \in Closing \cup {"resolve"}
       /\ closed[s] <=> pc[mu[s]] \in Closing
  /\ \A s \in Objects : closed[s] /\ browser[s] = "live" => mu[s] # None
  /\ \A h \in Handlers : pc[h] = "resolve" => mu[item[h]] = h

\* Whatever left the store before its browser was closed has a closer.
Accounted ==
  \A s \in Objects :
    Allocated(s) /\ ~Listed(s) /\ ~failed[s] /\ browser[s] # "gone" =>
      \E h \in Handlers : Closer(h, s)

\* An object has left the store before anybody closes it.
ClosersUnlisted ==
  \A h \in Handlers : \A s \in Objects : Closer(h, s) => ~Listed(s)

\* A settings save has its own operation until it sweeps.
Saving == \A h \in Handlers : pc[h] = "install" => op[h] = "apply"

IInv == /\ TypeOK /\ Arguments /\ References /\ Stages /\ Mutex
        /\ Accounted /\ ClosersUnlisted /\ Saving /\ NoStaleConfig /\ FailedUnlisted
=============================================================================
