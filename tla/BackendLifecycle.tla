-------------------------- MODULE BackendLifecycle --------------------------
(***************************************************************************)
(* What a browser backend promises its owner, the session store: a         *)
(* construction gathers resources; one that fails gives them all back      *)
(* before it returns; a browser that was handed over keeps what it holds   *)
(* until Close, and Close gives everything back.                           *)
(***************************************************************************)
CONSTANTS Backends,   \* browsers
          Resources   \* what a browser can hold

VARIABLES stage,      \* the stage of life of each browser
          held        \* the resources it has to give back

vars == <<stage, held>>

Init == /\ stage = [b \in Backends |-> "new"]
        /\ held = [b \in Backends |-> {}]

Become(b, s) == stage' = [stage EXCEPT ![b] = s]

\* Nobody else's resources change.
Keep(b) == \A c \in Backends \ {b} : held'[c] = held[c]

Gather(b)  == held' \in [Backends -> SUBSET Resources] /\ Keep(b)
GiveUp(b)  == Gather(b) /\ held'[b] \subseteq held[b]
GiveAll(b) == held' = [held EXCEPT ![b] = {}]

\* The constructor takes and returns resources as it goes along.
Build(b) == stage[b] \in {"new", "building"} /\ Become(b, "building") /\ Gather(b)

\* The browser is handed over, with the last resource it got.
Deliver(b) == stage[b] = "building" /\ Become(b, "live") /\ Gather(b)

\* Nothing could be built, or what was built is taken down again.
Refuse(b)  == stage[b] = "new" /\ Become(b, "closed") /\ UNCHANGED held
Abandon(b) == stage[b] \in {"new", "building"} /\ Become(b, "closing") /\ Gather(b)

\* The owner closes the browser.
Close(b)   == stage[b] = "live" /\ Become(b, "closing") /\ UNCHANGED held

Release(b) == stage[b] = "closing" /\ UNCHANGED stage /\ GiveUp(b)

\* The last resource goes with the return to the owner.
Done(b) == stage[b] = "closing" /\ Become(b, "closed") /\ GiveAll(b)

Next == \E b \in Backends : \/ Build(b) \/ Deliver(b) \/ Refuse(b) \/ Abandon(b)
                            \/ Close(b) \/ Release(b) \/ Done(b)

Spec == Init /\ [][Next]_vars
=============================================================================
