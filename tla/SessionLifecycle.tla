-------------------------- MODULE SessionLifecycle --------------------------
(***************************************************************************)
(* What the session store promises about one session object, whatever      *)
(* calls race: a browser is launched once, used by one caller at a time,   *)
(* closed once and only after its session left the store, and a session    *)
(* that left the store never comes back.                                   *)
(***************************************************************************)

CONSTANTS Ids,      \* session names
          Objects,  \* session objects
          None      \* no object

VARIABLES registry, \* the object listed under each name
          phase     \* the stage of life of each object

vars == <<registry, phase>>

Phases == {"free", "building", "idle", "busy", "closing", "dead"}

Registered(s) == \E i \in Ids : registry[i] = s

Init == /\ registry = [i \in Ids |-> None]
        /\ phase = [s \in Objects |-> "free"]

\* Object s moves from phase p to phase q.
Move(s, p, q) == /\ phase[s] = p
                 /\ phase' = [phase EXCEPT ![s] = q]

\* A free object takes a free name; its browser is being launched.
Open(i, s) == /\ registry[i] = None
              /\ registry' = [registry EXCEPT ![i] = s]
              /\ Move(s, "free", "building")

\* Names are released, by destroy, a renewal, a failed launch or a drain.
Retire(I) == /\ registry' = [i \in Ids |-> IF i \in I THEN None ELSE registry[i]]
             /\ UNCHANGED phase

Launch(s) == Move(s, "building", "idle") /\ UNCHANGED registry
Fail(s)   == Move(s, "building", "dead") /\ UNCHANGED registry
Use(s)    == Move(s, "idle", "busy") /\ UNCHANGED registry
Finish(s) == Move(s, "busy", "idle") /\ UNCHANGED registry

\* Only a retired session is closed, and never while it is in use.
Close(s)  == ~Registered(s) /\ Move(s, "idle", "closing") /\ UNCHANGED registry

\* The browser process is gone; a drain may take over its next object.
Closed(s) == Move(s, "closing", "dead") /\ UNCHANGED registry
Free(s)   == ~Registered(s) /\ Move(s, "dead", "free") /\ UNCHANGED registry

Next == \/ \E I \in SUBSET Ids : Retire(I)
        \/ \E s \in Objects : \/ \E i \in Ids : Open(i, s)
                              \/ Launch(s) \/ Fail(s) \/ Use(s) \/ Finish(s)
                              \/ Close(s) \/ Closed(s) \/ Free(s)

Spec == Init /\ [][Next]_vars

\* A retired session whose browser was launched is closed in the end.
Live == \A s \in Objects : phase[s] \in {"idle", "busy"} /\ ~Registered(s)
                           ~> phase[s] = "dead"
=============================================================================
