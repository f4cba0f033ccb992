--------------------------- MODULE MetricsExporter ---------------------------
(***************************************************************************)
(* The Prometheus exporter of server/metrics.go: it is started when the    *)
(* server boots (server.go: ListenAndServe), restarted by every settings   *)
(* save that changes its port or switches it, and stopped by               *)
(* Server.Shutdown, which then waits for the exporter goroutines.          *)
(*                                                                         *)
(* Every critical section under metricsRegistry.mu is one action.  An      *)
(* http.Server is an element of Servers: its goroutine runs ListenAndServe *)
(* and its `shut` flag is the inShutdown flag of net/http, which closes    *)
(* the listener and makes ListenAndServe return.                           *)
(***************************************************************************)
EXTENDS Naturals, FiniteSets

CONSTANTS Savers,   \* goroutines that handle POST /api/settings
          Boot,     \* the goroutine that runs Server.ListenAndServe
          Servers,  \* http.Server objects the heap can hold
          Ports,    \* ports a configuration can name
          Busy,     \* those of them another process listens on
          None

ASSUME ExporterAssumption ==
  /\ Boot \notin Savers /\ None \notin Savers \cup {Boot}
  /\ None \notin Servers /\ None \notin Ports
  /\ Busy \subseteq Ports

Appliers == Savers \cup {Boot}

VARIABLES
  enabled,  \* metricsRegistry.enabled
  port,     \* metricsRegistry.port
  server,   \* metricsRegistry.server, or None
  routine,  \* goroutine of each server: "none", "starting", "serving", "ended"
  shut,     \* Shutdown has been called on the server
  addr,     \* the port of each server
  applyMu,  \* the saver that holds Server.applyMu
  pc,       \* where each applier is in metricsRegistry.ApplyConfig
  want,     \* the configuration it applies
  old, new, \* oldServer and newServer of its call
  life      \* of the process, in the order of Server.Shutdown's steps

registryVars == <<enabled, port, server>>
serverVars   == <<routine, shut, addr>>
applyVars    == <<applyMu, pc, want, old, new>>
vars         == <<registryVars, serverVars, applyVars, life>>

Wishes == [on : BOOLEAN, port : Ports]

TypeOK ==
  /\ enabled \in BOOLEAN /\ port \in Ports /\ server \in Servers \cup {None}
  /\ routine \in [Servers -> {"none", "starting", "serving", "ended"}]
  /\ shut \in [Servers -> BOOLEAN]
  /\ addr \in [Servers -> Ports \cup {None}]
  /\ applyMu \in Savers \cup {None}
  /\ pc \in [Appliers -> {"idle", "decide", "stop", "publish", "launch", "done"}]
  /\ want \in [Appliers -> Wishes]
  /\ old \in [Appliers -> Servers \cup {None}]
  /\ new \in [Appliers -> Servers \cup {None}]
  /\ life \in {"up", "signalled", "metrics", "wait", "sessions"}

\* NewServer fills the registry from the configuration; ListenAndServe then
\* applies that configuration to the registry itself.
Init ==
  /\ enabled \in BOOLEAN /\ port \in Ports /\ server = None
  /\ routine = [v \in Servers |-> "none"]
  /\ shut = [v \in Servers |-> FALSE]
  /\ addr = [v \in Servers |-> None]
  /\ applyMu = None
  /\ pc = [a \in Appliers |-> IF a = Boot THEN "decide" ELSE "idle"]
  /\ want = [a \in Appliers |-> [on |-> enabled, port |-> port]]
  /\ old = [a \in Appliers |-> None]
  /\ new = [a \in Appliers |-> None]
  /\ life = "up"

-----------------------------------------------------------------------------
Booted == pc[Boot] = "done"

Running(v)   == routine[v] \in {"starting", "serving"}
Listening(v) == routine[v] = "serving" /\ ~shut[v]

Referenced(v) == server = v \/ \E a \in Appliers : old[a] = v \/ new[a] = v

Goto(a, l) == pc' = [pc EXCEPT ![a] = l]

-----------------------------------------------------------------------------
(* A settings save, under applyMu; the main listener is up after the boot. *)

\* Mutant: applyMu does not exclude another save.
SaveAnyway(a, w) ==
  /\ a \in Savers /\ pc[a] = "idle" /\ Booted /\ life = "up"
  /\ applyMu' = a
  /\ want' = [want EXCEPT ![a] = w]
  /\ Goto(a, "decide")
  /\ UNCHANGED <<registryVars, serverVars, old, new, life>>

Save(a, w) ==
  /\ a \in Savers /\ pc[a] = "idle" /\ Booted /\ life = "up"
  /\ applyMu = None
  /\ applyMu' = a
  /\ want' = [want EXCEPT ![a] = w]
  /\ Goto(a, "decide")
  /\ UNCHANGED <<registryVars, serverVars, old, new, life>>

\* Mutant: a change of the port alone goes unnoticed.
Switched(a) == want[a].on # enabled

Changed(a) == want[a] # [on |-> enabled, port |-> port]

\* The first critical section of ApplyConfig: take the old server out if the
\* configuration changed, and prepare a new one if there is none.
Decide(a) ==
  /\ pc[a] = "decide"
  /\ LET kept == IF Changed(a) THEN None ELSE server IN
     /\ server' = kept
     /\ old' = [old EXCEPT ![a] = IF Changed(a) THEN server ELSE None]
     /\ \/ /\ want[a].on /\ kept = None
           /\ \E v \in Servers : /\ addr[v] = None
                                 /\ addr' = [addr EXCEPT ![v] = want[a].port]
                                 /\ new' = [new EXCEPT ![a] = v]
        \/ /\ ~(want[a].on /\ kept = None)
           /\ UNCHANGED <<addr, new>>
  /\ enabled' = want[a].on
  /\ port' = want[a].port
  /\ Goto(a, "stop")
  /\ UNCHANGED <<routine, shut, applyMu, want, life>>

\* oldServer.Shutdown closes the listener even when it reports that its
\* context ran out; the new server is brought up in both cases.
StopOld(a) ==
  /\ pc[a] = "stop"
  /\ shut' = [v \in Servers |-> shut[v] \/ v = old[a]]
  /\ old' = [old EXCEPT ![a] = None]
  /\ Goto(a, IF new[a] = None THEN "done" ELSE "publish")
  /\ UNCHANGED <<registryVars, routine, addr, applyMu, want, new, life>>

Publish(a) ==
  /\ pc[a] = "publish"
  /\ server' = new[a]
  /\ Goto(a, "launch")
  /\ UNCHANGED <<enabled, port, serverVars, applyMu, want, old, new, life>>

\* Mutant: the server is published and not started.
LaunchNothing(a) ==
  /\ pc[a] = "launch"
  /\ new' = [new EXCEPT ![a] = None]
  /\ Goto(a, "done")
  /\ UNCHANGED <<registryVars, serverVars, applyMu, want, old, life>>

\* startServer: wg.Add(1) and the goroutine.
Launch(a) ==
  /\ pc[a] = "launch"
  /\ routine' = [routine EXCEPT ![new[a]] = "starting"]
  /\ new' = [new EXCEPT ![a] = None]
  /\ Goto(a, "done")
  /\ UNCHANGED <<registryVars, shut, addr, applyMu, want, old, life>>

\* The handler answers and releases applyMu.
Saved(a) ==
  /\ a \in Savers /\ pc[a] = "done"
  /\ applyMu' = None
  /\ Goto(a, "idle")
  /\ UNCHANGED <<registryVars, serverVars, want, old, new, life>>

-----------------------------------------------------------------------------
(* The goroutine of a server.                                              *)

PortFree(v) == /\ addr[v] \notin Busy
               /\ \A u \in Servers \ {v} : Listening(u) => addr[u] # addr[v]

Bind(v) ==
  /\ routine[v] = "starting" /\ ~shut[v] /\ PortFree(v)
  /\ routine' = [routine EXCEPT ![v] = "serving"]
  /\ UNCHANGED <<registryVars, shut, addr, applyVars, life>>

\* ListenAndServe returns: the port is taken, or Shutdown has been called.
Exit(v) ==
  /\ Running(v)
  /\ shut[v] \/ (routine[v] = "starting" /\ ~PortFree(v))
  /\ routine' = [routine EXCEPT ![v] = "ended"]
  /\ UNCHANGED <<registryVars, shut, addr, applyVars, life>>

\* A server nothing refers to, and whose goroutine is over, is garbage.
Collect(v) ==
  /\ addr[v] # None /\ ~Running(v) /\ ~Referenced(v)
  /\ routine' = [routine EXCEPT ![v] = "none"]
  /\ shut' = [shut EXCEPT ![v] = FALSE]
  /\ addr' = [addr EXCEPT ![v] = None]
  /\ UNCHANGED <<registryVars, applyVars, life>>

-----------------------------------------------------------------------------
(* Server.Shutdown, step by step.                                          *)

Signal ==
  /\ life = "up"
  /\ life' = "signalled"
  /\ UNCHANGED <<registryVars, serverVars, applyVars>>

\* httpServer.Shutdown returns: no handler runs any more, or the deadline has
\* passed.  It does not wait for a boot that has not listened yet.
ListenerClosed ==
  /\ life = "signalled"
  /\ life' = "metrics"
  /\ UNCHANGED <<registryVars, serverVars, applyVars>>

\* Mutant: Shutdown forgets the server without stopping it.
StopNothing ==
  /\ life = "metrics"
  /\ server' = None
  /\ life' = "wait"
  /\ UNCHANGED <<enabled, port, serverVars, applyVars>>

\* metricsRegistry.Shutdown.
StopExporter ==
  /\ life = "metrics"
  /\ server' = None
  /\ shut' = [v \in Servers |-> shut[v] \/ v = server]
  /\ life' = "wait"
  /\ UNCHANGED <<enabled, port, routine, addr, applyVars>>

\* wg.Wait returns; Service.Close drains the sessions next.
Waited ==
  /\ life = "wait"
  /\ \A v \in Servers : ~Running(v)
  /\ life' = "sessions"
  /\ UNCHANGED <<registryVars, serverVars, applyVars>>

\* The rest of the shutdown is Service.tla's; here the process is over.
Finished == life = "sessions" /\ UNCHANGED vars

-----------------------------------------------------------------------------
Apply(a) == Decide(a) \/ StopOld(a) \/ Publish(a) \/ Launch(a) \/ Saved(a)
Serve(v) == Bind(v) \/ Exit(v)
Stop     == ListenerClosed \/ StopExporter \/ Waited

Next == \/ \E a \in Appliers : Apply(a) \/ \E w \in Wishes : Save(a, w)
        \/ \E v \in Servers : Serve(v) \/ Collect(v)
        \/ Signal \/ Stop \/ Finished

Spec == Init /\ [][Next]_vars

\* Goroutines keep running; nothing forces a save or a signal to come.
FairSpec == /\ Spec
            /\ \A a \in Appliers : WF_vars(Apply(a))
            /\ \A v \in Servers : WF_vars(Serve(v)) /\ WF_vars(Collect(v))
            /\ WF_vars(Stop)

-----------------------------------------------------------------------------
(* Properties.                                                             *)

\* Whatever saves and failures came before: once no configuration is being
\* applied, the only goroutine left is the published server's or is about to
\* end, and it serves the port that is configured, if any is.
NoStrayExporter ==
  life = "up" /\ Booted /\ applyMu = None =>
    \A v \in Servers : Running(v) /\ ~shut[v] =>
      v = server /\ enabled /\ addr[v] = port

\* The parts of the inductive invariant behind it.  Only the holder of applyMu
\* applies a configuration, and only after the boot.
Exclusive == \A a \in Savers : pc[a] # "idle" => applyMu = a /\ Booted

\* The exporter goroutine is the published server's, or is taken down next.
Tracked ==
  \A v \in Servers : Running(v) /\ ~shut[v] =>
    v = server \/ \E a \in Appliers : pc[a] = "stop" /\ old[a] = v

\* A published server, and one on its way to be, is the configured one.
Current ==
  /\ server # None => enabled /\ addr[server] = port
  /\ \A a \in Appliers : new[a] # None =>
       /\ pc[a] \in {"stop", "publish", "launch"}
       /\ enabled /\ addr[new[a]] = port
       /\ server = IF pc[a] = "launch" THEN new[a] ELSE None
  /\ \A a \in Appliers : pc[a] \in {"publish", "launch"} => new[a] # None

ExporterInv == /\ TypeOK /\ Exclusive
               /\ life \in {"up", "signalled"} => Tracked /\ Current

\* README.md:23 and 123: after a save the exporter serves the configured port
\* if the port is free, unless another save or a shutdown comes first.
ExporterComesUp ==
  enabled /\ port \notin Busy /\ applyMu = None /\ Booted /\ life = "up" ~>
    \/ \E v \in Servers : Listening(v) /\ addr[v] = port
    \/ applyMu # None \/ life # "up"

\* server.go:79, "Every step runs unconditionally": whatever is in flight, a
\* shutdown gets past the exporter to Service.Close, which stops the browsers.
ShutdownReachesSessions == life = "signalled" ~> life = "sessions"

\* An exporter was published after metrics.Shutdown had taken its own.
PublishedLate == life = "wait" /\ server # None

\* What is true of it: a shutdown gets past the exporter, whatever saves and
\* failed binds came before, unless a save that outlives the deadline, or a boot
\* that is late, publishes another exporter behind metrics.Shutdown's back.
ShutdownGetsPast == life = "signalled" ~> life = "sessions" \/ PublishedLate
=============================================================================
