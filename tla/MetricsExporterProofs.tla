------------------------ MODULE MetricsExporterProofs ------------------------
(* No exporter goroutine is left behind, for any savers, servers and ports. *)
EXTENDS MetricsExporter, TLAPS

LEMMA InitInvariant == Init => ExporterInv
  BY ExporterAssumption DEF Init, ExporterInv, TypeOK, Exclusive, Tracked, Current,
     Running, Appliers, Wishes, Booted

\* Types are kept by every step.
LEMMA TypeNext == TypeOK /\ [Next]_vars => TypeOK'
<1> SUFFICES ASSUME TypeOK, [Next]_vars PROVE TypeOK'
  OBVIOUS
<1> USE ExporterAssumption DEF TypeOK, Appliers, Goto, registryVars, serverVars, applyVars
<1>1. ASSUME NEW a \in Appliers, NEW w \in Wishes, Save(a, w) PROVE TypeOK'
  BY <1>1 DEF Save
<1>2. ASSUME NEW a \in Appliers, Decide(a) PROVE TypeOK'
  <2>1. want[a].on \in BOOLEAN /\ want[a].port \in Ports
    BY DEF Wishes
  <2> QED BY <1>2, <2>1 DEF Decide, Changed
<1>3. ASSUME NEW a \in Appliers, StopOld(a) PROVE TypeOK'
  BY <1>3 DEF StopOld
<1>4. ASSUME NEW a \in Appliers, Publish(a) \/ Launch(a) \/ Saved(a) PROVE TypeOK'
  BY <1>4 DEF Publish, Launch, Saved
<1>5. ASSUME NEW v \in Servers, Serve(v) \/ Collect(v) PROVE TypeOK'
  BY <1>5 DEF Serve, Bind, Exit, Collect
<1>6. ASSUME Signal \/ Stop \/ Finished \/ UNCHANGED vars PROVE TypeOK'
  BY <1>6 DEF Signal, Stop, ListenerClosed, StopExporter, Waited, Finished, vars
<1> QED BY <1>1, <1>2, <1>3, <1>4, <1>5, <1>6 DEF Next, Apply

\* applyMu excludes all but one saver.
LEMMA ExclusiveNext == TypeOK /\ Exclusive /\ [Next]_vars => Exclusive'
<1> SUFFICES ASSUME TypeOK, Exclusive, [Next]_vars PROVE Exclusive'
  OBVIOUS
<1> USE ExporterAssumption DEF TypeOK, Exclusive, Booted, Appliers, Goto
<1>1. ASSUME NEW a \in Appliers, NEW w \in Wishes, Save(a, w) PROVE Exclusive'
  BY <1>1 DEF Save
<1>2. ASSUME NEW a \in Appliers, Decide(a) PROVE Exclusive'
  BY <1>2 DEF Decide
<1>3. ASSUME NEW a \in Appliers, StopOld(a) PROVE Exclusive'
  BY <1>3 DEF StopOld
<1>4. ASSUME NEW a \in Appliers, Publish(a) \/ Launch(a) \/ Saved(a) PROVE Exclusive'
  BY <1>4 DEF Publish, Launch, Saved
<1>5. ASSUME NEW v \in Servers, Serve(v) \/ Collect(v) PROVE Exclusive'
  BY <1>5 DEF Serve, Bind, Exit, Collect, applyVars
<1>6. ASSUME Signal \/ Stop \/ Finished \/ UNCHANGED vars PROVE Exclusive'
  BY <1>6 DEF Signal, Stop, ListenerClosed, StopExporter, Waited, Finished, vars, applyVars
<1> QED BY <1>1, <1>2, <1>3, <1>4, <1>5, <1>6 DEF Next, Apply

Up == life \in {"up", "signalled"}

\* At most one applier is between its decision and its launch.
LEMMA OneApplier ==
  ASSUME TypeOK, Exclusive, NEW a \in Appliers, NEW b \in Appliers, a # b,
         pc[a] \in {"decide", "stop", "publish", "launch"}
  PROVE  pc[b] \notin {"decide", "stop", "publish", "launch"}
  BY ExporterAssumption DEF TypeOK, Exclusive, Booted, Appliers

LEMMA TrackedNext ==
  TypeOK /\ Exclusive /\ (Up => Tracked /\ Current) /\ [Next]_vars => (Up => Tracked)'
<1> SUFFICES ASSUME TypeOK, Exclusive, Up', Up => Tracked /\ Current, [Next]_vars
             PROVE  Tracked'
  OBVIOUS
<1> USE ExporterAssumption DEF TypeOK, Up, Running, Goto, registryVars, serverVars, applyVars
<1>1. ASSUME NEW a \in Appliers, NEW w \in Wishes, Save(a, w) PROVE Tracked'
  BY <1>1 DEF Save, Tracked
<1>2. ASSUME NEW a \in Appliers, Decide(a) PROVE Tracked'
  <2> SUFFICES ASSUME NEW v \in Servers, Running(v), ~shut[v]
               PROVE  v = server' \/ \E b \in Appliers : pc'[b] = "stop" /\ old'[b] = v
    BY <1>2 DEF Decide, Tracked
  <2>1. v = server \/ \E b \in Appliers : pc[b] = "stop" /\ old[b] = v
    BY <1>2 DEF Decide, Tracked
  <2>2. CASE v = server
    BY <1>2, <2>2 DEF Decide
  <2>3. ASSUME NEW b \in Appliers, pc[b] = "stop", old[b] = v PROVE FALSE
    BY <1>2, <2>3, OneApplier DEF Decide
  <2> QED BY <2>1, <2>2, <2>3
<1>3. ASSUME NEW a \in Appliers, StopOld(a) PROVE Tracked'
  BY <1>3 DEF StopOld, Tracked
<1>4. ASSUME NEW a \in Appliers, Publish(a) PROVE Tracked'
  <2>1. new[a] # None /\ server = None
    BY <1>4 DEF Publish, Current
  <2> QED BY <1>4, <2>1 DEF Publish, Tracked
<1>5. ASSUME NEW a \in Appliers, Launch(a) PROVE Tracked'
  <2>1. new[a] # None /\ server = new[a]
    BY <1>5 DEF Launch, Current
  <2> QED BY <1>5, <2>1 DEF Launch, Tracked
<1>6. ASSUME NEW a \in Appliers, Saved(a) PROVE Tracked'
  BY <1>6 DEF Saved, Tracked
<1>7. ASSUME NEW v \in Servers, Serve(v) \/ Collect(v) PROVE Tracked'
  BY <1>7 DEF Serve, Bind, Exit, Collect, Tracked
<1>8. ASSUME Signal \/ Stop \/ Finished \/ UNCHANGED vars PROVE Tracked'
  BY <1>8 DEF Signal, Stop, ListenerClosed, StopExporter, Waited, Finished, vars, Tracked
<1> QED BY <1>1, <1>2, <1>3, <1>4, <1>5, <1>6, <1>7, <1>8 DEF Next, Apply

LEMMA CurrentNext ==
  TypeOK /\ Exclusive /\ (Up => Tracked /\ Current) /\ [Next]_vars => (Up => Current)'
<1> SUFFICES ASSUME TypeOK, Exclusive, Up', Up => Tracked /\ Current, [Next]_vars
             PROVE  Current'
  OBVIOUS
<1> USE ExporterAssumption DEF TypeOK, Up, Current, Goto, registryVars, serverVars, applyVars
<1>1. ASSUME NEW a \in Appliers, NEW w \in Wishes, Save(a, w) PROVE Current'
  BY <1>1 DEF Save
<1>2. ASSUME NEW a \in Appliers, Decide(a) PROVE Current'
  <2>0. Up /\ \A b \in Appliers : new[b] = None
    BY <1>2, OneApplier DEF Decide
  <2>1. \A b \in Appliers \ {a} : pc[b] \notin {"publish", "launch"}
    BY <1>2, OneApplier DEF Decide
  <2>2. CASE Changed(a)
    BY <1>2, <2>0, <2>1, <2>2 DEF Decide
  <2>3. CASE ~Changed(a)
    <3>1. want[a].on = enabled /\ want[a].port = port
      BY <2>3 DEF Changed, Wishes
    <3> QED BY <1>2, <2>0, <2>1, <2>3, <3>1 DEF Decide
  <2> QED BY <2>2, <2>3
<1>3. ASSUME NEW a \in Appliers, StopOld(a) PROVE Current'
  BY <1>3 DEF StopOld
<1>4. ASSUME NEW a \in Appliers, Publish(a) PROVE Current'
  <2>1. \A b \in Appliers \ {a} : new[b] = None
    BY <1>4, OneApplier DEF Publish
  <2> QED BY <1>4, <2>1 DEF Publish
<1>5. ASSUME NEW a \in Appliers, Launch(a) PROVE Current'
  BY <1>5 DEF Launch
<1>6. ASSUME NEW a \in Appliers, Saved(a) PROVE Current'
  BY <1>6 DEF Saved
<1>7. ASSUME NEW v \in Servers, Serve(v) \/ Collect(v) PROVE Current'
  BY <1>7 DEF Serve, Bind, Exit, Collect, Referenced
<1>8. ASSUME Signal \/ Stop \/ Finished \/ UNCHANGED vars PROVE Current'
  BY <1>8 DEF Signal, Stop, ListenerClosed, StopExporter, Waited, Finished, vars
<1> QED BY <1>1, <1>2, <1>3, <1>4, <1>5, <1>6, <1>7, <1>8 DEF Next, Apply

\* The inductive invariant of the exporter.
THEOREM ExporterInvariant == Spec => []ExporterInv
<1>1. ExporterInv /\ [Next]_vars => ExporterInv'
  BY TypeNext, ExclusiveNext, TrackedNext, CurrentNext DEF ExporterInv, Up
<1> QED BY InitInvariant, <1>1, PTL DEF Spec

\* Whenever no configuration is being applied, the only exporter goroutine
\* left is the published server's, on the configured port (metrics.go:84-126).
THEOREM ExporterIsTracked == Spec => []NoStrayExporter
<1>1. ExporterInv => NoStrayExporter
  BY ExporterAssumption DEF ExporterInv, TypeOK, Exclusive, Tracked, Current, NoStrayExporter,
     Booted, Appliers
<1> QED BY ExporterInvariant, <1>1, PTL
=============================================================================
