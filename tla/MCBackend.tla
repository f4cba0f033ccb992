------------------------------ MODULE MCBackend ------------------------------
(* Small instances of Backend for TLC; the cfgs name backends, ports and the *)
(* DISPLAY the process may have inherited.                                   *)
EXTENDS Backend

\* Two Chromes that need an Xvfb each, or browsers of any engine under a DISPLAY
\* that is there.  Xvfb and drivers together are left to the proofs.
MCInit ==
  /\ Init
  /\ IF env = None THEN \A b \in Backends : ~Driven(b) ELSE files = {}
MCSpec == MCInit /\ [][Next]_vars /\ Fairness
=============================================================================
