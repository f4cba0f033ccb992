---------------------------- MODULE BackendBase -----------------------------
(* What DisplayServer, DriverProcess and Backend have in common. *)
CONSTANTS Backends,  \* browsers, each built at most once
          None       \* no display, no port, no driver

ASSUME BackendsAssumption == None \notin Backends
=============================================================================
