--------------------------- MODULE MCProbeMonitor ---------------------------
(***************************************************************************)
(* A small instance of the monitor for TLC.                                *)
(***************************************************************************)
EXTENDS ProbeMonitor

\* Nobody, one process, both, and both with one that belongs to another user.
SomeListings ==
  { [ports |-> {}, owners |-> {}], [ports |-> {1}, owners |-> {1}],
    [ports |-> {1, 2}, owners |-> {1, 2}], [ports |-> {1, 2}, owners |-> {2}] }
=============================================================================
