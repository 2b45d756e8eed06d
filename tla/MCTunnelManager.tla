-------------------------- MODULE MCTunnelManager ---------------------------
(***************************************************************************)
(* Small instances of the tunnel manager for TLC.                          *)
(***************************************************************************)
EXTENDS TunnelManager

\* The default flags, with the window of ports open to all of them.
Defaults ==
  [ MinPort |-> 1, MaxPort |-> 9, Include |-> {}, Exclude |-> {},
    RemoteBind |-> "any", Existing |-> FALSE, Paused |-> FALSE ]

\* Every scan in which the services that are up are bound to 127.0.0.1.
AnySubset == [Ports -> {"lo4", "absent"}]

Everything == {[p \in Ports |-> "lo4"]}

NothingSaved == {Forgotten}

\* A port the user said nothing about, and one kept on with a local port.
SomeSaved == {Forgotten, [Forgotten EXCEPT !.mode = "on", !.local = 3]}
=============================================================================
