------------------------------- MODULE Policy -------------------------------
(***************************************************************************)
(* Which remote services autotun forwards (internal/tunnel/policy.go).     *)
(*                                                                         *)
(* A policy is a record of the command-line flags plus Paused, the only    *)
(* field that changes while the program runs.  A service is seen here      *)
(* through its port and the class of its bind addresses.                   *)
(***************************************************************************)
EXTENDS Integers

(***************************************************************************)
(* The bind classes of a service: bound to 127.0.0.1 only, to ::1 only, to *)
(* every interface, or to one outside address only.                        *)
(***************************************************************************)
Binds == {"lo4", "lo6", "any", "host"}

\* Every bind of the service is a loopback address.
LoopbackOnly(bind) == bind \in {"lo4", "lo6"}

(***************************************************************************)
(* Where the remote end of the tunnel connects: IPv4 loopback for a        *)
(* wildcard bind, otherwise the one address the service is bound to.       *)
(***************************************************************************)
Addrs == {"127.0.0.1", "::1", "outside"}

DialAddr(bind) ==
  CASE bind \in {"lo4", "any"} -> "127.0.0.1"
    [] bind = "lo6"            -> "::1"
    [] bind = "host"           -> "outside"

-----------------------------------------------------------------------------

Skips == { "none", "pre-existing", "below-min", "above-max", "excluded",
           "not-in-include", "not-loopback", "paused", "off" }

PolicyOver(ports) ==
  [ MinPort    : Nat,
    MaxPort    : Nat,
    Include    : SUBSET ports,
    Exclude    : SUBSET ports,
    RemoteBind : {"any", "loopback"},
    Existing   : BOOLEAN,
    Paused     : BOOLEAN ]

(***************************************************************************)
(* The verdict on a service, "none" meaning forward it.  The order of the  *)
(* tests is the code's.                                                    *)
(***************************************************************************)
Eval(pol, port, bind, preexisting) ==
  LET explicit == port \in pol.Include
      ruledOut ==
        IF pol.Include # {} THEN "not-in-include"
        ELSE IF port < pol.MinPort THEN "below-min"
        ELSE IF port > pol.MaxPort THEN "above-max"
        ELSE IF pol.RemoteBind = "loopback" /\ ~LoopbackOnly(bind) THEN "not-loopback"
        ELSE IF preexisting /\ ~pol.Existing THEN "pre-existing"
        ELSE "none"
  IN  IF port \in pol.Exclude THEN "excluded"
      ELSE IF ~explicit /\ ruledOut # "none" THEN ruledOut
      ELSE IF pol.Paused THEN "paused"
      ELSE "none"
=============================================================================
