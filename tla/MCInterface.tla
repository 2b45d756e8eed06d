----------------------------- MODULE MCInterface -----------------------------
(***************************************************************************)
(* A small instance of the interface for TLC: three services. One is there *)
(* from the start without a tunnel and gets one later, when the scheme of  *)
(* all of them is known, a third has appeared, and the later a service in  *)
(* the order of ports the busier it is.                                    *)
(***************************************************************************)
EXTENDS Interface

Service(p) ==
  [ port |-> p, active |-> TRUE, furniture |-> FALSE, scheme |-> "unknown",
    words |-> IF p = 2 THEN {"w"} ELSE {}, local |-> p, process |-> p, age |-> p,
    traffic |-> 0, conns |-> 0 ]

Old(p) == [Service(p) EXCEPT !.active = FALSE, !.furniture = TRUE]

Http(p) == [Service(p) EXCEPT !.scheme = "http", !.traffic = p - 1]

SomeSnaps == { {Service(1), Old(2)}, {Http(1), Http(2), Http(3)} }

TwoKeys == <<"remote", "traffic">>

OneKey == <<"traffic">>

\* Room for one row and for two; a terminal may not know its height.
TwoSizes == {<<90, 0>>, <<90, 6>>}
=============================================================================
