---------------------------- MODULE TunnelMemory ----------------------------
(***************************************************************************)
(* What the documentation promises about remembered decisions.  History    *)
(* variables record what the user decided; they read the manager's steps   *)
(* and never restrict them.                                                *)
(***************************************************************************)
EXTENDS TunnelManager

VARIABLES
  chosen,   \* per port, the schemes the user ever set
  latest    \* per port, the mode the user chose last; "none" when there is no
            \* choice, or its service went away before the choice was stored

NextChosen ==
  /\ chosen' = [p \in Ports |->
                  chosen[p] \cup {s \in Schemes : SetScheme(p, s)}]
  /\ latest' = [p \in Ports |->
                  IF CycleMode(p) THEN entry'[p].mode
                  ELSE IF p \in listed' \/ saved'[p].mode = latest[p] THEN latest[p]
                  ELSE "none"]

MInit ==
  /\ Init
  /\ chosen = [p \in Ports |-> {saved[p].scheme}]
  /\ latest = [p \in Ports |-> "none"]

MNext == Next /\ NextChosen

MSpec == MInit /\ [][MNext]_<<vars, chosen, latest>>

-----------------------------------------------------------------------------
(***************************************************************************)
(* A port the user switched off is left alone by scans, reconnects and     *)
(* browser requests until the user switches it again: "that decision       *)
(* was about this port in particular" (manager.go:519).                    *)
(***************************************************************************)
OffIsFinal ==
  \A p \in listed : latest[p] = "off" => ~Up(p)

(***************************************************************************)
(* Nothing observed is remembered as if the user had decided it: a scheme  *)
(* in the settings is one the user set (manager.go:630-650).               *)
(***************************************************************************)
OnlyChosenSchemesAreRemembered ==
  \A p \in Ports : saved[p].scheme \in chosen[p] \cup {"unknown"}

(***************************************************************************)
(* ForwardNow opens a tunnel "for this session only" (manager.go:516): a   *)
(* mode that enters the settings is the one the user chose last.           *)
(***************************************************************************)
OnlyChosenModesAreRemembered ==
  [][\A p \in Ports :
       saved'[p].mode \in {saved[p].mode, latest[p]}]_<<vars, chosen, latest>>
=============================================================================
