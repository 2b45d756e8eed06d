--------------------------- MODULE TunnelHistory ----------------------------
(***************************************************************************)
(* What the documentation promises about the tunnels over time.  The       *)
(* promises speak of the past ("current tunnels stay up", "restores them", *)
(* "for this session only"), so the manager is watched by history          *)
(* variables, which read its steps and never restrict them.                *)
(***************************************************************************)
EXTENDS TunnelManager, Sequences

VARIABLES
  current,  \* automatic tunnels up when forwarding was paused, untouched since
  held,     \* per port, the local port its tunnel had when the link was lost,
            \* until it is back or the user moves it
  recent    \* what the last Grace scans of this connection found

history == <<current, held, recent>>

Pausing  == policy'.Paused /\ ~policy.Paused
Resuming == policy.Paused /\ ~policy'.Paused
Dropping == dialer # 0 /\ dialer' = 0
Scanning == job.kind = "free" /\ job'.kind = "sync"

\* The user, or a request of the bridge, decided something about p itself.
Switched(p) == p \in listed' /\ entry'[p].mode # entry[p].mode
Forgets(p)  == sticky[p] # 0 /\ sticky'[p] = 0

NextCurrent ==
  current' = IF Pausing THEN {p \in listed : Up(p) /\ entry[p].mode = "auto"}
             ELSE IF Resuming THEN {}
             ELSE {p \in current \cap listed' : ~Switched(p)}

NextHeld ==
  held' = [p \in Ports |->
            IF Dropping /\ Up(p) THEN entry[p].fwd.local
            ELSE IF Up(p)' \/ Forgets(p) THEN 0
            ELSE held[p]]

Found(scan) == {p \in Ports : scan[p] # "absent"}

NextRecent ==
  recent' = IF Dropping THEN << >>
            ELSE IF Scanning
              THEN LET all == Append(recent, Found(job'.scan))
                   IN  IF Len(all) > Grace THEN Tail(all) ELSE all
            ELSE recent

HInit ==
  /\ Init
  /\ current = {}
  /\ held = [p \in Ports |-> 0]
  /\ recent = << >>

HNext ==
  Next /\ NextCurrent /\ NextHeld /\ NextRecent

HSpec == HInit /\ [][HNext]_<<vars, history>>

HFairSpec == HSpec /\ Fairness

-----------------------------------------------------------------------------
Visited(p) == ~(job.kind = "apply" /\ p \in job.todo)

(***************************************************************************)
(* "pause new automatic tunnels" (README.md:195): an automatic tunnel that *)
(* is up while paused was up when the pause began, whatever outages and    *)
(* scans there were since.                                                 *)
(***************************************************************************)
PauseHoldsNewTunnels ==
  policy.Paused /\ ~closed =>
    \A p \in listed : Up(p) /\ entry[p].mode = "auto" => p \in current

(***************************************************************************)
(* "current tunnels stay up" (README.md:195), and come back after an       *)
(* outage, unless the attempt to reopen one fails.                         *)
(***************************************************************************)
PauseKeepsCurrentTunnels ==
  policy.Paused /\ dialer # 0 /\ ~closed =>
    \A p \in current : Visited(p) => Up(p) \/ entry[p].err # 0

(***************************************************************************)
(* "the local port assignments are remembered so reconnecting restores     *)
(* them" (manager.go:653): a tunnel that comes back by itself after an     *)
(* outage, whenever its service does, takes the local port it had if that  *)
(* is free, or the one pinned for it.                                      *)
(***************************************************************************)
ReconnectRestoresLocalPorts ==
  [][\A p \in Ports :
       /\ held[p] # 0
       /\ ~Up(p)
       /\ Up(p)'
       /\ UNCHANGED ui
       /\ held[p] \notin InUse(p)
       => entry'[p].fwd.local \in {held[p], entry'[p].pin}]_<<vars, history>>

(***************************************************************************)
(* A service missed by fewer than Grace scans in a row keeps its entry     *)
(* ("Two absorbs a single dropped scan without leaving dead listeners      *)
(* around", manager.go:185), and one missed by Grace of them loses it.     *)
(***************************************************************************)
EntriesFollowTheScans ==
  [][job.kind = "sync" /\ job'.kind = "free" =>
       \A p \in listed :
         p \in listed' <=> \/ Len(recent) < Grace
                           \/ \E i \in 1..Len(recent) : p \in recent[i]]_<<vars, history>>
=============================================================================
