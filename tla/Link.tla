-------------------------------- MODULE Link --------------------------------
(***************************************************************************)
(* What the tunnel manager is promised about the SSH link, and what the    *)
(* supervisor has to keep: connections are handed to the manager one at a  *)
(* time, each once; scans come only over the connection in use; and the    *)
(* manager is closed last, when the link is down or nothing was ever       *)
(* scanned over it.                                                        *)
(***************************************************************************)
EXTENDS Naturals

CONSTANT MaxSessions   \* bound on the number of SSH connections

VARIABLES
  dialer,    \* the connection the manager dials over, 0 for none
  sessions,  \* connections handed to the manager so far
  scanned,   \* the manager was given a scan
  closed     \* the manager was closed

link == <<dialer, sessions, scanned, closed>>

Init ==
  /\ dialer = 1
  /\ sessions = 1
  /\ scanned = FALSE
  /\ closed = FALSE

\* SetDialer with a new connection.
Up ==
  /\ ~closed
  /\ dialer = 0
  /\ sessions < MaxSessions
  /\ sessions' = sessions + 1
  /\ dialer' = sessions'
  /\ UNCHANGED <<scanned, closed>>

\* SetDialer with nil.
Down ==
  /\ ~closed
  /\ dialer # 0
  /\ dialer' = 0
  /\ UNCHANGED <<sessions, scanned, closed>>

\* The first Sync; the later ones change nothing here.
Scan ==
  /\ ~closed
  /\ dialer # 0
  /\ scanned' = TRUE
  /\ UNCHANGED <<dialer, sessions, closed>>

Close ==
  /\ ~closed
  /\ dialer = 0 \/ ~scanned
  /\ closed' = TRUE
  /\ UNCHANGED <<dialer, sessions, scanned>>

Next == Up \/ Down \/ Scan \/ Close

Spec == Init /\ [][Next]_link
=============================================================================
