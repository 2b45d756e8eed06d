-------------------------- MODULE SupervisorProofs --------------------------
(***************************************************************************)
(* Proofs about the supervisor, for any number of connections and missed   *)
(* pings, any backoff, with the browser bridge and without.                *)
(***************************************************************************)
EXTENDS Supervisor, WellFoundedInduction, TLAPS

\* The part of the assumption that the proofs need.
LEMMA Bounds ==
  /\ MaxSessions \in Nat \ {0} /\ Misses \in Nat \ {0} /\ MaxAttempts \in Nat \ {0}
  /\ BackoffStart \in Nat \ {0} /\ BackoffMax \in Nat /\ BackoffStart <= BackoffMax
BY SupervisorAssumption

-----------------------------------------------------------------------------
(***************************************************************************)
(* The inductive invariant says who owns the connection at each place of   *)
(* the loop.                                                               *)
(***************************************************************************)

\* The wires of connections not made yet are untouched, and a keepalive stops
\* with the ping that is one too many.
WiresInv ==
  \A c \in Conns :
    /\ net[c] # "none" \/ pinger[c] # "none" => c <= made
    /\ pinger[c] # "stopped" => misses[c] < Misses

\* What the loop, the manager and the bridge have at each place.  The first
\* round finds its connection where the start of the program has put it.
RoundInv ==
  /\ pc \in {"begin", "install", "probe", "unbridge", "drop"}
       => mine = made /\ dialer = made
  /\ pc \in {"adopt", "hand"} => mine = made /\ dialer = 0
  /\ pc \in {"connect", "adopt", "released", "wait"} => client = 0
  /\ pc \in {"connect", "release", "released", "wait"} => dialer = 0
  /\ pc = "top" => \/ client = 0 /\ dialer = 0
                   \/ dialer = made /\ ~scanned /\ (client = made \/ ctx)
  /\ pc = "done" => dialer = 0 \/ ~scanned
  /\ bridge => pc \in {"probe", "unbridge"}

\* The main goroutine takes the client once; what the loop adopts after that
\* the loop closes.
ShutdownInv ==
  /\ ctx <=> main # "ui"
  /\ closed <=> main = "exit"
  /\ main \in {"manager", "exit"} => pc = "done"
  /\ main \in {"joining", "manager", "exit"} /\ client # 0
       => pc \in {"hand", "begin", "install", "probe", "unbridge", "drop", "release"}

\* A connection that was not closed is on record, or about to be.
OwnedInv ==
  1..made \subseteq ended \cup {client} \cup (IF pc = "adopt" THEN {made} ELSE {})

SupInv == TypeOK /\ WiresInv /\ RoundInv /\ ShutdownInv /\ OwnedInv

LEMMA SupInit == Init => SupInv
<1> SUFFICES ASSUME Init PROVE SupInv
  OBVIOUS
<1> USE Bounds DEF Init, Conns
<1>1. TypeOK
  <2>1. made \in Conns /\ mine \in 0..made /\ client \in {0, made} /\ dialer \in 0..made
    OBVIOUS
  <2>2. attempt \in 0..MaxAttempts /\ backoff \in BackoffStart..BackoffMax
    OBVIOUS
  <2>3. net \in [Conns -> {"none", "up", "silent", "gone"}]
    OBVIOUS
  <2>4. pinger \in [Conns -> {"none", "idle", "ping", "stopped"}]
    OBVIOUS
  <2>5. misses \in [Conns -> 0..Misses]
    OBVIOUS
  <2>6. {bridge, ctx, retry, connected, scanned, closed} \subseteq BOOLEAN
    OBVIOUS
  <2> QED
    BY <2>1, <2>2, <2>3, <2>4, <2>5, <2>6 DEF TypeOK
<1>2. WiresInv
  BY DEF WiresInv
<1>3. RoundInv /\ ShutdownInv /\ OwnedInv
  BY DEF RoundInv, ShutdownInv, OwnedInv
<1> QED
  BY <1>1, <1>2, <1>3 DEF SupInv

-----------------------------------------------------------------------------
(***************************************************************************)
(* The goroutines of a client leave the loop and its books alone.          *)
(***************************************************************************)
LEMMA ClosesType ==
  ASSUME TypeOK, NEW c \in 1..made, Closes(c)
  PROVE  /\ net' \in [Conns -> {"none", "up", "silent", "gone"}]
         /\ \A d \in Conns : d # c => net'[d] = net[d]
         /\ ended' = ended \cup {c} /\ ended' \subseteq 1..made
         /\ fired' \subseteq 1..made /\ reason' \subseteq fired'
BY DEF Closes, TypeOK, Conns

Books == <<loop, client, made, ctx, retry, screen, manager>>

LEMMA BooksKept ==
  ASSUME SupInv, UNCHANGED Books, ended \subseteq ended'
  PROVE  RoundInv' /\ ShutdownInv' /\ OwnedInv'
BY DEF SupInv, RoundInv, ShutdownInv, OwnedInv, Books, loop, screen, manager

LEMMA WatchKeeps ==
  ASSUME SupInv, NEW c \in Conns, Watch(c)
  PROVE  SupInv'
<1>1. UNCHANGED Books /\ ended' = ended
  BY DEF Watch, Books
<1>2. c \in 1..made
  BY DEF Watch, SupInv, WiresInv, TypeOK, Conns
<1>3. TypeOK'
  BY <1>1, <1>2 DEF Watch, SupInv, TypeOK, Books, loop, screen, manager
<1>4. WiresInv'
  BY DEF Watch, SupInv, WiresInv
<1> QED
  BY <1>1, <1>3, <1>4, BooksKept DEF SupInv

LEMMA KeepaliveKeeps ==
  ASSUME SupInv, NEW c \in Conns, Keepalive(c)
  PROVE  SupInv'
<1> USE Bounds
<1>1. CASE Ping(c) \/ Answered(c) \/ StopPinging(c)
  <2>1. UNCHANGED Books /\ ended' = ended
    BY <1>1 DEF Ping, Answered, StopPinging, Books
  <2>2. TypeOK'
    <3>1. /\ UNCHANGED <<net, ended, fired, reason>>
          /\ misses' \in [Conns -> 0..Misses]
          /\ pinger' \in [Conns -> {"none", "idle", "ping", "stopped"}]
      BY <1>1 DEF Ping, Answered, StopPinging, SupInv, TypeOK
    <3> QED
      BY <2>1, <3>1 DEF SupInv, TypeOK, Books, loop, screen, manager
  <2>3. WiresInv'
    BY <1>1 DEF Ping, Answered, StopPinging, SupInv, WiresInv, TypeOK
  <2> QED
    BY <2>1, <2>2, <2>3, BooksKept DEF SupInv
<1>2. CASE Unanswered(c)
  <2> DEFINE over == misses[c] + 1 >= Misses
  <2>1. /\ UNCHANGED Books
        /\ misses' = [misses EXCEPT ![c] = @ + 1]
        /\ pinger' = [pinger EXCEPT ![c] = IF over THEN "stopped" ELSE "idle"]
        /\ pinger[c] = "ping"
        /\ IF over THEN Closes(c) ELSE UNCHANGED <<net, ended, fired, reason>>
    BY <1>2 DEF Unanswered, Books
  <2>2. c \in 1..made /\ misses[c] \in Nat /\ misses[c] < Misses
    BY <2>1 DEF SupInv, WiresInv, TypeOK, Conns
  <2>3. /\ net' \in [Conns -> {"none", "up", "silent", "gone"}]
        /\ \A d \in Conns : d # c => net'[d] = net[d]
        /\ ended \subseteq ended' /\ ended' \subseteq 1..made
        /\ fired' \subseteq 1..made /\ reason' \subseteq fired'
    <3>1. CASE over
      BY <2>1, <2>2, <3>1, ClosesType DEF SupInv
    <3>2. CASE ~over
      BY <2>1, <3>2 DEF SupInv, TypeOK
    <3> QED
      BY <3>1, <3>2
  <2>4. /\ misses' \in [Conns -> 0..Misses]
        /\ pinger' \in [Conns -> {"none", "idle", "ping", "stopped"}]
    BY <2>1, <2>2 DEF SupInv, TypeOK
  <2>5. TypeOK'
    BY <2>1, <2>3, <2>4 DEF SupInv, TypeOK, Books, loop, screen, manager
  <2>6. WiresInv'
    BY <2>1, <2>2, <2>3 DEF SupInv, WiresInv, TypeOK, Books
  <2> QED
    BY <2>1, <2>3, <2>5, <2>6, BooksKept DEF SupInv
<1> QED
  BY <1>1, <1>2 DEF Keepalive

LEMMA NetworkKeeps ==
  ASSUME SupInv, NEW c \in Conns, Network(c)
  PROVE  SupInv'
<1>1. UNCHANGED Books /\ ended' = ended
  BY DEF Network, Books
<1>2. TypeOK'
  BY <1>1 DEF Network, SupInv, TypeOK, Books, loop, screen, manager
<1>3. WiresInv'
  BY DEF Network, SupInv, WiresInv, TypeOK
<1> QED
  BY <1>1, <1>2, <1>3, BooksKept DEF SupInv

-----------------------------------------------------------------------------
(***************************************************************************)
(* The loop, up to a link the manager can use ...                          *)
(***************************************************************************)
LEMMA EstablishKeeps ==
  ASSUME SupInv, Establish
  PROVE  SupInv'
<1> USE Bounds DEF wires, screen, manager, Goto, At, Report
<1>1. CASE Top
  <2> USE <1>1 DEF Top, SupInv
  <2>1. TypeOK'
    <3>1. /\ attempt' \in 0..MaxAttempts
          /\ mine' \in 0..made' /\ client' \in {0, made'}
          /\ pc' \in {"done", "begin", "connect"}
      BY DEF TypeOK, Conns
    <3>2. UNCHANGED <<backoff, bridge, client, wires, ctx, retry, manager, main>>
      OBVIOUS
    <3>3. status' \in {status, "reconnecting"} /\ connected' \in BOOLEAN
      BY DEF TypeOK
    <3> QED
      BY <3>1, <3>2, <3>3 DEF TypeOK
  <2>2. WiresInv'
    BY DEF WiresInv
  <2>3. RoundInv'
    BY DEF RoundInv, TypeOK, ShutdownInv
  <2>4. ShutdownInv' /\ OwnedInv'
    BY DEF ShutdownInv, OwnedInv, RoundInv
  <2> QED
    BY <2>1, <2>2, <2>3, <2>4
<1>2. CASE ConnectSucceeds
  <2> USE <1>2 DEF ConnectSucceeds, SupInv
  <2>1. made \in Nat /\ made' = made + 1 /\ made' \in Conns
    BY DEF TypeOK, Conns
  <2>2. TypeOK'
    BY <2>1 DEF TypeOK, RoundInv
  <2>3. WiresInv'
    BY <2>1 DEF WiresInv, TypeOK, Conns
  <2>4. RoundInv'
    BY <2>1 DEF RoundInv
  <2>5. ShutdownInv'
    BY DEF ShutdownInv, RoundInv
  <2>6. OwnedInv'
    BY <2>1 DEF OwnedInv, RoundInv
  <2> QED
    BY <2>2, <2>3, <2>4, <2>5, <2>6
<1>3. CASE ConnectFails
  <2> USE <1>3 DEF ConnectFails, SupInv
  <2>1. TypeOK'
    BY DEF TypeOK
  <2>2. WiresInv'
    BY DEF WiresInv
  <2>3. RoundInv' /\ ShutdownInv' /\ OwnedInv'
    BY DEF RoundInv, ShutdownInv, OwnedInv
  <2> QED
    BY <2>1, <2>2, <2>3
<1>4. CASE Adopt
  <2> USE <1>4 DEF Adopt, SupInv
  <2>1. TypeOK'
    BY DEF TypeOK, RoundInv
  <2>2. WiresInv'
    BY DEF WiresInv
  <2>3. RoundInv' /\ ShutdownInv' /\ OwnedInv'
    BY DEF RoundInv, ShutdownInv, OwnedInv
  <2> QED
    BY <2>1, <2>2, <2>3
<1>5. CASE Hand
  <2> USE <1>5 DEF Hand, SupInv
  <2>1. TypeOK'
    BY DEF TypeOK, Conns
  <2>2. WiresInv'
    BY DEF WiresInv
  <2>3. RoundInv' /\ ShutdownInv' /\ OwnedInv'
    BY DEF RoundInv, ShutdownInv, OwnedInv
  <2> QED
    BY <2>1, <2>2, <2>3
<1>6. CASE Begin
  <2> USE <1>6 DEF Begin, BackoffReset, SupInv
  <2>1. TypeOK'
    BY DEF TypeOK
  <2>2. WiresInv'
    BY DEF WiresInv
  <2>3. RoundInv' /\ ShutdownInv' /\ OwnedInv'
    BY DEF RoundInv, ShutdownInv, OwnedInv
  <2> QED
    BY <2>1, <2>2, <2>3
<1> QED
  BY <1>1, <1>2, <1>3, <1>4, <1>5, <1>6 DEF Establish

(***************************************************************************)
(* ... while it is there ...                                               *)
(***************************************************************************)
LEMMA RoundKeeps ==
  ASSUME SupInv, Install \/ Monitor \/ ProbeEnds
  PROVE  SupInv'
<1> USE Bounds DEF wires, screen, manager, loop, Goto, At, Report
<1>1. CASE Install
  <2> USE <1>1 DEF Install, SupInv
  <2>1. TypeOK'
    BY DEF TypeOK
  <2>2. WiresInv'
    BY DEF WiresInv
  <2>3. RoundInv' /\ ShutdownInv' /\ OwnedInv'
    BY DEF RoundInv, ShutdownInv, OwnedInv
  <2> QED
    BY <2>1, <2>2, <2>3
<1>2. CASE Ready
  <2> USE <1>2 DEF Ready, SupInv
  <2>1. TypeOK'
    BY DEF TypeOK
  <2>2. WiresInv'
    BY DEF WiresInv
  <2>3. RoundInv' /\ ShutdownInv' /\ OwnedInv'
    BY DEF RoundInv, ShutdownInv, OwnedInv
  <2> QED
    BY <2>1, <2>2, <2>3
<1>3. CASE Scan
  <2> USE <1>3 DEF Scan, SupInv
  <2>1. TypeOK'
    BY DEF TypeOK
  <2>2. WiresInv'
    BY DEF WiresInv
  <2>3. RoundInv' /\ ShutdownInv' /\ OwnedInv'
    BY DEF RoundInv, ShutdownInv, OwnedInv
  <2> QED
    BY <2>1, <2>2, <2>3
<1>4. CASE ProberExits \/ ProbeEnds
  <2> USE <1>4 DEF ProberExits, ProbeEnds, AfterProbe, SupInv
  <2>1. TypeOK'
    BY DEF TypeOK
  <2>2. WiresInv'
    BY DEF WiresInv
  <2>3. RoundInv' /\ ShutdownInv' /\ OwnedInv'
    BY DEF RoundInv, ShutdownInv, OwnedInv
  <2> QED
    BY <2>1, <2>2, <2>3
<1> QED
  BY <1>1, <1>2, <1>3, <1>4 DEF Monitor

(***************************************************************************)
(* ... and after it.  Whoever takes the client closes it.                  *)
(***************************************************************************)
LEMMA TakeAndCloseType ==
  ASSUME SupInv, TakeAndClose
  PROVE  /\ client' = 0 /\ UNCHANGED <<made, pinger, misses>>
         /\ net' \in [Conns -> {"none", "up", "silent", "gone"}]
         /\ \A d \in Conns : net'[d] # "none" => d <= made
         /\ ended \subseteq ended' /\ ended' \subseteq 1..made
         /\ client # 0 => client \in ended'
         /\ fired' \subseteq 1..made /\ reason' \subseteq fired'
<1>1. CASE client = 0
  BY <1>1 DEF TakeAndClose, SupInv, TypeOK, WiresInv
<1>2. CASE client # 0
  <2>1. client \in 1..made /\ Closes(client) /\ made \in 1..MaxSessions
    BY <1>2 DEF TakeAndClose, SupInv, TypeOK, Conns
  <2>2. \A d \in Conns : net'[d] # "none" => d <= made
    BY <2>1, ClosesType DEF SupInv, WiresInv
  <2> QED
    BY <2>1, <2>2, ClosesType DEF TakeAndClose, SupInv
<1> QED
  BY <1>1, <1>2

LEMMA TearDownKeeps ==
  ASSUME SupInv, Unbridge \/ Drop \/ Release \/ Released \/ WaitEnds \/ WaitCancelled
  PROVE  SupInv'
<1> USE Bounds DEF wires, screen, manager, loop, Goto, At, Report
<1>1. CASE Unbridge
  <2> USE <1>1 DEF Unbridge, SupInv
  <2>1. TypeOK'
    BY DEF TypeOK
  <2>2. WiresInv'
    BY DEF WiresInv
  <2>3. RoundInv' /\ ShutdownInv' /\ OwnedInv'
    BY DEF RoundInv, ShutdownInv, OwnedInv
  <2> QED
    BY <2>1, <2>2, <2>3
<1>2. CASE Drop
  <2> USE <1>2 DEF Drop, SupInv
  <2>1. TypeOK'
    BY DEF TypeOK, Conns
  <2>2. WiresInv'
    BY DEF WiresInv
  <2>3. RoundInv' /\ ShutdownInv' /\ OwnedInv'
    BY DEF RoundInv, ShutdownInv, OwnedInv
  <2> QED
    BY <2>1, <2>2, <2>3
<1>3. CASE Release
  <2> USE <1>3 DEF Release
  <2>1. TypeOK'
    BY TakeAndCloseType DEF SupInv, TypeOK
  <2>2. WiresInv'
    BY TakeAndCloseType DEF SupInv, WiresInv
  <2>3. RoundInv' /\ ShutdownInv'
    BY TakeAndCloseType DEF SupInv, RoundInv, ShutdownInv
  <2>4. OwnedInv'
    BY TakeAndCloseType DEF SupInv, TypeOK, Conns, OwnedInv
  <2> QED
    BY <2>1, <2>2, <2>3, <2>4 DEF SupInv
<1>4. CASE Released
  <2> USE <1>4 DEF Released, SupInv
  <2>1. TypeOK'
    BY DEF TypeOK
  <2>2. WiresInv'
    BY DEF WiresInv
  <2>3. RoundInv' /\ ShutdownInv' /\ OwnedInv'
    BY DEF RoundInv, ShutdownInv, OwnedInv
  <2> QED
    BY <2>1, <2>2, <2>3
<1>5. CASE WaitEnds
  <2> USE <1>5 DEF WaitEnds, SupInv
  <2>1. TypeOK'
    <3>1. backoff' \in BackoffStart..BackoffMax
      BY DEF TypeOK, NextBackoff
    <3>2. pc' = "top" /\ retry' \in BOOLEAN
      BY DEF TypeOK
    <3>3. UNCHANGED <<mine, attempt, bridge, client, wires, ctx, screen, manager>>
      OBVIOUS
    <3> QED
      BY <3>1, <3>2, <3>3 DEF TypeOK
  <2>2. WiresInv'
    BY DEF WiresInv
  <2>3. RoundInv' /\ ShutdownInv' /\ OwnedInv'
    BY DEF RoundInv, ShutdownInv, OwnedInv
  <2> QED
    BY <2>1, <2>2, <2>3
<1>6. CASE WaitCancelled
  <2> USE <1>6 DEF WaitCancelled, SupInv
  <2>1. TypeOK'
    BY DEF TypeOK
  <2>2. WiresInv'
    BY DEF WiresInv
  <2>3. RoundInv' /\ ShutdownInv' /\ OwnedInv'
    BY DEF RoundInv, ShutdownInv, OwnedInv
  <2> QED
    BY <2>1, <2>2, <2>3
<1> QED
  BY <1>1, <1>2, <1>3, <1>4, <1>5, <1>6

(***************************************************************************)
(* The main goroutine.                                                     *)
(***************************************************************************)
LEMMA MainKeeps ==
  ASSUME SupInv, RetryNow \/ Quit \/ Shutdown
  PROVE  SupInv'
<1> USE Bounds DEF wires, screen, manager, loop, Goto, At, Report
<1>1. CASE RetryNow
  <2> USE <1>1 DEF RetryNow, SupInv
  <2>1. TypeOK'
    BY DEF TypeOK
  <2>2. WiresInv'
    BY DEF WiresInv
  <2>3. RoundInv' /\ ShutdownInv' /\ OwnedInv'
    BY DEF RoundInv, ShutdownInv, OwnedInv
  <2> QED
    BY <2>1, <2>2, <2>3
<1>2. CASE Quit
  <2> USE <1>2 DEF Quit, SupInv
  <2>1. TypeOK'
    <3>1. ctx' \in BOOLEAN /\ main' = "closing"
      OBVIOUS
    <3>2. UNCHANGED <<loop, client, wires, retry, status, connected, manager>>
      OBVIOUS
    <3> QED
      BY <3>1, <3>2 DEF TypeOK
  <2>2. WiresInv'
    BY DEF WiresInv
  <2>3. RoundInv' /\ ShutdownInv' /\ OwnedInv'
    BY DEF RoundInv, ShutdownInv, OwnedInv
  <2> QED
    BY <2>1, <2>2, <2>3
<1>3. CASE CloseClient
  <2> USE <1>3 DEF CloseClient
  <2>1. TypeOK'
    BY TakeAndCloseType DEF SupInv, TypeOK
  <2>2. WiresInv'
    BY TakeAndCloseType DEF SupInv, WiresInv
  <2>3. RoundInv' /\ ShutdownInv'
    BY TakeAndCloseType DEF SupInv, RoundInv, ShutdownInv
  <2>4. OwnedInv'
    BY TakeAndCloseType DEF SupInv, TypeOK, Conns, OwnedInv
  <2> QED
    BY <2>1, <2>2, <2>3, <2>4 DEF SupInv
<1>4. CASE Join
  <2> USE <1>4 DEF Join, JoinsSupervisor, SupInv
  <2>1. TypeOK'
    BY DEF TypeOK
  <2>2. WiresInv'
    BY DEF WiresInv
  <2>3. RoundInv' /\ ShutdownInv' /\ OwnedInv'
    BY DEF RoundInv, ShutdownInv, OwnedInv
  <2> QED
    BY <2>1, <2>2, <2>3
<1>5. CASE CloseManager
  <2> USE <1>5 DEF CloseManager, SupInv
  <2>1. TypeOK'
    BY DEF TypeOK
  <2>2. WiresInv'
    BY DEF WiresInv
  <2>3. RoundInv' /\ ShutdownInv' /\ OwnedInv'
    BY DEF RoundInv, ShutdownInv, OwnedInv
  <2> QED
    BY <2>1, <2>2, <2>3
<1> QED
  BY <1>1, <1>2, <1>3, <1>4, <1>5 DEF Shutdown

LEMMA SupStep == SupInv /\ [Next]_vars => SupInv'
<1> SUFFICES ASSUME SupInv, [Next]_vars
             PROVE  SupInv'
  OBVIOUS
<1>1. CASE Loop
  BY <1>1, EstablishKeeps, RoundKeeps, TearDownKeeps DEF Loop, TearDown
<1>2. CASE Monitor \/ RetryNow \/ Quit \/ Shutdown
  BY <1>2, RoundKeeps, MainKeeps
<1>3. CASE \E c \in Conns : Watch(c) \/ Keepalive(c) \/ Network(c)
  BY <1>3, WatchKeeps, KeepaliveKeeps, NetworkKeeps
<1>4. CASE Exited \/ UNCHANGED vars
  <2>1. UNCHANGED Books /\ UNCHANGED <<net, ended, fired, reason, pinger, misses>>
    BY <1>4 DEF Exited, vars, Books, wires
  <2>2. TypeOK' /\ WiresInv'
    BY <2>1 DEF SupInv, TypeOK, WiresInv, Books, loop, screen, manager
  <2> QED
    BY <2>1, <2>2, BooksKept DEF SupInv
<1> QED
  BY <1>1, <1>2, <1>3, <1>4 DEF Next

-----------------------------------------------------------------------------
(***************************************************************************)
(* Types, and the books of who was closed, made or handed over.            *)
(***************************************************************************)
THEOREM SupervisorTypes == Spec => []TypeOK
<1>1. SupInv => TypeOK
  BY DEF SupInv
<1> QED
  BY <1>1, SupInit, SupStep, PTL DEF Spec

(***************************************************************************)
(* No connection is left open at the end, however the shutdown meets the   *)
(* loop (takeClient, close).                                               *)
(***************************************************************************)
THEOREM EveryConnectionIsClosed == Spec => []NoConnectionLeaks
<1>1. SupInv => NoConnectionLeaks
  <2> SUFFICES ASSUME SupInv, main = "exit"
               PROVE  1..made \subseteq ended
    BY DEF NoConnectionLeaks
  <2>1. pc = "done" /\ client = 0
    BY DEF SupInv, ShutdownInv
  <2> QED
    BY <2>1 DEF SupInv, OwnedInv, TypeOK, Conns
<1> QED
  BY <1>1, SupInit, SupStep, PTL DEF Spec

(***************************************************************************)
(* The bridge is installed only between SetDialer(c) and SetDialer(nil).   *)
(***************************************************************************)
THEOREM BridgeHasTheLink == Spec => []BridgeAsksOverTheLink
<1>1. SupInv => BridgeAsksOverTheLink
  BY DEF SupInv, RoundInv, BridgeAsksOverTheLink, TypeOK, Conns
<1> QED
  BY <1>1, SupInit, SupStep, PTL DEF Spec

-----------------------------------------------------------------------------
(***************************************************************************)
(* The waits.  The function that doubles them exists because counting up   *)
(* reaches every number of attempts.                                       *)
(***************************************************************************)
Below == {pair \in Nat \X Nat : pair[1] < pair[2]}

LEMMA BelowIsWellFounded == IsWellFoundedOn(Below, Nat)
BY NatLessThanWellFounded DEF OpToRel, Below

\* Counting up from nothing reaches every number.
LEMMA Counting ==
  ASSUME NEW S \in SUBSET Nat, 0 \in S, \A n \in S : n + 1 \in S
  PROVE  S = Nat
<1> DEFINE T == Nat \ S
<1>1. SUFFICES ASSUME T # {} PROVE FALSE
  OBVIOUS
<1>2. PICK x \in T : \A y \in T : <<y, x>> \notin Below
  <2>1. T \subseteq Nat
    OBVIOUS
  <2> HIDE DEF T
  <2> QED  BY <1>1, <2>1, BelowIsWellFounded, WFMin
<1>3. x \in Nat /\ x \notin S
  OBVIOUS
<1>4. x # 0 
  BY <1>3
<1>5. x - 1 \in Nat /\ x - 1 < x /\ (x - 1) + 1 = x
  BY <1>3, <1>4
<1>6. <<x - 1, x>> \in Below
  BY <1>3, <1>5 DEF Below
<1>7. x - 1 \in S
  BY <1>2, <1>5, <1>6
<1> QED BY <1>3, <1>5, <1>7

Doubles(f, m) == f = [i \in 0..m |-> IF i = 0 THEN BackoffStart ELSE 2 * f[i - 1]]

LEMMA DoubleMore ==
  ASSUME NEW m \in Nat, NEW f, Doubles(f, m)
  PROVE  \E g : Doubles(g, m + 1)
<1> DEFINE k == m + 1
           g == [i \in 0..k |-> IF i = k THEN 2 * f[m] ELSE f[i]]
           h == [i \in 0..k |-> IF i = 0 THEN BackoffStart ELSE 2 * g[i - 1]]
<1>1. \A i \in 0..m : f[i] = IF i = 0 THEN BackoffStart ELSE 2 * f[i - 1]
  BY DEF Doubles
<1>2. ASSUME NEW i \in 0..k
      PROVE  g[i] = h[i]
  <2>1. CASE i = k
    <3>1. m \in 0..k /\ m # k /\ k - 1 = m /\ k # 0
      OBVIOUS
    <3> QED  BY <2>1, <3>1
  <2>2. CASE i # k /\ i # 0
    <3>1. i \in 0..m /\ i - 1 \in 0..k /\ i - 1 # k
      BY <2>2
    <3> QED  BY <1>1, <2>2, <3>1
  <2>3. CASE i # k /\ i = 0
    <3>1. i \in 0..m
      BY <2>3
    <3> QED  BY <1>1, <2>3, <3>1
  <2> QED  BY <2>1, <2>2, <2>3
<1>3. g = h
  <2>1. g = [i \in 0..k |-> g[i]] /\ h = [i \in 0..k |-> h[i]]
    OBVIOUS
  <2> HIDE DEF g, h
  <2> QED  BY <1>2, <2>1
<1> QED
  <2> HIDE DEF g
  <2>1. Doubles(g, k)
    BY <1>3 DEF Doubles
  <2> QED  BY <2>1

LEMMA DoubleExists == \E f : Doubles(f, MaxAttempts)
<1> DEFINE S == {m \in Nat : \E f : Doubles(f, m)}
<1>1. 0 \in S
  <2>1. [i \in 0..0 |-> BackoffStart] = [i \in 0..0 |-> IF i = 0 THEN BackoffStart
                                         ELSE 2 * [j \in 0..0 |-> BackoffStart][i - 1]]
    OBVIOUS
  <2>2. Doubles([i \in 0..0 |-> BackoffStart], 0)
    BY <2>1 DEF Doubles
  <2> QED  BY <2>2
<1>2. ASSUME NEW m \in S PROVE m + 1 \in S
  <2>1. PICK f : Doubles(f, m)
    OBVIOUS
  <2> QED  BY <2>1, DoubleMore
<1>3. S = Nat
  <2>1. S \in SUBSET Nat
    OBVIOUS
  <2> HIDE DEF S
  <2> QED  BY <1>1, <1>2, <2>1, Counting
<1> QED  BY <1>3, Bounds

LEMMA EachIsTwice ==
  /\ Doubled[0] = BackoffStart
  /\ \A i \in 1..MaxAttempts : Doubled[i] = 2 * Doubled[i - 1]
<1>1. Doubles(Doubled, MaxAttempts)
  <2>1. Doubled = CHOOSE f : Doubles(f, MaxAttempts)
    BY DEF Doubled, Doubles
  <2> QED  BY <2>1, DoubleExists
<1>2. \A i \in 0..MaxAttempts :
        Doubled[i] = IF i = 0 THEN BackoffStart ELSE 2 * Doubled[i - 1]
  BY <1>1 DEF Doubles
<1> QED  BY <1>2, Bounds

LEMMA DoubledType == \A i \in 0..MaxAttempts : Doubled[i] \in Nat \ {0}
<1> DEFINE S == {i \in Nat : i \in 0..MaxAttempts => Doubled[i] \in Nat \ {0}}
<1>1. 0 \in S
  BY EachIsTwice, Bounds
<1>2. ASSUME NEW i \in S PROVE i + 1 \in S
  <2> SUFFICES ASSUME i + 1 \in 0..MaxAttempts PROVE Doubled[i + 1] \in Nat \ {0}
    OBVIOUS
  <2>1. i \in 0..MaxAttempts /\ i + 1 \in 1..MaxAttempts /\ (i + 1) - 1 = i
    BY Bounds
  <2>2. Doubled[i + 1] = 2 * Doubled[i]
    BY <2>1, EachIsTwice
  <2> QED  BY <2>1, <2>2
<1>3. S = Nat
  <2>1. S \in SUBSET Nat
    OBVIOUS
  <2> HIDE DEF S
  <2> QED  BY <1>1, <1>2, <2>1, Counting
<1> QED  BY <1>3, Bounds

\* The wait of the attempt after this one.
LEMMA NextWait ==
  ASSUME NEW n \in 0..MaxAttempts, NEW wait, wait = LongestOr(Doubled[n])
  PROVE  LET next == IF 2 * wait > BackoffMax THEN BackoffMax ELSE 2 * wait
             more == IF n < MaxAttempts THEN n + 1 ELSE n
         IN  next = LongestOr(Doubled[more])
<1> DEFINE next == IF 2 * wait > BackoffMax THEN BackoffMax ELSE 2 * wait
<1>1. Doubled[n] \in Nat \ {0}
  BY DoubledType
<1>2. CASE n < MaxAttempts
  <2>1. n + 1 \in 1..MaxAttempts /\ (n + 1) - 1 = n
    BY <1>2, Bounds
  <2>2. Doubled[n + 1] = 2 * Doubled[n]
    BY <2>1, EachIsTwice
  <2>3. next = LongestOr(2 * Doubled[n])
    BY <1>1, Bounds DEF LongestOr
  <2> QED  BY <1>2, <2>2, <2>3
<1>3. CASE ~(n < MaxAttempts)
  <2>1. n = MaxAttempts
    BY <1>3, Bounds
  <2>2. BackoffMax <= Doubled[n]
    BY <2>1, SupervisorAssumption
  <2>3. LongestOr(Doubled[n]) = BackoffMax /\ next = BackoffMax
    BY <1>1, <2>2, Bounds DEF LongestOr
  <2> QED  BY <1>3, <2>3
<1> QED  BY <1>2, <1>3

\* At the top of the loop the wait is already the next one, and a round that
\* found its connection starts over.
WaitsInv ==
  /\ pc \in {"connect", "wait"} => backoff = LongestOr(Doubled[attempt])
  /\ pc \in {"install", "probe", "unbridge", "drop", "release", "released"}
       => backoff = BackoffStart /\ attempt = 0
  /\ pc = "top" =>
       \/ client # 0
       \/ ctx
       \/ backoff = LongestOr(Doubled[IF attempt < MaxAttempts THEN attempt + 1 ELSE attempt])

LEMMA FirstWait == BackoffStart = LongestOr(Doubled[0])
BY EachIsTwice, Bounds DEF LongestOr

LEMMA WaitsInit == Init => WaitsInv
BY DEF Init, WaitsInv

LEMMA WaitsKept ==
  ASSUME WaitsInv, UNCHANGED <<pc, attempt, backoff>>,
         client' = client \/ ctx', ctx => ctx'
  PROVE  WaitsInv'
BY DEF WaitsInv

LEMMA LoopWaits ==
  ASSUME SupInv, WaitsInv, Loop
  PROVE  WaitsInv'
<1> USE DEF At, Goto, Report, loop, screen
<1>1. CASE Top
  BY <1>1 DEF Top, WaitsInv
<1>2. CASE ConnectSucceeds \/ Adopt \/ Hand \/ WaitCancelled
  BY <1>2 DEF ConnectSucceeds, Adopt, Hand, WaitCancelled, WaitsInv
<1>3. CASE ConnectFails
  BY <1>3 DEF ConnectFails, WaitsInv
<1>4. CASE Begin
  BY <1>4 DEF Begin, BackoffReset, WaitsInv
<1>5. CASE Install \/ ProbeEnds \/ Unbridge \/ Drop \/ Release
  BY <1>5 DEF Install, ProbeEnds, AfterProbe, Unbridge, Drop, Release, WaitsInv
<1>6. CASE Released
  BY <1>6, FirstWait DEF Released, WaitsInv
<1>7. CASE WaitEnds
  <2>1. attempt \in 0..MaxAttempts /\ backoff = LongestOr(Doubled[attempt])
    BY <1>7 DEF WaitEnds, SupInv, TypeOK, WaitsInv
  <2>2. NextBackoff =
          LongestOr(Doubled[IF attempt < MaxAttempts THEN attempt + 1 ELSE attempt])
    BY <2>1, NextWait DEF NextBackoff
  <2> QED
    BY <1>7, <2>2 DEF WaitEnds, WaitsInv
<1> QED
  BY <1>1, <1>2, <1>3, <1>4, <1>5, <1>6, <1>7 DEF Loop, Establish, TearDown

LEMMA OtherWaits ==
  ASSUME SupInv, WaitsInv,
         \/ Monitor \/ RetryNow \/ Quit \/ Shutdown \/ Exited \/ UNCHANGED vars
         \/ \E c \in Conns : Watch(c) \/ Keepalive(c) \/ Network(c)
  PROVE  WaitsInv'
<1>1. CASE ProberExits
  BY <1>1 DEF ProberExits, AfterProbe, At, Goto, WaitsInv
<1>2. CASE Ready \/ Scan \/ RetryNow \/ Quit \/ Join \/ CloseManager
  BY <1>2, WaitsKept DEF Ready, Scan, RetryNow, Quit, Join, CloseManager, Report,
     loop, screen, manager
<1>3. CASE CloseClient
  BY <1>3, WaitsKept DEF CloseClient, loop, SupInv, ShutdownInv
<1>4. CASE Exited \/ UNCHANGED vars
  BY <1>4, WaitsKept DEF Exited, vars, loop, screen
<1>5. CASE \E c \in Conns : Watch(c) \/ Keepalive(c) \/ Network(c)
  <2>1. UNCHANGED <<loop, client, ctx>>
    BY <1>5 DEF Watch, Keepalive, Network, Ping, Answered, Unanswered, StopPinging,
       Closes, Books
  <2> QED
    BY <2>1, WaitsKept DEF loop
<1> QED
  BY <1>1, <1>2, <1>3, <1>4, <1>5 DEF Monitor, Shutdown

(***************************************************************************)
(* Every wait of an outage is twice the one before, up to the longest, and *)
(* the next outage starts over, whatever the bounds are (run,              *)
(* nextBackoff).                                                           *)
(***************************************************************************)
THEOREM WaitsDouble == Spec => []WaitsFollowTheAttempts
<1>1. SupInv /\ WaitsInv /\ [Next]_vars => WaitsInv'
  BY LoopWaits, OtherWaits DEF Next
<1>2. WaitsInv => WaitsFollowTheAttempts
  BY DEF WaitsInv, WaitsFollowTheAttempts
<1> QED
  BY <1>1, <1>2, SupInit, SupStep, WaitsInit, PTL DEF Spec

-----------------------------------------------------------------------------
(***************************************************************************)
(* The refinement.  A connection counts for the manager from SetDialer on, *)
(* so Hand is Up, Drop is Down, and everything but Scan and CloseManager   *)
(* stutters.                                                               *)
(***************************************************************************)
Handed == IF pc \in {"adopt", "hand"} THEN made - 1 ELSE made

ToLink == <<dialer, Handed, scanned, closed>>

LEMMA LinkInit == Init => Promise!Init
BY DEF Init, Promise!Init

LEMMA HandIsUp ==
  ASSUME SupInv, Hand
  PROVE  Promise!Up
<1>1. ~closed /\ dialer = 0 /\ mine = made
  BY DEF Hand, At, SupInv, RoundInv, ShutdownInv
<1>2. made \in Nat /\ made <= MaxSessions
  BY Bounds DEF SupInv, TypeOK, Conns
<1>3. /\ pc = "hand" /\ pc' = "begin" /\ dialer' = mine
      /\ made' = made /\ scanned' = scanned /\ closed' = closed
  BY DEF Hand, At, Goto, wires
<1> QED
  BY <1>1, <1>2, <1>3, Bounds DEF Promise!Up

LEMMA DropIsDown ==
  ASSUME SupInv, Drop
  PROVE  Promise!Down
<1>1. ~closed /\ dialer # 0
  BY Bounds DEF Drop, At, SupInv, RoundInv, ShutdownInv, TypeOK, Conns
<1>2. /\ pc = "drop" /\ pc' = "release" /\ dialer' = 0
      /\ made' = made /\ scanned' = scanned /\ closed' = closed
  BY DEF Drop, At, Goto, wires
<1> QED
  BY <1>1, <1>2 DEF Promise!Down

LEMMA ScanIsScan ==
  ASSUME SupInv, Scan
  PROVE  Promise!Scan
<1>1. ~closed /\ dialer # 0
  BY Bounds DEF Scan, At, SupInv, RoundInv, ShutdownInv, TypeOK, Conns
<1>2. /\ scanned' = TRUE
      /\ UNCHANGED <<pc, made, dialer, closed>>
  BY DEF Scan, wires, loop
<1> QED
  BY <1>1, <1>2 DEF Promise!Scan

LEMMA CloseIsClose ==
  ASSUME SupInv, CloseManager
  PROVE  Promise!Close
<1>1. ~closed /\ (dialer = 0 \/ ~scanned)
  BY DEF CloseManager, SupInv, RoundInv, ShutdownInv
<1>2. closed' = TRUE /\ UNCHANGED <<pc, made, dialer, scanned>>
  BY DEF CloseManager, wires, loop
<1> QED
  BY <1>1, <1>2 DEF Promise!Close

LEMMA OthersStutter ==
  ASSUME SupInv, Next, ~Hand, ~Drop, ~Scan, ~CloseManager
  PROVE  UNCHANGED ToLink
<1> USE DEF ToLink, Handed, loop, wires, screen, manager, At, Goto
<1>1. CASE Top \/ ConnectFails \/ Adopt \/ Begin
  BY <1>1 DEF Top, ConnectFails, Adopt, Begin
<1>2. CASE ConnectSucceeds
  BY <1>2 DEF ConnectSucceeds, SupInv, TypeOK, Conns
<1>3. CASE Install \/ WaitEnds \/ WaitCancelled
  BY <1>3 DEF Install, WaitEnds, WaitCancelled
<1>4. CASE ProbeEnds \/ Unbridge \/ Release \/ Released
  BY <1>4 DEF ProbeEnds, AfterProbe, Unbridge, Release, Released, TakeAndClose
<1>5. CASE Ready \/ ProberExits
  BY <1>5 DEF Ready, ProberExits, AfterProbe
<1>6. CASE \E c \in Conns : Watch(c) \/ Keepalive(c) \/ Network(c)
  BY <1>6 DEF Watch, Keepalive, Ping, Answered, Unanswered, StopPinging, Network
<1>7. CASE RetryNow \/ Quit \/ CloseClient \/ Join \/ Exited
  BY <1>7 DEF RetryNow, Quit, CloseClient, TakeAndClose, Join, Exited, vars
<1> QED
  BY <1>1, <1>2, <1>3, <1>4, <1>5, <1>6, <1>7
  DEF Next, Loop, Establish, TearDown, Monitor, Shutdown

LEMMA LinkSteps == SupInv /\ [Next]_vars => [Promise!Next]_ToLink
<1> SUFFICES ASSUME SupInv, [Next]_vars
             PROVE  [Promise!Next]_ToLink
  OBVIOUS
<1>1. UNCHANGED vars => UNCHANGED ToLink
  BY DEF vars, ToLink, Handed, loop, wires, manager
<1> QED
  BY <1>1, HandIsUp, DropIsDown, ScanIsScan, CloseIsClose, OthersStutter
  DEF Promise!Next

(***************************************************************************)
(* The supervisor implements Link, for any number of connections: what the *)
(* theorems about the tunnel manager take for granted of the link holds.   *)
(***************************************************************************)
THEOREM SupervisorKeepsThePromise == Spec => KeepsThePromise
<1> QED
  BY SupInit, SupStep, LinkInit, LinkSteps, PTL
  DEF Spec, KeepsThePromise, Promise!Spec, Promise!link, ToLink, Handed
=============================================================================
