----------------------------- MODULE Supervisor -----------------------------
(***************************************************************************)
(* The supervisor (internal/app/app.go) and the SSH client it keeps        *)
(* reconnecting (internal/sshx/client.go).                                 *)
(*                                                                         *)
(* Five kinds of goroutines meet here: the supervisor's own loop, the      *)
(* monitor's consumer that delivers scans, the client's watch and          *)
(* keepalive, and the main goroutine, which runs the interface and shuts   *)
(* everything down.  They share the current client, the retry channel, the *)
(* context and, per client, the channel that tells that it is gone.        *)
(*                                                                         *)
(* A Connect that is over takes one step: it is bounded by its timeouts.   *)
(* So is the shutdown of the browser bridge.                               *)
(***************************************************************************)
EXTENDS Naturals

CONSTANTS
  MaxSessions,   \* bound on the number of SSH connections
  Misses,        \* keepaliveMisses
  BackoffStart,  \* the first wait, in seconds
  BackoffMax,    \* the longest wait, in seconds
  MaxAttempts,   \* where the count of attempts stops, once the wait is longest
  Browser        \* --browser

\* The waits of one outage if nothing bounded them.
Doubled[n \in 0..MaxAttempts] == IF n = 0 THEN BackoffStart ELSE 2 * Doubled[n - 1]

ASSUME SupervisorAssumption ==
  /\ MaxSessions \in Nat \ {0}
  /\ Misses \in Nat \ {0}
  /\ BackoffStart \in Nat \ {0}
  /\ BackoffMax \in Nat
  /\ BackoffStart <= BackoffMax
  /\ MaxAttempts \in Nat \ {0}
  /\ BackoffMax <= Doubled[MaxAttempts]
  /\ Browser \in BOOLEAN

Conns == 1..MaxSessions

VARIABLES
  pc,        \* where the supervisor's loop is
  mine,      \* the connection its current round works with, 0 for none
  attempt,   \* attempts of this outage
  backoff,   \* the next wait
  bridge,    \* the browser bridge is installed
  client,    \* supervisor.client: the connection to be closed, 0 for none
  made,      \* connections made so far
  net,       \* per connection: up, silent (nothing gets through), or gone
  ended,     \* the connections Client.Close was called on
  fired,     \* the connections whose Wait channel is closed
  reason,    \* the connections whose Err tells why they ended
  pinger,    \* what the keepalive of a connection does: idle, ping or stopped
  misses,    \* its unanswered pings in a row
  ctx,       \* the context is cancelled
  main,      \* the main goroutine: ui, closing, joining, manager or exit
  retry,     \* a token waits in the retry channel
  status,    \* the status reported last
  connected, \* the interface has seen a connection (everConnected)
  dialer,    \* the manager's dialer, 0 for none
  scanned,   \* the manager was given a scan
  closed     \* the manager was closed

loop    == <<pc, mine, attempt, backoff, bridge>>
wires   == <<made, net, ended, fired, reason, pinger, misses>>
manager == <<dialer, scanned, closed>>
screen  == <<main, status, connected>>
vars == <<loop, client, wires, ctx, retry, screen, manager>>

-----------------------------------------------------------------------------
(***************************************************************************)
(* One client.  Close and watch both close the Wait channel; the one that  *)
(* comes first decides whether Err has a reason.                           *)
(***************************************************************************)
Closes(c) ==
  /\ ended' = ended \cup {c}
  /\ net' = [net EXCEPT ![c] = "gone"]
  /\ fired' = fired \cup {c}
  /\ reason' \in IF c \in fired THEN {reason} ELSE {reason, reason \cup {c}}

Watch(c) ==
  /\ net[c] = "gone"
  /\ c \notin fired
  /\ fired' = fired \cup {c}
  /\ reason' = reason \cup {c}
  /\ UNCHANGED <<loop, client, made, net, ended, pinger, misses, ctx, retry,
                 screen, manager>>

Dead(c) == c \in ended \cup fired

Ping(c) ==
  /\ pinger[c] = "idle"
  /\ ~Dead(c)
  /\ pinger' = [pinger EXCEPT ![c] = "ping"]
  /\ UNCHANGED <<loop, client, made, net, ended, fired, reason, misses, ctx,
                 retry, screen, manager>>

Answered(c) ==
  /\ pinger[c] = "ping"
  /\ net[c] = "up"
  /\ pinger' = [pinger EXCEPT ![c] = "idle"]
  /\ misses' = [misses EXCEPT ![c] = 0]
  /\ UNCHANGED <<loop, client, made, net, ended, fired, reason, ctx, retry,
                 screen, manager>>

\* Mutant: the ping waits for as long as the transport lasts.
TooLateWithoutTimer(c) == Dead(c)

\* The timer of the ping may run out on any link: an answer may come late.
TooLate(c) == TRUE

Unanswered(c) ==
  LET over == misses[c] + 1 >= Misses
  IN  /\ pinger[c] = "ping"
      /\ TooLate(c)
      /\ misses' = [misses EXCEPT ![c] = @ + 1]
      /\ pinger' = [pinger EXCEPT ![c] = IF over THEN "stopped" ELSE "idle"]
      /\ IF over THEN Closes(c) ELSE UNCHANGED <<net, ended, fired, reason>>
      /\ UNCHANGED <<loop, client, made, ctx, retry, screen, manager>>

StopPinging(c) ==
  /\ pinger[c] = "idle"
  /\ Dead(c)
  /\ pinger' = [pinger EXCEPT ![c] = "stopped"]
  /\ UNCHANGED <<loop, client, made, net, ended, fired, reason, misses, ctx,
                 retry, screen, manager>>

\* The network loses the peer without a word, or tears the connection down.
Network(c) ==
  /\ \/ net[c] = "up" /\ net' = [net EXCEPT ![c] = "silent"]
     \/ net[c] \in {"up", "silent"} /\ net' = [net EXCEPT ![c] = "gone"]
  /\ UNCHANGED <<loop, client, made, ended, fired, reason, pinger, misses, ctx,
                 retry, screen, manager>>

-----------------------------------------------------------------------------
(***************************************************************************)
(* The supervisor's loop.                                                  *)
(***************************************************************************)
At(place)   == pc = place
Goto(place) == pc' = place

Report(s) ==
  /\ status' = s
  /\ connected' = (connected \/ s = "connected")
  /\ UNCHANGED main

Top ==
  /\ At("top")
  /\ mine' = client
  /\ IF ctx
       THEN Goto("done") /\ UNCHANGED <<attempt, screen>>
     ELSE IF client # 0
       THEN Goto("begin") /\ UNCHANGED <<attempt, screen>>
     ELSE /\ Goto("connect")
          /\ attempt' = IF attempt < MaxAttempts THEN attempt + 1 ELSE attempt
          /\ Report("reconnecting")
  /\ UNCHANGED <<backoff, bridge, client, wires, ctx, retry, manager>>

ConnectSucceeds ==
  LET c == made + 1
  IN  /\ At("connect")
      /\ made < MaxSessions
      /\ made' = c
      /\ mine' = c
      /\ net' = [net EXCEPT ![c] = "up"]
      /\ pinger' = [pinger EXCEPT ![c] = "idle"]
      /\ Goto("adopt")
      /\ UNCHANGED <<attempt, backoff, bridge, client, ended, fired, reason,
                     misses, ctx, retry, screen, manager>>

ConnectFails ==
  /\ At("connect")
  /\ IF ctx THEN Goto("done") /\ UNCHANGED screen
            ELSE Goto("wait") /\ Report("disconnected")
  /\ UNCHANGED <<mine, attempt, backoff, bridge, client, wires, ctx, retry,
                 manager>>

\* setClient
Adopt ==
  /\ At("adopt")
  /\ client' = mine
  /\ Goto("hand")
  /\ UNCHANGED <<mine, attempt, backoff, bridge, wires, ctx, retry, screen,
                 manager>>

\* mgr.SetDialer(c)
Hand ==
  /\ At("hand")
  /\ dialer' = mine
  /\ Goto("begin")
  /\ UNCHANGED <<mine, attempt, backoff, bridge, client, wires, ctx, retry,
                 screen, scanned, closed>>

\* Mutant: the wait of the last outage carries over.
BackoffKept == backoff

BackoffReset == BackoffStart

Begin ==
  /\ At("begin")
  /\ attempt' = 0
  /\ backoff' = BackoffReset
  /\ Report("probing")
  /\ Goto(IF Browser THEN "install" ELSE "probe")
  /\ UNCHANGED <<mine, bridge, client, wires, ctx, retry, manager>>

\* startBrowser: a failure is never fatal.  Opening a session on a silent link
\* lasts until the connection is torn down, whatever the context says.
Install ==
  /\ At("install")
  /\ net[mine] # "silent"
  /\ bridge' \in {FALSE, net[mine] = "up"}
  /\ Goto("probe")
  /\ UNCHANGED <<mine, attempt, backoff, client, wires, ctx, retry, screen,
                 manager>>

\* The prober announced itself (onReady).
Ready ==
  /\ At("probe")
  /\ status = "probing"
  /\ Report("connected")
  /\ UNCHANGED <<loop, client, wires, ctx, retry, manager>>

\* A scan reaches the manager; one already received may, on a dead link.
Scan ==
  /\ At("probe")
  /\ status = "connected"
  /\ scanned' = TRUE
  /\ UNCHANGED <<loop, client, wires, ctx, retry, screen, dialer, closed>>

\* Mutant: the manager is told before the bridge is closed.
ForgetsTheBridge == "drop"

AfterProbe == "unbridge"

\* Monitor.Run returns: the link is lost, the program is to end (the session
\* is closed then, and its end awaited, which takes a link that works), ...
ProbeEnds ==
  /\ At("probe")
  /\ net[mine] = "gone" \/ (ctx /\ net[mine] = "up")
  /\ Goto(AfterProbe)
  /\ UNCHANGED <<mine, attempt, backoff, bridge, client, wires, ctx, retry,
                 screen, manager>>

\* ... or the prober stopped by itself, on a link that still works.
ProberExits ==
  /\ At("probe")
  /\ net[mine] = "up"
  /\ Goto(AfterProbe)
  /\ UNCHANGED <<mine, attempt, backoff, bridge, client, wires, ctx, retry,
                 screen, manager>>

Unbridge ==
  /\ At("unbridge")
  /\ bridge' = FALSE
  /\ Goto("drop")
  /\ UNCHANGED <<mine, attempt, backoff, client, wires, ctx, retry, screen,
                 manager>>

\* mgr.SetDialer(nil)
Drop ==
  /\ At("drop")
  /\ dialer' = 0
  /\ Goto("release")
  /\ UNCHANGED <<mine, attempt, backoff, bridge, client, wires, ctx, retry,
                 screen, scanned, closed>>

\* Mutant: the supervisor leaves the connection to the main goroutine.
TakeOnly == client' = 0 /\ UNCHANGED wires

\* takeClient, and Close if there is one: whoever takes the client closes it.
TakeAndClose ==
  /\ client' = 0
  /\ IF client # 0 THEN Closes(client) ELSE UNCHANGED <<net, ended, fired, reason>>
  /\ UNCHANGED <<made, pinger, misses>>

Release ==
  /\ At("release")
  /\ TakeAndClose
  /\ Goto("released")
  /\ UNCHANGED <<mine, attempt, backoff, bridge, ctx, retry, screen, manager>>

Released ==
  /\ At("released")
  /\ IF ctx THEN Goto("done") /\ UNCHANGED screen
            ELSE Goto("wait") /\ Report("disconnected")
  /\ UNCHANGED <<mine, attempt, backoff, bridge, client, wires, ctx, retry,
                 manager>>

NextBackoff == IF 2 * backoff > BackoffMax THEN BackoffMax ELSE 2 * backoff

\* The wait is over, by the timer or by a request to retry.
WaitEnds ==
  /\ At("wait")
  /\ Goto("top")
  /\ backoff' = NextBackoff
  /\ retry' \in {retry, FALSE}
  /\ UNCHANGED <<mine, attempt, bridge, client, wires, ctx, screen, manager>>

WaitCancelled ==
  /\ At("wait")
  /\ ctx
  /\ Goto("done")
  /\ UNCHANGED <<mine, attempt, backoff, bridge, client, wires, ctx, retry,
                 screen, manager>>

-----------------------------------------------------------------------------
(***************************************************************************)
(* The main goroutine.                                                     *)
(***************************************************************************)

\* `r` on the screen of an outage (handleOfflineKey, retryNow).
RetryNow ==
  /\ main = "ui"
  /\ connected
  /\ status \in {"disconnected", "reconnecting"}
  /\ retry' = TRUE
  /\ UNCHANGED <<loop, client, wires, ctx, screen, manager>>

\* The user quits, or a signal arrives.
Quit ==
  /\ main = "ui"
  /\ ctx' = TRUE
  /\ main' = "closing"
  /\ UNCHANGED <<loop, client, wires, retry, status, connected, manager>>

\* supervisor.close
CloseClient ==
  /\ main = "closing"
  /\ TakeAndClose
  /\ main' = "joining"
  /\ UNCHANGED <<loop, ctx, retry, status, connected, manager>>

\* Mutant: the main goroutine does not wait for the supervisor.
JoinNobody == TRUE

JoinsSupervisor == At("done")

Join ==
  /\ main = "joining"
  /\ JoinsSupervisor
  /\ main' = "manager"
  /\ UNCHANGED <<loop, client, wires, ctx, retry, status, connected, manager>>

CloseManager ==
  /\ main = "manager"
  /\ closed' = TRUE
  /\ main' = "exit"
  /\ UNCHANGED <<loop, client, wires, ctx, retry, status, connected, dialer,
                 scanned>>

Exited == main = "exit" /\ UNCHANGED vars

-----------------------------------------------------------------------------
\* The first connection is made before the interface and the supervisor start.
Init ==
  /\ pc = "top"
  /\ mine = 0
  /\ attempt = 0
  /\ backoff = BackoffStart
  /\ bridge = FALSE
  /\ client = 1
  /\ made = 1
  /\ net = [c \in Conns |-> IF c = 1 THEN "up" ELSE "none"]
  /\ ended = {}
  /\ fired = {}
  /\ reason = {}
  /\ pinger = [c \in Conns |-> IF c = 1 THEN "idle" ELSE "none"]
  /\ misses = [c \in Conns |-> 0]
  /\ ctx = FALSE
  /\ main = "ui"
  /\ retry = FALSE
  /\ status = "connecting"
  /\ connected = FALSE
  /\ dialer = 1
  /\ scanned = FALSE
  /\ closed = FALSE

Establish == Top \/ ConnectSucceeds \/ ConnectFails \/ Adopt \/ Hand \/ Begin
TearDown  == ProbeEnds \/ Unbridge \/ Drop \/ Release \/ Released
Loop      == Establish \/ Install \/ TearDown \/ WaitEnds \/ WaitCancelled
Monitor   == Ready \/ Scan \/ ProberExits
Keepalive(c) == Ping(c) \/ Answered(c) \/ Unanswered(c) \/ StopPinging(c)
Shutdown  == CloseClient \/ Join \/ CloseManager

Next ==
  \/ Loop
  \/ Monitor
  \/ \E c \in Conns : Watch(c) \/ Keepalive(c) \/ Network(c)
  \/ RetryNow
  \/ Quit
  \/ Shutdown
  \/ Exited

Spec == Init /\ [][Next]_vars

(***************************************************************************)
(* Every goroutine that can go on does: Connect, the installation of the   *)
(* bridge and the ping are bounded by timeouts or by the end of the        *)
(* client, and the waits by timers.  Nothing obliges the network, the      *)
(* prober or the user to act.                                              *)
(***************************************************************************)
Fairness ==
  /\ WF_vars(Loop)
  /\ WF_vars(Shutdown)
  /\ \A c \in Conns : WF_vars(Watch(c)) /\ WF_vars(Keepalive(c))

FairSpec == Spec /\ Fairness

-----------------------------------------------------------------------------
(***************************************************************************)
(* Every variable keeps its shape, and a connection is open to be closed:  *)
(* the client on record was made and not closed by the supervisor.         *)
(***************************************************************************)
TypeOK ==
  /\ pc \in {"top", "connect", "adopt", "hand", "begin", "install", "probe",
             "unbridge", "drop", "release", "released", "wait", "done"}
  /\ made \in Conns
  /\ mine \in 0..made /\ client \in {0, made} /\ dialer \in 0..made
  /\ attempt \in 0..MaxAttempts /\ backoff \in BackoffStart..BackoffMax
  /\ net \in [Conns -> {"none", "up", "silent", "gone"}]
  /\ ended \subseteq 1..made /\ fired \subseteq 1..made /\ reason \subseteq fired
  /\ pinger \in [Conns -> {"none", "idle", "ping", "stopped"}]
  /\ misses \in [Conns -> 0..Misses]
  /\ main \in {"ui", "closing", "joining", "manager", "exit"}
  /\ status \in {"connecting", "probing", "connected", "disconnected", "reconnecting"}
  /\ {bridge, ctx, retry, connected, scanned, closed} \subseteq BOOLEAN

(***************************************************************************)
(* The supervisor keeps the promises of Link to the manager, whatever the  *)
(* network does and whenever the user quits.                               *)
(***************************************************************************)
Promise ==
  INSTANCE Link WITH sessions <- IF pc \in {"adopt", "hand"} THEN made - 1 ELSE made

KeepsThePromise == Promise!Spec

(***************************************************************************)
(* Whoever wins the race for the client, the supervisor or the shutdown,   *)
(* no connection made is left open when the program ends ("takeClient      *)
(* detaches the current connection so it can be closed exactly once",      *)
(* app.go:310).                                                            *)
(***************************************************************************)
NoConnectionLeaks == main = "exit" => 1..made \subseteq ended

(***************************************************************************)
(* The browser bridge asks the manager for tunnels only while the manager  *)
(* has the link of this round: closing the bridge comes first, and waits   *)
(* for the requests it is serving.                                         *)
(***************************************************************************)
BridgeAsksOverTheLink == bridge => dialer = mine /\ dialer # 0

(***************************************************************************)
(* "a silently dropped link is noticed rather than hanging until a TCP     *)
(* timeout hours later" (client.go:189), and so is one torn down: whatever *)
(* the round was doing with the link, the manager is told, and another     *)
(* connection is tried.                                                    *)
(***************************************************************************)
LostLinksAreReplaced ==
  \A c \in Conns :
    (client = c /\ net[c] # "up") ~> ((pc = "connect" /\ dialer = 0) \/ ctx)

(***************************************************************************)
(* However the shutdown meets connecting, installing, probing and waiting, *)
(* the program ends once it was asked to.                                  *)
(***************************************************************************)
QuittingEnds == ctx ~> (main = "exit")

(***************************************************************************)
(* "Reconnection backs off from 1 to 30 seconds" (README.md:160): the wait *)
(* doubles with the attempts of this outage, and of this outage alone.     *)
(***************************************************************************)
LongestOr(n) == IF n > BackoffMax THEN BackoffMax ELSE n

WaitsFollowTheAttempts ==
  pc = "wait" => backoff = LongestOr(Doubled[attempt])
=============================================================================
