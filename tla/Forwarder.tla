----------------------------- MODULE Forwarder ------------------------------
(***************************************************************************)
(* One forwarder (internal/tunnel/forward.go): the accept loop, the two    *)
(* copiers of each connection, the look at the first reply (scheme.go) and *)
(* the shutdown, which the manager starts while it holds its mutex.        *)
(*                                                                         *)
(* A reply is a sequence of pieces, each what one read returns.  Of a      *)
(* request only its end matters here.                                      *)
(***************************************************************************)
EXTENDS Integers, Sequences, FiniteSets

CONSTANTS
  Clients,    \* the local connections
  Silent,     \* those whose service ends its reply without having said anything
  Pieces,     \* the pieces replies are made of
  MaxReply    \* bound on the pieces of a reply

ASSUME ForwarderAssumption ==
  /\ IsFiniteSet(Clients)
  /\ Pieces \subseteq {"tls", "http", "plain"}
  /\ MaxReply \in Nat

VARIABLES
  conn,       \* the connections, and what the client and the service do
  link,       \* the SSH connection the forwarder dials over is up
  listening,  \* the listener is open
  acceptor,   \* the accept loop: accepting, or gone
  wg,         \* the goroutines the forwarder still waits for
  drained,    \* Close has returned
  sniffed,    \* a connection has taken the look at the reply
  seen,       \* the scheme reported to the manager
  mu,         \* the manager's mutex is held for this forwarder's shutdown
  manager     \* how far that shutdown is

accepting == <<listening, acceptor>>
waiting   == <<wg, drained>>
sniffing  == <<sniffed, seen>>
shutdown  == <<mu, manager>>
vars == <<conn, link, accepting, waiting, sniffing, shutdown>>

Nobody ==
  [ stage       |-> "away",
    client      |-> "writes", \* it may have ended its request, or left
    clientDone  |-> FALSE,   \* the client has read the end of the reply
    serviceEnd  |-> FALSE,   \* the service has ended its reply
    serviceDone |-> FALSE,   \* the service has read the end of the request
    said        |-> << >>,   \* the reply so far
    pipe        |-> << >>,   \* what of it waits to be read
    held        |-> << >>,   \* the piece the reply's copier looks at
    heard       |-> << >>,   \* what the client received
    outgoing    |-> "none",  \* the copier of the request
    incoming    |-> "none" ] \* the copier of the reply

\* A connection that is over; nothing of it matters any more.
Over ==
  [Nobody EXCEPT !.stage = "torn", !.clientDone = TRUE, !.serviceDone = TRUE,
                 !.serviceEnd = TRUE]

-----------------------------------------------------------------------------
(***************************************************************************)
(* The accept loop and the dial.  A connection the kernel queued and the   *)
(* loop never accepts does not appear here.                                *)
(***************************************************************************)
\* Mutant: the handler counts itself, later.
AdmittedUncounted == wg

Admitted == wg + 1

Accept(c) ==
  /\ acceptor = "accepting"
  /\ listening
  /\ conn[c].stage = "away"
  /\ conn' = [conn EXCEPT ![c].stage = "dialing"]
  /\ wg' = Admitted
  /\ UNCHANGED <<link, accepting, drained, sniffing, shutdown>>

\* Accept fails: the listener is closed, or the error is not a timeout.
AcceptEnds ==
  /\ acceptor = "accepting"
  /\ acceptor' = "gone"
  /\ wg' = wg - 1
  /\ UNCHANGED <<conn, link, listening, drained, sniffing, shutdown>>

\* The copiers start; the reply's copier that comes first takes the look at
\* the first piece.
Dial(c) ==
  /\ conn[c].stage = "dialing"
  /\ link
  /\ conn' = [conn EXCEPT ![c].stage = "open", ![c].outgoing = "copy",
                          ![c].incoming = IF sniffed THEN "copy" ELSE "sniff"]
  /\ sniffed' = TRUE
  /\ UNCHANGED <<link, accepting, waiting, seen, shutdown>>

\* Mutant: the early return skips the deferred Done.
LeftUncounted == wg

Left == wg - 1

DialFails(c) ==
  /\ conn[c].stage = "dialing"
  /\ conn' = [conn EXCEPT ![c] = Over]
  /\ wg' = Left
  /\ UNCHANGED <<link, accepting, drained, sniffing, shutdown>>

-----------------------------------------------------------------------------
(***************************************************************************)
(* The copier of the request.  Its end is passed on by closing only one    *)
(* direction.                                                              *)
(***************************************************************************)
\* Mutant: the end of the request is not passed on.
PassEndNowhere(r) == [r EXCEPT !.outgoing = "done"]

PassEnd(r) == [r EXCEPT !.outgoing = "done", !.serviceDone = TRUE]

RequestEnds(c) ==
  /\ conn[c].outgoing = "copy"
  /\ conn[c].client # "writes"
  /\ conn' = [conn EXCEPT ![c] = PassEnd(@)]
  /\ UNCHANGED <<link, accepting, waiting, sniffing, shutdown>>

\* The client writes on, and the remote side does not take it any more.
RequestFails(c) ==
  /\ conn[c].outgoing = "copy"
  /\ ~link \/ conn[c].serviceEnd
  /\ conn' = [conn EXCEPT ![c] = PassEnd(@)]
  /\ UNCHANGED <<link, accepting, waiting, sniffing, shutdown>>

-----------------------------------------------------------------------------
(***************************************************************************)
(* The copier of the reply (copyReply).                                    *)
(***************************************************************************)
\* SniffScheme
Scheme(x) ==
  CASE x = "tls" -> "https" [] x = "http" -> "http" [] x = "plain" -> "unknown"

\* A write to a client that is gone fails, or its kernel still takes it.
Deliver(r, x) ==
  {[r EXCEPT !.heard = Append(@, x)]} \cup
    (IF r.client = "left" THEN {[r EXCEPT !.incoming = "done"]} ELSE {})

\* Mutant: what came meanwhile is copied first, and the head after it.
HeadOvertaken(r, x) ==
  {[r EXCEPT !.held = << >>, !.pipe = << >>, !.incoming = "copy",
             !.heard = @ \o r.pipe \o <<x>>]}

DeliverHead(r, x) == Deliver([r EXCEPT !.held = << >>, !.incoming = "copy"], x)

ReadHead(c) ==
  LET x == Head(conn[c].pipe)
      r == [conn[c] EXCEPT !.pipe = Tail(@)]
  IN  /\ conn[c].incoming = "sniff"
      /\ conn[c].pipe # << >>
      /\ \/ /\ Scheme(x) = "unknown"
            /\ \E d \in DeliverHead(r, x) : conn' = [conn EXCEPT ![c] = d]
         \/ /\ Scheme(x) # "unknown"
            /\ conn' = [conn EXCEPT ![c] = [r EXCEPT !.held = <<x>>, !.incoming = "tell"]]
      /\ UNCHANGED <<link, accepting, waiting, sniffing, shutdown>>

\* onScheme, which is the manager's observeScheme and takes its mutex; then
\* the head is written.
Tell(c) ==
  LET x == conn[c].held[1]
  IN  /\ conn[c].incoming = "tell"
      /\ mu = "free"
      /\ seen' = Scheme(x)
      /\ \E d \in DeliverHead(conn[c], x) : conn' = [conn EXCEPT ![c] = d]
      /\ UNCHANGED <<link, accepting, waiting, sniffed, shutdown>>

CopyPiece(c) ==
  /\ conn[c].incoming = "copy"
  /\ conn[c].pipe # << >>
  /\ \E d \in Deliver([conn[c] EXCEPT !.pipe = Tail(@)], Head(conn[c].pipe)) :
       conn' = [conn EXCEPT ![c] = d]
  /\ UNCHANGED <<link, accepting, waiting, sniffing, shutdown>>

\* With the link, what was on its way may be lost.
ReplyEnds(c) ==
  /\ conn[c].incoming \in {"sniff", "copy"}
  /\ (conn[c].serviceEnd /\ conn[c].pipe = << >>) \/ ~link
  /\ conn' = [conn EXCEPT ![c].incoming = "done", ![c].clientDone = TRUE]
  /\ UNCHANGED <<link, accepting, waiting, sniffing, shutdown>>

\* handle returns, and closes both connections.
Finish(c) ==
  /\ conn[c].stage = "open"
  /\ conn[c].outgoing = "done"
  /\ conn[c].incoming = "done"
  /\ conn' = [conn EXCEPT ![c] = Over]
  /\ wg' = Left
  /\ UNCHANGED <<link, accepting, drained, sniffing, shutdown>>

-----------------------------------------------------------------------------
(***************************************************************************)
(* The shutdown: closeLocked stops the forwarder while the manager holds   *)
(* its mutex, and leaves the waiting to a goroutine of its own.            *)
(***************************************************************************)
Lock ==
  /\ manager = "running"
  /\ manager' = "closing"
  /\ mu' = "manager"
  /\ UNCHANGED <<conn, link, accepting, waiting, sniffing>>

\* stop
Stop ==
  /\ manager = "closing"
  /\ manager' = "stopped"
  /\ listening' = FALSE
  /\ UNCHANGED <<conn, link, acceptor, waiting, sniffing, mu>>

\* Mutant: closeLocked waits for the connections to end.
ReleasesAfterTheDrain == drained

Releases == TRUE

Unlock ==
  /\ manager = "stopped"
  /\ Releases
  /\ manager' = "done"
  /\ mu' = "free"
  /\ UNCHANGED <<conn, link, accepting, waiting, sniffing>>

\* The end of forwarder.Close.
Drain ==
  /\ manager \in {"stopped", "done"}
  /\ ~drained
  /\ wg = 0
  /\ drained' = TRUE
  /\ UNCHANGED <<conn, link, accepting, wg, sniffing, shutdown>>

-----------------------------------------------------------------------------
(***************************************************************************)
(* The client, the service and the link.                                   *)
(***************************************************************************)
Handled == {c \in Clients : conn[c].stage \in {"dialing", "open"}}

ClientEnds(c) ==
  /\ c \in Handled
  /\ conn[c].client = "writes"
  /\ conn' = [conn EXCEPT ![c].client = "ended"]
  /\ UNCHANGED <<link, accepting, waiting, sniffing, shutdown>>

ClientLeaves(c) ==
  /\ c \in Handled
  /\ conn[c].client # "left"
  /\ conn' = [conn EXCEPT ![c].client = "left"]
  /\ UNCHANGED <<link, accepting, waiting, sniffing, shutdown>>

Serving(c) == conn[c].stage = "open" /\ link /\ ~conn[c].serviceEnd

ServiceSays(c, x) ==
  /\ Serving(c)
  /\ c \notin Silent
  /\ Len(conn[c].said) < MaxReply
  /\ conn' = [conn EXCEPT ![c].said = Append(@, x), ![c].pipe = Append(@, x)]
  /\ UNCHANGED <<link, accepting, waiting, sniffing, shutdown>>

ServiceEnds(c) ==
  /\ Serving(c)
  /\ conn' = [conn EXCEPT ![c].serviceEnd = TRUE]
  /\ UNCHANGED <<link, accepting, waiting, sniffing, shutdown>>

LinkLost ==
  /\ link
  /\ link' = FALSE
  /\ UNCHANGED <<conn, accepting, waiting, sniffing, shutdown>>

-----------------------------------------------------------------------------
Init ==
  /\ conn = [c \in Clients |-> Nobody]
  /\ link = TRUE
  /\ listening = TRUE
  /\ acceptor = "accepting"
  /\ wg = 1
  /\ drained = FALSE
  /\ sniffed = FALSE
  /\ seen = "unknown"
  /\ mu = "free"
  /\ manager = "running"

Handle(c)  == Dial(c) \/ DialFails(c) \/ Finish(c)
Request(c) == RequestEnds(c) \/ RequestFails(c)
Reply(c)   == ReadHead(c) \/ Tell(c) \/ CopyPiece(c) \/ ReplyEnds(c)
Peers(c)   == ClientEnds(c) \/ ClientLeaves(c) \/ ServiceEnds(c)
                \/ \E x \in Pieces : ServiceSays(c, x)

Next ==
  \/ \E c \in Clients : Accept(c) \/ Handle(c) \/ Request(c) \/ Reply(c) \/ Peers(c)
  \/ AcceptEnds
  \/ Lock \/ Stop \/ Unlock \/ Drain
  \/ LinkLost

Spec == Init /\ [][Next]_vars

(***************************************************************************)
(* The forwarder's goroutines run, Accept returns once its listener is     *)
(* closed, and what the manager began it goes on with.                     *)
(***************************************************************************)
Serve(c) == Handle(c) \/ RequestEnds(c) \/ Reply(c)

Fairness ==
  /\ \A c \in Clients : WF_vars(Serve(c))
  /\ WF_vars(~listening /\ AcceptEnds)
  /\ WF_vars(Stop \/ Unlock)
  /\ WF_vars(Drain)

(***************************************************************************)
(* The peers are polite: a client ends its request or leaves, and a        *)
(* service that has read the end of the request ends its reply.  Nothing   *)
(* in the code obliges them: a peer that does neither keeps its connection.*)
(***************************************************************************)
Polite ==
  \A c \in Clients : /\ WF_vars(ClientEnds(c))
                     /\ WF_vars(conn[c].serviceDone /\ ServiceEnds(c))

PoliteSpec == Spec /\ Fairness /\ Polite

-----------------------------------------------------------------------------
Replies == UNION {[1..n -> Pieces] : n \in 0..MaxReply}

Connection ==
  [ stage : {"away", "dialing", "open", "torn"},
    client : {"writes", "ended", "left"}, clientDone : BOOLEAN,
    serviceEnd : BOOLEAN, serviceDone : BOOLEAN, said : Replies, pipe : Replies,
    held : Replies, heard : Replies, outgoing : {"none", "copy", "done"},
    incoming : {"none", "sniff", "tell", "copy", "done"} ]

(***************************************************************************)
(* Every variable keeps its shape, and the wait group counts the accept    *)
(* loop and the connections being handled, no more and no fewer.           *)
(***************************************************************************)
TypeOK ==
  /\ conn \in [Clients -> Connection]
  /\ wg = Cardinality(Handled) + (IF acceptor = "accepting" THEN 1 ELSE 0)
  /\ acceptor \in {"accepting", "gone"}
  /\ {link, listening, drained, sniffed} \subseteq BOOLEAN
  /\ seen \in {"unknown", "http", "https"}
  /\ <<mu, manager>> \in {<<"free", "running">>, <<"manager", "closing">>,
                          <<"manager", "stopped">>, <<"free", "done">>}

(***************************************************************************)
(* "The bytes are relayed unchanged; nothing is withheld or injected"      *)
(* (forward.go:125): while the link lasts, what the service said is what   *)
(* the client heard, then what the copier looks at, then what waits; and   *)
(* the client reads the end of the reply after all of it.                  *)
(***************************************************************************)
RepliesArriveIntact ==
  \A c \in Clients : link /\ conn[c].client # "left" =>
    /\ conn[c].said = conn[c].heard \o conn[c].held \o conn[c].pipe
    /\ conn[c].clientDone => conn[c].heard = conn[c].said

(***************************************************************************)
(* "Close stops accepting and waits for in-flight connections to finish    *)
(* being torn down" (forward.go:193), the one accepted at the last moment  *)
(* included.                                                               *)
(***************************************************************************)
NothingOutlivesTheDrain == drained => acceptor = "gone" /\ Handled = {}

(***************************************************************************)
(* "a client that shuts down writing (curl, HTTP/1.0) still receives the   *)
(* response" (forward.go:107), from a service that ends its reply when the *)
(* request has ended.                                                      *)
(***************************************************************************)
RequestsAreAnswered ==
  \A c \in Clients :
    (conn[c].stage = "open" /\ conn[c].client = "ended")
      ~> (conn[c].clientDone \/ conn[c].client = "left")

(***************************************************************************)
(* "drain in-flight connections in the background rather than blocking a   *)
(* scan on a slow peer" (manager.go:387): closing a tunnel gives the       *)
(* manager's mutex back, for which a copier of that tunnel may be waiting, *)
(* and the drain ends, however it meets accepting, dialing and copying.    *)
(***************************************************************************)
ClosingEnds == (mu = "manager") ~> (mu = "free" /\ drained)

(***************************************************************************)
(* "onScheme is called with what the service turned out to be, the first   *)
(* time a reply says anything conclusive" (forward.go:38): once a client   *)
(* has heard a reply that opens conclusively, the scheme was reported.     *)
(***************************************************************************)
ConclusiveRepliesAreReported ==
  \A c \in Clients :
    conn[c].heard # << >> /\ Scheme(conn[c].heard[1]) # "unknown" => seen # "unknown"
=============================================================================
