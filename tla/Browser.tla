------------------------------- MODULE Browser -------------------------------
(***************************************************************************)
(* Opening a URL of the remote host in the local browser: the installation *)
(* of the shim and its socket in the remote account, the shim, the bridge  *)
(* (internal/browser) and the router behind it (internal/app/browser.go).  *)
(* Several sessions may install the shim of one account at the same time.  *)
(* A bridge stands for one connection of one session, and for its nonce.   *)
(* The manager behind a bridge is the row of the one port that URLs name.  *)
(***************************************************************************)
EXTENDS Integers, FiniteSets

CONSTANTS
  Bridges,      \* the installations
  Calls,        \* the runs of the shim, and of other programs at its socket
  Nobody        \* no installation

ASSUME BrowserAssumption == Nobody \notin Bridges

VARIABLES
  shim,     \* the installation whose shim is in the account
  socket,   \* the installation the socket's path leads to; Dead when none does
  phase,    \* how far each bridge has come
  serves,   \* whether its accept loop runs
  link,     \* whether the connection of each bridge is up
  row,      \* what each manager says of the port
  call,     \* the remote side of each request: step, nonce, bridge connected to
  handler   \* the local side: step, asked, answer, whether the URL was opened

vars == <<shim, socket, phase, serves, link, row, call, handler>>

Dead == "dead"

\* Whom a path leads to.
Paths == Bridges \cup {Nobody, Dead}

NoCall == [step |-> "idle", nonce |-> Nobody, to |-> Nobody]

NoHandler == [step |-> "none", asked |-> FALSE, says |-> "", opened |-> FALSE]

\* A tunnel at its own number, or at another.
Tunnels == {"active", "remapped"}

\* A port that is not listed or is switched off has nothing for a request.
Refused == [mode |-> "off", shows |-> "nothing"]

SkippedRow == [mode |-> "auto", shows |-> "skipped"]

\* What comes of asking for a local port: a tunnel, or none to be had.
Attempts(mode) == [mode : {mode}, shows : Tunnels \cup {"failed"}]

Rows == Attempts("auto") \cup Attempts("on") \cup {SkippedRow, Refused}

\* The steps of a handler that runs.
Unanswered == {"reading", "looking", "asking", "waiting", "moving", "relooking",
               "opening"}

HandlersOf(b) ==
  {c \in Calls : call[c].to = b /\ handler[c].step \in Unanswered}

-----------------------------------------------------------------------------
(***************************************************************************)
(* The account: three scripts and a listener, one after the other.         *)
(***************************************************************************)
Step(b, from, to) == phase[b] = from /\ phase' = [phase EXCEPT ![b] = to]

Elsewhere == UNCHANGED <<row, call, handler>>

\* Clears the socket a session before has left.
PrepareRemote(b) ==
  /\ Step(b, "new", "prepared") /\ link[b]
  /\ socket' = Nobody
  /\ UNCHANGED <<shim, serves, link>> /\ Elsewhere

\* The remote sshd does not take a path that exists.
ListenUnix(b) ==
  /\ socket = Nobody /\ link[b]
  /\ Step(b, "prepared", "listening")
  /\ socket' = b
  /\ UNCHANGED <<shim, serves, link>> /\ Elsewhere

WriteShim(b) ==
  /\ Step(b, "listening", "serving") /\ link[b]
  /\ shim' = b
  /\ serves' = [serves EXCEPT ![b] = TRUE]
  /\ UNCHANGED <<socket, link>> /\ Elsewhere

\* What becomes of the path when its listener goes; sshd may leave it behind.
Abandoned(b) ==
  IF socket = b THEN socket' \in {Dead, Nobody} ELSE socket' = socket

\* The socket cannot be had.
ListenFails(b) ==
  /\ Step(b, "prepared", "closed")
  /\ UNCHANGED <<shim, socket, serves, link>> /\ Elsewhere

\* The script ends with an error, before or after it has replaced the shim,
\* and the listener is closed.
WriteFails(b) ==
  /\ Step(b, "listening", "closed") /\ Abandoned(b)
  /\ shim' \in {shim, b}
  /\ UNCHANGED <<serves, link>> /\ Elsewhere

\* The supervisor is done with the connection; the handlers finish first.
CloseListener(b) ==
  /\ Step(b, "serving", "closing")
  /\ Abandoned(b)
  /\ UNCHANGED <<shim, serves, link>> /\ Elsewhere

\* The accept loop ends with its listener.
ServeEnds(b) ==
  /\ serves[b]
  /\ phase[b] # "serving" \/ ~link[b]
  /\ serves' = [serves EXCEPT ![b] = FALSE]
  /\ UNCHANGED <<shim, socket, phase, link>> /\ Elsewhere

\* The supervisor tells the manager that the link is gone.
Closed(b) ==
  /\ Step(b, "closing", "closed")
  /\ row' = [row EXCEPT ![b] = Refused]
  /\ UNCHANGED <<shim, socket, serves, link, call, handler>>

\* Mutant: the accept loop is not counted among those Close waits for.
WaitedForHandlers(b) == HandlersOf(b) = {} /\ Closed(b)

\* Close waits for the accept loop and for the handlers it has started.
WaitedForAll(b) == ~serves[b] /\ HandlersOf(b) = {} /\ Closed(b)

\* After Close, or before it when the network fails.
LinkEnds(b) ==
  /\ link[b] /\ phase[b] # "new"
  /\ link' = [link EXCEPT ![b] = FALSE]
  /\ Abandoned(b)
  /\ UNCHANGED <<shim, phase, serves>> /\ Elsewhere

-----------------------------------------------------------------------------
(***************************************************************************)
(* The remote side of a request.                                           *)
(***************************************************************************)
Caller(c, from, to) ==
  call[c].step = from /\ call' = [call EXCEPT ![c].step = to]

Remote == UNCHANGED <<shim, socket, phase, serves, link, row, handler>>

\* The shell reads the script that is installed by now.
RunShim(c) ==
  /\ call[c].step = "idle" /\ shim # Nobody
  /\ call' = [call EXCEPT ![c].nonce = shim,
                          ![c].step = IF socket = Nobody THEN "fallback" ELSE "dialing"]
  /\ Remote

Connects(c) ==
  /\ call' = [call EXCEPT ![c].step = "connected", ![c].to = socket]
  /\ handler' = [handler EXCEPT ![c].step = "pending"]

Listens == socket \in Bridges /\ link[socket]

Dial(c) ==
  /\ call[c].step = "dialing"
  /\ \/ Listens /\ Connects(c)
     \/ /\ ~Listens
        /\ call' = [call EXCEPT ![c].step = "fallback"] /\ handler' = handler
  /\ UNCHANGED <<shim, socket, phase, serves, link, row>>

\* Another program of the account has found the socket by itself.
Intrude(c) ==
  /\ call[c].step = "idle" /\ Listens
  /\ Connects(c)
  /\ UNCHANGED <<shim, socket, phase, serves, link, row>>

\* The line goes down the socket.
Send(c) == Caller(c, "connected", "sent") /\ Remote

\* The caller is stopped before it has said anything.
Leave(c) == Caller(c, "connected", "left") /\ Remote

\* The answer, or the end of the connection without one.
Hear(c) ==
  /\ handler[c].step = "done" /\ call[c].step \in {"connected", "sent"}
  /\ \E heard \in {handler[c].says} \cup (IF link[call[c].to] THEN {} ELSE {"eof"}) :
       call' = [call EXCEPT ![c].step = IF heard = "ok" THEN "exit0" ELSE "fallback"]
  /\ Remote

\* The relay stops waiting: socat after five seconds, python3 after ten.
GiveUp(c) == Caller(c, "sent", "fallback") /\ Remote

-----------------------------------------------------------------------------
(***************************************************************************)
(* The local side: one goroutine per connection.                           *)
(***************************************************************************)
Bridge(c) == call[c].to

At(c, step) == handler[c].step = step

Local == UNCHANGED <<shim, socket, phase, serves, link, call>>

Goes(c, step) == handler' = [handler EXCEPT ![c].step = step]

\* The answer is written, the connection closed, and the goroutine over.
Answered(c, opened, text) ==
  handler' = [handler EXCEPT ![c] =
    [step |-> "done", asked |-> FALSE, says |-> text, opened |-> opened]]

Answers(c, text) == Answered(c, FALSE, text)

Accept(c) ==
  /\ At(c, "pending") /\ serves[Bridge(c)]
  /\ Goes(c, "reading") /\ row' = row /\ Local

\* The listener ends with connections nobody has taken.
Rejected(c) ==
  /\ At(c, "pending")
  /\ ~serves[Bridge(c)] /\ (phase[Bridge(c)] = "closed" \/ ~link[Bridge(c)])
  /\ Answers(c, "eof") /\ row' = row /\ Local

\* Mutant: a line is good whatever its nonce.
AuthenticNonce(c) == call[c].nonce # Nobody

Authentic(c) == call[c].nonce = Bridge(c)

\* A URL of the port, one of elsewhere, or one nobody opens.
Parse(c) ==
  /\ At(c, "reading") /\ call[c].step \in {"sent", "fallback"}
  /\ \/ ~Authentic(c) /\ Answers(c, "err")
     \/ Authentic(c) /\ Answers(c, "err")
     \/ Authentic(c) /\ Goes(c, "looking")
     \/ Authentic(c) /\ Goes(c, "opening")
  /\ row' = row /\ Local

\* Mutant: only the end of the link ends the reading.
ReadFailsWithTheLink(c) ==
  /\ At(c, "reading") /\ ~link[Bridge(c)]
  /\ Answers(c, "eof") /\ row' = row /\ Local

\* No line will come.
ReadFails(c) ==
  /\ At(c, "reading")
  /\ ~link[Bridge(c)] \/ call[c].step = "left"
  /\ Answers(c, "eof") /\ row' = row /\ Local

Row(c) == row[Bridge(c)]

Becomes(c, r) == row' = [row EXCEPT ![Bridge(c)] = r]

\* The port has a tunnel, or the router asks for one, once.
Look(c) ==
  /\ At(c, "looking")
  /\ Goes(c, CASE Row(c).shows = "active"    -> "opening"
               [] Row(c).shows = "remapped"  -> "moving"
               [] Row(c).shows \notin Tunnels ->
                    IF handler[c].asked THEN "waiting" ELSE "asking")
  /\ row' = row /\ Local

Asked(c, step) ==
  handler' = [handler EXCEPT ![c].step = step, ![c].asked = TRUE]

\* What ForwardNow leaves of a row: its tunnel, or an attempt at one.
Requested(r) ==
  IF r.shows \in Tunnels THEN {[r EXCEPT !.mode = "on"]} ELSE Attempts("on")

AskedFor(c, r) ==
  Becomes(c, r) /\ Asked(c, IF r.shows = "failed" THEN "waiting" ELSE "looking")

\* Mutant: the port is switched on only if it got its tunnel at once.
ForwardNowAtOnce(c) ==
  /\ At(c, "asking")
  /\ \/ \E r \in Requested(Row(c)) :
          Row(c) # Refused /\ AskedFor(c, IF r.shows = "failed" THEN Row(c) ELSE r)
     \/ Row(c) = Refused /\ Asked(c, "waiting") /\ row' = row
  /\ Local

\* A listed port is switched on unless it is off; its tunnel may fail.
ForwardNow(c) ==
  /\ At(c, "asking")
  /\ \/ Row(c) # Refused /\ \E r \in Requested(Row(c)) : AskedFor(c, r)
     \/ Row(c) = Refused /\ Asked(c, "waiting") /\ row' = row
  /\ Local

Poll(c) == At(c, "waiting") /\ Goes(c, "looking") /\ row' = row /\ Local

\* The request's time is up.
Expire(c) == At(c, "waiting") /\ Answers(c, "err") /\ row' = row /\ Local

\* The remote port's number is in use here, so the tunnel stays where it is.
StayPut(c) == At(c, "moving") /\ Goes(c, "opening") /\ row' = row /\ Local

\* What a move makes of a listed row: the tunnel is closed and another port
\* asked for, an old error forgotten, and the rules are applied again.
Moved(r) ==
  IF r = SkippedRow THEN {r}
  ELSE Attempts(r.mode) \cup
         (IF r = [mode |-> "auto", shows |-> "failed"] THEN {SkippedRow} ELSE {})

\* The number was free; by now it may not be, or the port may have gone.
TryLocalPort(c) ==
  /\ At(c, "moving")
  /\ \/ /\ Row(c) # Refused
        /\ \E r \in Moved(Row(c)) :
             /\ Becomes(c, r)
             /\ Goes(c, IF r.shows = "failed" THEN "opening" ELSE "relooking")
     \/ /\ Row(c) = Refused /\ row' = row
        /\ Goes(c, "opening") \/ Goes(c, "relooking")
  /\ Local

Relook(c) == At(c, "relooking") /\ Goes(c, "opening") /\ row' = row /\ Local

\* Mutant: a URL that did not open is answered with ok.
OpenAnyway(c) ==
  /\ At(c, "opening")
  /\ \E did \in BOOLEAN : Answered(c, did, "ok")
  /\ row' = row /\ Local

\* The local browser takes the URL or does not.
Open(c) ==
  /\ At(c, "opening")
  /\ Answered(c, TRUE, "ok") \/ Answered(c, FALSE, "err")
  /\ row' = row /\ Local

-----------------------------------------------------------------------------
\* Scans list the port and drop it, try again what failed, and meet changed
\* binds; the user pauses and changes the mode, which goes from on to auto by
\* way of off.  What becomes of a row before somebody connects is left out:
\* any row it leads to is also reached after that.
Changes(b) ==
  /\ phase[b] \in {"serving", "closing"}
  /\ \E c \in Calls : Bridge(c) = b
  /\ \E r \in Rows \ {row[b]} :
       /\ row[b].mode = "on" => r.mode # "auto"
       /\ row' = [row EXCEPT ![b] = r]
  /\ UNCHANGED <<shim, socket, phase, serves, link, call, handler>>

\* A later scan gets a port that is switched on the tunnel it lacked.
Recovers(b) ==
  /\ Changes(b) /\ link[b]
  /\ row[b] = [mode |-> "on", shows |-> "failed"] /\ row'[b].shows \in Tunnels

Writes(b) == WriteShim(b) \/ WriteFails(b)

Install(b) == PrepareRemote(b) \/ ListenUnix(b) \/ ListenFails(b) \/ Writes(b)

Shuts(b) == CloseListener(b) \/ ServeEnds(b) \/ WaitedForAll(b)

Client(c) ==
  \/ RunShim(c) \/ Intrude(c) \/ Dial(c) \/ Send(c) \/ Leave(c) \/ Hear(c)
  \/ GiveUp(c)

Route(c) ==
  \/ Look(c) \/ ForwardNow(c) \/ StayPut(c) \/ TryLocalPort(c) \/ Relook(c)
  \/ Open(c)

Handle(c) ==
  Accept(c) \/ Rejected(c) \/ Parse(c) \/ ReadFails(c) \/ Route(c) \/ Poll(c) \/ Expire(c)

Next ==
  \/ \E b \in Bridges : Install(b) \/ Shuts(b) \/ LinkEnds(b) \/ Changes(b)
  \/ \E c \in Calls : Client(c) \/ Handle(c)

Init ==
  /\ shim = Nobody /\ socket = Nobody
  /\ phase = [b \in Bridges |-> "new"] /\ serves = [b \in Bridges |-> FALSE]
  /\ link = [b \in Bridges |-> TRUE]
  /\ row = [b \in Bridges |-> Refused]
  /\ call = [c \in Calls |-> NoCall] /\ handler = [c \in Calls |-> NoHandler]

Spec == Init /\ [][Next]_vars

\* Each goroutine takes its next step when it can, Close is called when the
\* link is lost and waits for nothing else, and the time of a request runs out
\* however often the router polls.
ProgramFair ==
  /\ \A c \in Calls : WF_vars(Handle(c)) /\ SF_vars(Expire(c))
  /\ \A b \in Bridges : /\ WF_vars(Writes(b) \/ ServeEnds(b) \/ WaitedForAll(b))
                        /\ WF_vars(~link[b] /\ CloseListener(b))

\* A relay sends its line or is stopped, and reads what comes back.
ClientFair ==
  \A c \in Calls : WF_vars(Dial(c) \/ Send(c) \/ Leave(c) \/ Hear(c))

\* Local ports are free again in the end, and a scan comes by.
PortsFree == \A b \in Bridges : WF_vars(Recovers(b))

ProgramFairSpec == Spec /\ ProgramFair

FairSpec == Spec /\ ProgramFair /\ ClientFair /\ PortsFree

-----------------------------------------------------------------------------
TypeOK ==
  /\ shim \in Bridges \cup {Nobody} /\ socket \in Paths
  /\ phase \in [Bridges -> {"new", "prepared", "listening", "serving", "closing",
                            "closed"}]
  /\ serves \in [Bridges -> BOOLEAN] /\ link \in [Bridges -> BOOLEAN]
  /\ row \in [Bridges -> Rows]
  /\ call \in [Calls -> [ step : {"idle", "dialing", "connected", "sent", "left",
                                  "exit0", "fallback"},
                          nonce : Bridges \cup {Nobody}, to : Bridges \cup {Nobody} ]]
  /\ \A c \in Calls : handler[c].step # "none" => Bridge(c) \in Bridges

(***************************************************************************)
(* A shim that ends with success has had its URL opened: whatever is       *)
(* declined, lost or cut off on the way makes it fall back (bridge.go:236, *)
(* shim.sh:42).                                                            *)
(***************************************************************************)
OkMeansOpened ==
  \A c \in Calls : call[c].step = "exit0" => handler[c].opened

(***************************************************************************)
(* What one session's shim asks for is never opened by another session,    *)
(* also while the two install themselves over each other and the script    *)
(* of one leads to the socket of the other (bridge.go:268).                *)
(***************************************************************************)
OnlyItsOwnRequests ==
  \A c \in Calls : handler[c].opened => call[c].nonce = Bridge(c)

(***************************************************************************)
(* Once Close has returned no request of that connection is under way, so  *)
(* none asks the manager for a tunnel over it (bridge.go:281, app.go:367). *)
(***************************************************************************)
NothingOutlivesClose ==
  \A b \in Bridges : phase[b] = "closed" => HandlersOf(b) = {}

(***************************************************************************)
(* Close returns, for all the requests that are waiting for a tunnel: the  *)
(* supervisor does nothing else meanwhile (bridge.go:281).                 *)
(***************************************************************************)
CloseReturns == \A b \in Bridges : phase[b] = "closing" ~> phase[b] = "closed"

(***************************************************************************)
(* Naming a port is more specific than the policy that skips it            *)
(* (manager.go:517): a request that finds its port skipped gets it a       *)
(* tunnel, if not at once then when a local port is free again, although   *)
(* the router asks only once (browser.go:135), and whatever scans, pauses  *)
(* and other requests do to the row meanwhile; unless the port goes, the   *)
(* user switches it off, or the connection is over first.                  *)
(***************************************************************************)
SkippedPortsAreForwarded ==
  \A c \in Calls, b \in Bridges :
    At(c, "looking") /\ ~handler[c].asked /\ Bridge(c) = b /\ row[b] = SkippedRow
      ~> row[b].shows \in Tunnels \/ row[b] = Refused

(***************************************************************************)
(* The timeout bounds one request, including any wait for a tunnel to      *)
(* appear (bridge.go:43).                                                  *)
(***************************************************************************)
RequestsAreBounded ==
  \A c \in Calls : At(c, "reading") ~> At(c, "done")
=============================================================================
