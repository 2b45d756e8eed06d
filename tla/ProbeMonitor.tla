---------------------------- MODULE ProbeMonitor ----------------------------
(***************************************************************************)
(* One round of the monitor (internal/probe/monitor.go): the prober script *)
(* on the remote host (script.go), the runner that copies its output into  *)
(* a pipe (Client.Run, sshx/client.go), the parser at the other end of     *)
(* that pipe, and the lookups of command lines, each a goroutine with an   *)
(* SSH session of its own.                                                 *)
(*                                                                         *)
(* A process is its id, which also stands for the port it listens on.      *)
(***************************************************************************)
EXTENDS Naturals, Sequences, FiniteSets

CONSTANTS
  Pids,      \* the ids of the processes that may listen on a port
  Tools,     \* what the script may find to list ports with
  Listings,  \* what a listing may say
  MaxScans   \* bound on the scans of the round

\* A snapshot: the ports in use, and those whose owners the tool could name.
Snapshot == [ports : SUBSET Pids, owners : SUBSET Pids]

ASSUME MonitorAssumption ==
  /\ Listings \subseteq {s \in Snapshot : s.owners \subseteq s.ports}
  /\ Tools \subseteq {"ss", "proc"}
  /\ MaxScans \in Nat

VARIABLES
  tool,      \* the listing tool of the remote host, "none" if it has none
  script,    \* the script: unstarted, starting, scanning, hanging, exited, failed
  out,       \* its output that has not been parsed
  finished,  \* what its complete scans said
  net,       \* the SSH connection: up, silent (nothing gets through) or gone
  ctx,       \* the program cancelled the round
  runner,    \* Client.Run: opening, streaming, closing or returned
  runErr,    \* what it returned
  parser,    \* the parser is reading, or gone
  parseErr,  \* why it stopped
  mode,      \* the mode of the script, once it announced itself
  section,   \* the part of a scan the parser is in: none, body or sockmap
  body,      \* what it read of the scan
  sockMap,   \* what it read of the socket map
  scans,     \* the scans delivered
  resolved,  \* the processes whose command line is known
  unknown,   \* the processes marked as looked up
  lookups,   \* the lookups under way, each the set of processes it asks for
  omitted,   \* the processes an answer said nothing about
  result     \* what Monitor.Run returned, "running" before

remote  == <<tool, script, finished>>
running == <<runner, runErr>>
parsing == <<parser, parseErr, mode, section, body, sockMap>>
names   == <<resolved, unknown, lookups, omitted>>
vars == <<remote, out, net, ctx, running, parsing, scans, names, result>>

Nothing == [ports |-> {}, owners |-> {}]

Join(s, t) == [ports |-> s.ports \cup t.ports, owners |-> s.owners \cup t.owners]

Mark(kind) == [kind |-> kind, text |-> Nothing]
Text(ports, owners) == [kind |-> "text", text |-> [ports |-> ports, owners |-> owners]]

\* A prefix of a sequence: what arrives of an output that is cut off.
Cuts(s) == {SubSeq(s, 1, n) : n \in 0..Len(s)}

-----------------------------------------------------------------------------
(***************************************************************************)
(* The script.  The output of one scan; with /proc, the owners of the      *)
(* sockets come in a section of their own.                                 *)
(***************************************************************************)
Frame(snap) ==
  IF tool = "proc"
    THEN << Mark("scan"), Text(snap.ports, {}), Mark("sockmap"),
            Text({}, snap.owners), Mark("end") >>
    ELSE << Mark("scan"), Text(snap.ports, snap.owners), Mark("end") >>

Works == net = "up" /\ runner = "streaming"

ScriptAnnounces ==
  /\ Works
  /\ script = "starting"
  /\ tool # "none"
  /\ script' = "scanning"
  /\ out' = Append(out, Mark("ready"))
  /\ UNCHANGED <<tool, finished, net, ctx, running, parsing, scans,
                 names, result>>

\* No tool: the script says so and exits; the session may stay open.
ScriptGivesUp ==
  /\ Works
  /\ script = "starting"
  /\ tool = "none"
  /\ script' \in {"failed", "hanging"}
  /\ out' = Append(out, Mark("error"))
  /\ UNCHANGED <<tool, finished, net, ctx, running, parsing, scans,
                 names, result>>

ScriptScans ==
  /\ Works
  /\ script = "scanning"
  /\ Len(finished) < MaxScans
  /\ \E snap \in Listings :
       /\ finished' = Append(finished, snap)
       /\ out' = out \o Frame(snap)
  /\ UNCHANGED <<tool, script, net, ctx, running, parsing, scans, names,
                 result>>

\* The script ends by itself, perhaps in the middle of a scan.
ScriptExits ==
  /\ Works
  /\ script \in {"starting", "scanning", "hanging"}
  /\ \E status \in {"exited", "failed"}, snap \in Listings :
       /\ script' = status
       /\ \E cut \in Cuts(Frame(snap)) :
            /\ cut # << >> => script = "scanning" /\ cut # Frame(snap)
            /\ out' = out \o cut
  /\ UNCHANGED <<tool, finished, net, ctx, running, parsing, scans,
                 names, result>>

-----------------------------------------------------------------------------
(***************************************************************************)
(* The connection and the context.                                         *)
(***************************************************************************)
FallsSilent ==
  /\ net = "up"
  /\ net' = "silent"
  /\ UNCHANGED <<remote, out, ctx, running, parsing, scans, names, result>>

\* The network, or the keepalive of the client, tears the connection down.
Torn ==
  /\ net # "gone"
  /\ net' = "gone"
  /\ out' \in Cuts(out)
  /\ UNCHANGED <<remote, ctx, running, parsing, scans, names, result>>

Cancel ==
  /\ ~ctx
  /\ ctx' = TRUE
  /\ UNCHANGED <<remote, out, net, running, parsing, scans, names, result>>

-----------------------------------------------------------------------------
(***************************************************************************)
(* The runner (Client.Run).  Its context is cancelled with the round, or   *)
(* by the parser that stops.                                               *)
(***************************************************************************)
\* Mutant: a parser that stops leaves the session alone.
RunCancelledByRoundOnly == ctx

RunCancelled == ctx \/ parser = "gone"

Return(err) == runner' = "returned" /\ runErr' = err

\* What waits in the pipe is parsed, or nobody takes it any more.
Copied == out = << >> \/ parser = "gone"

\* NewSession and Start: the host may refuse a session, and a silent
\* connection answers nothing.
Starts ==
  /\ runner = "opening"
  /\ \/ /\ net = "up"
        /\ runner' = "streaming"
        /\ script' = "starting"
        /\ UNCHANGED runErr
     \/ /\ net # "silent"
        /\ Return("failed")
        /\ UNCHANGED script
  /\ UNCHANGED <<tool, finished, out, net, ctx, parsing, scans, names,
                 result>>

\* The session is closed, and its end awaited.
Closing ==
  /\ runner = "streaming"
  /\ RunCancelled
  /\ runner' = "closing"
  /\ out' \in Cuts(out)
  /\ UNCHANGED <<remote, net, ctx, runErr, parsing, scans, names, result>>

Closed ==
  /\ runner = "closing"
  /\ net # "silent"
  /\ Copied
  /\ Return("cancelled")
  /\ UNCHANGED <<remote, out, net, ctx, parsing, scans, names, result>>

\* The connection is lost; what was under way may not arrive.
Lost ==
  /\ runner = "streaming"
  /\ net = "gone"
  /\ Return("lost")
  /\ out' \in Cuts(out)
  /\ UNCHANGED <<remote, net, ctx, parsing, scans, names, result>>

\* The session ended: with the script, or with the connection.  Copying its
\* output fails once the parser is gone.
Ends ==
  /\ runner = "streaming"
  /\ net # "silent"
  /\ Copied
  /\ \/ net = "up" /\ script = "exited" /\ Return("nil")
     \/ script = "exited" /\ parser = "gone" /\ Return("failed")
     \/ (script = "failed" \/ net = "gone") /\ Return("failed")
  /\ UNCHANGED <<remote, out, net, ctx, parsing, scans, names, result>>

-----------------------------------------------------------------------------
(***************************************************************************)
(* The parser (consume).                                                   *)
(***************************************************************************)
Stop(err) == parser' = "gone" /\ parseErr' = err

\* The context is looked at after each line.
GoOn ==
  IF RunCancelled THEN Stop("cancelled") ELSE UNCHANGED <<parser, parseErr>>

Line(kind) ==
  /\ parser = "reading"
  /\ out # << >>
  /\ Head(out).kind = kind
  /\ out' = Tail(out)

ReadError ==
  /\ Line("error")
  /\ Stop("remote")
  /\ UNCHANGED <<remote, net, ctx, running, mode, section, body, sockMap, scans,
                 names, result>>

ReadReady ==
  /\ Line("ready")
  /\ mode' = tool
  /\ GoOn
  /\ UNCHANGED <<remote, net, ctx, running, section, body, sockMap, scans, names,
                 result>>

\* Mutant: a scan adds to the one before.
EmptiedNever(part) == part

Emptied(part) == Nothing

ReadScan ==
  /\ Line("scan")
  /\ section' = "body"
  /\ body' = Emptied(body)
  /\ sockMap' = Emptied(sockMap)
  /\ GoOn
  /\ UNCHANGED <<remote, net, ctx, running, mode, scans, names, result>>

ReadSockMap ==
  /\ Line("sockmap")
  /\ section' = "sockmap"
  /\ GoOn
  /\ UNCHANGED <<remote, net, ctx, running, mode, body, sockMap, scans, names,
                 result>>

ReadText ==
  LET text == Head(out).text
  IN  /\ Line("text")
      /\ body' = IF section = "body" THEN Join(body, text) ELSE body
      /\ sockMap' = IF section = "sockmap" THEN Join(sockMap, text) ELSE sockMap
      /\ GoOn
      /\ UNCHANGED <<remote, net, ctx, running, mode, section, scans, names,
                     result>>

\* build
Build ==
  IF mode = "proc" THEN [body EXCEPT !.owners = body.ports \cap sockMap.owners]
                   ELSE body

\* Mutant: a process is asked for until it is resolved.
NeededUnmarked(snap) == snap.owners \ resolved

Needed(snap) == snap.owners \ (resolved \cup unknown)

\* The scan is complete: it is delivered, and its new processes looked up.
ReadEnd ==
  LET need == Needed(Build)
  IN  /\ Line("end")
      /\ section # "none"
      /\ section' = "none"
      /\ scans' = Append(scans, Build)
      /\ unknown' = unknown \cup need
      /\ lookups' = IF need = {} THEN lookups ELSE lookups \cup {need}
      /\ GoOn
      /\ UNCHANGED <<remote, net, ctx, running, mode, body, sockMap, resolved,
                     omitted, result>>

\* A mode nobody knows, or a line that is longer than the parser takes: what
\* begins with it is not parsed.
ReadGarbled ==
  /\ parser = "reading"
  /\ out # << >>
  /\ Head(out).kind \in {"ready", "text"}
  /\ Stop("unreadable")
  /\ UNCHANGED <<remote, out, net, ctx, running, mode, section, body, sockMap,
                 scans, names, result>>

\* The pipe ends with the runner.
ReadEOF ==
  /\ parser = "reading"
  /\ runner = "returned"
  /\ out = << >>
  /\ Stop(IF mode = "none" THEN "no output" ELSE "eof")
  /\ UNCHANGED <<remote, out, net, ctx, running, mode, section, body, sockMap,
                 scans, names, result>>

-----------------------------------------------------------------------------
(***************************************************************************)
(* A lookup (resolve), after the round too.  It asks for the command lines *)
(* of several processes at once; those that have ended, and those the host *)
(* tells nothing about, are left out of the answer.                        *)
(***************************************************************************)
LookupAnswered(l) ==
  /\ l \in lookups
  /\ net = "up"
  /\ lookups' = lookups \ {l}
  /\ \E found \in SUBSET l : /\ resolved' = resolved \cup found
                             /\ omitted' = omitted \cup (l \ found)
  /\ UNCHANGED <<remote, out, net, ctx, running, parsing, scans, unknown, result>>

\* Mutant: what a lookup could not learn stays marked.
LookupFailsMarked(l) ==
  /\ l \in lookups
  /\ net # "silent"
  /\ lookups' = lookups \ {l}
  /\ UNCHANGED <<remote, out, net, ctx, running, parsing, scans, resolved, unknown,
                 omitted, result>>

\* A timeout, the end of the program or of the connection.
LookupFails(l) ==
  /\ l \in lookups
  /\ net # "silent"
  /\ lookups' = lookups \ {l}
  /\ unknown' = unknown \ l
  /\ UNCHANGED <<remote, out, net, ctx, running, parsing, scans, resolved, omitted,
                 result>>

-----------------------------------------------------------------------------
\* Mutant: the runner's error goes before the parser's.
ReasonOfTheRunner ==
  IF runErr # "nil" THEN runErr ELSE parseErr

Reason ==
  IF parseErr # "eof" THEN parseErr
  ELSE IF runErr # "nil" THEN runErr
  ELSE "eof"

\* Monitor.Run returns, once both sides are through.
Finish ==
  /\ result = "running"
  /\ runner = "returned"
  /\ parser = "gone"
  /\ result' = Reason
  /\ UNCHANGED <<remote, out, net, ctx, running, parsing, scans, names>>

Ended == result # "running" /\ UNCHANGED vars

Init ==
  /\ tool \in Tools \cup {"none"}
  /\ script = "unstarted"
  /\ out = << >>
  /\ finished = << >>
  /\ net = "up"
  /\ ctx = FALSE
  /\ runner = "opening"
  /\ runErr = "none"
  /\ parser = "reading"
  /\ parseErr = "none"
  /\ mode = "none"
  /\ section = "none"
  /\ body = Nothing
  /\ sockMap = Nothing
  /\ scans = << >>
  /\ resolved = {}
  /\ unknown = {}
  /\ lookups = {}
  /\ omitted = {}
  /\ result = "running"

Script == ScriptAnnounces \/ ScriptGivesUp \/ ScriptScans \/ ScriptExits
Runner == Starts \/ Closing \/ Closed \/ Lost \/ Ends
Parser ==
  \/ ReadError \/ ReadReady \/ ReadScan \/ ReadSockMap \/ ReadText \/ ReadEnd
  \/ ReadGarbled \/ ReadEOF

Next ==
  \/ Script
  \/ FallsSilent
  \/ Torn
  \/ Cancel
  \/ Runner
  \/ Parser
  \/ \E l \in SUBSET Pids : LookupAnswered(l) \/ LookupFails(l)
  \/ Finish
  \/ Ended

Spec == Init /\ [][Next]_vars

(***************************************************************************)
(* Runner, parser and Monitor.Run are goroutines that go on when they can. *)
(* The keepalive tears down a connection that fell silent (module          *)
(* Supervisor).  Nothing obliges the script or a lookup to come to an end. *)
(***************************************************************************)
Fairness ==
  /\ WF_vars(Runner)
  /\ WF_vars(Parser)
  /\ WF_vars(Finish)
  /\ WF_vars(net = "silent" /\ Torn)

FairSpec == Spec /\ Fairness

-----------------------------------------------------------------------------
(***************************************************************************)
(* Every variable keeps its shape, the parser believes the mode the script *)
(* has, both sides have a reason when they are through, and the owners a   *)
(* scan names are of ports it lists.                                       *)
(***************************************************************************)
Lines ==
  [kind : {"ready", "error", "scan", "text", "sockmap", "end"}, text : Snapshot]

TypeOK ==
  /\ tool \in Tools \cup {"none"}
  /\ script \in {"unstarted", "starting", "scanning", "hanging", "exited", "failed"}
  /\ out \in Seq(Lines)
  /\ finished \in Seq(Snapshot) /\ scans \in Seq(Snapshot)
  /\ net \in {"up", "silent", "gone"}
  /\ ctx \in BOOLEAN
  /\ runner \in {"opening", "streaming", "closing", "returned"}
  /\ runErr \in {"none", "nil", "failed", "lost", "cancelled"}
  /\ (runner = "returned") <=> (runErr # "none")
  /\ parser \in {"reading", "gone"}
  /\ parseErr \in {"none", "remote", "unreadable", "cancelled", "no output", "eof"}
  /\ (parser = "gone") <=> (parseErr # "none")
  /\ mode \in {"none", tool}
  /\ section \in {"none", "body", "sockmap"}
  /\ body \in Snapshot /\ sockMap \in Snapshot
  /\ resolved \subseteq Pids /\ unknown \subseteq Pids /\ omitted \subseteq Pids
  /\ lookups \subseteq SUBSET Pids
  /\ result \in {"running", "remote", "unreadable", "cancelled", "no output", "lost",
                 "failed", "eof"}

(***************************************************************************)
(* Wherever the script, the session or the connection is cut off, what     *)
(* reaches the manager are scans the script completed, each whole and      *)
(* once, in order: a truncated scan would close the tunnels it misses.     *)
(***************************************************************************)
ScansArriveWhole ==
  /\ Len(scans) <= Len(finished)
  /\ scans = SubSeq(finished, 1, Len(scans))

(***************************************************************************)
(* "resolved once per pid" (monitor.go:38): however lookups, their         *)
(* failures and the scans interleave, nobody asks for a process that       *)
(* another lookup asks for, or whose command line is known.                *)
(***************************************************************************)
LookupsDoNotOverlap ==
  \A l \in lookups :
    /\ l \cap resolved = {}
    /\ \A m \in lookups : l = m \/ l \cap m = {}

(***************************************************************************)
(* A failed lookup allows "a retry on a later scan" (monitor.go:228):      *)
(* every process a scan names has its command line by then, or is being    *)
(* asked for, or an answer said nothing about it, whatever lookups failed  *)
(* before and are under way.                                               *)
(***************************************************************************)
ScansAskForNames ==
  [][scans' # scans =>
       scans'[Len(scans')].owners \subseteq resolved' \cup (UNION lookups') \cup omitted']_vars

(***************************************************************************)
(* The parser and the session stop each other, and what Run returns has    *)
(* its cause: a cancellation only if the program cancelled, a clean end    *)
(* ("a clean remote exit is reported as io.EOF", monitor.go:65) only if    *)
(* the script exited so and all its scans arrived.                         *)
(***************************************************************************)
ResultsNameTheCause ==
  /\ result = "cancelled" => ctx
  /\ result = "remote" => tool = "none"
  /\ result = "eof" => script = "exited" /\ scans = finished

(***************************************************************************)
(* "Without this, a remote that reports an error and then holds the        *)
(* session open would hang here forever" (monitor.go:70): Run returns when *)
(* the program cancels it, the script or the connection ends, or the       *)
(* parser gives up.                                                        *)
(***************************************************************************)
RunReturns ==
  (ctx \/ net # "up" \/ parser = "gone" \/ script \in {"exited", "failed"})
    ~> result # "running"

(***************************************************************************)
(* "pids awaiting resolution" (monitor.go:39): a process is marked as      *)
(* looked up while a lookup is under way, or because it was resolved.      *)
(***************************************************************************)
MarkedProcessesAreAwaited == unknown \subseteq resolved \cup UNION lookups
=============================================================================
