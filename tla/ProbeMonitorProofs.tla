------------------------- MODULE ProbeMonitorProofs -------------------------
(***************************************************************************)
(* What a round of the monitor keeps, whatever the processes, the listings *)
(* and the number of scans: no two lookups ask for the same process, the   *)
(* scans that reach the manager are the script's, whole, once and in       *)
(* order, each asks for the names it lacks, and what the round returns has *)
(* its cause.                                                              *)
(***************************************************************************)
EXTENDS ProbeMonitor, Integers, TLAPS

(***************************************************************************)
(* The mark is what keeps the next scan from asking again: it lasts at     *)
(* least as long as the lookup.                                            *)
(***************************************************************************)
LookupsAreMarked == \A l \in lookups : l \subseteq unknown

LookupInv == LookupsAreMarked /\ LookupsDoNotOverlap

(***************************************************************************)
(* No lookup is under way when the round begins.                           *)
(***************************************************************************)
LEMMA LookupInit == Init => LookupInv
  BY DEF Init, LookupInv, LookupsAreMarked, LookupsDoNotOverlap

(***************************************************************************)
(* The end of a scan asks only for processes that are neither marked nor   *)
(* resolved, and marks them (build).                                       *)
(***************************************************************************)
LEMMA ScanKeepsLookupsApart ==
  ASSUME LookupInv, ReadEnd
  PROVE  LookupInv'
<1> DEFINE need == Needed(Build)
<1>1. /\ resolved' = resolved
      /\ unknown' = unknown \cup need
      /\ \A l \in lookups' : l \in lookups \/ l = need
  BY DEF ReadEnd
<1>2. need \cap resolved = {} /\ need \cap unknown = {}
  BY DEF Needed
<1> HIDE DEF need
<1>3. \A l \in lookups : l \cap need = {}
  BY <1>2 DEF LookupInv, LookupsAreMarked
<1>4. LookupsAreMarked'
  BY <1>1 DEF LookupInv, LookupsAreMarked
<1>5. LookupsDoNotOverlap'
  BY <1>1, <1>2, <1>3 DEF LookupInv, LookupsDoNotOverlap
<1> QED
  BY <1>4, <1>5 DEF LookupInv

(***************************************************************************)
(* An answer resolves only what its own lookup asked for.                  *)
(***************************************************************************)
LEMMA AnswerKeepsLookupsApart ==
  ASSUME LookupInv, NEW l, LookupAnswered(l)
  PROVE  LookupInv'
<1>1. PICK found \in SUBSET l : resolved' = resolved \cup found
  BY DEF LookupAnswered
<1>2. l \in lookups /\ lookups' = lookups \ {l} /\ unknown' = unknown
  BY DEF LookupAnswered
<1>3. \A m \in lookups' : m \in lookups /\ m \cap l = {}
  BY <1>2 DEF LookupInv, LookupsDoNotOverlap
<1>4. LookupsAreMarked'
  BY <1>2 DEF LookupInv, LookupsAreMarked
<1>5. LookupsDoNotOverlap'
  BY <1>1, <1>2, <1>3 DEF LookupInv, LookupsDoNotOverlap
<1> QED
  BY <1>4, <1>5 DEF LookupInv

(***************************************************************************)
(* A failure takes the marks of its own lookup only, which no other relies *)
(* on.                                                                     *)
(***************************************************************************)
LEMMA FailureKeepsLookupsApart ==
  ASSUME LookupInv, NEW l, LookupFails(l)
  PROVE  LookupInv'
<1>1. /\ l \in lookups /\ lookups' = lookups \ {l}
      /\ unknown' = unknown \ l /\ resolved' = resolved
  BY DEF LookupFails
<1>2. \A m \in lookups' : m \in lookups /\ m \cap l = {}
  BY <1>1 DEF LookupInv, LookupsDoNotOverlap
<1>3. LookupsAreMarked'
  BY <1>1, <1>2 DEF LookupInv, LookupsAreMarked
<1>4. LookupsDoNotOverlap'
  BY <1>1 DEF LookupInv, LookupsDoNotOverlap
<1> QED
  BY <1>3, <1>4 DEF LookupInv

(***************************************************************************)
(* Nothing else touches the names.                                         *)
(***************************************************************************)
LEMMA OthersKeepTheNames ==
  ASSUME \/ Script \/ FallsSilent \/ Torn \/ Cancel \/ Runner \/ Finish \/ Ended
         \/ ReadError \/ ReadReady \/ ReadScan \/ ReadSockMap \/ ReadText
         \/ ReadGarbled \/ ReadEOF
  PROVE  UNCHANGED names
<1>1. CASE Script
  BY <1>1 DEF Script, ScriptAnnounces, ScriptGivesUp, ScriptScans, ScriptExits, names
<1>2. CASE FallsSilent \/ Torn \/ Cancel \/ Finish
  BY <1>2 DEF FallsSilent, Torn, Cancel, Finish, names
<1>3. CASE Runner
  BY <1>3 DEF Runner, Starts, Closing, Closed, Lost, Ends, names
<1>4. CASE Ended
  BY <1>4 DEF Ended, vars, names
<1>5. CASE \/ ReadError \/ ReadReady \/ ReadScan \/ ReadSockMap \/ ReadText
           \/ ReadGarbled \/ ReadEOF
  BY <1>5 DEF ReadError, ReadReady, ReadScan, ReadSockMap, ReadText, ReadGarbled, ReadEOF,
              names
<1> QED
  BY <1>1, <1>2, <1>3, <1>4, <1>5

(***************************************************************************)
(* Every step keeps the lookups apart.                                     *)
(***************************************************************************)
LEMMA LookupStep == LookupInv /\ [Next]_vars => LookupInv'
<1> SUFFICES ASSUME LookupInv, [Next]_vars
             PROVE  LookupInv'
  OBVIOUS
<1>1. CASE ReadEnd
  BY <1>1, ScanKeepsLookupsApart
<1>2. CASE \E l \in SUBSET Pids : LookupAnswered(l)
  BY <1>2, AnswerKeepsLookupsApart
<1>3. CASE \E l \in SUBSET Pids : LookupFails(l)
  BY <1>3, FailureKeepsLookupsApart
<1>4. CASE UNCHANGED names
  BY <1>4 DEF LookupInv, LookupsAreMarked, LookupsDoNotOverlap, names
<1>5. UNCHANGED vars => UNCHANGED names
  BY DEF vars, names
<1> QED
  BY <1>1, <1>2, <1>3, <1>4, <1>5, OthersKeepTheNames DEF Next, Parser

(***************************************************************************)
(* "resolved once per pid" (monitor.go:38): no process is asked for twice  *)
(* at a time, or after it was resolved, in any round.                      *)
(***************************************************************************)
THEOREM OneLookupPerProcess == Spec => []LookupsDoNotOverlap
<1>1. LookupInv => LookupsDoNotOverlap
  BY DEF LookupInv
<1> QED
  BY <1>1, LookupInit, LookupStep, PTL DEF Spec

-----------------------------------------------------------------------------
(***************************************************************************)
(* The steps that take a line of the output, and those of the lookups.     *)
(***************************************************************************)
Reader == ReadError \/ ReadReady \/ ReadScan \/ ReadSockMap \/ ReadText \/ ReadEnd

Lookup == \E l \in SUBSET Pids : LookupAnswered(l) \/ LookupFails(l)

(***************************************************************************)
(* What a cut leaves of an output is a prefix of it.                       *)
(***************************************************************************)
LEMMA CutShape ==
  ASSUME NEW S, NEW s \in Seq(S), NEW t \in Cuts(s)
  PROVE  /\ t \in Seq(S)
         /\ Len(t) <= Len(s)
         /\ \A i \in 1..Len(t) : t[i] = s[i]
<1>1. PICK n \in 0..Len(s) : t = SubSeq(s, 1, n)
  BY DEF Cuts
<1> QED
  BY <1>1

(***************************************************************************)
(* What is appended to an output follows it.                               *)
(***************************************************************************)
LEMMA JoinShape ==
  ASSUME NEW S, NEW s \in Seq(S), NEW t \in Seq(S)
  PROVE  /\ Len(s) \in Nat /\ Len(t) \in Nat /\ Len(s \o t) = Len(s) + Len(t)
         /\ \A i \in 1..Len(s) : (s \o t)[i] = s[i]
         /\ \A i \in 1..Len(t) : (s \o t)[Len(s) + i] = t[i]
  OBVIOUS

(***************************************************************************)
(* The lines of a scan: three, or five with the socket map.                *)
(***************************************************************************)
Size == IF tool = "proc" THEN 5 ELSE 3

(***************************************************************************)
(* A scan of the script has that many lines, a mark first and last, and no *)
(* error between them.                                                     *)
(***************************************************************************)
LEMMA FrameShape ==
  ASSUME NEW snap \in Snapshot
  PROVE  /\ Frame(snap) \in Seq(Lines)
         /\ Len(Frame(snap)) = Size
         /\ Size \in {3, 5}
         /\ \A m \in 1..Size : /\ Frame(snap)[m] \in Lines
                               /\ Frame(snap)[m].kind \notin {"ready", "error"}
                               /\ (Frame(snap)[m].kind = "scan") <=> (m = 1)
                               /\ (Frame(snap)[m].kind = "end") <=> (m = Size)
                               /\ (Frame(snap)[m].kind = "sockmap") <=> (Size = 5 /\ m = 3)
                               /\ (Frame(snap)[m].kind = "text") <=> (m = 2 \/ (Size = 5 /\ m = 4))
         /\ Size = 3 => Frame(snap)[2].text = snap
         /\ Size = 5 => /\ Frame(snap)[2].text = [ports |-> snap.ports, owners |-> {}]
                        /\ Frame(snap)[4].text = [ports |-> {}, owners |-> snap.owners]
<1>1. /\ Nothing \in Snapshot
      /\ [ports |-> snap.ports, owners |-> {}] \in Snapshot
      /\ [ports |-> {}, owners |-> snap.owners] \in Snapshot
      /\ [ports |-> snap.ports, owners |-> snap.owners] = snap
  BY DEF Snapshot, Nothing
<1>2. \A kind \in {"scan", "sockmap", "end"} : Mark(kind) \in Lines /\ Mark(kind).kind = kind
  BY <1>1 DEF Mark, Lines
<1>3. /\ Text(snap.ports, {}) \in Lines /\ Text({}, snap.owners) \in Lines
      /\ Text(snap.ports, snap.owners) \in Lines
      /\ Text(snap.ports, {}).kind = "text" /\ Text({}, snap.owners).kind = "text"
      /\ Text(snap.ports, snap.owners).kind = "text"
      /\ Text(snap.ports, snap.owners).text = snap
      /\ Text(snap.ports, {}).text = [ports |-> snap.ports, owners |-> {}]
      /\ Text({}, snap.owners).text = [ports |-> {}, owners |-> snap.owners]
  BY <1>1 DEF Text, Lines
<1>4. CASE tool = "proc"
  BY <1>2, <1>3, <1>4 DEF Frame, Size
<1>5. CASE tool # "proc"
  BY <1>2, <1>3, <1>5 DEF Frame, Size
<1> QED
  BY <1>4, <1>5

-----------------------------------------------------------------------------
(***************************************************************************)
(* The types, in the groups the steps disturb.                             *)
(***************************************************************************)
RemoteTypes ==
  /\ tool \in Tools \cup {"none"}
  /\ script \in {"unstarted", "starting", "scanning", "hanging", "exited", "failed"}
  /\ out \in Seq(Lines)
  /\ finished \in Seq(Snapshot) /\ scans \in Seq(Snapshot)

SessionTypes ==
  /\ net \in {"up", "silent", "gone"}
  /\ ctx \in BOOLEAN
  /\ runner \in {"opening", "streaming", "closing", "returned"}
  /\ runErr \in {"none", "nil", "failed", "lost", "cancelled"}
  /\ (runner = "returned") <=> (runErr # "none")
  /\ result \in {"running", "remote", "unreadable", "cancelled", "no output", "lost",
                 "failed", "eof"}

ParserTypes ==
  /\ parser \in {"reading", "gone"}
  /\ parseErr \in {"none", "remote", "unreadable", "cancelled", "no output", "eof"}
  /\ (parser = "gone") <=> (parseErr # "none")
  /\ mode \in {"none", tool}
  /\ section \in {"none", "body", "sockmap"}
  /\ body \in Snapshot /\ sockMap \in Snapshot

NameTypes ==
  /\ resolved \subseteq Pids /\ unknown \subseteq Pids /\ omitted \subseteq Pids
  /\ lookups \subseteq SUBSET Pids

TypeInv == RemoteTypes /\ SessionTypes /\ ParserTypes /\ NameTypes

(***************************************************************************)
(* The groups are all of TypeOK.                                           *)
(***************************************************************************)
LEMMA Groups == TypeInv => TypeOK
  BY Zenon DEF TypeInv, TypeOK, RemoteTypes, SessionTypes, ParserTypes, NameTypes

(***************************************************************************)
(* What the parser builds of snapshots is a snapshot.                      *)
(***************************************************************************)
LEMMA PartsAreSnapshots ==
  ASSUME ParserTypes
  PROVE  /\ Nothing \in Snapshot /\ Build \in Snapshot
         /\ \A line \in Lines :
              Join(body, line.text) \in Snapshot /\ Join(sockMap, line.text) \in Snapshot
<1>1. body \in Snapshot /\ sockMap \in Snapshot
  BY DEF ParserTypes
<1>2. \A line \in Lines : line.text \in Snapshot
  BY DEF Lines
<1> QED
  BY <1>1, <1>2 DEF Nothing, Build, Join, Snapshot

(***************************************************************************)
(* The round begins with variables of their types.                         *)
(***************************************************************************)
LEMMA TypeInit == Init => TypeInv
<1>1. Nothing \in Snapshot
  BY DEF Nothing, Snapshot
<1>2. << >> \in Seq(Lines) /\ << >> \in Seq(Snapshot)
  OBVIOUS
<1> QED
  BY <1>1, <1>2 DEF Init, TypeInv, RemoteTypes, SessionTypes, ParserTypes, NameTypes

(***************************************************************************)
(* What the parser does with a line leaves all variables their types.      *)
(***************************************************************************)
LEMMA ReaderKeepsTypes ==
  ASSUME TypeInv, Reader
  PROVE  TypeInv'
<1> USE DEF TypeInv
<1>1. /\ parser = "reading" /\ parseErr = "none"
      /\ out \in Seq(Lines) /\ out # << >> /\ out' = Tail(out)
  BY DEF Reader, ReadError, ReadReady, ReadScan, ReadSockMap, ReadText, ReadEnd, Line,
         RemoteTypes, ParserTypes
<1>2. Head(out) \in Lines /\ out' \in Seq(Lines)
  BY <1>1
<1>3. GoOn \/ Stop("remote")
  BY DEF Reader, ReadError, ReadReady, ReadScan, ReadSockMap, ReadText, ReadEnd
<1>4. /\ UNCHANGED <<tool, script, finished>>
      /\ UNCHANGED <<net, ctx, runner, runErr, resolved, omitted, result>>
  BY DEF Reader, ReadError, ReadReady, ReadScan, ReadSockMap, ReadText, ReadEnd, names,
         remote, running
<1>5. CASE ReadEnd
  <2>1. Build \in Snapshot /\ Needed(Build) \subseteq Pids
    BY PartsAreSnapshots DEF Needed, Snapshot
  <2>2. scans' = Append(scans, Build) /\ section' = "none" /\ UNCHANGED <<mode, body, sockMap>>
    BY <1>5 DEF ReadEnd
  <2>3. unknown' \subseteq Pids /\ lookups' \subseteq SUBSET Pids
    BY <1>5, <2>1 DEF ReadEnd, NameTypes
  <2>4. RemoteTypes'
    BY <1>2, <1>4, <2>1, <2>2 DEF RemoteTypes
  <2>5. ParserTypes'
    BY <1>1, <1>3, <1>4, <2>2 DEF ParserTypes, GoOn, Stop
  <2> QED
    BY <1>4, <2>3, <2>4, <2>5 DEF SessionTypes, NameTypes
<1>6. CASE ReadError \/ ReadReady \/ ReadScan \/ ReadSockMap \/ ReadText
  <2>1. UNCHANGED <<scans, unknown, lookups>>
    BY <1>6 DEF ReadError, ReadReady, ReadScan, ReadSockMap, ReadText, names
  <2>2. mode' \in {mode, tool} /\ section' \in {section, "body", "sockmap"}
    BY <1>6 DEF ReadError, ReadReady, ReadScan, ReadSockMap, ReadText
  <2>3. body' \in Snapshot /\ sockMap' \in Snapshot
    <3>1. CASE ReadScan
      BY <3>1, PartsAreSnapshots DEF ReadScan, Emptied
    <3>2. CASE ReadText
      BY <3>2, <1>2, PartsAreSnapshots DEF ReadText, ParserTypes
    <3>3. CASE ReadError \/ ReadReady \/ ReadSockMap
      BY <3>3 DEF ReadError, ReadReady, ReadSockMap, ParserTypes
    <3> QED
      BY <1>6, <3>1, <3>2, <3>3
  <2>4. RemoteTypes'
    BY <1>2, <1>4, <2>1 DEF RemoteTypes
  <2>5. ParserTypes'
    BY <1>1, <1>3, <1>4, <2>2, <2>3 DEF ParserTypes, GoOn, Stop
  <2> QED
    BY <1>4, <2>1, <2>4, <2>5 DEF SessionTypes, NameTypes
<1> QED
  BY <1>5, <1>6 DEF Reader

(***************************************************************************)
(* So does what the script does.                                           *)
(***************************************************************************)
LEMMA ScriptKeepsTypes ==
  ASSUME TypeInv, Script
  PROVE  TypeInv'
<1> USE DEF TypeInv
<1>1. UNCHANGED <<tool, net, ctx, running, parsing, scans, names, result>>
  BY DEF Script, ScriptAnnounces, ScriptGivesUp, ScriptScans, ScriptExits
<1>2. script' \in {"scanning", "hanging", "exited", "failed"}
  BY DEF Script, ScriptAnnounces, ScriptGivesUp, ScriptScans, ScriptExits
<1>3. out' \in Seq(Lines) /\ finished' \in Seq(Snapshot)
  <2>1. CASE ScriptAnnounces \/ ScriptGivesUp
    <3>1. Mark("ready") \in Lines /\ Mark("error") \in Lines
      BY DEF Mark, Nothing, Lines, Snapshot
    <3>2. out \in Seq(Lines) /\ finished \in Seq(Snapshot)
      BY DEF RemoteTypes
    <3>3. /\ finished' = finished
          /\ out' = Append(out, Mark("ready")) \/ out' = Append(out, Mark("error"))
      BY <2>1 DEF ScriptAnnounces, ScriptGivesUp
    <3>4. \A line \in Lines : Append(out, line) \in Seq(Lines)
      BY <3>2
    <3> QED
      BY <3>1, <3>2, <3>3, <3>4
  <2>2. CASE ScriptScans
    <3>1. PICK snap \in Listings : finished' = Append(finished, snap) /\ out' = out \o Frame(snap)
      BY <2>2 DEF ScriptScans
    <3>2. snap \in Snapshot
      BY MonitorAssumption
    <3>3. Frame(snap) \in Seq(Lines)
      BY <3>2, FrameShape
    <3>4. out \in Seq(Lines) /\ finished \in Seq(Snapshot)
      BY DEF RemoteTypes
    <3>5. out' \in Seq(Lines)
      BY <3>1, <3>3, <3>4
    <3>6. finished' \in Seq(Snapshot)
      BY <3>1, <3>2, <3>4
    <3> QED
      BY <3>5, <3>6
  <2>3. CASE ScriptExits
    <3>1. PICK snap \in Listings : \E cut \in Cuts(Frame(snap)) : out' = out \o cut
      BY <2>3 DEF ScriptExits
    <3>2. PICK cut \in Cuts(Frame(snap)) : out' = out \o cut
      BY <3>1
    <3>3. cut \in Seq(Lines)
      BY <3>2, FrameShape, CutShape, MonitorAssumption
    <3>4. finished' = finished
      BY <2>3 DEF ScriptExits
    <3> QED
      BY <3>2, <3>3, <3>4 DEF RemoteTypes
  <2> QED
    BY <2>1, <2>2, <2>3 DEF Script
<1>4. RemoteTypes'
  BY <1>1, <1>2, <1>3 DEF RemoteTypes
<1>5. SessionTypes'
  BY <1>1 DEF SessionTypes, running
<1>6. ParserTypes'
  BY <1>1 DEF ParserTypes, parsing
<1>7. NameTypes'
  BY <1>1 DEF NameTypes, names
<1> QED
  BY <1>4, <1>5, <1>6, <1>7

(***************************************************************************)
(* And so do the connection, the context and the session.                  *)
(***************************************************************************)
LEMMA SessionKeepsTypes ==
  ASSUME TypeInv, FallsSilent \/ Torn \/ Cancel \/ Runner
  PROVE  TypeInv'
<1> USE DEF TypeInv
<1>1. UNCHANGED <<tool, finished, scans, parsing, names, result>>
  BY DEF FallsSilent, Torn, Cancel, Runner, Starts, Closing, Closed, Lost, Ends, remote
<1>2. script' \in {script, "starting"}
  BY DEF FallsSilent, Torn, Cancel, Runner, Starts, Closing, Closed, Lost, Ends, remote
<1>3. out' = out \/ out' \in Cuts(out)
  BY DEF FallsSilent, Torn, Cancel, Runner, Starts, Closing, Closed, Lost, Ends
<1>4. out' \in Seq(Lines)
  BY <1>3, CutShape DEF RemoteTypes
<1>5. RemoteTypes'
  BY <1>1, <1>2, <1>4 DEF RemoteTypes
<1>6. net' \in {net, "silent", "gone"} /\ ctx' \in {ctx, TRUE}
  BY DEF FallsSilent, Torn, Cancel, Runner, Starts, Closing, Closed, Lost, Ends
<1>7. \/ UNCHANGED running
      \/ runner' \in {"streaming", "closing"} /\ runner # "returned" /\ UNCHANGED runErr
      \/ runner' = "returned" /\ runErr' \in {"nil", "failed", "lost", "cancelled"}
  BY DEF FallsSilent, Torn, Cancel, Runner, Starts, Closing, Closed, Lost, Ends, Return
<1>8. SessionTypes'
  BY <1>1, <1>6, <1>7 DEF SessionTypes, running
<1>9. ParserTypes'
  BY <1>1 DEF ParserTypes, parsing
<1>10. NameTypes'
  BY <1>1 DEF NameTypes, names
<1> QED
  BY <1>5, <1>8, <1>9, <1>10

(***************************************************************************)
(* And so do the end of the pipe, the lookups and the end of the round.    *)
(***************************************************************************)
LEMMA EndKeepsTypes ==
  ASSUME TypeInv, ReadGarbled \/ ReadEOF \/ Lookup \/ Finish \/ UNCHANGED vars
  PROVE  TypeInv'
<1> USE DEF TypeInv
<1>1. UNCHANGED <<remote, out, net, ctx, running, scans>>
  BY DEF ReadGarbled, ReadEOF, Lookup, LookupAnswered, LookupFails, Finish, vars
<1>2. RemoteTypes'
  BY <1>1 DEF RemoteTypes, remote
<1>3. \/ UNCHANGED parsing
      \/ (ReadGarbled \/ ReadEOF) /\ UNCHANGED <<mode, section, body, sockMap>>
  BY DEF ReadGarbled, ReadEOF, Lookup, LookupAnswered, LookupFails, Finish, vars
<1>4. ParserTypes'
  BY <1>1, <1>3 DEF ParserTypes, ReadGarbled, ReadEOF, Stop, parsing, remote
<1>5. NameTypes'
  BY DEF NameTypes, ReadGarbled, ReadEOF, Lookup, LookupAnswered, LookupFails, Finish, vars, names
<1>6. result' = result \/ result' = Reason
  BY DEF ReadGarbled, ReadEOF, Lookup, LookupAnswered, LookupFails, Finish, vars
<1>7. (result = "running" /\ parser = "gone" /\ runner = "returned") \/ result' = result
  BY DEF ReadGarbled, ReadEOF, Lookup, LookupAnswered, LookupFails, Finish, vars
<1>8. SessionTypes'
  BY <1>1, <1>6, <1>7 DEF SessionTypes, ParserTypes, Reason, running
<1> QED
  BY <1>2, <1>4, <1>5, <1>8

(***************************************************************************)
(* Every step leaves the variables their types.                            *)
(***************************************************************************)
LEMMA TypeStep == TypeInv /\ [Next]_vars => TypeInv'
  BY ReaderKeepsTypes, ScriptKeepsTypes, SessionKeepsTypes, EndKeepsTypes
     DEF Next, Parser, Reader, Lookup, Ended

(***************************************************************************)
(* The types hold in any round, and with them what they say of the mode    *)
(* and of the reasons of both sides.                                       *)
(***************************************************************************)
THEOREM Types == Spec => []TypeOK
  BY TypeInit, TypeStep, Groups, PTL DEF Spec

-----------------------------------------------------------------------------
(***************************************************************************)
(* The output as the parser finds it.  Of the scan it is in, j lines were  *)
(* read, none between two scans, and minus one before the script announced *)
(* itself.  The lines that wait are those that follow in the script's      *)
(* output, which is the scans it completed and a last one it may have been *)
(* cut off in.                                                             *)
(***************************************************************************)
Sound == {snap \in Snapshot : snap.owners \subseteq snap.ports}

Layout(L, snap) ==
  IF L = 5
    THEN << Mark("scan"), Text(snap.ports, {}), Mark("sockmap"),
            Text({}, snap.owners), Mark("end") >>
    ELSE << Mark("scan"), Text(snap.ports, snap.owners), Mark("end") >>

\* The line m of the scan that k others precede.
Place(L, k, m) == IF L = 5 THEN 5 * k + m ELSE 3 * k + m

\* The sequences s and t agree on their first n elements.
Alike(s, t, n) == \A i \in 1..n : s[i] = t[i]

\* The lines continue the frames of story, j lines into the one after the
\* first s.
Carries(L, lines, j, story, s) ==
  \A k \in Nat, m \in 1..L :
    Place(L, k, m) - j \in 1..Len(lines) =>
      lines[Place(L, k, m) - j] = Layout(L, story[s + k + 1])[m]

(***************************************************************************)
(* The layout is what the script writes.                                   *)
(***************************************************************************)
LEMMA FrameLayout == \A snap : Frame(snap) = Layout(Size, snap)
  BY DEF Frame, Layout, Size

(***************************************************************************)
(* The lines of a scan follow the end of those before it.                  *)
(***************************************************************************)
LEMMA PlaceOf ==
  ASSUME NEW L \in {3, 5}, NEW k \in Int, NEW m \in Int
  PROVE  /\ Place(L, k, m) \in Int
         /\ Place(L, k, m) = Place(L, k, 0) + m
         /\ Place(L, k, 0) \in Int
         /\ k = 0 => Place(L, k, 0) = 0
         /\ k > 0 => Place(L, k, 0) >= L
<1>1. CASE L = 3
  BY <1>1 DEF Place
<1>2. CASE L = 5
  BY <1>2 DEF Place
<1> QED
  BY <1>1, <1>2

(***************************************************************************)
(* A line before the end of d scans is of one of them, and one of the      *)
(* lines that follow their end is of the next.                             *)
(***************************************************************************)
LEMMA WhichScan ==
  ASSUME NEW L \in {3, 5}, NEW k \in Nat, NEW d \in Nat, NEW m \in 1..L
  PROVE  /\ Place(L, k, m) \in Nat /\ Place(L, d, 0) \in Nat
         /\ Place(L, k, m) <= Place(L, d, 0) => k < d
         /\ Place(L, k, m) - Place(L, d, 0) \in 1..L =>
              k = d /\ m = Place(L, k, m) - Place(L, d, 0)
<1>1. CASE L = 3
  BY <1>1 DEF Place
<1>2. CASE L = 5
  BY <1>2 DEF Place
<1> QED
  BY <1>1, <1>2

(***************************************************************************)
(* Taking a line inside a scan moves the parser on in it.                  *)
(***************************************************************************)
LEMMA CarriesTail ==
  ASSUME NEW L \in {3, 5}, NEW lines \in Seq(Lines), lines # << >>,
         NEW j \in (-1)..(L - 1), NEW story, NEW s \in Nat, Carries(L, lines, j, story, s)
  PROVE  Carries(L, Tail(lines), j + 1, story, s)
<1> SUFFICES ASSUME NEW k \in Nat, NEW m \in 1..L,
                    Place(L, k, m) - (j + 1) \in 1..Len(Tail(lines))
             PROVE  Tail(lines)[Place(L, k, m) - (j + 1)] = Layout(L, story[s + k + 1])[m]
  BY DEF Carries
<1>0. L \in Int /\ k \in Int /\ m \in Int
  OBVIOUS
<1>1. Place(L, k, m) \in Int
  BY <1>0, PlaceOf
<1> DEFINE i == Place(L, k, m) - (j + 1)
<1>2. i \in 1..Len(Tail(lines)) /\ Place(L, k, m) - j = i + 1
  BY <1>1
<1> HIDE DEF i
<1>3. Len(Tail(lines)) = Len(lines) - 1 /\ Tail(lines)[i] = lines[i + 1] /\ i + 1 \in 1..Len(lines)
  BY <1>2
<1>4. lines[i + 1] = Layout(L, story[s + k + 1])[m]
  BY <1>2, <1>3 DEF Carries
<1> QED
  BY <1>3, <1>4 DEF i

(***************************************************************************)
(* Taking the last line of a scan moves it on to the next.                 *)
(***************************************************************************)
LEMMA CarriesNext ==
  ASSUME NEW L \in {3, 5}, NEW lines, NEW story, NEW s \in Nat,
         Carries(L, lines, L, story, s)
  PROVE  Carries(L, lines, 0, story, s + 1)
<1> SUFFICES ASSUME NEW k \in Nat, NEW m \in 1..L, Place(L, k, m) - 0 \in 1..Len(lines)
             PROVE  lines[Place(L, k, m) - 0] = Layout(L, story[s + 1 + k + 1])[m]
  BY DEF Carries
<1>0. L \in Int /\ k \in Int /\ m \in Int
  OBVIOUS
<1>3. k + 1 \in Nat /\ s + (k + 1) + 1 = s + 1 + k + 1
  OBVIOUS
<1>1. Place(L, k + 1, m) - L = Place(L, k, m) - 0
  <2>1. Place(L, k, m) \in Int
    BY <1>0, PlaceOf
  <2>2. Place(L, k + 1, m) = Place(L, k, m) + L
    <3> DEFINE q == k + 1
    <3>1. q \in Int /\ q = k + 1
      BY <1>0
    <3> HIDE DEF q
    <3>2. Place(L, q, m) = Place(L, k, m) + L
      <4>1. CASE L = 3
        BY <1>0, <3>1, <4>1 DEF Place
      <4>2. CASE L = 5
        BY <1>0, <3>1, <4>2 DEF Place
      <4> QED
        BY <4>1, <4>2
    <3> QED
      BY <3>2 DEF q
  <2> QED
    BY <1>0, <2>1, <2>2
<1>2. lines[Place(L, k + 1, m) - L] = Layout(L, story[s + (k + 1) + 1])[m]
  BY <1>1, <1>3 DEF Carries
<1> QED
  BY <1>1, <1>2, <1>3

(***************************************************************************)
(* What is left of an output that is cut is at its place.                  *)
(***************************************************************************)
LEMMA CarriesCut ==
  ASSUME NEW L \in {3, 5}, NEW lines \in Seq(Lines), NEW cut \in Cuts(lines),
         NEW j \in (-1)..(L - 1), NEW story, NEW s \in Nat, Carries(L, lines, j, story, s)
  PROVE  Carries(L, cut, j, story, s)
<1>1. cut \in Seq(Lines) /\ Len(cut) <= Len(lines) /\ \A i \in 1..Len(cut) : cut[i] = lines[i]
  BY CutShape
<1> SUFFICES ASSUME NEW k \in Nat, NEW m \in 1..L, Place(L, k, m) - j \in 1..Len(cut)
             PROVE  cut[Place(L, k, m) - j] = Layout(L, story[s + k + 1])[m]
  BY DEF Carries
<1>2. Place(L, k, m) - j \in 1..Len(lines)
  BY <1>1
<1> QED
  BY <1>1, <1>2 DEF Carries

(***************************************************************************)
(* What the script appends when everything it wrote before has its place:  *)
(* a scan, or the part of one, follows the scans it completed.             *)
(***************************************************************************)
LEMMA CarriesMore ==
  ASSUME NEW L \in {3, 5}, NEW lines \in Seq(Lines), NEW j \in (-1)..(L - 1),
         NEW story, NEW later, NEW s \in Nat, NEW d \in Nat,
         Len(lines) + j = Place(L, d, 0),
         Carries(L, lines, j, story, s),
         Alike(later, story, s + d),
         NEW piece \in Seq(Lines), Len(piece) <= L,
         Alike(piece, Layout(L, later[s + d + 1]), Len(piece))
  PROVE  Carries(L, lines \o piece, j, later, s)
<1> DEFINE p(k, m) == Place(L, k, m)
           e == Place(L, d, 0)
<1>1. \A k \in Nat, m \in 1..L :
        /\ p(k, m) \in Nat /\ e \in Nat
        /\ p(k, m) <= e => k < d
        /\ p(k, m) - e \in 1..L => k = d /\ m = p(k, m) - e
  BY WhichScan
<1> SUFFICES ASSUME NEW k \in Nat, NEW m \in 1..L, p(k, m) - j \in 1..Len(lines \o piece)
             PROVE  (lines \o piece)[p(k, m) - j] = Layout(L, later[s + k + 1])[m]
  BY DEF Carries
<1>10. j \in Int /\ p(k, m) \in Int
  BY <1>1
<1>2. PICK i \in Int : i = p(k, m) - j
  BY <1>10
<1>3. Carries(L, lines, j, story, s) /\ i \in 1..Len(lines) =>
        lines[i] = Layout(L, story[s + k + 1])[m]
  BY <1>2 DEF Carries
<1>4. /\ p(k, m) \in Nat /\ e \in Nat
      /\ p(k, m) <= e => k < d
      /\ p(k, m) - e \in 1..L => k = d /\ m = p(k, m) - e
      /\ Len(lines) + j = e
  BY <1>1
<1> HIDE DEF p, e
<1>5. /\ Len(lines) \in Nat /\ Len(piece) \in Nat /\ j \in Int /\ L \in Int
      /\ Len(lines \o piece) = Len(lines) + Len(piece)
  BY JoinShape
<1>6. i \in 1..(Len(lines) + Len(piece))
  BY <1>2, <1>5
<1>7. p(k, m) = i + j
  BY <1>2, <1>10
<1>8. CASE i <= Len(lines)
  <2>1. k < d
    BY <1>4, <1>5, <1>6, <1>7, <1>8
  <2>2. s + k + 1 \in 1..(s + d)
    BY <2>1
  <2>3. i \in 1..Len(lines)
    BY <1>5, <1>6, <1>8
  <2>4. (lines \o piece)[i] = lines[i]
    BY <2>3, JoinShape
  <2> QED
    BY <1>2, <1>3, <2>2, <2>3, <2>4 DEF Alike
<1>9. CASE i > Len(lines)
  <2>1. p(k, m) - e = i - Len(lines) /\ i - Len(lines) \in 1..Len(piece)
    <3>1. i \in Int /\ i - Len(lines) \in 1..Len(piece)
      BY <1>5, <1>6, <1>9
    <3>2. e = Len(lines) + j /\ p(k, m) = i + j
      BY <1>4, <1>7
    <3> QED
      BY <1>5, <3>1, <3>2
  <2>2. i - Len(lines) \in 1..L
    BY <1>5, <2>1
  <2>3. k = d /\ m = i - Len(lines)
    BY <1>4, <2>1, <2>2
  <2>4. m \in 1..Len(piece) /\ i = Len(lines) + m
    BY <1>5, <1>6, <2>1, <2>3
  <2>5. (lines \o piece)[i] = piece[m]
    <3>1. \A r \in 1..Len(piece) : (lines \o piece)[Len(lines) + r] = piece[r]
      BY JoinShape
    <3> QED
      BY <2>4, <3>1
  <2> QED
    BY <1>2, <2>3, <2>4, <2>5 DEF Alike
<1> QED
  BY <1>5, <1>6, <1>8, <1>9

-----------------------------------------------------------------------------
(***************************************************************************)
(* A script that did not announce itself wrote nothing, and one without a  *)
(* tool no more than its error.                                            *)
(***************************************************************************)
StartInv ==
  /\ runner = "opening" => script = "unstarted"
  /\ script \in {"unstarted", "starting"} =>
       out = << >> /\ finished = << >> /\ scans = << >> /\ mode = "none"
  /\ tool = "none" =>
       /\ Len(out) <= 1 /\ \A i \in 1..Len(out) : out[i].kind = "error"
       /\ finished = << >> /\ scans = << >> /\ mode = "none" /\ script # "scanning"
  /\ tool # "none" => script # "hanging"
  /\ finished \in Seq(Sound)

(***************************************************************************)
(* What the parser has of the scan it is in, after j lines of it.          *)
(***************************************************************************)
Parsed(j, snap) ==
  IF Size = 5
    THEN /\ j \in {1, 2} => section = "body"
         /\ j \in {3, 4} => section = "sockmap"
         /\ j = 1 => body = Nothing
         /\ j \in {2, 3, 4} => body = [ports |-> snap.ports, owners |-> {}]
         /\ j \in {1, 2, 3} => sockMap = Nothing
         /\ j = 4 => sockMap = [ports |-> {}, owners |-> snap.owners]
    ELSE /\ j \in {1, 2} => section = "body"
         /\ j = 1 => body = Nothing
         /\ j = 2 => body = snap

(***************************************************************************)
(* How far the output reaches: never past the scan the script is in; and   *)
(* as long as nothing was cut, to the end of the scans it completed.       *)
(***************************************************************************)
Uncut == net # "gone" /\ runner = "streaming"

Reach(j) ==
  /\ Len(out) + j < Place(Size, Len(finished) - Len(scans) + 1, 0)
  /\ Uncut /\ script = "scanning" =>
       Len(out) + j = Place(Size, Len(finished) - Len(scans), 0)
  /\ Uncut /\ script = "exited" =>
       Len(finished) = Len(scans) \/ Len(out) + j >= Place(Size, Len(finished) - Len(scans), 0)

Reads(j, tail) ==
  /\ Len(scans) <= Len(finished)
  /\ \A i \in 1..Len(scans) : scans[i] = finished[i]
  /\ Carries(Size, out, j, Append(finished, tail), Len(scans))
  /\ Reach(j)
  /\ j = -1 => /\ Len(scans) = 0 /\ mode = "none"
               /\ out # << >> => Head(out) = Mark("ready")
  /\ j >= 0 => mode = tool
  /\ Parsed(j, Append(finished, tail)[Len(scans) + 1])

StreamInv == tool # "none" => \E j \in (-1)..(Size - 1), tail \in Sound : Reads(j, tail)

(***************************************************************************)
(* What the script may list, and what it may be cut off in.                *)
(***************************************************************************)
LEMMA Soundness == Listings \subseteq Sound /\ Sound \subseteq Snapshot /\ Nothing \in Sound
  BY MonitorAssumption DEF Sound, Nothing, Snapshot

(***************************************************************************)
(* The round begins before the script, with nothing read.                  *)
(***************************************************************************)
LEMMA StartInit == Init => StartInv
  BY DEF Init, StartInv

(***************************************************************************)
(* The script keeps the beginning: it announces itself before it scans.    *)
(***************************************************************************)
LEMMA ScriptKeepsStart ==
  ASSUME TypeInv, StartInv, Script
  PROVE  StartInv'
<1>1. CASE ScriptAnnounces
  BY <1>1 DEF ScriptAnnounces, StartInv, Works, running, parsing
<1>2. CASE ScriptGivesUp
  <2>1. Len(out') = 1 /\ out'[1].kind = "error"
    BY <1>2 DEF ScriptGivesUp, StartInv, Mark
  <2> QED
    BY <1>2, <2>1 DEF ScriptGivesUp, StartInv, Works, running, parsing
<1>3. CASE ScriptScans
  <2>1. finished' \in Seq(Sound)
    BY <1>3, Soundness DEF ScriptScans, StartInv
  <2> QED
    BY <1>3, <2>1 DEF ScriptScans, StartInv, Works, running
<1>4. CASE ScriptExits
  <2>1. tool = "none" => out' = out
    <3> SUFFICES ASSUME tool = "none" PROVE out' = out
      OBVIOUS
    <3>1. out' = out \o << >>
      BY <1>4 DEF ScriptExits, StartInv
    <3>2. out \in Seq(Lines)
      BY DEF TypeInv, RemoteTypes
    <3> QED
      BY <3>1, <3>2
  <2>2. /\ script' \in {"exited", "failed"} /\ runner = "streaming"
        /\ UNCHANGED <<tool, finished, scans, mode, runner>>
    BY <1>4 DEF ScriptExits, Works, parsing, running
  <2> QED
    BY <2>1, <2>2 DEF StartInv
<1> QED
  BY <1>1, <1>2, <1>3, <1>4 DEF Script

(***************************************************************************)
(* The parser keeps it: it finds no line before the script announced       *)
(* itself, and only the error of a script without a tool.                  *)
(***************************************************************************)
LEMMA ReaderKeepsStart ==
  ASSUME TypeInv, StartInv, Reader
  PROVE  StartInv'
<1>1. /\ out # << >> /\ out' = Tail(out)
      /\ UNCHANGED <<tool, script, finished, runner>>
  BY DEF Reader, ReadError, ReadReady, ReadScan, ReadSockMap, ReadText, ReadEnd, Line,
         remote, running
<1>2. script \notin {"unstarted", "starting"}
  BY <1>1 DEF StartInv
<1>3. ASSUME tool = "none" PROVE Len(out') = 0 /\ UNCHANGED <<scans, mode>>
  <2>1. Head(out).kind = "error" /\ Len(Tail(out)) = 0
    <3>1. out \in Seq(Lines)
      BY DEF TypeInv, RemoteTypes
    <3>2. Len(out) <= 1
      BY <1>3 DEF StartInv
    <3>3. Len(out) # 0 /\ Len(out) \in Nat
      <4>1. out # << >>
        BY <1>1
      <4> QED
        BY <3>1, <4>1
    <3>4. Len(out) = 1
      <4> DEFINE n == Len(out)
      <4>1. n \in Nat /\ n # 0 /\ n <= 1
        BY <3>2, <3>3
      <4> HIDE DEF n
      <4>2. n = 1
        BY <4>1
      <4> QED
        BY <4>2 DEF n
    <3>5. out[1].kind = "error"
      BY <1>3, <3>4 DEF StartInv
    <3>6. Head(out) = out[1]
      OBVIOUS
    <3>7. Len(Tail(out)) = 0
      BY <3>1, <3>4
    <3> QED
      BY <3>4, <3>5, <3>6, <3>7
  <2>2. ReadError
    BY <2>1 DEF Reader, ReadError, ReadReady, ReadScan, ReadSockMap, ReadText, ReadEnd, Line
  <2> QED
    BY <1>1, <2>1, <2>2 DEF ReadError
<1> QED
  BY <1>1, <1>2, <1>3 DEF StartInv

(***************************************************************************)
(* So does every other step.                                               *)
(***************************************************************************)
LEMMA OthersKeepStart ==
  ASSUME TypeInv, StartInv,
         \/ FallsSilent \/ Torn \/ Cancel \/ Runner \/ ReadGarbled \/ ReadEOF \/ Lookup \/ Finish
         \/ UNCHANGED vars
  PROVE  StartInv'
<1>1. UNCHANGED <<tool, finished, scans, mode>>
  BY DEF FallsSilent, Torn, Cancel, Runner, Starts, Closing, Closed, Lost, Ends,
         ReadGarbled, ReadEOF,
         Lookup, LookupAnswered, LookupFails, Finish, vars, remote, parsing
<1>2. out' = out \/ out' \in Cuts(out)
  BY DEF FallsSilent, Torn, Cancel, Runner, Starts, Closing, Closed, Lost, Ends,
         ReadGarbled, ReadEOF,
         Lookup, LookupAnswered, LookupFails, Finish, vars
<1>3. out = << >> => out' = << >>
  <2>1. \A t \in Cuts(<< >>) : t = << >>
    BY DEF Cuts
  <2> QED
    BY <1>2, <2>1
<1>4. Len(out) <= 1 /\ (\A i \in 1..Len(out) : out[i].kind = "error")
        => Len(out') <= 1 /\ \A i \in 1..Len(out') : out'[i].kind = "error"
  <2>1. CASE out' = out
    BY <2>1
  <2>2. CASE out' \in Cuts(out)
    <3>1. out \in Seq(Lines)
      BY DEF TypeInv, RemoteTypes
    <3>2. /\ out' \in Seq(Lines) /\ Len(out') <= Len(out)
          /\ \A i \in 1..Len(out') : out'[i] = out[i]
      BY <2>2, <3>1, CutShape
    <3> QED
      BY <3>1, <3>2
  <2> QED
    BY <1>2, <2>1, <2>2
<1>5. /\ runner' = "opening" => runner = "opening"
      /\ \/ script' = script
         \/ script = "unstarted" /\ script' = "starting" /\ runner' = "streaming"
  BY DEF FallsSilent, Torn, Cancel, Runner, Starts, Closing, Closed, Lost, Ends,
         ReadGarbled, ReadEOF, Return,
         Lookup, LookupAnswered, LookupFails, Finish, vars, remote, running, StartInv
<1> QED
  BY <1>1, <1>3, <1>4, <1>5 DEF StartInv

(***************************************************************************)
(* Every step does.                                                        *)
(***************************************************************************)
LEMMA StartStep == TypeInv /\ StartInv /\ [Next]_vars => StartInv'
  BY ScriptKeepsStart, ReaderKeepsStart, OthersKeepStart DEF Next, Parser, Reader, Lookup, Ended

-----------------------------------------------------------------------------
(***************************************************************************)
(* The output of the script, at the beginning: none.                       *)
(***************************************************************************)
LEMMA StreamInit == Init => StreamInv
<1> SUFFICES ASSUME Init, tool # "none"
             PROVE  \E j \in (-1)..(Size - 1), tail \in Sound : Reads(j, tail)
  BY DEF StreamInv
<1>1. Size \in {3, 5} /\ -1 \in (-1)..(Size - 1)
  BY DEF Size
<1>2. Len(out) = 0 /\ Len(finished) = 0 /\ Len(scans) = 0 /\ mode = "none" /\ ~Uncut
  BY DEF Init, Uncut
<1>3. Place(Size, 1, 0) >= Size /\ Place(Size, 1, 0) \in Int
  <2>1. 1 \in Int /\ 0 \in Int /\ 1 > 0
    OBVIOUS
  <2> QED
    BY <1>1, <2>1, PlaceOf
<1>4. 0 - 0 + 1 = 1
  OBVIOUS
<1>5. Reach(-1)
  BY <1>1, <1>2, <1>3, <1>4 DEF Reach
<1>6. Carries(Size, out, -1, Append(finished, Nothing), Len(scans))
  BY <1>2 DEF Carries
<1>7. Parsed(-1, Append(finished, Nothing)[Len(scans) + 1])
  BY DEF Parsed
<1>8. out = << >>
  BY DEF Init
<1>9. Reads(-1, Nothing)
  BY <1>2, <1>5, <1>6, <1>7, <1>8 DEF Reads
<1> QED
  BY <1>1, <1>9, Soundness

(***************************************************************************)
(* What one step after another relies on: the shapes of the sequences, and *)
(* the places of the ends of the scans.                                    *)
(***************************************************************************)
LEMMA Measures ==
  ASSUME TypeInv, StartInv, tool # "none"
  PROVE  /\ Size \in {3, 5} /\ (Size = 5 <=> tool = "proc")
         /\ out \in Seq(Lines) /\ Len(out) \in Nat
         /\ finished \in Seq(Sound) /\ Len(finished) \in Nat
         /\ scans \in Seq(Snapshot) /\ Len(scans) \in Nat
  BY DEF Size, TypeInv, RemoteTypes, StartInv

(***************************************************************************)
(* The ends of the scans that lie ahead of the parser.                     *)
(***************************************************************************)
LEMMA EndsAhead ==
  ASSUME NEW L \in {3, 5}, NEW d \in Int
  PROVE  /\ Place(L, d, 0) \in Int /\ Place(L, d + 1, 0) \in Int /\ Place(L, d - 1, 0) \in Int
         /\ Place(L, d + 1, 0) = Place(L, d, 0) + L
         /\ Place(L, d - 1, 0) = Place(L, d, 0) - L
         /\ d = 0 => Place(L, d, 0) = 0
         /\ d > 0 => Place(L, d, 0) >= L
<1>1. CASE L = 3
  BY <1>1 DEF Place
<1>2. CASE L = 5
  BY <1>2 DEF Place
<1> QED
  BY <1>1, <1>2

(***************************************************************************)
(* The scan the parser is in, a complete one or the last, is sound.        *)
(***************************************************************************)
LEMMA Current ==
  ASSUME TypeInv, StartInv, tool # "none",
         NEW j \in (-1)..(Size - 1), NEW tail \in Sound, Reads(j, tail)
  PROVE  /\ Append(finished, tail)[Len(scans) + 1] \in Sound
         /\ Len(scans) < Len(finished) =>
              Append(finished, tail)[Len(scans) + 1] = finished[Len(scans) + 1]
<1>1. /\ finished \in Seq(Sound) /\ Len(finished) \in Nat /\ Len(scans) \in Nat
      /\ Len(scans) <= Len(finished)
  BY Measures DEF Reads
<1>2. CASE Len(scans) < Len(finished)
  <2>1. Len(scans) + 1 \in 1..Len(finished)
    BY <1>1, <1>2
  <2> QED
    BY <1>1, <2>1
<1>3. CASE Len(scans) = Len(finished)
  <2>1. Append(finished, tail)[Len(finished) + 1] = tail
    BY <1>1
  <2> QED
    BY <1>1, <1>3, <2>1
<1> QED
  BY <1>1, <1>2, <1>3

(***************************************************************************)
(* The line the parser finds is the next of that scan.                     *)
(***************************************************************************)
LEMMA HeadLine ==
  ASSUME TypeInv, StartInv, tool # "none",
         NEW j \in (-1)..(Size - 1), NEW tail \in Sound, Reads(j, tail), out # << >>
  PROVE  /\ j = -1 => Head(out) = Mark("ready")
         /\ j >= 0 => Head(out) = Layout(Size, Append(finished, tail)[Len(scans) + 1])[j + 1]
<1>1. j = -1 => Head(out) = Mark("ready")
  BY DEF Reads
<1>2. ASSUME j >= 0
      PROVE  Head(out) = Layout(Size, Append(finished, tail)[Len(scans) + 1])[j + 1]
  <2>1. Size \in {3, 5} /\ out \in Seq(Lines) /\ Len(scans) \in Nat
    BY Measures
  <2>2. j + 1 \in 1..Size /\ j + 1 \in Int /\ 0 \in Int
    BY <1>2, <2>1
  <2>3. Place(Size, 0, j + 1) = j + 1
    BY <2>1, <2>2 DEF Place
  <2>4. Place(Size, 0, j + 1) - j = 1
    BY <2>1, <2>3
  <2>5. 1 \in 1..Len(out) /\ 0 \in Nat
    BY <2>1
  <2>6. out[1] = Layout(Size, Append(finished, tail)[Len(scans) + 0 + 1])[j + 1]
    BY <2>2, <2>4, <2>5 DEF Reads, Carries
  <2>7. Len(scans) + 0 + 1 = Len(scans) + 1
    BY <2>1
  <2>8. Head(out) = out[1]
    OBVIOUS
  <2> QED
    BY <2>6, <2>7, <2>8
<1> QED
  BY <1>1, <1>2

(***************************************************************************)
(* Steps that leave the output alone, or cut it off for good.              *)
(***************************************************************************)
LEMMA QuietKeepsStream ==
  ASSUME TypeInv, StartInv, tool # "none", StreamInv,
         UNCHANGED <<tool, finished, scans, mode, section, body, sockMap>>,
         \/ out' = out /\ (Uncut' => (Uncut /\ script' = script) \/ script' = "starting")
         \/ out' \in Cuts(out) /\ ~Uncut'
  PROVE  StreamInv'
<1>1. PICK j \in (-1)..(Size - 1), tail \in Sound : Reads(j, tail)
  BY DEF StreamInv
<1>2. /\ Size \in {3, 5} /\ out \in Seq(Lines) /\ Len(out) \in Nat
      /\ Len(scans) \in Nat /\ Len(finished) \in Nat
  BY Measures
<1>3. Size' = Size
  BY DEF Size
<1>4. /\ Len(out') \in Nat /\ Len(out') <= Len(out)
      /\ Carries(Size, out', j, Append(finished, tail), Len(scans))
      /\ out' # << >> => out # << >> /\ Head(out') = Head(out)
  <2>1. CASE out' = out
    BY <1>1, <1>2, <2>1 DEF Reads
  <2>2. CASE out' \in Cuts(out)
    <3>1. /\ out' \in Seq(Lines) /\ Len(out') <= Len(out)
          /\ \A i \in 1..Len(out') : out'[i] = out[i]
      BY <1>2, <2>2, CutShape
    <3>2. Carries(Size, out, j, Append(finished, tail), Len(scans))
      BY <1>1 DEF Reads
    <3>3. Carries(Size, out', j, Append(finished, tail), Len(scans))
      BY <1>2, <2>2, <3>2, CarriesCut
    <3>4. Len(out') \in Nat
      BY <3>1
    <3>5. ASSUME out' # << >> PROVE out # << >> /\ Head(out') = Head(out)
      <4>1. Len(out') # 0
        BY <3>1, <3>5
      <4>2. 1 \in 1..Len(out') /\ Len(out) # 0
        BY <1>2, <3>1, <3>4, <4>1
      <4> QED
        BY <3>1, <4>2
    <3> QED
      BY <3>1, <3>3, <3>4, <3>5
  <2> QED
    BY <2>1, <2>2
<1>5. Place(Size, Len(finished) - Len(scans) + 1, 0) \in Int
  <2>1. Len(finished) - Len(scans) + 1 \in Int /\ 0 \in Int
    BY <1>2
  <2> QED
    BY <1>2, <2>1, PlaceOf
<1>6. Reach(j)'
  <2>1. Reach(j) /\ UNCHANGED <<finished, scans>>
    BY <1>1 DEF Reads
  <2>2. Len(out') + j < Place(Size, Len(finished) - Len(scans) + 1, 0)
    BY <1>2, <1>4, <1>5, <2>1 DEF Reach
  <2>3. CASE out' = out /\ (Uncut' => (Uncut /\ script' = script) \/ script' = "starting")
    BY <1>3, <2>1, <2>2, <2>3 DEF Reach
  <2>4. CASE ~Uncut'
    BY <1>3, <2>1, <2>2, <2>4 DEF Reach
  <2> QED
    BY <2>3, <2>4
<1>7. Parsed(j, Append(finished, tail)[Len(scans) + 1])'
  BY <1>1, <1>3 DEF Reads, Parsed
<1>8. Reads(j, tail)'
  BY <1>1, <1>3, <1>4, <1>6, <1>7 DEF Reads
<1> QED
  BY <1>3, <1>8 DEF StreamInv

(***************************************************************************)
(* The announcement is the first line.                                     *)
(***************************************************************************)
LEMMA AnnouncementKeepsStream ==
  ASSUME TypeInv, StartInv, StreamInv, ScriptAnnounces
  PROVE  StreamInv'
<1>1. /\ tool # "none" /\ UNCHANGED <<tool, finished, scans, mode, section, body, sockMap>>
      /\ script' = "scanning" /\ out' = Append(out, Mark("ready"))
  BY DEF ScriptAnnounces, parsing
<1>2. out = << >> /\ Len(finished) = 0 /\ Len(scans) = 0 /\ mode = "none"
  BY DEF ScriptAnnounces, StartInv
<1>3. Size \in {3, 5} /\ Size' = Size
  BY <1>1 DEF Size
<1>4. Len(out') = 1 /\ Head(out') = Mark("ready")
  BY <1>1, <1>2
<1>5. PICK tail \in Sound : TRUE
  BY Soundness
<1>6. Carries(Size, out', -1, Append(finished, tail), Len(scans))
  <2> SUFFICES ASSUME NEW k \in Nat, NEW m \in 1..Size,
                      Place(Size, k, m) - (-1) \in 1..Len(out')
               PROVE  FALSE
    BY DEF Carries
  <2>1. k \in Int /\ m \in Int /\ m >= 1
    BY <1>3
  <2>2. Place(Size, k, 0) \in Int /\ Place(Size, k, m) = Place(Size, k, 0) + m
    BY <1>3, <2>1, PlaceOf
  <2>3. Place(Size, k, 0) >= 0
    BY <1>3, <2>1 DEF Place
  <2> QED
    BY <1>4, <2>1, <2>2, <2>3
<1>7. /\ Place(Size, 0, 0) = 0 /\ Place(Size, 1, 0) \in Int /\ Place(Size, 1, 0) >= Size
      /\ 0 - 0 = 0 /\ 0 - 0 + 1 = 1
  BY <1>3 DEF Place
<1>8. Reach(-1)'
  BY <1>1, <1>2, <1>3, <1>4, <1>7 DEF Reach
<1>9. Parsed(-1, Append(finished, tail)[Len(scans) + 1])'
  BY DEF Parsed
<1>10. Reads(-1, tail)'
  BY <1>1, <1>2, <1>3, <1>4, <1>6, <1>8, <1>9 DEF Reads
<1>11. -1 \in (-1)..(Size - 1)
  BY <1>3
<1> QED
  BY <1>3, <1>10, <1>11 DEF StreamInv

(***************************************************************************)
(* What the script writes after scans that have all their lines: the lines *)
(* of another scan, or the first of them.                                  *)
(***************************************************************************)
LEMMA WritingKeepsStream ==
  ASSUME TypeInv, StartInv, tool # "none", StreamInv, Uncut, script = "scanning",
         UNCHANGED <<tool, scans, mode, section, body, sockMap>>,
         NEW snap \in Listings, NEW piece \in Seq(Lines), out' = out \o piece,
         Len(piece) <= Size,
         \A m \in 1..Len(piece) : piece[m] = Frame(snap)[m],
         \/ /\ finished' = Append(finished, snap) /\ piece = Frame(snap)
         \/ /\ finished' = finished /\ Len(piece) < Size /\ script' # "scanning"
  PROVE  StreamInv'
<1>1. PICK j \in (-1)..(Size - 1), tail \in Sound : Reads(j, tail)
  BY DEF StreamInv
<1> DEFINE n == Len(finished)
           s == Len(scans)
<1>2. /\ Size \in {3, 5} /\ out \in Seq(Lines) /\ Len(out) \in Nat
      /\ finished \in Seq(Sound) /\ n \in Nat /\ s \in Nat /\ snap \in Sound
      /\ s <= n /\ Len(piece) \in Nat /\ Len(Frame(snap)) = Size
  <2>1. snap \in Sound /\ snap \in Snapshot
    BY Soundness
  <2>2. Len(Frame(snap)) = Size
    BY <2>1, FrameShape
  <2>3. Len(scans) <= Len(finished)
    BY <1>1 DEF Reads
  <2>4. Len(piece) \in Nat
    OBVIOUS
  <2> QED
    BY <2>1, <2>2, <2>3, <2>4, Measures
<1>3. Size' = Size
  BY DEF Size
<1>4. PICK last \in Sound : finished' = finished => last = snap
  BY <1>2
<1> DEFINE story == Append(finished, tail)
           later == Append(finished', last)
<1>5. /\ finished' \in Seq(Sound)
      /\ Len(finished') = IF finished' = finished THEN n ELSE n + 1
      /\ \A q \in 1..n : later[q] = story[q] /\ finished'[q] = finished[q]
      /\ later[n + 1] = snap
  <2>1. CASE finished' = finished
    BY <1>2, <1>4, <2>1
  <2>2. CASE finished' = Append(finished, snap)
    <3>1. /\ finished' \in Seq(Sound) /\ Len(finished') = n + 1
          /\ \A q \in 1..n : finished'[q] = finished[q]
          /\ finished'[n + 1] = snap /\ finished' # finished
      BY <1>2, <2>2
    <3>2. \A q \in 1..(n + 1) : later[q] = finished'[q]
      BY <3>1
    <3>3. \A q \in 1..n : story[q] = finished[q]
      BY <1>2
    <3> QED
      BY <1>2, <3>1, <3>2, <3>3
  <2> QED
    BY <2>1, <2>2
<1>6. Len(out) + j = Place(Size, n - s, 0)
  BY <1>1 DEF Reads, Reach
<1>7. Carries(Size, out', j, later, s)
  <2> DEFINE d == n - s
  <2>1. d \in Nat /\ s + d = n
    BY <1>2
  <2>2. Carries(Size, out, j, story, s)
    BY <1>1 DEF Reads
  <2>3. Alike(later, story, s + d)
    BY <1>5, <2>1 DEF Alike
  <2>4. Alike(piece, Layout(Size, later[s + d + 1]), Len(piece))
    BY <1>5, <2>1, FrameLayout DEF Alike
  <2>5. Size \in {3, 5} /\ s \in Nat /\ out \in Seq(Lines)
    BY <1>2
  <2>6. Len(out) + j = Place(Size, d, 0)
    BY <1>6
  <2> HIDE DEF n, s, story, later, d
  <2>7. Carries(Size, out \o piece, j, later, s)
    BY <2>1, <2>2, <2>3, <2>4, <2>5, <2>6, CarriesMore
  <2> QED
    BY <2>7
<1>8. /\ n - s \in Int /\ Place(Size, n - s, 0) \in Int /\ Place(Size, n - s + 1, 0) \in Int
      /\ Place(Size, n - s + 1, 0) = Place(Size, n - s, 0) + Size
      /\ Place(Size, n - s + 1 + 1, 0) = Place(Size, n - s, 0) + Size + Size
      /\ n - s = 0 => Place(Size, n - s, 0) = 0
      /\ n - s > 0 => Place(Size, n - s, 0) >= Size
  <2>1. n - s \in Int /\ n - s + 1 \in Int
    BY <1>2
  <2>2. Place(Size, n - s + 1 + 1, 0) = Place(Size, n - s + 1, 0) + Size
    BY <1>2, <2>1, EndsAhead
  <2> QED
    BY <1>2, <2>1, <2>2, EndsAhead
<1>9. Len(out') = Len(out) + Len(piece)
  BY <1>2
<1>10. Reach(j)'
  <2>1. CASE finished' = Append(finished, snap)
    <3>1. Len(finished') = n + 1 /\ Len(scans') = s /\ n + 1 - s = n - s + 1
      BY <1>2, <2>1
    <3>2. Len(piece) = Size
      <4>1. finished' # finished
        BY <1>2, <3>1
      <4> QED
        BY <1>2, <4>1
    <3>3. Len(out') + j = Place(Size, n - s, 0) + Size
      BY <1>2, <1>6, <1>9, <3>2
    <3>4. Len(finished') - Len(scans') = n - s + 1
      BY <1>2, <3>1
    <3>5. Len(out') + j < Place(Size, n - s + 1 + 1, 0)
      BY <1>2, <1>8, <3>3
    <3>6. Len(out') + j = Place(Size, n - s + 1, 0)
      BY <1>8, <3>3
    <3>8. Len(out') + j >= Place(Size, n - s + 1, 0)
      <4>1. Len(out') + j \in Int
        BY <1>2, <1>9
      <4> QED
        BY <1>8, <3>6, <4>1
    <3> QED
      BY <1>3, <3>4, <3>5, <3>6, <3>8 DEF Reach
  <2>2. CASE finished' = finished
    <3>1. Len(finished') = n /\ Len(scans') = s /\ script' # "scanning"
      <4>1. ASSUME finished' = Append(finished, snap) PROVE FALSE
        BY <1>2, <2>2, <4>1
      <4> QED
        BY <2>2, <4>1
    <3>2. Len(piece) < Size
      <4>1. ASSUME finished' = Append(finished, snap) PROVE FALSE
        BY <1>2, <2>2, <4>1
      <4> QED
        BY <4>1
    <3>3. Len(out') + j = Place(Size, n - s, 0) + Len(piece)
      BY <1>2, <1>6, <1>8, <1>9
    <3>4. Len(finished') - Len(scans') = n - s
      BY <3>1
    <3>5. Len(out') + j < Place(Size, n - s + 1, 0)
      BY <1>2, <1>8, <3>2, <3>3
    <3>6. Len(out') + j >= Place(Size, n - s, 0)
      BY <1>2, <1>8, <3>3
    <3> QED
      BY <1>3, <3>1, <3>4, <3>5, <3>6 DEF Reach
  <2> QED
    BY <2>1, <2>2
<1>11. n = s => j <= 0
  BY <1>2, <1>6, <1>8
<1>12. Parsed(j, Append(finished, last)[Len(scans) + 1])'
  <2>1. CASE n = s
    <3>1. j \in {-1, 0}
      BY <1>2, <1>11, <2>1
    <3> QED
      BY <3>1 DEF Parsed
  <2>2. CASE s < n
    <3>1. s + 1 \in 1..n
      BY <1>2, <2>2
    <3>2. later[s + 1] = story[s + 1]
      BY <1>5, <3>1
    <3>3. Parsed(j, story[s + 1])
      BY <1>1 DEF Reads
    <3>4. Parsed(j, later[s + 1])
      BY <3>2, <3>3
    <3>5. UNCHANGED <<section, body, sockMap, scans>>
      OBVIOUS
    <3> QED
      BY <1>3, <3>4, <3>5 DEF Parsed
  <2>3. n = s \/ s < n
    BY <1>2
  <2> QED
    BY <2>1, <2>2, <2>3
<1>13. j = -1 => out' # << >> /\ Head(out') = Mark("ready")
  <2> SUFFICES ASSUME j = -1 PROVE out' # << >> /\ Head(out') = Mark("ready")
    OBVIOUS
  <2>1. Len(out) >= 1
    <3>1. Place(Size, n - s, 0) >= 0
      BY <1>2, <1>8
    <3>2. Len(out) - 1 = Place(Size, n - s, 0)
      BY <1>2, <1>6
    <3> QED
      BY <1>2, <1>8, <3>1, <3>2
  <2>2. out # << >>
    BY <2>1
  <2>3. Head(out) = Mark("ready")
    BY <1>1, <2>2 DEF Reads
  <2>4. out'[1] = out[1] /\ Len(out') >= 1
    BY <1>2, <1>9, <2>1
  <2> QED
    BY <2>3, <2>4
<1>14. Reads(j, last)'
  <2>1. /\ j = -1 => s = 0 /\ mode = "none"
        /\ j >= 0 => mode = tool
        /\ \A i \in 1..s : scans[i] = finished[i]
    BY <1>1 DEF Reads
  <2>2. s <= Len(finished')
    BY <1>2, <1>5
  <2>3. \A i \in 1..s : scans[i] = finished'[i]
    BY <1>2, <1>5, <2>1
  <2> QED
    BY <1>3, <1>7, <1>10, <1>12, <1>13, <2>1, <2>2, <2>3 DEF Reads
<1> QED
  BY <1>3, <1>14 DEF StreamInv

(***************************************************************************)
(* The script ends between two scans, or in one.                           *)
(***************************************************************************)
LEMMA ScriptKeepsStream ==
  ASSUME TypeInv, StartInv, StreamInv, Script
  PROVE  StreamInv'
<1>1. CASE ScriptAnnounces
  BY <1>1, AnnouncementKeepsStream
<1>2. CASE tool = "none"
  <2>1. tool' = tool
    BY DEF Script, ScriptAnnounces, ScriptGivesUp, ScriptScans, ScriptExits
  <2> QED
    BY <1>2, <2>1 DEF StreamInv
<1>3. CASE tool # "none" /\ ScriptScans
  <2>1. PICK snap \in Listings : finished' = Append(finished, snap) /\ out' = out \o Frame(snap)
    BY <1>3 DEF ScriptScans
  <2>0. snap \in Snapshot
    BY Soundness
  <2>2. Frame(snap) \in Seq(Lines) /\ Len(Frame(snap)) <= Size
    <3>1. Len(Frame(snap)) = Size /\ Frame(snap) \in Seq(Lines)
      BY <2>0, FrameShape
    <3>2. Len(Frame(snap)) \in Nat
      BY <3>1
    <3> QED
      BY <3>1, <3>2
  <2>3. Uncut /\ script = "scanning" /\ UNCHANGED <<tool, scans, mode, section, body, sockMap>>
    BY <1>3 DEF ScriptScans, Works, Uncut, parsing
  <2> QED
    BY <1>3, <2>1, <2>2, <2>3, WritingKeepsStream
<1>4. CASE tool # "none" /\ ScriptExits
  <2>1. PICK snap \in Listings : \E cut \in Cuts(Frame(snap)) :
               /\ cut # << >> => script = "scanning" /\ cut # Frame(snap)
               /\ out' = out \o cut
    BY <1>4 DEF ScriptExits
  <2>2. PICK cut \in Cuts(Frame(snap)) :
               /\ cut # << >> => script = "scanning" /\ cut # Frame(snap)
               /\ out' = out \o cut
    BY <2>1
  <2>3. /\ Uncut /\ script \in {"starting", "scanning"} /\ script' \in {"exited", "failed"}
        /\ UNCHANGED <<tool, finished, scans, mode, section, body, sockMap, net, runner>>
    BY <1>4 DEF ScriptExits, Works, Uncut, parsing, running, StartInv
  <2>0. snap \in Snapshot
    BY Soundness
  <2>4. Frame(snap) \in Seq(Lines) /\ Len(Frame(snap)) = Size /\ Size \in {3, 5}
    BY <2>0, FrameShape
  <2>5. /\ cut \in Seq(Lines) /\ Len(cut) <= Size
        /\ \A m \in 1..Len(cut) : cut[m] = Frame(snap)[m]
    BY <2>2, <2>4, CutShape
  <2>6. CASE script = "scanning"
    <3>1. Len(cut) < Size
      <4>1. SUFFICES ASSUME Len(cut) = Size PROVE cut = Frame(snap) /\ cut # << >>
        BY <2>2, <2>4, <2>5
      <4> QED
        BY <2>4, <2>5, <4>1
    <3>2. script' # "scanning"
      BY <2>3
    <3> QED
      BY <1>4, <2>1, <2>2, <2>3, <2>5, <2>6, <3>1, <3>2, WritingKeepsStream
  <2>7. CASE script = "starting"
    <3>1. out = << >> /\ Len(finished) = 0 /\ Len(scans) = 0 /\ mode = "none" /\ out' = << >>
      <4>1. out = << >> /\ cut = << >>
        BY <2>2, <2>7 DEF StartInv
      <4> QED
        BY <2>2, <2>7, <4>1 DEF StartInv
    <3>2. PICK tail \in Sound : TRUE
      BY Soundness
    <3>3. Size' = Size
      BY <2>3 DEF Size
    <3>4. Carries(Size, out', -1, Append(finished, tail), Len(scans))
      BY <3>1 DEF Carries
    <3>5. /\ Place(Size, 0, 0) = 0 /\ Place(Size, 1, 0) \in Int /\ Place(Size, 1, 0) >= Size
          /\ 0 - 0 = 0 /\ 0 - 0 + 1 = 1 /\ Len(out') = 0
      BY <2>4, <3>1 DEF Place
    <3>6. Reach(-1)'
      BY <2>3, <2>4, <3>1, <3>3, <3>5 DEF Reach
    <3>7. Parsed(-1, Append(finished, tail)[Len(scans) + 1])'
      BY DEF Parsed
    <3>8. Reads(-1, tail)'
      BY <2>3, <3>1, <3>3, <3>4, <3>6, <3>7 DEF Reads
    <3>9. -1 \in (-1)..(Size - 1)
      BY <2>4
    <3> QED
      BY <3>3, <3>8, <3>9 DEF StreamInv
  <2> QED
    BY <2>3, <2>6, <2>7
<1> QED
  BY <1>1, <1>2, <1>3, <1>4 DEF Script, ScriptGivesUp

(***************************************************************************)
(* A line inside a scan, or the announcement: the parser is a line further *)
(* on, and the output reaches as far as before.                            *)
(***************************************************************************)
LEMMA AdvanceKeepsStream ==
  ASSUME TypeInv, StartInv, tool # "none",
         NEW j \in (-1)..(Size - 1), NEW tail \in Sound, Reads(j, tail), j < Size - 1,
         out # << >>, out' = Tail(out), mode' = tool,
         UNCHANGED <<tool, script, finished, scans, net, runner>>,
         NEW snap, snap = Append(finished, tail)[Len(scans) + 1], Parsed(j + 1, snap)'
  PROVE  StreamInv'
<1>1. /\ Size \in {3, 5} /\ out \in Seq(Lines) /\ Len(out) \in Nat
      /\ Len(scans) \in Nat /\ Len(finished) \in Nat
  BY Measures
<1>2. Size' = Size
  BY DEF Size
<1>3. Carries(Size, out', j + 1, Append(finished, tail), Len(scans))
  <2>1. Carries(Size, out, j, Append(finished, tail), Len(scans))
    BY DEF Reads
  <2> QED
    BY <1>1, <2>1, CarriesTail
<1>4. Len(out') = Len(out) - 1
  BY <1>1
<1>5. Len(out') + (j + 1) = Len(out) + j
  BY <1>1, <1>4
<1>6. Reach(j + 1)'
  <2>1. Reach(j) /\ (Uncut' <=> Uncut)
    BY DEF Reads, Uncut
  <2> QED
    BY <1>2, <1>5, <2>1 DEF Reach
<1>7. j + 1 >= 0 /\ j + 1 # -1 /\ j + 1 \in (-1)..(Size - 1)
  BY <1>1
<1>8. (Append(finished, tail)[Len(scans) + 1])' = snap
  OBVIOUS
<1>9. Parsed(j + 1, Append(finished, tail)[Len(scans) + 1])'
  BY <1>8
<1>10. Reads(j + 1, tail)'
  BY <1>2, <1>3, <1>6, <1>7, <1>9 DEF Reads
<1> QED
  BY <1>2, <1>7, <1>10 DEF StreamInv

(***************************************************************************)
(* The last line of a scan: what is delivered is the scan of the script.   *)
(***************************************************************************)
LEMMA EndKeepsStream ==
  ASSUME TypeInv, StartInv, tool # "none",
         NEW j \in (-1)..(Size - 1), NEW tail \in Sound, Reads(j, tail), j = Size - 1,
         out # << >>, ReadEnd
  PROVE  StreamInv'
<1> DEFINE n == Len(finished)
           s == Len(scans)
<1>1. /\ Size \in {3, 5} /\ out \in Seq(Lines) /\ Len(out) \in Nat
      /\ scans \in Seq(Snapshot) /\ s \in Nat /\ n \in Nat /\ finished \in Seq(Sound)
      /\ (Size = 5 <=> tool = "proc") /\ s <= n
  BY Measures DEF Reads
<1>2. /\ Size' = Size /\ out' = Tail(out) /\ scans' = Append(scans, Build)
      /\ UNCHANGED <<tool, script, finished, net, runner, mode>>
  BY DEF Size, ReadEnd, Line, remote, running
<1>3. Reach(j)
  BY DEF Reads
<1>4. Len(out') = Len(out) - 1 /\ Len(out) >= 1
  BY <1>1, <1>2
<1>5. /\ n - s \in Int /\ Place(Size, n - s, 0) \in Int
      /\ Place(Size, n - s + 1, 0) = Place(Size, n - s, 0) + Size
      /\ Place(Size, n - s - 1, 0) = Place(Size, n - s, 0) - Size
      /\ n - s = 0 => Place(Size, n - s, 0) = 0
  <2>1. n - s \in Int
    BY <1>1
  <2> QED
    BY <1>1, <2>1, EndsAhead
<1>6. s < n
  <2> SUFFICES ASSUME n - s = 0 PROVE FALSE
    BY <1>1
  <2>1. Len(out) + j < Place(Size, n - s + 1, 0)
    BY <1>3 DEF Reach
  <2> QED
    BY <1>1, <1>4, <1>5, <2>1
<1> DEFINE snap == Append(finished, tail)[s + 1]
<1>7. snap \in Sound /\ snap = finished[s + 1]
  BY <1>6, Current
<1>8. Build = snap
  <2>1. Parsed(j, snap) /\ mode = tool
    BY <1>1 DEF Reads
  <2>2. snap = [ports |-> snap.ports, owners |-> snap.owners] /\ snap.owners \subseteq snap.ports
    BY <1>7 DEF Sound, Snapshot
  <2> HIDE DEF snap
  <2>3. CASE Size = 5
    <3>1. /\ body = [ports |-> snap.ports, owners |-> {}]
          /\ sockMap = [ports |-> {}, owners |-> snap.owners]
      <4>1. j = 4
        BY <2>3
      <4> QED
        BY <2>1, <2>3, <4>1 DEF Parsed
    <3>2. Build = [ports |-> snap.ports, owners |-> snap.ports \cap snap.owners]
      BY <1>1, <2>1, <2>3, <3>1 DEF Build
    <3>3. snap.ports \cap snap.owners = snap.owners
      BY <2>2
    <3> QED
      BY <2>2, <3>2, <3>3
  <2>4. CASE Size = 3
    <3>1. body = snap
      <4>1. j = 2
        BY <2>4
      <4> QED
        BY <2>1, <2>4, <4>1 DEF Parsed
    <3> QED
      BY <1>1, <2>1, <2>4, <3>1 DEF Build
  <2> QED
    BY <1>1, <2>3, <2>4
<1>9. Len(scans') = s + 1 /\ \A i \in 1..(s + 1) : scans'[i] = finished[i]
  <2>1. Len(scans') = s + 1 /\ scans'[s + 1] = Build /\ \A i \in 1..s : scans'[i] = scans[i]
    BY <1>1, <1>2
  <2>2. \A i \in 1..s : scans[i] = finished[i]
    BY DEF Reads
  <2>3. \A i \in 1..(s + 1) : i \in 1..s \/ i = s + 1
    BY <1>1
  <2> QED
    BY <1>7, <1>8, <2>1, <2>2, <2>3
<1>10. Carries(Size, out', 0, Append(finished, tail), s + 1)
  <2>1. Carries(Size, out, j, Append(finished, tail), s)
    BY DEF Reads
  <2>2. Carries(Size, Tail(out), j + 1, Append(finished, tail), s)
    BY <1>1, <2>1, CarriesTail
  <2>3. j + 1 = Size
    BY <1>1
  <2> QED
    BY <1>1, <1>2, <2>2, <2>3, CarriesNext
<1>11. Reach(0)'
  <2>1. Uncut' <=> Uncut
    BY <1>2 DEF Uncut
  <2>2. /\ Len(finished') - Len(scans') + 1 = n - s
        /\ Len(finished') - Len(scans') = n - s - 1
    BY <1>1, <1>2, <1>9
  <2>3. Len(out') + 0 = Len(out) + j - Size
    BY <1>1, <1>4
  <2>4. Len(out') + 0 < Place(Size, n - s, 0)
    <3>1. Len(out) + j < Place(Size, n - s + 1, 0)
      BY <1>3 DEF Reach
    <3> QED
      BY <1>1, <1>5, <2>3, <3>1
  <2>5. Uncut /\ script = "scanning" => Len(out') + 0 = Place(Size, n - s - 1, 0)
    <3>1. Uncut /\ script = "scanning" => Len(out) + j = Place(Size, n - s, 0)
      BY <1>3 DEF Reach
    <3> QED
      BY <1>1, <1>5, <2>3, <3>1
  <2>6. Uncut /\ script = "exited" => Len(out') + 0 >= Place(Size, n - s - 1, 0)
    <3>1. Uncut /\ script = "exited" => Len(out) + j >= Place(Size, n - s, 0)
      BY <1>1, <1>3, <1>6 DEF Reach
    <3> QED
      BY <1>1, <1>5, <2>3, <3>1
  <2> QED
    BY <1>2, <2>1, <2>2, <2>4, <2>5, <2>6 DEF Reach
<1>12. Parsed(0, Append(finished, tail)[Len(scans) + 1])'
  BY DEF Parsed
<1>13. mode' = tool /\ Len(scans') <= Len(finished')
  BY <1>1, <1>2, <1>6, <1>9 DEF Reads
<1>14. Reads(0, tail)'
  BY <1>2, <1>9, <1>10, <1>11, <1>12, <1>13 DEF Reads
<1>15. 0 \in (-1)..(Size - 1)
  BY <1>1
<1> QED
  BY <1>2, <1>14, <1>15 DEF StreamInv

(***************************************************************************)
(* What kind of line the parser finds tells it where it is.                *)
(***************************************************************************)
LEMMA KindOfLine ==
  ASSUME TypeInv, StartInv, tool # "none",
         NEW j \in (-1)..(Size - 1), NEW tail \in Sound, Reads(j, tail), out # << >>
  PROVE  /\ Head(out).kind # "error"
         /\ (Head(out).kind = "ready") <=> (j = -1)
         /\ (Head(out).kind = "scan") <=> (j = 0)
         /\ (Head(out).kind = "end") <=> (j = Size - 1)
         /\ (Head(out).kind = "sockmap") <=> (Size = 5 /\ j = 2)
         /\ (Head(out).kind = "text") <=> (j = 1 \/ (Size = 5 /\ j = 3))
         /\ Size = 3 /\ j = 1 => Head(out).text = Append(finished, tail)[Len(scans) + 1]
         /\ Size = 5 /\ j = 1 => Head(out).text =
              [ports |-> Append(finished, tail)[Len(scans) + 1].ports, owners |-> {}]
         /\ Size = 5 /\ j = 3 => Head(out).text =
              [ports |-> {}, owners |-> Append(finished, tail)[Len(scans) + 1].owners]
<1> DEFINE snap == Append(finished, tail)[Len(scans) + 1]
<1>1. Size \in {3, 5}
  BY Measures
<1>2. CASE j = -1
  <2>1. Head(out).kind = "ready"
    BY <1>2, HeadLine DEF Mark
  <2> QED
    BY <1>1, <1>2, <2>1
<1>3. CASE j >= 0
  <2>1. snap \in Snapshot
    BY Current, Soundness
  <2>2. Head(out) = Frame(snap)[j + 1]
    BY <1>3, HeadLine, FrameLayout
  <2> HIDE DEF snap
  <2>3. j + 1 \in 1..Size
    BY <1>1, <1>3
  <2>4. /\ Head(out).kind \notin {"ready", "error"}
        /\ (Head(out).kind = "scan") <=> (j + 1 = 1)
        /\ (Head(out).kind = "end") <=> (j + 1 = Size)
        /\ (Head(out).kind = "sockmap") <=> (Size = 5 /\ j + 1 = 3)
        /\ (Head(out).kind = "text") <=> (j + 1 = 2 \/ (Size = 5 /\ j + 1 = 4))
    <3> DEFINE m == j + 1
    <3>1. m \in 1..Size /\ Head(out) = Frame(snap)[m]
      BY <2>2, <2>3
    <3> HIDE DEF m
    <3>2. /\ Head(out).kind \notin {"ready", "error"}
          /\ (Head(out).kind = "scan") <=> (m = 1)
          /\ (Head(out).kind = "end") <=> (m = Size)
          /\ (Head(out).kind = "sockmap") <=> (Size = 5 /\ m = 3)
          /\ (Head(out).kind = "text") <=> (m = 2 \/ (Size = 5 /\ m = 4))
      <4>1. \A i \in 1..Size :
              /\ Frame(snap)[i].kind \notin {"ready", "error"}
              /\ (Frame(snap)[i].kind = "scan") <=> (i = 1)
              /\ (Frame(snap)[i].kind = "end") <=> (i = Size)
              /\ (Frame(snap)[i].kind = "sockmap") <=> (Size = 5 /\ i = 3)
              /\ (Frame(snap)[i].kind = "text") <=> (i = 2 \/ (Size = 5 /\ i = 4))
        BY <2>1, FrameShape
      <4> QED
        BY <3>1, <4>1
    <3> QED
      BY <3>2 DEF m
  <2>5. /\ Size = 3 /\ j = 1 => Head(out).text = snap
        /\ Size = 5 /\ j = 1 => Head(out).text = [ports |-> snap.ports, owners |-> {}]
        /\ Size = 5 /\ j = 3 => Head(out).text = [ports |-> {}, owners |-> snap.owners]
    BY <2>1, <2>2, FrameShape
  <2>6. /\ (Head(out).kind = "ready") <=> (j = -1)
        /\ (Head(out).kind = "scan") <=> (j = 0)
        /\ (Head(out).kind = "end") <=> (j = Size - 1)
        /\ (Head(out).kind = "sockmap") <=> (Size = 5 /\ j = 2)
        /\ (Head(out).kind = "text") <=> (j = 1 \/ (Size = 5 /\ j = 3))
    BY <1>1, <1>3, <2>4
  <2>7. j # -1 /\ Head(out).kind # "error"
    BY <1>3, <2>4
  <2> QED
    BY <2>5, <2>6, <2>7 DEF snap
<1>4. j = -1 \/ j >= 0
  BY <1>1
<1> QED
  BY <1>2, <1>3, <1>4

(***************************************************************************)
(* So whatever line it reads, it stays in step with the script.            *)
(***************************************************************************)
LEMMA ReaderKeepsStream ==
  ASSUME TypeInv, StartInv, StreamInv, Reader
  PROVE  StreamInv'
<1>1. /\ out # << >> /\ out' = Tail(out) /\ UNCHANGED <<tool, script, finished, net, runner>>
  BY DEF Reader, ReadError, ReadReady, ReadScan, ReadSockMap, ReadText, ReadEnd, Line,
         remote, running
<1>2. CASE tool = "none"
  BY <1>1, <1>2 DEF StreamInv
<1>3. CASE tool # "none"
  <2>1. PICK j \in (-1)..(Size - 1), tail \in Sound : Reads(j, tail)
    BY <1>3 DEF StreamInv
  <2>0. PICK snap : snap = Append(finished, tail)[Len(scans) + 1]
    OBVIOUS
  <2>2. Size \in {3, 5} /\ Size' = Size
    BY <1>1, <1>3, Measures DEF Size
  <2>3. Parsed(j, snap) /\ (j >= 0 => mode = tool)
    BY <2>0, <2>1 DEF Reads
  <2>4. snap \in Snapshot
    BY <1>3, <2>0, <2>1, Current, Soundness
  <2>10. /\ Head(out).kind = "error" => FALSE
         /\ Head(out).kind = "ready" => j = -1
         /\ Head(out).kind = "scan" => j = 0
         /\ Head(out).kind = "end" => j = Size - 1
         /\ Head(out).kind = "sockmap" => Size = 5 /\ j = 2
         /\ Head(out).kind = "text" => j = 1 \/ (Size = 5 /\ j = 3)
    BY <1>1, <1>3, <2>0, <2>1, KindOfLine
  <2>11. /\ Size = 3 /\ j = 1 => Head(out).text = snap
         /\ Size = 5 /\ j = 1 => Head(out).text = [ports |-> snap.ports, owners |-> {}]
         /\ Size = 5 /\ j = 3 => Head(out).text = [ports |-> {}, owners |-> snap.owners]
    BY <1>1, <1>3, <2>0, <2>1, KindOfLine
  <2>5. ASSUME ReadEnd PROVE StreamInv'
    <3>1. j = Size - 1
      BY <2>10, <2>5 DEF ReadEnd, Line
    <3> QED
      BY <1>1, <1>3, <2>1, <2>5, <3>1, EndKeepsStream
  <2>6. ASSUME ~ReadEnd
        PROVE  /\ j < Size - 1 /\ UNCHANGED scans /\ mode' = tool
               /\ Parsed(j + 1, snap)'
    <3>1. CASE ReadError
      BY <2>10, <3>1 DEF ReadError, Line
    <3>2. CASE ReadReady
      <4>1. j = -1
        BY <2>10, <3>2 DEF ReadReady, Line
      <4>2. j + 1 = 0
        BY <4>1
      <4>3. Parsed(j + 1, snap)'
        BY <4>2 DEF Parsed
      <4>4. j < Size - 1 /\ UNCHANGED scans /\ mode' = tool
        BY <2>2, <3>2, <4>1 DEF ReadReady
      <4> QED
        BY <4>3, <4>4
    <3>3. CASE ReadScan
      <4>1. j = 0
        BY <2>10, <3>3 DEF ReadScan, Line
      <4>2. /\ section' = "body" /\ body' = Nothing /\ sockMap' = Nothing /\ j + 1 = 1
            /\ UNCHANGED <<mode, scans>>
        BY <3>3, <4>1 DEF ReadScan, Emptied
      <4>3. Parsed(j + 1, snap)'
        BY <2>2, <4>2 DEF Parsed
      <4>4. j < Size - 1 /\ UNCHANGED scans /\ mode' = tool
        BY <2>2, <2>3, <4>1, <4>2
      <4> QED
        BY <4>3, <4>4
    <3>4. CASE ReadSockMap
      <4>1. Size = 5 /\ j = 2
        BY <2>10, <3>4 DEF ReadSockMap, Line
      <4>2. section' = "sockmap" /\ j + 1 = 3 /\ UNCHANGED <<mode, scans, body, sockMap>>
        BY <3>4, <4>1 DEF ReadSockMap
      <4>3. Parsed(j + 1, snap)'
        <5>1. body = [ports |-> snap.ports, owners |-> {}] /\ sockMap = Nothing
          BY <2>3, <4>1 DEF Parsed
        <5> QED
          BY <2>2, <4>1, <4>2, <5>1 DEF Parsed
      <4>4. j < Size - 1 /\ UNCHANGED scans /\ mode' = tool
        BY <2>2, <2>3, <4>1, <4>2
      <4> QED
        BY <4>3, <4>4
    <3>5. CASE ReadText
      <4>1. j = 1 \/ (Size = 5 /\ j = 3)
        BY <2>10, <3>5 DEF ReadText, Line
      <4>2. /\ section = "body" => body' = Join(body, Head(out).text) /\ sockMap' = sockMap
            /\ section = "sockmap" => sockMap' = Join(sockMap, Head(out).text) /\ body' = body
            /\ UNCHANGED <<mode, section, scans>>
        BY <3>5 DEF ReadText
      <4>3. \A t \in Snapshot : Join(Nothing, t) = t
        BY DEF Join, Nothing, Snapshot
      <4>4. CASE Size = 3
        <5>1. j = 1 /\ Head(out).text = snap
          BY <2>11, <4>1, <4>4
        <5>2. section = "body" /\ body = Nothing
          BY <2>3, <4>4, <5>1 DEF Parsed
        <5>3. body' = snap /\ section' = "body" /\ j + 1 = 2
          BY <2>4, <4>2, <4>3, <5>1, <5>2
        <5>4. Parsed(j + 1, snap)'
          BY <2>2, <4>2, <4>4, <5>3 DEF Parsed
        <5>5. j < Size - 1 /\ UNCHANGED scans /\ mode' = tool
          BY <2>3, <4>2, <4>4, <5>1
        <5> QED
          BY <5>4, <5>5
      <4>5. CASE Size = 5 /\ j = 1
        <5>1. Head(out).text = [ports |-> snap.ports, owners |-> {}]
          BY <2>11, <4>5
        <5>2. section = "body" /\ body = Nothing /\ sockMap = Nothing
          BY <2>3, <4>5 DEF Parsed
        <5>3. [ports |-> snap.ports, owners |-> {}] \in Snapshot
          BY <2>4 DEF Snapshot
        <5>4. /\ body' = [ports |-> snap.ports, owners |-> {}] /\ sockMap' = Nothing
              /\ section' = "body" /\ j + 1 = 2
          BY <4>2, <4>3, <4>5, <5>1, <5>2, <5>3
        <5>5. Parsed(j + 1, snap)'
          BY <2>2, <4>2, <4>5, <5>4 DEF Parsed
        <5>6. j < Size - 1 /\ UNCHANGED scans /\ mode' = tool
          BY <2>3, <4>2, <4>5
        <5> QED
          BY <5>5, <5>6
      <4>6. CASE Size = 5 /\ j = 3
        <5>1. Head(out).text = [ports |-> {}, owners |-> snap.owners]
          BY <2>11, <4>6
        <5>2. /\ section = "sockmap" /\ body = [ports |-> snap.ports, owners |-> {}]
              /\ sockMap = Nothing
          BY <2>3, <4>6 DEF Parsed
        <5>3. [ports |-> {}, owners |-> snap.owners] \in Snapshot
          BY <2>4 DEF Snapshot
        <5>4. /\ body' = body /\ sockMap' = [ports |-> {}, owners |-> snap.owners]
              /\ section' = "sockmap" /\ j + 1 = 4
          BY <4>2, <4>3, <4>6, <5>1, <5>2, <5>3
        <5>5. Parsed(j + 1, snap)'
          BY <2>2, <4>2, <4>6, <5>2, <5>4 DEF Parsed
        <5>6. j < Size - 1 /\ UNCHANGED scans /\ mode' = tool
          BY <2>3, <4>2, <4>6
        <5> QED
          BY <5>5, <5>6
      <4> QED
        BY <2>2, <4>1, <4>4, <4>5, <4>6
    <3> QED
      BY <2>6, <3>1, <3>2, <3>3, <3>4, <3>5 DEF Reader
  <2>7. ASSUME ~ReadEnd PROVE StreamInv'
    BY <1>1, <1>3, <2>0, <2>1, <2>6, <2>7, AdvanceKeepsStream
  <2> QED
    BY <2>5, <2>7
<1> QED
  BY <1>2, <1>3

(***************************************************************************)
(* Every step keeps the parser in step.                                    *)
(***************************************************************************)
LEMMA StreamStep == TypeInv /\ StartInv /\ StreamInv /\ [Next]_vars => StreamInv'
<1> SUFFICES ASSUME TypeInv, StartInv, StreamInv, [Next]_vars
             PROVE  StreamInv'
  OBVIOUS
<1>1. CASE Script
  BY <1>1, ScriptKeepsStream
<1>2. CASE Reader
  BY <1>2, ReaderKeepsStream
<1>3. CASE \/ FallsSilent \/ Torn \/ Cancel \/ Runner \/ ReadGarbled \/ ReadEOF \/ Lookup
           \/ Finish \/ UNCHANGED vars
  <2>1. UNCHANGED <<tool, finished, scans, mode, section, body, sockMap>>
    BY <1>3 DEF FallsSilent, Torn, Cancel, Runner, Starts, Closing, Closed, Lost, Ends,
                ReadGarbled, ReadEOF, Lookup, LookupAnswered, LookupFails, Finish, vars, remote, parsing
  <2>6. \/ out' = out /\ (Uncut' => (Uncut /\ script' = script) \/ script' = "starting")
        \/ out' \in Cuts(out) /\ ~Uncut'
    <3>1. Torn \/ Closing \/ Lost => out' \in Cuts(out) /\ ~Uncut'
      BY DEF Torn, Closing, Lost, Return, Uncut
    <3>2. Starts => out' = out /\ (Uncut' => script' = "starting")
      BY DEF Starts, Return, Uncut
    <3>3. Closed \/ Ends => out' = out /\ ~Uncut'
      BY DEF Closed, Ends, Return, Uncut
    <3>4. FallsSilent \/ Cancel \/ ReadGarbled \/ ReadEOF \/ Lookup \/ Finish \/ UNCHANGED vars =>
            out' = out /\ (Uncut' => Uncut) /\ script' = script
      BY DEF FallsSilent, Cancel, ReadGarbled, ReadEOF, Lookup, LookupAnswered, LookupFails,
             Finish, vars, remote, running, Uncut
    <3> QED
      BY <1>3, <3>1, <3>2, <3>3, <3>4 DEF Runner
  <2>7. CASE tool = "none"
    BY <2>1, <2>7 DEF StreamInv
  <2>8. CASE tool # "none"
    BY <2>1, <2>6, <2>8, QuietKeepsStream
  <2> QED
    BY <2>7, <2>8
<1> QED
  BY <1>1, <1>2, <1>3 DEF Next, Parser, Reader, Lookup, Ended

(***************************************************************************)
(* Wherever the script, the session or the connection is cut off, what     *)
(* reaches the manager are scans the script completed, each whole and      *)
(* once, in order (consume and build, monitor.go; script.go).              *)
(***************************************************************************)
THEOREM ScansAreWhole == Spec => []ScansArriveWhole
<1>1. TypeInv /\ StartInv /\ StreamInv => ScansArriveWhole
  <2> SUFFICES ASSUME TypeInv, StartInv, StreamInv
               PROVE  ScansArriveWhole
    OBVIOUS
  <2>1. CASE tool = "none"
    <3>1. scans = << >> /\ finished = << >>
      BY <2>1 DEF StartInv
    <3> QED
      BY <3>1 DEF ScansArriveWhole
  <2>2. CASE tool # "none"
    <3>1. PICK j \in (-1)..(Size - 1), tail \in Sound : Reads(j, tail)
      BY <2>2 DEF StreamInv
    <3>2. /\ Len(scans) <= Len(finished) /\ Len(scans) \in Nat /\ Len(finished) \in Nat
          /\ \A i \in 1..Len(scans) : scans[i] = finished[i]
          /\ scans \in Seq(Snapshot) /\ finished \in Seq(Sound)
      BY <2>2, <3>1, Measures DEF Reads
    <3>3. /\ Len(SubSeq(finished, 1, Len(scans))) = Len(scans)
          /\ \A i \in 1..Len(scans) : SubSeq(finished, 1, Len(scans))[i] = scans[i]
          /\ SubSeq(finished, 1, Len(scans)) \in Seq(Sound)
      BY <3>2
    <3>4. scans = SubSeq(finished, 1, Len(scans))
      BY <3>2, <3>3
    <3> QED
      BY <3>2, <3>4 DEF ScansArriveWhole
  <2> QED
    BY <2>1, <2>2
<1> QED
  BY <1>1, TypeInit, TypeStep, StartInit, StartStep, StreamInit, StreamStep, PTL DEF Spec

-----------------------------------------------------------------------------
(***************************************************************************)
(* Who stopped whom.  A parser that ends with the pipe has a session that  *)
(* returned; a session that was told to stop was told by the round or by a *)
(* parser that had its own reason; and a clean exit met by a parser that   *)
(* still listened leaves nothing unread.                                   *)
(***************************************************************************)
CauseInv ==
  /\ parseErr \in {"eof", "no output"} => runner = "returned"
  /\ runner = "closing" \/ runErr = "cancelled" =>
       ctx \/ parseErr \in {"remote", "unreadable", "cancelled"}
  /\ parseErr = "cancelled" => ctx
  /\ parseErr = "remote" => tool = "none"
  /\ runErr = "nil" /\ parseErr \in {"none", "eof"} =>
       Len(scans) = Len(finished) /\ out = << >> /\ script = "exited"
  /\ result # "running" => result = Reason /\ runner = "returned" /\ parser = "gone"

(***************************************************************************)
(* Nothing has stopped when the round begins.                              *)
(***************************************************************************)
LEMMA CauseInit == Init => CauseInv
  BY DEF Init, CauseInv

(***************************************************************************)
(* A script that exited, in a session that was not cut off, is parsed to   *)
(* its last scan when nothing of its output waits.                         *)
(***************************************************************************)
LEMMA ExitLeavesNothing ==
  ASSUME TypeInv, StartInv, StreamInv, Uncut, script = "exited", out = << >>
  PROVE  Len(scans) = Len(finished)
<1>1. CASE tool = "none"
  BY <1>1 DEF StartInv
<1>2. CASE tool # "none"
  <2>1. PICK j \in (-1)..(Size - 1), tail \in Sound : Reads(j, tail)
    BY <1>2 DEF StreamInv
  <2>2. /\ Size \in {3, 5} /\ Len(scans) \in Nat /\ Len(finished) \in Nat
        /\ Len(scans) <= Len(finished) /\ Len(out) = 0
    BY <1>2, <2>1, Measures DEF Reads
  <2>3. SUFFICES ASSUME Len(finished) # Len(scans) PROVE FALSE
    OBVIOUS
  <2>4. Len(out) + j >= Place(Size, Len(finished) - Len(scans), 0)
    BY <2>1, <2>3 DEF Reads, Reach
  <2>5. Len(finished) - Len(scans) \in Int /\ Len(finished) - Len(scans) > 0
    BY <2>2, <2>3
  <2>6. /\ Place(Size, Len(finished) - Len(scans), 0) \in Int
        /\ Place(Size, Len(finished) - Len(scans), 0) >= Size
    BY <2>2, <2>5, EndsAhead
  <2> QED
    BY <2>2, <2>4, <2>6
<1> QED
  BY <1>1, <1>2

(***************************************************************************)
(* The parser stops for an error line only of a script without a tool, and *)
(* otherwise because it was told to while the round was cancelled.         *)
(***************************************************************************)
LEMMA ReaderKeepsCause ==
  ASSUME TypeInv, StartInv, StreamInv, CauseInv, Reader
  PROVE  CauseInv'
<1>1. /\ parser = "reading" /\ out # << >> /\ out' = Tail(out)
      /\ UNCHANGED <<tool, script, finished, net, runner, runErr, ctx, result>>
  BY DEF Reader, ReadError, ReadReady, ReadScan, ReadSockMap, ReadText, ReadEnd, Line,
         remote, running
<1>2. parseErr = "none"
  BY <1>1 DEF TypeInv, ParserTypes
<1>3. GoOn \/ (ReadError /\ Stop("remote"))
  BY DEF Reader, ReadError, ReadReady, ReadScan, ReadSockMap, ReadText, ReadEnd
<1>4. ReadError => tool = "none"
  <2> SUFFICES ASSUME ReadError, tool # "none" PROVE FALSE
    OBVIOUS
  <2>1. PICK j \in (-1)..(Size - 1), tail \in Sound : Reads(j, tail)
    BY DEF StreamInv
  <2>2. Head(out).kind # "error"
    BY <1>1, <2>1, KindOfLine
  <2> QED
    BY <2>2 DEF ReadError, Line
<1>5. \/ parseErr' = "none"
      \/ parseErr' = "cancelled" /\ ctx
      \/ parseErr' = "remote" /\ tool = "none"
  BY <1>1, <1>2, <1>3, <1>4 DEF GoOn, Stop, RunCancelled
<1>6. runErr # "nil"
  BY <1>1, <1>2 DEF CauseInv
<1>7. result = "running"
  BY <1>1 DEF CauseInv
<1> QED
  BY <1>1, <1>2, <1>5, <1>6, <1>7 DEF CauseInv

(***************************************************************************)
(* The session returns for its own reason.                                 *)
(***************************************************************************)
LEMMA RunnerKeepsCause ==
  ASSUME TypeInv, StartInv, StreamInv, CauseInv, Runner
  PROVE  CauseInv'
<1>1. /\ runner # "returned" /\ runErr = "none" /\ result = "running"
      /\ UNCHANGED <<tool, finished, scans, ctx, parser, parseErr, result>>
  BY DEF Runner, Starts, Closing, Closed, Lost, Ends, remote, parsing, TypeInv, SessionTypes,
         CauseInv
<1>2. /\ parseErr \in {"none", "remote", "unreadable", "cancelled"}
      /\ parser = "gone" <=> parseErr # "none"
  BY <1>1 DEF TypeInv, ParserTypes, CauseInv
<1>3. ASSUME runner' = "closing" \/ runErr' = "cancelled" =>
               ctx \/ parseErr \in {"remote", "unreadable", "cancelled"},
             runErr' = "nil" /\ parseErr = "none" =>
               Len(scans') = Len(finished') /\ out' = << >> /\ script' = "exited"
      PROVE  CauseInv'
  <2>1. result' = "running" /\ parseErr' \in {"none", "remote", "unreadable", "cancelled"}
    BY <1>1, <1>2
  <2>2. runner' = "closing" \/ runErr' = "cancelled" =>
          ctx' \/ parseErr' \in {"remote", "unreadable", "cancelled"}
    BY <1>1, <1>3
  <2>3. parseErr' = "cancelled" => ctx'
    BY <1>1 DEF CauseInv
  <2>4. parseErr' = "remote" => tool' = "none"
    BY <1>1 DEF CauseInv
  <2>5. runErr' = "nil" /\ parseErr' = "none" =>
          Len(scans') = Len(finished') /\ out' = << >> /\ script' = "exited"
    BY <1>1, <1>3
  <2> QED
    BY <2>1, <2>2, <2>3, <2>4, <2>5 DEF CauseInv
<1>4. CASE Starts \/ Lost
  <2>1. runner' # "closing" /\ runErr' \in {"none", "failed", "lost"}
    BY <1>1, <1>4 DEF Starts, Lost, Return
  <2> QED
    BY <1>3, <2>1
<1>5. CASE Closing
  <2>1. ctx \/ parseErr \in {"remote", "unreadable", "cancelled"}
    BY <1>2, <1>5 DEF Closing, RunCancelled
  <2>2. runErr' = "none"
    BY <1>1, <1>5 DEF Closing
  <2> QED
    BY <1>3, <2>1, <2>2
<1>6. CASE Closed
  <2>1. runner' = "returned" /\ runErr' = "cancelled" /\ runner = "closing"
    BY <1>6 DEF Closed, Return
  <2>2. ctx \/ parseErr \in {"remote", "unreadable", "cancelled"}
    BY <2>1 DEF CauseInv
  <2> QED
    BY <1>3, <2>1, <2>2
<1>7. CASE Ends
  <2>1. /\ runner' = "returned" /\ runErr' \in {"nil", "failed"} /\ UNCHANGED <<out, script>>
        /\ runErr' = "nil" => script = "exited" /\ net = "up" /\ runner = "streaming"
        /\ out = << >> \/ parser = "gone"
    BY <1>7 DEF Ends, Return, Copied, remote
  <2>2. runErr' = "nil" /\ parseErr = "none" =>
          Len(scans) = Len(finished) /\ out = << >> /\ script = "exited"
    <3> SUFFICES ASSUME runErr' = "nil", parseErr = "none"
                 PROVE  Len(scans) = Len(finished) /\ out = << >> /\ script = "exited"
      OBVIOUS
    <3>1. Uncut /\ script = "exited" /\ out = << >>
      BY <1>2, <2>1 DEF Uncut
    <3> QED
      BY <3>1, ExitLeavesNothing
  <2>3. Len(scans') = Len(finished') <=> Len(scans) = Len(finished)
    BY <1>1
  <2> QED
    BY <1>3, <2>1, <2>2, <2>3
<1> QED
  BY <1>4, <1>5, <1>6, <1>7 DEF Runner

(***************************************************************************)
(* The other steps stop nobody.                                            *)
(***************************************************************************)
LEMMA OthersKeepCause ==
  ASSUME TypeInv, CauseInv,
         \/ Script \/ FallsSilent \/ Torn \/ Cancel \/ ReadGarbled \/ ReadEOF \/ Lookup \/ Finish
         \/ UNCHANGED vars
  PROVE  CauseInv'
<1>1. CASE Script
  <2>1. /\ runner = "streaming"
        /\ UNCHANGED <<tool, ctx, runner, runErr, parser, parseErr, scans, result>>
    BY <1>1 DEF Script, ScriptAnnounces, ScriptGivesUp, ScriptScans, ScriptExits, Works,
                running, parsing
  <2>2. runErr = "none"
    BY <2>1 DEF TypeInv, SessionTypes
  <2>3. result = "running"
    BY <2>1 DEF CauseInv
  <2> QED
    BY <2>1, <2>2, <2>3 DEF CauseInv
<1>2. CASE FallsSilent \/ Torn \/ Cancel \/ Lookup \/ UNCHANGED vars
  <2>1. /\ UNCHANGED <<tool, script, finished, scans, runner, runErr, parser, parseErr, result>>
        /\ ctx => ctx'
        /\ out' = out \/ out' \in Cuts(out)
    BY <1>2 DEF FallsSilent, Torn, Cancel, Lookup, LookupAnswered, LookupFails, vars, remote,
                running, parsing
  <2>2. out = << >> => out' = << >>
    <3>1. \A t \in Cuts(<< >>) : t = << >>
      BY DEF Cuts
    <3> QED
      BY <2>1, <3>1
  <2>3. Reason' = Reason
    BY <2>1 DEF Reason
  <2> QED
    BY <2>1, <2>2, <2>3 DEF CauseInv
<1>3. CASE ReadEOF
  <2>1. /\ parser = "reading" /\ runner = "returned" /\ out = << >>
        /\ parseErr' \in {"no output", "eof"}
        /\ UNCHANGED <<tool, script, finished, out, scans, runner, runErr, ctx, result>>
    BY <1>3 DEF ReadEOF, Stop, remote, running
  <2>2. parseErr = "none" /\ result = "running"
    BY <2>1 DEF TypeInv, ParserTypes, CauseInv
  <2> QED
    BY <2>1, <2>2 DEF CauseInv
<1>5. CASE ReadGarbled
  <2>1. /\ parser = "reading" /\ out # << >> /\ parseErr' = "unreadable"
        /\ UNCHANGED <<tool, script, finished, out, scans, runner, runErr, ctx, result>>
    BY <1>5 DEF ReadGarbled, Stop, remote, running
  <2>2. parseErr = "none" /\ result = "running"
    BY <2>1 DEF TypeInv, ParserTypes, CauseInv
  <2> QED
    BY <2>1, <2>2 DEF CauseInv
<1>4. CASE Finish
  <2>1. /\ runner = "returned" /\ parser = "gone" /\ result' = Reason
        /\ UNCHANGED <<tool, script, finished, out, scans, runner, runErr, ctx, parser, parseErr>>
    BY <1>4 DEF Finish, remote, running, parsing
  <2>2. Reason' = Reason
    BY <2>1 DEF Reason
  <2> QED
    BY <2>1, <2>2 DEF CauseInv
<1> QED
  BY <1>1, <1>2, <1>3, <1>4, <1>5

(***************************************************************************)
(* Every step keeps the causes.                                            *)
(***************************************************************************)
LEMMA CauseStep ==
  TypeInv /\ StartInv /\ StreamInv /\ CauseInv /\ [Next]_vars => CauseInv'
  BY ReaderKeepsCause, RunnerKeepsCause, OthersKeepCause DEF Next, Parser, Reader, Lookup, Ended

(***************************************************************************)
(* What Monitor.Run returns has its cause: a cancellation only if the      *)
(* program cancelled, an error of the remote only of a host without a      *)
(* tool, and a clean end (monitor.go:65) only if the script exited so and  *)
(* every scan it completed was delivered.                                  *)
(***************************************************************************)
THEOREM ResultIsTheCause == Spec => []ResultsNameTheCause
<1>1. TypeInv /\ CauseInv /\ ScansArriveWhole /\ StartInv => ResultsNameTheCause
  <2> SUFFICES ASSUME TypeInv, CauseInv, ScansArriveWhole, StartInv
               PROVE  ResultsNameTheCause
    OBVIOUS
  <2>1. result = "cancelled" => ctx
    BY DEF CauseInv, Reason, TypeInv, SessionTypes, ParserTypes
  <2>2. result = "remote" => tool = "none"
    BY DEF CauseInv, Reason, TypeInv, SessionTypes, ParserTypes
  <2>3. result = "eof" => script = "exited" /\ scans = finished
    <3> SUFFICES ASSUME result = "eof" PROVE script = "exited" /\ scans = finished
      OBVIOUS
    <3>1. parseErr = "eof" /\ runErr = "nil"
      BY DEF CauseInv, Reason, TypeInv, SessionTypes, ParserTypes
    <3>2. Len(scans) = Len(finished) /\ script = "exited"
      BY <3>1 DEF CauseInv
    <3>3. finished \in Seq(Sound) /\ scans = SubSeq(finished, 1, Len(finished))
      BY <3>2 DEF ScansArriveWhole, StartInv
    <3>4. SubSeq(finished, 1, Len(finished)) = finished
      BY <3>3
    <3> QED
      BY <3>2, <3>3, <3>4
  <2> QED
    BY <2>1, <2>2, <2>3 DEF ResultsNameTheCause
<1> QED
  BY <1>1, ScansAreWhole, TypeInit, TypeStep, StartInit, StartStep, StreamInit, StreamStep,
     CauseInit, CauseStep, PTL DEF Spec
-----------------------------------------------------------------------------
(***************************************************************************)
(* A mark outlives its lookup only with an answer: of every marked process *)
(* the command line is known, or asked for, or an answer left it out.      *)
(***************************************************************************)
MarksHaveReasons == unknown \subseteq resolved \cup (UNION lookups) \cup omitted

(***************************************************************************)
(* Every step keeps the reasons: an answer resolves or leaves out each     *)
(* process it was asked for, and a failure takes the marks of its lookup.  *)
(***************************************************************************)
LEMMA ReasonStep == MarksHaveReasons /\ [Next]_vars => MarksHaveReasons'
<1> SUFFICES ASSUME MarksHaveReasons, [Next]_vars
             PROVE  MarksHaveReasons'
  OBVIOUS
<1>1. CASE ReadEnd
  <2>1. /\ UNCHANGED <<resolved, omitted>>
        /\ unknown' = unknown \cup Needed(Build)
        /\ \A l \in lookups : l \in lookups'
        /\ Needed(Build) # {} => Needed(Build) \in lookups'
    BY <1>1 DEF ReadEnd
  <2> QED
    BY <2>1 DEF MarksHaveReasons
<1>2. ASSUME NEW l \in SUBSET Pids, LookupAnswered(l) PROVE MarksHaveReasons'
  <2>1. unknown' = unknown /\ lookups' = lookups \ {l}
    BY <1>2 DEF LookupAnswered
  <2>2. PICK found \in SUBSET l : resolved' = resolved \cup found
                               /\ omitted' = omitted \cup (l \ found)
    BY <1>2 DEF LookupAnswered
  <2> QED
    BY <2>1, <2>2 DEF MarksHaveReasons
<1>3. ASSUME NEW l \in SUBSET Pids, LookupFails(l) PROVE MarksHaveReasons'
  <2>1. /\ unknown' = unknown \ l /\ lookups' = lookups \ {l}
        /\ UNCHANGED <<resolved, omitted>>
    BY <1>3 DEF LookupFails
  <2> QED
    BY <2>1 DEF MarksHaveReasons
<1>4. CASE UNCHANGED names
  BY <1>4 DEF MarksHaveReasons, names
<1>5. UNCHANGED vars => UNCHANGED names
  BY DEF vars, names
<1> QED
  BY <1>1, <1>2, <1>3, <1>4, <1>5, OthersKeepTheNames DEF Next, Parser

(***************************************************************************)
(* Only the end of a scan delivers one.                                    *)
(***************************************************************************)
LEMMA OnlyEndsDeliver == [Next]_vars => ReadEnd \/ UNCHANGED scans
<1> SUFFICES ASSUME [Next]_vars, ~ReadEnd PROVE UNCHANGED scans
  OBVIOUS
<1>1. Script => UNCHANGED scans
  BY DEF Script, ScriptAnnounces, ScriptGivesUp, ScriptScans, ScriptExits
<1>2. Runner => UNCHANGED scans
  BY DEF Runner, Starts, Closing, Closed, Lost, Ends
<1>3. Parser => UNCHANGED scans
  BY DEF Parser, ReadError, ReadReady, ReadScan, ReadSockMap, ReadText, ReadGarbled,
         ReadEOF
<1>4. Lookup => UNCHANGED scans
  BY DEF Lookup, LookupAnswered, LookupFails
<1>5. FallsSilent \/ Torn \/ Cancel \/ Finish \/ UNCHANGED vars => UNCHANGED scans
  BY DEF FallsSilent, Torn, Cancel, Finish, vars
<1> QED
  BY <1>1, <1>2, <1>3, <1>4, <1>5 DEF Next, Lookup, Ended

(***************************************************************************)
(* "a retry on a later scan" (monitor.go:228): whatever lookups failed     *)
(* before and are under way, a scan leaves no process without a name that  *)
(* is neither asked for nor left out of an answer.                         *)
(***************************************************************************)
THEOREM NamesAreAskedFor == Spec => ScansAskForNames
<1>1. Init => MarksHaveReasons
  BY DEF Init, MarksHaveReasons
<1>2. ASSUME TypeInv, MarksHaveReasons, [Next]_vars, scans' # scans
      PROVE  scans'[Len(scans')].owners \subseteq resolved' \cup (UNION lookups') \cup omitted'
  <2>1. ReadEnd
    BY <1>2, OnlyEndsDeliver
  <2>2. scans \in Seq(Snapshot) /\ Build \in Snapshot
    BY <1>2, PartsAreSnapshots DEF TypeInv, RemoteTypes
  <2>3. scans'[Len(scans')] = Build
    BY <2>1, <2>2 DEF ReadEnd
  <2>4. /\ UNCHANGED <<resolved, omitted>>
        /\ \A l \in lookups : l \in lookups'
        /\ Needed(Build) # {} => Needed(Build) \in lookups'
    BY <2>1 DEF ReadEnd
  <2>5. Build.owners \subseteq resolved \cup unknown \cup Needed(Build)
    BY DEF Needed
  <2> QED
    BY <1>2, <2>3, <2>4, <2>5 DEF MarksHaveReasons
<1> QED
  BY <1>1, <1>2, TypeInit, TypeStep, ReasonStep, PTL DEF Spec, ScansAskForNames
=============================================================================
