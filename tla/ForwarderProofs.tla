--------------------------- MODULE ForwarderProofs ---------------------------
(***************************************************************************)
(* Proofs about a forwarder, for any number of connections and replies of  *)
(* any length.                                                             *)
(***************************************************************************)
EXTENDS Forwarder, SequenceTheorems, FiniteSetTheorems, TLAPS

-----------------------------------------------------------------------------
(***************************************************************************)
(* A reply in its three parts: what was heard, what is looked at and what  *)
(* waits.  Passing a piece on from one part to the next keeps the whole.   *)
(***************************************************************************)
LEMMA PassWaiting ==
  ASSUME NEW S, NEW h \in Seq(S), NEW p \in Seq(S), p # << >>
  PROVE  /\ Append(h, Head(p)) \o << >> \o Tail(p) = h \o << >> \o p
         /\ h \o <<Head(p)>> \o Tail(p) = h \o << >> \o p
         /\ Len(Append(h, Head(p))) = Len(h) + 1 /\ Len(Tail(p)) = Len(p) - 1
<1> DEFINE x == Head(p)
           t == Tail(p)
<1>1. /\ x \in S /\ t \in Seq(S) /\ Len(t) = Len(p) - 1 /\ x = p[1]
      /\ \A i \in 1..Len(t) : t[i] = p[i + 1]
  BY HeadTailProperties
<1>2. /\ Len(p) \in Nat \ {0} /\ Len(h) \in Nat /\ Len(t) \in Nat
  BY <1>1, EmptySeq, LenProperties
<1> HIDE DEF x, t
<1>3. /\ <<x>> \in Seq(S) /\ Len(<<x>>) = 1 /\ <<x>>[1] = x
      /\ Append(h, x) = h \o <<x>> /\ Len(Append(h, x)) = Len(h) + 1
  BY <1>1, AppendIsConcat
<1>4. h \o << >> = h /\ Append(h, x) \o << >> = h \o <<x>> /\ h \o <<x>> \in Seq(S)
  BY <1>1, <1>3, ConcatEmptySeq, ConcatProperties
<1>5. <<x>> \o t = p
  <2>1. /\ <<x>> \o t \in Seq(S) /\ Len(<<x>> \o t) = Len(p)
        /\ \A i \in 1..Len(p) : (<<x>> \o t)[i] = IF i <= 1 THEN <<x>>[i] ELSE t[i - 1]
    BY <1>1, <1>2, <1>3, ConcatProperties
  <2>2. \A i \in 1..Len(p) : (<<x>> \o t)[i] = p[i]
    BY <1>1, <1>2, <1>3, <2>1
  <2> QED  BY <2>1, <2>2, SeqEqual
<1>6. (h \o <<x>>) \o t = h \o p
  <2>1. (h \o <<x>>) \o t = h \o (<<x>> \o t)
    BY <1>1, <1>3, ConcatAssociative
  <2> QED  BY <1>5, <2>1
<1>7. /\ (Append(h, x) \o << >>) \o t = (h \o << >>) \o p
      /\ (h \o <<x>>) \o t = (h \o << >>) \o p
  BY <1>4, <1>6
<1> QED
  BY <1>1, <1>3, <1>7 DEF x, t

LEMMA OneLong ==
  ASSUME NEW S, NEW d \in Seq(S), NEW x \in S, Len(d) = 1, d[1] = x
  PROVE  d = <<x>>
<1>1. <<x>> \in Seq(S) /\ Len(<<x>>) = 1 /\ <<x>>[1] = x
  OBVIOUS
<1>2. \A i \in 1..Len(d) : d[i] = <<x>>[i]
  BY <1>1
<1> QED
  BY <1>1, <1>2, SeqEqual

LEMMA PassHeld ==
  ASSUME NEW S, NEW h \in Seq(S), NEW x \in S
  PROVE  Append(h, x) \o << >> = h \o <<x>>
<1>1. Append(h, x) = h \o <<x>> /\ Append(h, x) \in Seq(S)
  BY AppendIsConcat
<1> QED
  BY <1>1, ConcatEmptySeq

LEMMA PassNew ==
  ASSUME NEW S, NEW h \in Seq(S), NEW d \in Seq(S), NEW p \in Seq(S), NEW x \in S
  PROVE  h \o d \o Append(p, x) = Append(h \o d \o p, x)
<1>1. /\ <<x>> \in Seq(S) /\ h \o d \in Seq(S) /\ (h \o d) \o p \in Seq(S)
  BY ConcatProperties
<1>2. Append(p, x) = p \o <<x>> /\ Append(h \o d \o p, x) = (h \o d \o p) \o <<x>>
  BY <1>1, AppendIsConcat
<1> QED
  BY <1>1, <1>2, ConcatAssociative

-----------------------------------------------------------------------------
(***************************************************************************)
(* The inductive invariant.  Of a connection r: the reply's copier holds a *)
(* piece only while it reports it, no more is on its way than was said,    *)
(* and while the link is up nothing is missing either; the client has read *)
(* the end only of a reply that has ended.                                 *)
(***************************************************************************)
Shape ==
  [ stage : {"away", "dialing", "open", "torn"},
    client : {"writes", "ended", "left"}, clientDone : BOOLEAN,
    serviceEnd : BOOLEAN, serviceDone : BOOLEAN, said : Seq(Pieces),
    pipe : Seq(Pieces), held : Seq(Pieces), heard : Seq(Pieces),
    outgoing : {"none", "copy", "done"},
    incoming : {"none", "sniff", "tell", "copy", "done"} ]

Orderly(r) ==
  /\ IF r.incoming = "tell" THEN Len(r.held) = 1 ELSE r.held = << >>
  /\ r.stage \in {"away", "dialing"} => r.incoming = "none" /\ ~r.clientDone
  /\ r.clientDone => r.incoming \in {"none", "done"}
  /\ Len(r.heard) + Len(r.held) + Len(r.pipe) <= Len(r.said)
  /\ Len(r.said) <= MaxReply

Intact(r) ==
  /\ r.said = r.heard \o r.held \o r.pipe
  /\ r.clientDone => r.heard = r.said /\ r.serviceEnd

Sound(r, up) ==
  /\ r \in Shape /\ Orderly(r)
  /\ up /\ r.client # "left" => Intact(r)

ConnsSound ==
  /\ DOMAIN conn = Clients /\ conn = [c \in Clients |-> conn[c]]
  /\ \A c \in Clients : Sound(conn[c], link)

Counted == wg = Cardinality(Handled) + (IF acceptor = "accepting" THEN 1 ELSE 0)

Modes ==
  /\ acceptor \in {"accepting", "gone"}
  /\ {link, listening, drained, sniffed} \subseteq BOOLEAN
  /\ seen \in {"unknown", "http", "https"}
  /\ <<mu, manager>> \in {<<"free", "running">>, <<"manager", "closing">>,
                          <<"manager", "stopped">>, <<"free", "done">>}

FwdInv == ConnsSound /\ Counted /\ Modes /\ NothingOutlivesTheDrain

LEMMA HandledFinite == IsFiniteSet(Handled) /\ Cardinality(Handled) \in Nat
  BY ForwarderAssumption, FS_Subset, FS_CardinalityType DEF Handled

LEMMA FwdInit == Init => FwdInv
<1> SUFFICES ASSUME Init PROVE FwdInv
  OBVIOUS
<1>1. Handled = {}
  BY DEF Init, Handled, Nobody
<1>2. Sound(Nobody, TRUE)
  <2>1. << >> \in Seq(Pieces) /\ Len(<< >>) = 0 /\ << >> = << >> \o << >> \o << >>
    BY EmptySeq, ConcatEmptySeq
  <2>2. Nobody \in Shape
    BY <2>1 DEF Nobody, Shape
  <2> QED
    BY <2>1, <2>2, ForwarderAssumption DEF Sound, Orderly, Intact, Nobody
<1>3. ConnsSound
  BY <1>2 DEF Init, ConnsSound
<1>4. Counted
  BY <1>1, FS_EmptySet DEF Init, Counted
<1> QED
  BY <1>3, <1>4 DEF Init, FwdInv, Modes, NothingOutlivesTheDrain

-----------------------------------------------------------------------------
(***************************************************************************)
(* A step of one connection: it stays sound if what becomes of it is, and  *)
(* the count follows whether it is still handled.                          *)
(***************************************************************************)
LEMMA ConnStep ==
  ASSUME ConnsSound, NEW c \in Clients, NEW r, Sound(r, link),
         conn' = [conn EXCEPT ![c] = r], link' = link
  PROVE  ConnsSound'
<1>1. conn'[c] = r /\ \A d \in Clients \ {c} : conn'[d] = conn[d]
  BY DEF ConnsSound
<1>2. DOMAIN conn' = Clients /\ conn' = [d \in Clients |-> conn'[d]]
  BY DEF ConnsSound
<1> QED
  BY <1>1, <1>2 DEF ConnsSound

LEMMA SameCount ==
  ASSUME FwdInv, NEW c \in Clients, NEW r,
         conn' = [conn EXCEPT ![c] = r],
         r.stage \in {"dialing", "open"} <=> conn[c].stage \in {"dialing", "open"},
         UNCHANGED <<accepting, waiting, shutdown>>
  PROVE  Counted' /\ NothingOutlivesTheDrain'
<1>1. conn'[c] = r /\ \A d \in Clients \ {c} : conn'[d] = conn[d]
  BY DEF FwdInv, ConnsSound
<1>2. Handled' = Handled
  BY <1>1 DEF Handled
<1> QED
  BY <1>2 DEF FwdInv, Counted, NothingOutlivesTheDrain, accepting, waiting

(***************************************************************************)
(* What the steps leave alone.                                             *)
(***************************************************************************)
LEMMA QuietStep ==
  ASSUME FwdInv, NEW c \in Clients, NEW r, Sound(r, link),
         conn' = [conn EXCEPT ![c] = r],
         r.stage \in {"dialing", "open"} <=> conn[c].stage \in {"dialing", "open"},
         UNCHANGED <<link, accepting, waiting, shutdown>>,
         sniffed' \in BOOLEAN, seen' \in {"unknown", "http", "https"}
  PROVE  FwdInv'
<1>1. ConnsSound'
  BY ConnStep DEF FwdInv
<1>2. Counted' /\ NothingOutlivesTheDrain'
  BY SameCount
<1>3. Modes'
  BY DEF FwdInv, Modes, accepting, waiting, shutdown
<1> QED
  BY <1>1, <1>2, <1>3 DEF FwdInv

\* A connection that is over has nothing to lose.
LEMMA OverIsSound == \A up \in BOOLEAN : Sound(Over, up)
<1>1. << >> \in Seq(Pieces) /\ Len(<< >>) = 0 /\ << >> = << >> \o << >> \o << >>
  BY EmptySeq, ConcatEmptySeq
<1>2. Over \in Shape
  BY <1>1 DEF Over, Nobody, Shape
<1> QED
  BY <1>1, <1>2, ForwarderAssumption DEF Sound, Orderly, Intact, Over, Nobody

\* One connection more, or one less.
LEMMA AcceptKeeps ==
  ASSUME FwdInv, NEW c \in Clients, Accept(c)
  PROVE  FwdInv'
<1> DEFINE r == [conn[c] EXCEPT !.stage = "dialing"]
<1>1. conn' = [conn EXCEPT ![c] = r] /\ link' = link /\ conn[c].stage = "away"
  BY DEF Accept, FwdInv, ConnsSound, Sound, Shape
<1>2. Sound(r, link)
  <2>1. conn[c] \in Shape /\ Orderly(conn[c]) /\ Sound(conn[c], link)
    BY DEF FwdInv, ConnsSound, Sound
  <2> QED
    BY <1>1, <2>1 DEF Sound, Orderly, Intact, Shape
<1> HIDE DEF r
<1>3. ConnsSound'
  BY <1>1, <1>2, ConnStep DEF FwdInv
<1>4. Handled' = Handled \cup {c} /\ c \notin Handled
  <2>1. conn'[c] = r /\ \A d \in Clients \ {c} : conn'[d] = conn[d]
    BY <1>1 DEF FwdInv, ConnsSound
  <2>2. r.stage = "dialing"
    BY DEF r, FwdInv, ConnsSound, Sound, Shape
  <2> QED
    BY <1>1, <2>1, <2>2 DEF Handled
<1>5. Counted'
  <2>1. Cardinality(Handled') = Cardinality(Handled) + 1
    BY <1>4, HandledFinite, FS_AddElement
  <2> QED
    BY <2>1, HandledFinite DEF FwdInv, Counted, Accept, Admitted, accepting
<1>6. Modes' /\ NothingOutlivesTheDrain'
  BY DEF Accept, FwdInv, Modes, NothingOutlivesTheDrain, accepting, sniffing, shutdown
<1> QED
  BY <1>3, <1>5, <1>6 DEF FwdInv

LEMMA LeaveKeeps ==
  ASSUME FwdInv, NEW c \in Clients, DialFails(c) \/ Finish(c)
  PROVE  FwdInv'
<1>1. /\ conn' = [conn EXCEPT ![c] = Over] /\ conn[c].stage \in {"dialing", "open"}
      /\ wg' = wg - 1
      /\ UNCHANGED <<link, accepting, drained, sniffing, shutdown>>
  BY DEF DialFails, Finish, Left
<1>2. ConnsSound'
  BY <1>1, OverIsSound, ConnStep DEF FwdInv, Modes
<1>3. Handled' = Handled \ {c} /\ c \in Handled
  <2>1. conn'[c] = Over /\ \A d \in Clients \ {c} : conn'[d] = conn[d]
    BY <1>1 DEF FwdInv, ConnsSound
  <2>2. Over.stage = "torn"
    BY DEF Over, Nobody
  <2> QED
    BY <1>1, <2>1, <2>2 DEF Handled
<1>4. Counted'
  <2>1. Cardinality(Handled') = Cardinality(Handled) - 1
    BY <1>3, HandledFinite, FS_RemoveElement
  <2> QED
    BY <1>1, <2>1, HandledFinite DEF FwdInv, Counted, accepting
<1>5. Modes' /\ NothingOutlivesTheDrain'
  BY <1>1, <1>3 DEF FwdInv, Modes, NothingOutlivesTheDrain, accepting, sniffing, shutdown
<1> QED
  BY <1>2, <1>4, <1>5 DEF FwdInv

LEMMA DialKeeps ==
  ASSUME FwdInv, NEW c \in Clients, Dial(c)
  PROVE  FwdInv'
<1> DEFINE r == [conn[c] EXCEPT !.stage = "open", !.outgoing = "copy",
                                !.incoming = IF sniffed THEN "copy" ELSE "sniff"]
<1>1. conn[c] \in Shape /\ Orderly(conn[c]) /\ Sound(conn[c], link)
  BY DEF FwdInv, ConnsSound, Sound
<1>2. conn' = [conn EXCEPT ![c] = r] /\ conn[c].stage = "dialing"
  BY DEF Dial
<1>3. ~conn[c].clientDone /\ conn[c].held = << >>
  BY <1>1, <1>2 DEF Orderly
<1>4. Sound(r, link)
  BY <1>1, <1>2, <1>3 DEF Sound, Orderly, Intact, Shape
<1>5. r.stage = "open"
  BY <1>1 DEF Shape
<1> HIDE DEF r
<1> QED
  BY <1>2, <1>4, <1>5, QuietStep DEF Dial, FwdInv, Modes

-----------------------------------------------------------------------------
(***************************************************************************)
(* The copiers and the peers.  The facts about one connection that every   *)
(* step of it starts from:                                                 *)
(***************************************************************************)
LEMMA ConnFacts ==
  ASSUME FwdInv, NEW c \in Clients
  PROVE  /\ conn[c] \in Shape /\ Orderly(conn[c])
         /\ link /\ conn[c].client # "left" => Intact(conn[c])
         /\ Len(conn[c].heard) \in Nat /\ Len(conn[c].held) \in Nat
         /\ Len(conn[c].pipe) \in Nat /\ Len(conn[c].said) \in Nat
  BY LenProperties DEF FwdInv, ConnsSound, Sound, Shape

LEMMA RequestKeeps ==
  ASSUME FwdInv, NEW c \in Clients, Request(c)
  PROVE  FwdInv'
<1> DEFINE r == PassEnd(conn[c])
<1>1. /\ conn' = [conn EXCEPT ![c] = r]
      /\ UNCHANGED <<link, accepting, waiting, sniffing, shutdown>>
  BY DEF Request, RequestEnds, RequestFails
<1>2. Sound(r, link) /\ r.stage = conn[c].stage
  <2>1. conn[c] \in Shape /\ Orderly(conn[c])
    BY ConnFacts
  <2>2. r \in Shape /\ r.stage = conn[c].stage /\ r.client = conn[c].client
    BY <2>1 DEF PassEnd, Shape
  <2>3. Orderly(r)
    BY <2>1 DEF PassEnd, Orderly, Shape
  <2>4. link /\ r.client # "left" => Intact(r)
    BY <2>1, <2>2, ConnFacts DEF PassEnd, Intact, Shape
  <2> QED
    BY <2>2, <2>3, <2>4 DEF Sound
<1> HIDE DEF r
<1> QED
  BY <1>1, <1>2, QuietStep DEF FwdInv, Modes, sniffing

\* In numbers: where a piece has left one part there is room in another.
LEMMA Room ==
  ASSUME NEW a \in Nat, NEW b \in Nat, NEW n \in Nat
  PROVE  /\ a + b < n => (a + 1) + 0 + b <= n
         /\ a + 0 + b <= n /\ b > 0 => a + (b - 1) < n
         /\ a + 0 + b <= n => a + 1 + (b - 1) <= n
         /\ a + 1 + b <= n => a + b < n
  OBVIOUS

\* Passing the head on, or losing it with a client that has left.
LEMMA DeliverKeeps ==
  ASSUME NEW r \in Shape, r.held = << >>, ~r.clientDone,
         r.stage \notin {"away", "dialing"}, r.incoming = "copy",
         NEW x \in Pieces, NEW up \in BOOLEAN, NEW d \in Deliver(r, x),
         Len(r.heard) + Len(r.pipe) < Len(r.said), Len(r.said) <= MaxReply,
         up /\ r.client # "left" =>
           r.said = Append(r.heard, x) \o << >> \o r.pipe
  PROVE  Sound(d, up) /\ d.stage = r.stage
<1>0. Len(r.heard) \in Nat /\ Len(r.pipe) \in Nat /\ Len(r.said) \in Nat
  BY LenProperties DEF Shape
<1>1. Len(<< >>) = 0 /\ << >> \in Seq(Pieces)
  BY EmptySeq
<1>2. CASE d = [r EXCEPT !.heard = Append(@, x)]
  <2>1. /\ Append(r.heard, x) \in Seq(Pieces)
        /\ Len(Append(r.heard, x)) = Len(r.heard) + 1
    BY DEF Shape
  <2>2. d \in Shape
    BY <1>2, <2>1 DEF Shape
  <2>3. /\ d.heard = Append(r.heard, x) /\ d.held = << >> /\ d.pipe = r.pipe
        /\ d.said = r.said /\ d.incoming = "copy" /\ ~d.clientDone
        /\ d.client = r.client /\ d.stage = r.stage
    BY <1>2 DEF Shape
  <2>4. Orderly(d)
    <3>1. /\ Len(d.held) = 0 /\ Len(d.heard) = Len(r.heard) + 1
          /\ Len(d.pipe) = Len(r.pipe) /\ Len(d.said) = Len(r.said)
      BY <1>1, <2>1, <2>3
    <3>2. (Len(r.heard) + 1) + 0 + Len(r.pipe) <= Len(r.said)
      BY <1>0, Room
    <3>4. Len(d.heard) + Len(d.held) + Len(d.pipe) <= Len(d.said)
      BY <3>1, <3>2, Zenon
    <3>3. Len(d.said) <= MaxReply
      BY <3>1
    <3> QED
      BY <2>3, <3>3, <3>4 DEF Orderly
  <2>5. up /\ d.client # "left" => Intact(d)
    BY <2>3 DEF Intact
  <2> QED
    BY <2>2, <2>3, <2>4, <2>5 DEF Sound
<1>3. CASE r.client = "left" /\ d = [r EXCEPT !.incoming = "done"]
  <2>1. /\ d \in Shape /\ d.client = "left" /\ d.incoming = "done" /\ d.stage = r.stage
        /\ d.heard = r.heard /\ d.held = << >> /\ d.pipe = r.pipe /\ d.said = r.said
    BY <1>3 DEF Shape
  <2>2. \A i, k, n \in Nat : i + k < n => i + 0 + k <= n
    OBVIOUS
  <2>3. /\ Len(d.heard) + Len(d.held) + Len(d.pipe) <= Len(d.said)
        /\ Len(d.said) <= MaxReply
    BY <1>0, <1>1, <2>1, <2>2, Zenon
  <2>4. Orderly(d)
    BY <2>1, <2>3 DEF Orderly
  <2> QED
    BY <2>1, <2>4 DEF Sound
<1> QED
  BY <1>2, <1>3 DEF Deliver

LEMMA CopyKeeps ==
  ASSUME FwdInv, NEW c \in Clients, CopyPiece(c)
  PROVE  FwdInv'
<1> DEFINE r == [conn[c] EXCEPT !.pipe = Tail(@)]
           x == Head(conn[c].pipe)
<1>1. /\ conn[c].incoming = "copy" /\ conn[c].pipe # << >>
      /\ UNCHANGED <<link, accepting, waiting, sniffing, shutdown>>
      /\ \E d \in Deliver(r, x) : conn' = [conn EXCEPT ![c] = d]
  BY DEF CopyPiece
<1>2. PICK d \in Deliver(r, x) : conn' = [conn EXCEPT ![c] = d]
  BY <1>1
<1>3. /\ conn[c] \in Shape /\ conn[c].held = << >> /\ ~conn[c].clientDone
      /\ conn[c].stage \notin {"away", "dialing"}
  BY <1>1, ConnFacts DEF Orderly
<1>4. x \in Pieces /\ Tail(conn[c].pipe) \in Seq(Pieces)
  BY <1>1, <1>3, HeadTailProperties DEF Shape
<1>5. /\ r \in Shape /\ r.held = << >> /\ ~r.clientDone /\ r.stage = conn[c].stage
      /\ r.incoming = "copy" /\ r.heard = conn[c].heard /\ r.said = conn[c].said
      /\ r.pipe = Tail(conn[c].pipe) /\ r.client = conn[c].client
  BY <1>1, <1>3, <1>4 DEF Shape
<1>6. /\ Len(Tail(conn[c].pipe)) = Len(conn[c].pipe) - 1
      /\ Append(conn[c].heard, x) \o << >> \o Tail(conn[c].pipe)
           = conn[c].heard \o << >> \o conn[c].pipe
  <2>1. conn[c].heard \in Seq(Pieces) /\ conn[c].pipe \in Seq(Pieces)
    BY <1>3 DEF Shape
  <2> QED
    BY <1>1, <2>1, PassWaiting
<1> HIDE DEF r, x
<1>7. Len(r.heard) + Len(r.pipe) < Len(r.said) /\ Len(r.said) <= MaxReply
  <2>1. Len(conn[c].held) = 0
    BY <1>3, EmptySeq
  <2>2. /\ Len(conn[c].heard) + 0 + Len(conn[c].pipe) <= Len(conn[c].said)
        /\ Len(conn[c].said) <= MaxReply
    BY <2>1, ConnFacts, Zenon DEF Orderly
  <2>3. Len(conn[c].pipe) \in Nat /\ Len(conn[c].pipe) > 0
    BY <1>1, <1>3, EmptySeq DEF Shape
  <2>4. Len(conn[c].heard) + (Len(conn[c].pipe) - 1) < Len(conn[c].said)
    BY <2>2, <2>3, ConnFacts, Room, Zenon
  <2> QED
    BY <1>5, <1>6, <2>2, <2>4, Zenon
<1>8. link /\ r.client # "left" => r.said = Append(r.heard, x) \o << >> \o r.pipe
  BY <1>3, <1>5, <1>6, ConnFacts DEF Intact
<1>9. Sound(d, link) /\ d.stage = conn[c].stage
  <2>1. link \in BOOLEAN /\ r.stage \notin {"away", "dialing"}
    BY <1>3, <1>5 DEF FwdInv, Modes
  <2> QED
    BY <1>2, <1>4, <1>5, <1>7, <1>8, <2>1, DeliverKeeps
<1> QED
  BY <1>1, <1>2, <1>9, QuietStep DEF FwdInv, Modes, sniffing

LEMMA HeadKeeps ==
  ASSUME FwdInv, NEW c \in Clients, ReadHead(c)
  PROVE  FwdInv'
<1> DEFINE x == Head(conn[c].pipe)
           r == [conn[c] EXCEPT !.pipe = Tail(@)]
           g == [r EXCEPT !.held = << >>, !.incoming = "copy"]
           h == [r EXCEPT !.held = <<x>>, !.incoming = "tell"]
<1>1. /\ conn[c].incoming = "sniff" /\ conn[c].pipe # << >>
      /\ UNCHANGED <<link, accepting, waiting, sniffing, shutdown>>
      /\ \/ \E d \in Deliver(g, x) : conn' = [conn EXCEPT ![c] = d]
         \/ conn' = [conn EXCEPT ![c] = h]
  BY DEF ReadHead, DeliverHead
<1> HIDE DEF x, r, g, h
<1>2. /\ conn[c] \in Shape /\ conn[c].held = << >> /\ ~conn[c].clientDone
      /\ conn[c].stage \notin {"away", "dialing"}
  BY <1>1, ConnFacts DEF Orderly
<1>3. conn[c].heard \in Seq(Pieces) /\ conn[c].pipe \in Seq(Pieces)
  BY <1>2 DEF Shape
<1>4. x \in Pieces /\ Tail(conn[c].pipe) \in Seq(Pieces)
  BY <1>1, <1>3, HeadTailProperties DEF x
<1>5. /\ Len(Tail(conn[c].pipe)) = Len(conn[c].pipe) - 1
      /\ Append(conn[c].heard, x) \o << >> \o Tail(conn[c].pipe)
           = conn[c].heard \o << >> \o conn[c].pipe
      /\ conn[c].heard \o <<x>> \o Tail(conn[c].pipe)
           = conn[c].heard \o << >> \o conn[c].pipe
  <2>1. conn[c].pipe # << >>
    BY <1>1
  <2> QED
    BY <1>3, <2>1, PassWaiting DEF x
<1>6. /\ <<x>> \in Seq(Pieces) /\ Len(<<x>>) = 1 /\ << >> \in Seq(Pieces)
  BY <1>4
<1>7. /\ g \in Shape /\ g.held = << >> /\ ~g.clientDone /\ g.stage = conn[c].stage
      /\ g.incoming = "copy" /\ g.heard = conn[c].heard /\ g.said = conn[c].said
      /\ g.pipe = Tail(conn[c].pipe) /\ g.client = conn[c].client
  BY <1>2, <1>4, <1>6 DEF Shape, r, g, h
<1>8. /\ h \in Shape /\ h.held = <<x>> /\ ~h.clientDone /\ h.stage = conn[c].stage
      /\ h.incoming = "tell" /\ h.heard = conn[c].heard /\ h.said = conn[c].said
      /\ h.pipe = Tail(conn[c].pipe) /\ h.client = conn[c].client
  BY <1>2, <1>4, <1>6 DEF Shape, r, g, h
<1>9. /\ Len(conn[c].heard) + (Len(conn[c].pipe) - 1) < Len(conn[c].said)
      /\ Len(conn[c].heard) + 1 + (Len(conn[c].pipe) - 1) <= Len(conn[c].said)
      /\ Len(conn[c].said) <= MaxReply
  <2>1. Len(conn[c].held) = 0
    BY <1>2, EmptySeq
  <2>2. /\ Len(conn[c].heard) + 0 + Len(conn[c].pipe) <= Len(conn[c].said)
        /\ Len(conn[c].said) <= MaxReply
    BY <2>1, ConnFacts, Zenon DEF Orderly
  <2>3. Len(conn[c].pipe) \in Nat /\ Len(conn[c].pipe) > 0
    BY <1>1, <1>3, EmptySeq
  <2> QED
    BY <2>2, <2>3, ConnFacts, Room, Zenon
<1>10. CASE \E d \in Deliver(g, x) : conn' = [conn EXCEPT ![c] = d]
  <2>1. PICK d \in Deliver(g, x) : conn' = [conn EXCEPT ![c] = d]
    BY <1>10
  <2>2. Len(g.heard) + Len(g.pipe) < Len(g.said) /\ Len(g.said) <= MaxReply
    BY <1>5, <1>7, <1>9, Zenon
  <2>3. link /\ g.client # "left" => g.said = Append(g.heard, x) \o << >> \o g.pipe
    BY <1>2, <1>5, <1>7, ConnFacts DEF Intact
  <2>4. link \in BOOLEAN /\ g.stage \notin {"away", "dialing"}
    BY <1>2, <1>7 DEF FwdInv, Modes
  <2>5. Sound(d, link) /\ d.stage = conn[c].stage
    BY <1>4, <1>7, <2>1, <2>2, <2>3, <2>4, DeliverKeeps
  <2> QED
    BY <1>1, <2>1, <2>5, QuietStep DEF FwdInv, Modes, sniffing
<1>11. CASE conn' = [conn EXCEPT ![c] = h]
  <2>1. Orderly(h)
    <3>1. Len(h.heard) + Len(h.held) + Len(h.pipe) <= Len(h.said)
      BY <1>5, <1>6, <1>8, <1>9, Zenon
    <3>2. Len(h.said) <= MaxReply /\ Len(h.held) = 1
      BY <1>6, <1>8, <1>9, Zenon
    <3> QED
      BY <1>2, <1>8, <3>1, <3>2 DEF Orderly
  <2>2. link /\ h.client # "left" => Intact(h)
    BY <1>2, <1>5, <1>8, ConnFacts DEF Intact
  <2>3. Sound(h, link) /\ h.stage = conn[c].stage
    BY <1>8, <2>1, <2>2 DEF Sound
  <2> QED
    BY <1>1, <1>11, <2>3, QuietStep DEF FwdInv, Modes, sniffing
<1> QED
  BY <1>1, <1>10, <1>11

LEMMA TellKeeps ==
  ASSUME FwdInv, NEW c \in Clients, Tell(c)
  PROVE  FwdInv'
<1> DEFINE x == conn[c].held[1]
           g == [conn[c] EXCEPT !.held = << >>, !.incoming = "copy"]
<1>1. /\ conn[c].incoming = "tell" /\ seen' = Scheme(x)
      /\ \E d \in Deliver(g, x) : conn' = [conn EXCEPT ![c] = d]
      /\ UNCHANGED <<link, accepting, waiting, sniffed, shutdown>>
  BY DEF Tell, DeliverHead
<1> HIDE DEF x, g
<1>2. /\ conn[c] \in Shape /\ Len(conn[c].held) = 1 /\ ~conn[c].clientDone
      /\ conn[c].stage \notin {"away", "dialing"}
  BY <1>1, ConnFacts DEF Orderly
<1>3. /\ conn[c].heard \in Seq(Pieces) /\ conn[c].held \in Seq(Pieces)
      /\ conn[c].pipe \in Seq(Pieces)
  BY <1>2 DEF Shape
<1>4. /\ x \in Pieces
      /\ Append(conn[c].heard, x) \o << >> \o conn[c].pipe
           = conn[c].heard \o conn[c].held \o conn[c].pipe
  <2>1. Len(conn[c].held) = 1 /\ x = conn[c].held[1]
    BY <1>2 DEF x
  <2>2. 1 \in 1..Len(conn[c].held)
    BY <2>1
  <2>3. x \in Pieces
    BY <1>3, <2>1, <2>2, ElementOfSeq
  <2>4. conn[c].held = <<x>>
    BY <1>3, <2>1, <2>3, OneLong
  <2>5. Append(conn[c].heard, x) \o << >> = conn[c].heard \o <<x>>
    BY <1>3, <2>3, PassHeld
  <2> QED
    BY <2>3, <2>4, <2>5, Zenon
<1>5. /\ g \in Shape /\ g.held = << >> /\ ~g.clientDone /\ g.stage = conn[c].stage
      /\ g.incoming = "copy" /\ g.heard = conn[c].heard /\ g.said = conn[c].said
      /\ g.pipe = conn[c].pipe /\ g.client = conn[c].client
  <2>1. << >> \in Seq(Pieces)
    BY EmptySeq
  <2> QED
    BY <1>2, <2>1 DEF Shape, g
<1>6. Len(g.heard) + Len(g.pipe) < Len(g.said) /\ Len(g.said) <= MaxReply
  <2>1. /\ Len(conn[c].heard) + 1 + Len(conn[c].pipe) <= Len(conn[c].said)
        /\ Len(conn[c].said) <= MaxReply
    BY <1>2, ConnFacts, Zenon DEF Orderly
  <2>2. Len(conn[c].heard) + Len(conn[c].pipe) < Len(conn[c].said)
    BY <2>1, ConnFacts, Room, Zenon
  <2> QED
    BY <1>5, <2>1, <2>2, Zenon
<1>7. link /\ g.client # "left" => g.said = Append(g.heard, x) \o << >> \o g.pipe
  BY <1>4, <1>5, ConnFacts DEF Intact
<1>8. PICK d \in Deliver(g, x) : conn' = [conn EXCEPT ![c] = d]
  BY <1>1
<1>9. link \in BOOLEAN /\ g.stage \notin {"away", "dialing"}
  BY <1>2, <1>5 DEF FwdInv, Modes
<1>10. Sound(d, link) /\ d.stage = conn[c].stage
  BY <1>4, <1>5, <1>6, <1>7, <1>8, <1>9, DeliverKeeps
<1>11. seen' \in {"unknown", "http", "https"}
  BY <1>1, <1>4, ForwarderAssumption DEF Scheme
<1> QED
  BY <1>1, <1>8, <1>10, <1>11, QuietStep DEF FwdInv, Modes

LEMMA ReplyEndsKeeps ==
  ASSUME FwdInv, NEW c \in Clients, ReplyEnds(c)
  PROVE  FwdInv'
<1> DEFINE r == [conn[c] EXCEPT !.incoming = "done", !.clientDone = TRUE]
<1>1. /\ conn[c].incoming \in {"sniff", "copy"}
      /\ (conn[c].serviceEnd /\ conn[c].pipe = << >>) \/ ~link
      /\ conn' = [conn EXCEPT ![c] = r]
      /\ UNCHANGED <<link, accepting, waiting, sniffing, shutdown>>
  BY DEF ReplyEnds
<1> HIDE DEF r
<1>2. /\ conn[c] \in Shape /\ conn[c].held = << >>
      /\ conn[c].stage \notin {"away", "dialing"}
  BY <1>1, ConnFacts DEF Orderly
<1>3. /\ r \in Shape /\ r.stage = conn[c].stage /\ r.client = conn[c].client
      /\ r.serviceEnd = conn[c].serviceEnd /\ r.incoming = "done"
      /\ r.heard = conn[c].heard /\ r.held = conn[c].held /\ r.pipe = conn[c].pipe
      /\ r.said = conn[c].said
  BY <1>2 DEF Shape, r
<1>4. Orderly(r)
  <2>1. /\ Len(r.heard) + Len(r.held) + Len(r.pipe) <= Len(r.said)
        /\ Len(r.said) <= MaxReply
    BY <1>3, ConnFacts, Zenon DEF Orderly
  <2> QED
    BY <1>2, <1>3, <2>1 DEF Orderly
<1>5. ASSUME link, r.client # "left" PROVE Intact(r)
  <2>1. /\ conn[c].said = conn[c].heard \o conn[c].held \o conn[c].pipe
        /\ conn[c].serviceEnd /\ conn[c].pipe = << >>
    BY <1>1, <1>3, <1>5, ConnFacts DEF Intact
  <2>2. conn[c].heard \in Seq(Pieces)
    BY <1>2 DEF Shape
  <2>3. conn[c].said = conn[c].heard
    BY <1>2, <2>1, <2>2, ConcatEmptySeq
  <2> QED
    BY <1>3, <2>1, <2>3, Zenon DEF Intact
<1>6. Sound(r, link)
  BY <1>3, <1>4, <1>5 DEF Sound
<1> QED
  BY <1>1, <1>3, <1>6, QuietStep DEF FwdInv, Modes, sniffing

\* The peer changes nothing of what was said, or of what becomes of it.
LEMMA PeerKeeps ==
  ASSUME FwdInv, NEW c \in Clients, ClientEnds(c) \/ ClientLeaves(c) \/ ServiceEnds(c)
  PROVE  FwdInv'
<1>1. PICK r \in {[conn[c] EXCEPT !.client = "ended"], [conn[c] EXCEPT !.client = "left"],
                  [conn[c] EXCEPT !.serviceEnd = TRUE]} :
        /\ conn' = [conn EXCEPT ![c] = r]
        /\ conn[c].client = "left" => r.client = "left"
        /\ UNCHANGED <<link, accepting, waiting, sniffing, shutdown>>
  BY ConnFacts DEF ClientEnds, ClientLeaves, ServiceEnds, Shape
<1>2. /\ r \in Shape /\ r.stage = conn[c].stage /\ r.clientDone = conn[c].clientDone
      /\ conn[c].serviceEnd => r.serviceEnd
      /\ r.incoming = conn[c].incoming
      /\ r.heard = conn[c].heard /\ r.held = conn[c].held /\ r.pipe = conn[c].pipe
      /\ r.said = conn[c].said
  <2>1. conn[c] \in Shape
    BY ConnFacts
  <2>2. CASE r = [conn[c] EXCEPT !.client = "ended"]
    BY <2>1, <2>2 DEF Shape
  <2>3. CASE r = [conn[c] EXCEPT !.client = "left"]
    BY <2>1, <2>3 DEF Shape
  <2>4. CASE r = [conn[c] EXCEPT !.serviceEnd = TRUE]
    BY <2>1, <2>4 DEF Shape
  <2> QED
    BY <2>2, <2>3, <2>4
<1>3. Orderly(r)
  <2>1. /\ Len(r.heard) + Len(r.held) + Len(r.pipe) <= Len(r.said)
        /\ Len(r.said) <= MaxReply
    BY <1>2, ConnFacts, Zenon DEF Orderly
  <2> QED
    BY <1>2, <2>1, ConnFacts DEF Orderly
<1>4. link /\ r.client # "left" => Intact(r)
  BY <1>1, <1>2, ConnFacts DEF Intact
<1>5. Sound(r, link)
  BY <1>2, <1>3, <1>4 DEF Sound
<1> QED
  BY <1>1, <1>2, <1>5, QuietStep DEF FwdInv, Modes, sniffing

LEMMA SaysKeeps ==
  ASSUME FwdInv, NEW c \in Clients, NEW x \in Pieces, ServiceSays(c, x)
  PROVE  FwdInv'
<1> DEFINE r == [conn[c] EXCEPT !.said = Append(@, x), !.pipe = Append(@, x)]
<1>1. /\ conn[c].stage = "open" /\ link /\ ~conn[c].serviceEnd
      /\ Len(conn[c].said) < MaxReply
      /\ conn' = [conn EXCEPT ![c] = r]
      /\ UNCHANGED <<link, accepting, waiting, sniffing, shutdown>>
  BY DEF ServiceSays, Serving
<1> HIDE DEF r
<1>2. /\ conn[c] \in Shape /\ conn[c].said \in Seq(Pieces)
      /\ conn[c].pipe \in Seq(Pieces) /\ conn[c].heard \in Seq(Pieces)
      /\ conn[c].held \in Seq(Pieces)
  BY ConnFacts DEF Shape
<1>3. /\ Append(conn[c].said, x) \in Seq(Pieces)
      /\ Append(conn[c].pipe, x) \in Seq(Pieces)
      /\ Len(Append(conn[c].said, x)) = Len(conn[c].said) + 1
      /\ Len(Append(conn[c].pipe, x)) = Len(conn[c].pipe) + 1
  BY <1>2
<1>4. /\ r \in Shape /\ r.stage = "open" /\ r.client = conn[c].client
      /\ r.clientDone = conn[c].clientDone /\ r.incoming = conn[c].incoming
      /\ r.heard = conn[c].heard /\ r.held = conn[c].held
      /\ r.pipe = Append(conn[c].pipe, x) /\ r.said = Append(conn[c].said, x)
  BY <1>1, <1>2, <1>3 DEF Shape, r
<1>5. Orderly(r)
  <2>1. Len(conn[c].heard) + Len(conn[c].held) + Len(conn[c].pipe) <= Len(conn[c].said)
    BY ConnFacts, Zenon DEF Orderly
  <2>2. \A i, j, k, n \in Nat : i + j + k <= n => i + j + (k + 1) <= n + 1
    OBVIOUS
  <2>3. Len(r.heard) + Len(r.held) + Len(r.pipe) <= Len(r.said)
    BY <1>3, <1>4, <2>1, <2>2, ConnFacts, Zenon
  <2>4. Len(r.said) <= MaxReply
    <3>1. \A n, m \in Nat : n < m => n + 1 <= m
      OBVIOUS
    <3> QED
      BY <1>1, <1>3, <1>4, <3>1, ConnFacts, ForwarderAssumption, Zenon
  <2> QED
    BY <1>1, <1>4, <2>3, <2>4, ConnFacts DEF Orderly
<1>6. ASSUME r.client # "left" PROVE Intact(r)
  <2>1. Intact(conn[c])
    BY <1>1, <1>4, <1>6, ConnFacts
  <2>2. ~conn[c].clientDone
    BY <1>1, <2>1 DEF Intact
  <2>3. conn[c].said = conn[c].heard \o conn[c].held \o conn[c].pipe
    BY <2>1 DEF Intact
  <2>4. conn[c].heard \o conn[c].held \o Append(conn[c].pipe, x)
          = Append(conn[c].heard \o conn[c].held \o conn[c].pipe, x)
    <3>1. \A h, d, p \in Seq(Pieces) : h \o d \o Append(p, x) = Append(h \o d \o p, x)
      BY PassNew
    <3> QED
      BY <1>2, <3>1, Zenon
  <2> QED
    BY <1>4, <2>2, <2>3, <2>4, Zenon DEF Intact
<1>7. Sound(r, link)
  BY <1>4, <1>5, <1>6 DEF Sound
<1> QED
  BY <1>1, <1>4, <1>7, QuietStep DEF FwdInv, Modes, sniffing

-----------------------------------------------------------------------------
(***************************************************************************)
(* The steps that touch no connection: the loss of the link takes away     *)
(* what was promised, and the drain waits for the count to reach zero.     *)
(***************************************************************************)
LEMMA LostKeeps == ASSUME FwdInv, LinkLost PROVE FwdInv'
<1>1. /\ UNCHANGED conn /\ link' = FALSE
      /\ UNCHANGED <<accepting, waiting, sniffing, shutdown>>
  BY DEF LinkLost
<1>2. ConnsSound'
  BY <1>1 DEF FwdInv, ConnsSound, Sound
<1> QED
  BY <1>1, <1>2 DEF FwdInv, Counted, Handled, Modes, NothingOutlivesTheDrain,
                    accepting, waiting, sniffing, shutdown

LEMMA AcceptEndsKeeps == ASSUME FwdInv, AcceptEnds PROVE FwdInv'
<1>1. ConnsSound'
  BY DEF AcceptEnds, FwdInv, ConnsSound
<1>2. Counted' /\ NothingOutlivesTheDrain'
  BY HandledFinite DEF AcceptEnds, FwdInv, Counted, NothingOutlivesTheDrain, Handled
<1>3. Modes'
  BY DEF AcceptEnds, FwdInv, Modes, sniffing, shutdown
<1> QED
  BY <1>1, <1>2, <1>3 DEF FwdInv

LEMMA ShutdownKeeps == ASSUME FwdInv, Lock \/ Stop \/ Unlock \/ Drain PROVE FwdInv'
<1>1. UNCHANGED <<conn, link, acceptor, wg, sniffing>>
  BY DEF Lock, Stop, Unlock, Drain, accepting, waiting
<1>2. ConnsSound' /\ Counted' /\ Handled' = Handled
  BY <1>1 DEF FwdInv, ConnsSound, Counted, Handled
<1>3. Modes'
  BY DEF Lock, Stop, Unlock, Drain, FwdInv, Modes, accepting, waiting, sniffing, shutdown
<1>4. NothingOutlivesTheDrain'
  <2>1. CASE drained' = drained
    BY <1>1, <1>2, <2>1 DEF FwdInv, NothingOutlivesTheDrain
  <2>2. CASE Drain
    <3>1. Cardinality(Handled) = 0 /\ acceptor = "gone"
      BY <2>2, HandledFinite DEF Drain, FwdInv, Counted, Modes
    <3>2. Handled = {}
      BY <3>1, HandledFinite, FS_EmptySet
    <3> QED
      BY <1>1, <1>2, <3>1, <3>2 DEF NothingOutlivesTheDrain
  <2> QED
    BY <2>1, <2>2 DEF Lock, Stop, Unlock, waiting
<1> QED
  BY <1>2, <1>3, <1>4 DEF FwdInv

LEMMA FwdStep == FwdInv /\ [Next]_vars => FwdInv'
<1> SUFFICES ASSUME FwdInv, [Next]_vars PROVE FwdInv'
  OBVIOUS
<1>1. CASE UNCHANGED vars
  BY <1>1 DEF FwdInv, ConnsSound, Counted, Handled, Modes, NothingOutlivesTheDrain, vars,
              accepting, waiting, sniffing, shutdown
<1>2. ASSUME NEW c \in Clients,
             Accept(c) \/ Handle(c) \/ Request(c) \/ Reply(c) \/ Peers(c)
      PROVE  FwdInv'
  BY <1>2, AcceptKeeps, LeaveKeeps, DialKeeps, RequestKeeps, HeadKeeps, TellKeeps,
     CopyKeeps, ReplyEndsKeeps, PeerKeeps, SaysKeeps DEF Handle, Reply, Peers
<1> QED
  BY <1>1, <1>2, LostKeeps, AcceptEndsKeeps, ShutdownKeeps DEF Next

LEMMA FwdInvariant == Spec => []FwdInv
  BY FwdInit, FwdStep, PTL DEF Spec

(***************************************************************************)
(* RepliesArriveIntact, for any number of connections, of replies and of   *)
(* pieces (forward.go:125 and scheme.go): however the copiers, the look at *)
(* the first piece and the shutdown meet, while the link is up a client    *)
(* that stays has what was said, in order, but for what is on its way.     *)
(***************************************************************************)
THEOREM IntactReplies == Spec => []RepliesArriveIntact
<1>1. FwdInv => RepliesArriveIntact
  BY DEF FwdInv, ConnsSound, Sound, Intact, RepliesArriveIntact
<1> QED
  BY <1>1, FwdInvariant, PTL

(***************************************************************************)
(* NothingOutlivesTheDrain (forward.go:193): when Close returns, the       *)
(* accept loop and every connection it admitted are over, the one it       *)
(* admitted while the listener was being closed included.                  *)
(***************************************************************************)
THEOREM DrainIsComplete == Spec => []NothingOutlivesTheDrain
<1>1. FwdInv => NothingOutlivesTheDrain
  BY DEF FwdInv
<1> QED
  BY <1>1, FwdInvariant, PTL

(***************************************************************************)
(* TypeOK: no reply grows past what the service said, and the wait group   *)
(* counts the accept loop and the handlers exactly, so that it is never    *)
(* negative and never early (forward.go:72, :86, :193).                    *)
(***************************************************************************)
THEOREM ForwarderTypes == Spec => []TypeOK
<1>1. ASSUME NEW s \in Seq(Pieces), Len(s) <= MaxReply PROVE s \in Replies
  <2>1. Len(s) \in 0..MaxReply /\ s \in [1..Len(s) -> Pieces]
    BY <1>1, ForwarderAssumption, LenProperties
  <2> QED
    BY <2>1 DEF Replies
<1>2. ASSUME FwdInv, NEW c \in Clients PROVE conn[c] \in Connection
  <2>1. Len(conn[c].heard) + Len(conn[c].held) + Len(conn[c].pipe) <= Len(conn[c].said)
        /\ Len(conn[c].said) <= MaxReply
    BY <1>2, ConnFacts, Zenon DEF Orderly
  <2>2. \A i, j, k, n \in Nat :
          i + j + k <= n /\ n <= MaxReply =>
            i <= MaxReply /\ j <= MaxReply /\ k <= MaxReply
    BY ForwarderAssumption
  <2>3. /\ Len(conn[c].heard) <= MaxReply /\ Len(conn[c].held) <= MaxReply
        /\ Len(conn[c].pipe) <= MaxReply
    BY <1>2, <2>1, <2>2, ConnFacts, Zenon
  <2>4. /\ conn[c].heard \in Replies /\ conn[c].held \in Replies
        /\ conn[c].pipe \in Replies /\ conn[c].said \in Replies
    <3>1. /\ conn[c].heard \in Seq(Pieces) /\ conn[c].held \in Seq(Pieces)
          /\ conn[c].pipe \in Seq(Pieces) /\ conn[c].said \in Seq(Pieces)
      BY <1>2, ConnFacts DEF Shape
    <3> QED
      BY <1>1, <2>1, <2>3, <3>1, Zenon
  <2> QED
    BY <1>2, <2>4, ConnFacts DEF Shape, Connection
<1>3. FwdInv => TypeOK
  <2>1. FwdInv => conn \in [Clients -> Connection]
    BY <1>2 DEF FwdInv, ConnsSound
  <2> QED
    BY <2>1 DEF FwdInv, Counted, Modes, TypeOK
<1> QED
  BY <1>3, FwdInvariant, PTL
=============================================================================
