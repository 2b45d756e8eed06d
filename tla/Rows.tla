-------------------------------- MODULE Rows --------------------------------
(***************************************************************************)
(* The rows of the table: which services are listed, in which order        *)
(* (internal/ui/sort.go), and how the window over them follows the cursor  *)
(* (internal/ui/model.go).  A row is what a refresh copies from the        *)
(* manager; the texts a search looks at are the members of words, and the  *)
(* two texts the table sorts by are ranks.                                 *)
(***************************************************************************)
EXTENDS Integers, FiniteSets

CONSTANTS
  Ports,        \* the remote ports the manager may list
  Queries       \* the texts of a search; "" is no search

ASSUME RowsAssumption == Ports \subseteq Nat \ {0} /\ "" \in Queries

Keys == {"remote", "local", "process", "age", "traffic", "conns"}

\* age is the time the service was first seen.
Row ==
  [ port : Ports, active : BOOLEAN, furniture : BOOLEAN,
    scheme : {"unknown", "http", "https"}, words : SUBSET Queries,
    local : Nat, process : Nat, age : Nat, traffic : Nat, conns : Nat ]

\* Age, traffic and connections come newest and busiest first.
KeyBefore(a, b, key) ==
  \/ key = "local"   /\ a.local < b.local
  \/ key = "process" /\ a.process < b.process
  \/ key = "age"     /\ a.age > b.age
  \/ key = "traffic" /\ a.traffic > b.traffic
  \/ key = "conns"   /\ a.conns > b.conns

Less(a, b, key) ==
  \/ KeyBefore(a, b, key)
  \/ ~KeyBefore(b, a, key) /\ a.port < b.port

\* Whether a comes before b under the settings v.
Before(a, b, v) ==
  IF v.last /\ a.active # b.active THEN a.active
  ELSE IF v.reverse THEN Less(b, a, v.sort) ELSE Less(a, b, v.sort)

\* The services of the host itself, which no tunnel reaches.
Hidden(r) == r.furniture /\ ~r.active

Matches(r, query) == query = "" \/ query \in r.words

Listed(snap, v) ==
  {r \in snap : (v.pre \/ ~Hidden(r)) /\ Matches(r, v.query)}

\* The rows of a snapshot in the order the settings ask for.
Sorted(S, v) ==
  [i \in 1..Cardinality(S) |->
     CHOOSE r \in S : Cardinality({q \in S : Before(q, r, v)}) = i - 1]

-----------------------------------------------------------------------------
\* Cursors count from 1, and 0 is the cursor that highlights nothing.
NoSelection == 0

\* Mutant: the window does not move down to the cursor.
WindowKeepingItsTop(n, cursor, offset, h) ==
  LET c == IF cursor > n THEN n ELSE IF cursor < 1 THEN 1 ELSE cursor
  IN  IF n = 0 \/ cursor = NoSelection
      THEN [cursor |-> NoSelection, offset |-> 0]
      ELSE [cursor |-> c, offset |-> IF c - 1 < offset THEN c - 1 ELSE offset]

\* The cursor and the first row of the window, for n rows, h on screen.
Window(n, cursor, offset, h) ==
  LET c    == IF cursor > n THEN n ELSE IF cursor < 1 THEN 1 ELSE cursor
      up   == IF c - 1 < offset THEN c - 1 ELSE offset
      down == IF c > up + h THEN c - h ELSE up
      full == IF down > n - h THEN n - h ELSE down
  IN  IF n = 0 \/ cursor = NoSelection
      THEN [cursor |-> NoSelection, offset |-> 0]
      ELSE [cursor |-> c, offset |-> IF full < 0 THEN 0 ELSE full]

\* Where one step of the arrow keys, or a page of them, takes the cursor.
Moved(n, cursor, delta) ==
  IF n = 0 THEN NoSelection
  ELSE LET target == IF cursor # NoSelection THEN cursor + delta
                     ELSE IF delta < 0 THEN n ELSE 1
       IN  IF target < 1 THEN 1 ELSE IF target > n THEN n ELSE target
=============================================================================
