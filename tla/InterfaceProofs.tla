--------------------------- MODULE InterfaceProofs ---------------------------
(***************************************************************************)
(* Proofs about the terminal interface, for any snapshots of any number of *)
(* services, any order and any sizes of the terminal.                      *)
(***************************************************************************)
EXTENDS Interface, FiniteSetTheorems, TLAPS

-----------------------------------------------------------------------------
(***************************************************************************)
(* The order of the rows.  A key alone leaves ties; the port settles them. *)
(***************************************************************************)
LEMMA KeyOrder ==
  ASSUME NEW key, NEW a \in Row, NEW b \in Row, NEW c \in Row
  PROVE  /\ ~KeyBefore(a, a, key)
         /\ KeyBefore(a, b, key) => ~KeyBefore(b, a, key)
         /\ KeyBefore(a, b, key) => KeyBefore(a, c, key) \/ KeyBefore(c, b, key)
<1>1. \A r \in {a, b, c} : r.local \in Nat /\ r.process \in Nat /\ r.age \in Nat
                           /\ r.traffic \in Nat /\ r.conns \in Nat
  BY DEF Row
<1> QED
  BY <1>1 DEF KeyBefore

LEMMA LessIsStrict ==
  ASSUME NEW key, NEW a \in Row, NEW b \in Row, NEW c \in Row
  PROVE  /\ ~Less(a, a, key)
         /\ a.port # b.port => Less(a, b, key) \/ Less(b, a, key)
         /\ Less(a, b, key) /\ Less(b, c, key) => Less(a, c, key)
<1>1. a.port \in Nat /\ b.port \in Nat /\ c.port \in Nat
  BY RowsAssumption DEF Row
<1>2. ~Less(a, a, key)
  BY <1>1, KeyOrder DEF Less
<1>3. a.port # b.port => Less(a, b, key) \/ Less(b, a, key)
  BY <1>1 DEF Less
<1>4. ASSUME Less(a, b, key), Less(b, c, key) PROVE Less(a, c, key)
  <2>1. CASE KeyBefore(a, b, key) \/ KeyBefore(b, c, key)
    BY <1>4, <2>1, KeyOrder DEF Less
  <2>2. CASE ~KeyBefore(a, b, key) /\ ~KeyBefore(b, c, key)
    <3>1. /\ ~KeyBefore(b, a, key) /\ ~KeyBefore(c, b, key)
          /\ a.port < b.port /\ b.port < c.port
      BY <1>4, <2>2 DEF Less
    <3>2. ~KeyBefore(c, a, key)
      BY <3>1, KeyOrder
    <3> QED
      BY <1>1, <3>1, <3>2 DEF Less
  <2> QED
    BY <2>1, <2>2
<1> QED
  BY <1>2, <1>3, <1>4

LEMMA BeforeIsStrict ==
  ASSUME NEW v, NEW a \in Row, NEW b \in Row, NEW c \in Row
  PROVE  /\ ~Before(a, a, v)
         /\ a.port # b.port => Before(a, b, v) \/ Before(b, a, v)
         /\ Before(a, b, v) /\ Before(b, c, v) => Before(a, c, v)
<1>1. a.active \in BOOLEAN /\ b.active \in BOOLEAN /\ c.active \in BOOLEAN
  BY DEF Row
<1>2. ~Before(a, a, v)
  BY LessIsStrict DEF Before
<1>3. a.port # b.port => Before(a, b, v) \/ Before(b, a, v)
  BY <1>1, LessIsStrict DEF Before
<1>4. ASSUME Before(a, b, v), Before(b, c, v) PROVE Before(a, c, v)
  <2>1. CASE v.last /\ (a.active # b.active \/ b.active # c.active)
    BY <1>1, <1>4, <2>1 DEF Before
  <2>2. CASE ~(v.last /\ (a.active # b.active \/ b.active # c.active))
    <3>1. ~(v.last /\ a.active # c.active)
      BY <1>1, <2>2
    <3>2. CASE v.reverse
      BY <1>4, <2>2, <3>1, <3>2, LessIsStrict DEF Before
    <3>3. CASE ~v.reverse
      BY <1>4, <2>2, <3>1, <3>3, LessIsStrict DEF Before
    <3> QED
      BY <3>2, <3>3
  <2> QED
    BY <2>1, <2>2
<1> QED
  BY <1>2, <1>3, <1>4

-----------------------------------------------------------------------------
(***************************************************************************)
(* What a listing shows.                                                   *)
(***************************************************************************)
OnePerPort(S) == \A a, b \in S : a.port = b.port => a = b

Rank(S, v, r) == Cardinality({q \in S : Before(q, r, v)})

LEMMA RanksFollowTheOrder ==
  ASSUME NEW S \in SUBSET Row, IsFiniteSet(S), NEW v, NEW a \in S, NEW b \in S,
         Before(a, b, v)
  PROVE  Rank(S, v, a) < Rank(S, v, b)
<1> DEFINE A == {q \in S : Before(q, a, v)}
           B == {q \in S : Before(q, b, v)}
<1>1. A \subseteq B
  <2> SUFFICES ASSUME NEW q \in S, Before(q, a, v) PROVE Before(q, b, v)
    OBVIOUS
  <2> QED
    BY BeforeIsStrict
<1>2. a \in B /\ a \notin A
  BY BeforeIsStrict
<1>3. IsFiniteSet(B)
  BY FS_Subset
<1>4. IsFiniteSet(A) /\ Cardinality(A) \in Nat /\ Cardinality(B) \in Nat
  BY <1>1, <1>3, FS_Subset, FS_CardinalityType
<1> HIDE DEF A, B
<1>5. Cardinality(A) <= Cardinality(B) /\ Cardinality(A) # Cardinality(B)
  BY <1>1, <1>2, <1>3, FS_Subset
<1>6. Cardinality(A) < Cardinality(B)
  BY <1>4, <1>5
<1> QED
  BY <1>6 DEF Rank, A, B

LEMMA RankType ==
  ASSUME NEW S \in SUBSET Row, IsFiniteSet(S), NEW v, NEW r \in S
  PROVE  Rank(S, v, r) \in 0..(Cardinality(S) - 1)
<1> DEFINE T == {q \in S : Before(q, r, v)}
<1>1. T \in SUBSET S /\ r \notin T
  BY BeforeIsStrict
<1> HIDE DEF T
<1>2. /\ Cardinality(T) \in Nat /\ Cardinality(S) \in Nat
      /\ Cardinality(T) <= Cardinality(S) /\ Cardinality(T) # Cardinality(S)
  BY <1>1, FS_Subset, FS_CardinalityType
<1> QED
  BY <1>2 DEF Rank, T

\* Every place of the table is somebody's rank.
LEMMA EveryRankIsTaken ==
  ASSUME NEW S \in SUBSET Row, IsFiniteSet(S), OnePerPort(S), NEW v,
         NEW k \in 0..(Cardinality(S) - 1)
  PROVE  \E r \in S : Rank(S, v, r) = k
<1> DEFINE n == Cardinality(S)
           T == 0..(n - 1)
           f == [r \in S |-> Rank(S, v, r)]
<1>1. n \in Nat /\ n - 1 \in Int
  BY FS_CardinalityType
<1>2. IsFiniteSet(T) /\ Cardinality(T) = n
  BY <1>1, FS_Interval
<1>3. f \in [S -> T]
  BY RankType
<1>4. ASSUME NEW a \in S, NEW b \in S, f[a] = f[b] PROVE a = b
  <2> SUFFICES ASSUME a.port # b.port PROVE FALSE
    BY DEF OnePerPort
  <2>1. Before(a, b, v) \/ Before(b, a, v)
    BY BeforeIsStrict
  <2>2. Rank(S, v, a) # Rank(S, v, b)
    <3>1. Rank(S, v, a) \in Int /\ Rank(S, v, b) \in Int
      BY RankType
    <3> QED
      BY <2>1, <3>1, RanksFollowTheOrder
  <2> QED
    BY <1>4, <2>2
<1> HIDE DEF f, T
<1>5. f \in Injection(S, T)
  BY <1>3, <1>4 DEF Injection, IsInjective
<1>6. f \in Surjection(S, T)
  BY <1>2, <1>5, FS_Injection
<1>7. PICK r \in S : f[r] = k
  BY <1>6 DEF Surjection, T
<1> QED
  BY <1>7 DEF f

(***************************************************************************)
(* The table lists each row of a snapshot once, in the order the settings  *)
(* ask for, whatever they are (sortStates in ui/sort.go).                  *)
(***************************************************************************)
THEOREM TablesAreInOrder ==
  ASSUME NEW S \in SUBSET Row, IsFiniteSet(S), OnePerPort(S), NEW v
  PROVE  LET rows == Sorted(S, v) IN
         /\ rows \in [1..Cardinality(S) -> S]
         /\ \A r \in S : \E i \in 1..Cardinality(S) : rows[i] = r
         /\ \A i, j \in 1..Cardinality(S) : i < j <=> Before(rows[i], rows[j], v)
<1> DEFINE n == Cardinality(S)
           rows == Sorted(S, v)
<1>1. n \in Nat
  BY FS_CardinalityType
<1>2. rows = [i \in 1..n |-> CHOOSE r \in S : Rank(S, v, r) = i - 1]
  BY DEF Sorted, Rank
<1>3. ASSUME NEW i \in 1..n
      PROVE  rows[i] \in S /\ Rank(S, v, rows[i]) = i - 1
  <2>1. i - 1 \in 0..(n - 1)
    BY <1>1
  <2>2. \E r \in S : Rank(S, v, r) = i - 1
    BY <2>1, EveryRankIsTaken
  <2>3. rows[i] = CHOOSE r \in S : Rank(S, v, r) = i - 1
    BY <1>2
  <2> QED
    BY <2>2, <2>3
<1>4. rows \in [1..n -> S]
  BY <1>2, <1>3
<1> HIDE DEF rows
<1>5. ASSUME NEW i \in 1..n, NEW j \in 1..n, i < j
      PROVE  Before(rows[i], rows[j], v)
  <2>1. rows[i] \in S /\ rows[j] \in S /\ Rank(S, v, rows[i]) < Rank(S, v, rows[j])
    BY <1>1, <1>3, <1>5
  <2>2. Rank(S, v, rows[i]) \in Int /\ Rank(S, v, rows[j]) \in Int
    BY <2>1, RankType
  <2>3. rows[i].port # rows[j].port
    BY <2>1, <2>2 DEF OnePerPort
  <2>4. Before(rows[i], rows[j], v) \/ Before(rows[j], rows[i], v)
    BY <2>1, <2>3, BeforeIsStrict
  <2> QED
    BY <2>1, <2>2, <2>4, RanksFollowTheOrder
<1>6. ASSUME NEW i \in 1..n, NEW j \in 1..n, Before(rows[i], rows[j], v)
      PROVE  i < j
  <2>1. rows[i] \in S /\ rows[j] \in S
        /\ Rank(S, v, rows[i]) = i - 1 /\ Rank(S, v, rows[j]) = j - 1
    BY <1>3
  <2>2. Rank(S, v, rows[i]) < Rank(S, v, rows[j])
    BY <1>6, <2>1, RanksFollowTheOrder
  <2> QED
    BY <1>1, <2>1, <2>2
<1>7. ASSUME NEW r \in S
      PROVE  \E i \in 1..n : rows[i] = r
  <2> DEFINE i == Rank(S, v, r) + 1
  <2>1. i \in 1..n /\ i - 1 = Rank(S, v, r)
    BY <1>1, RankType
  <2> HIDE DEF i
  <2>2. rows[i] \in S /\ Rank(S, v, rows[i]) = Rank(S, v, r)
    BY <1>3, <2>1
  <2>3. rows[i].port = r.port
    <3> SUFFICES ASSUME rows[i].port # r.port PROVE FALSE
      OBVIOUS
    <3>1. Before(rows[i], r, v) \/ Before(r, rows[i], v)
      BY <2>2, BeforeIsStrict
    <3>2. Rank(S, v, r) \in Int
      BY RankType
    <3> QED
      BY <2>2, <3>1, <3>2, RanksFollowTheOrder
  <2> QED
    BY <2>1, <2>2, <2>3 DEF OnePerPort
<1> QED
  BY <1>4, <1>5, <1>6, <1>7 DEF rows

-----------------------------------------------------------------------------
(***************************************************************************)
(* The window: the cursor it returns is a row or none, and is inside; a    *)
(* cursor that was a row stays the same one.                               *)
(***************************************************************************)
LEMMA WindowHolds ==
  ASSUME NEW n \in Nat, NEW cursor \in Int, NEW offset \in Int, NEW h \in Nat \ {0},
         NEW w, w = Window(n, cursor, offset, h)
  PROVE  /\ w.cursor \in 0..n /\ w.offset \in 0..n
         /\ w.cursor # 0 => w.cursor \in (w.offset + 1)..(w.offset + h)
         /\ cursor \in 0..n => w.cursor = cursor
<1>1. CASE n = 0 \/ cursor = NoSelection
  BY <1>1 DEF Window, NoSelection
<1>2. CASE ~(n = 0 \/ cursor = NoSelection)
  BY <1>2 DEF Window, NoSelection
<1> QED
  BY <1>1, <1>2

LEMMA HeightIsPositive ==
  ASSUME NEW s \in Sizes PROVE TableHeight(s) \in Nat \ {0}
<1>1. s \in Nat \X Nat
  BY InterfaceAssumption
<1>2. s[2] \in Nat
  BY <1>1
<1> QED
  BY <1>2 DEF TableHeight

\* A listing is a list of rows, each with a port of its own.
LEMMA ListingsAreLists ==
  ASSUME NEW snaps \in SUBSET Snaps, NEW rows \in Listings(snaps)
  PROVE  /\ Len(rows) \in Nat /\ DOMAIN rows = 1..Len(rows)
         /\ \A i \in DOMAIN rows : rows[i] \in Row
<1>1. PICK s \in snaps : rows = Sorted(Listed(s, view'), view')
  BY DEF Listings
<1> DEFINE S == Listed(s, view')
<1>2. S \in SUBSET Row /\ IsFiniteSet(S) /\ OnePerPort(S)
  BY InterfaceAssumption, FS_Subset DEF Listed, OnePerPort
<1>3. Cardinality(S) \in Nat
  BY <1>2, FS_CardinalityType
<1> HIDE DEF S
<1>4. rows \in [1..Cardinality(S) -> S]
  BY <1>1, <1>2, TablesAreInOrder DEF S
<1>5. DOMAIN rows = 1..Cardinality(S) /\ \A i \in DOMAIN rows : rows[i] \in S
  BY <1>4
<1>6. rows = [i \in DOMAIN rows |-> rows[i]]
  BY <1>4
<1>7. Len(rows) = Cardinality(S)
  BY <1>3, <1>5, <1>6
<1> QED
  BY <1>2, <1>3, <1>5, <1>7

-----------------------------------------------------------------------------
(***************************************************************************)
(* The table: its rows are a list, its cursor one of them or none, and the *)
(* row under the cursor is on screen.                                      *)
(***************************************************************************)
TableGood ==
  /\ table = [rows |-> table.rows, cursor |-> table.cursor, offset |-> table.offset]
  /\ Len(table.rows) \in Nat /\ DOMAIN table.rows = 1..Len(table.rows)
  /\ \A i \in DOMAIN table.rows : table.rows[i] \in Row
  /\ table.cursor \in 0..Len(table.rows) /\ table.offset \in 0..Len(table.rows)
  /\ size \in Sizes
  /\ SelectionIsVisible

\* The two ways a step leaves the selection: as it was, or over fresh rows.
Steady == table' = table /\ size' = size

Fresh == /\ \E snaps \in SUBSET Snaps, port \in {SelectedPort(table), 0} : Reload(snaps, port)
         /\ size' = size

LEMMA ReloadGood ==
  ASSUME TableGood, NEW snaps \in SUBSET Snaps, NEW port, Reload(snaps, port), size' = size
  PROVE  TableGood' /\ SelectedPort(table') \in {port, 0}
<1>1. PICK rows \in Listings(snaps) :
        LET at == {i \in DOMAIN rows : rows[i].port = port}
            c  == IF at = {} THEN NoSelection ELSE CHOOSE i \in at : TRUE
            w  == Window(Len(rows), c, table.offset, TableHeight(size))
        IN  table' = [rows |-> rows, cursor |-> w.cursor, offset |-> w.offset]
  BY DEF Reload
<1> DEFINE at == {i \in DOMAIN rows : rows[i].port = port}
           c  == IF at = {} THEN NoSelection ELSE CHOOSE i \in at : TRUE
           w  == Window(Len(rows), c, table.offset, TableHeight(size))
<1>2. /\ Len(rows) \in Nat /\ DOMAIN rows = 1..Len(rows)
      /\ \A i \in DOMAIN rows : rows[i] \in Row
  BY ListingsAreLists
<1>3. c \in 0..Len(rows) /\ (c = 0 \/ rows[c].port = port)
  <2>1. CASE at = {}
    BY <1>2, <2>1 DEF NoSelection
  <2>2. CASE at # {}
    <3>1. c \in at
      BY <2>2
    <3> QED
      BY <1>2, <3>1
  <2> QED
    BY <2>1, <2>2
<1>4. table' = [rows |-> rows, cursor |-> w.cursor, offset |-> w.offset]
  BY <1>1
<1> HIDE DEF c
<1>5. TableHeight(size) \in Nat \ {0} /\ table.offset \in Int
  BY HeightIsPositive DEF TableGood
<1>6. /\ w.cursor = c /\ w.offset \in 0..Len(rows)
      /\ c # 0 => c \in (w.offset + 1)..(w.offset + TableHeight(size))
  <2> DEFINE n == Len(rows)
  <2>1. c \in Int /\ c \in 0..n /\ n \in Nat
    BY <1>2, <1>3
  <2>2. w = Window(n, c, table.offset, TableHeight(size))
    OBVIOUS
  <2> HIDE DEF w, n
  <2>3. /\ w.cursor \in 0..n /\ w.offset \in 0..n
        /\ w.cursor # 0 => w.cursor \in (w.offset + 1)..(w.offset + TableHeight(size))
        /\ c \in 0..n => w.cursor = c
    <3> DEFINE h == TableHeight(size)
               offset == table.offset
    <3>1. h \in Nat \ {0} /\ offset \in Int /\ w = Window(n, c, offset, h)
      BY <1>5, <2>2
    <3> HIDE DEF h, offset
    <3>2. /\ w.cursor \in 0..n /\ w.offset \in 0..n
          /\ w.cursor # 0 => w.cursor \in (w.offset + 1)..(w.offset + h)
          /\ c \in 0..n => w.cursor = c
      BY <2>1, <3>1, WindowHolds
    <3> QED
      BY <3>2 DEF h
  <2> QED
    BY <2>1, <2>3 DEF n
<1> HIDE DEF w
<1>7. /\ table'.rows = rows /\ table'.cursor = c /\ table'.offset = w.offset
      /\ TableHeight(size') = TableHeight(size) /\ size' \in Sizes
  BY <1>4, <1>6 DEF TableGood
<1>8. SelectionIsVisible'
  BY <1>2, <1>3, <1>6, <1>7 DEF SelectionIsVisible, OnScreen, NoSelection
<1>9. SelectedPort(table') \in {port, 0}
  BY <1>2, <1>3, <1>7 DEF SelectedPort, Selected
<1> QED
  BY <1>2, <1>3, <1>4, <1>6, <1>7, <1>8, <1>9 DEF TableGood

LEMMA TableKept ==
  ASSUME TableGood, Steady \/ Fresh
  PROVE  TableGood' /\ SelectedPort(table') \in {SelectedPort(table), 0}
<1>1. CASE Steady
  BY <1>1 DEF Steady, TableGood, SelectionIsVisible, OnScreen
<1>2. CASE Fresh
  BY <1>2, ReloadGood DEF Fresh
<1> QED
  BY <1>1, <1>2

\* The cursor alone moves, to a row it may name or past the ends.
LEMMA MoveGood ==
  ASSUME TableGood, NEW c \in Int, NEW s \in Sizes, size' = s,
         NEW w, w = Window(Count, c, table.offset, TableHeight(s)),
         table' = [table EXCEPT !.cursor = w.cursor, !.offset = w.offset]
  PROVE  /\ TableGood' /\ table'.rows = table.rows
         /\ c \in 0..Count => table'.cursor = c
<1>1. TableHeight(s) \in Nat \ {0} /\ table.offset \in Int /\ Count \in Nat
  BY HeightIsPositive DEF TableGood, Count
<1>2. /\ w.cursor \in 0..Count /\ w.offset \in 0..Count
      /\ w.cursor # 0 => w.cursor \in (w.offset + 1)..(w.offset + TableHeight(s))
      /\ c \in 0..Count => w.cursor = c
  BY <1>1, WindowHolds
<1>3. /\ table' = [rows |-> table.rows, cursor |-> w.cursor, offset |-> w.offset]
      /\ table'.rows = table.rows /\ table'.cursor = w.cursor /\ table'.offset = w.offset
  BY DEF TableGood
<1>4. SelectionIsVisible'
  BY <1>2, <1>3 DEF SelectionIsVisible, OnScreen, NoSelection, TableGood, Count
<1> QED
  BY <1>2, <1>3, <1>4 DEF TableGood, Count

LEMMA MovedIsInt ==
  ASSUME TableGood, NEW delta \in Int PROVE Moved(Count, table.cursor, delta) \in Int
  BY DEF Moved, NoSelection, TableGood, Count

-----------------------------------------------------------------------------
(***************************************************************************)
(* The inductive invariant.  The dialogs exclude each other two by two; an *)
(* open question stands for the selected row, or for one that is gone, and *)
(* an open editor for the port it was opened with.                         *)
(***************************************************************************)
Apart ==
  /\ open.prompt => ~open.confirm /\ ~open.menu /\ edit.kind = "none"
  /\ open.confirm => ~open.menu /\ edit.kind = "none"
  /\ open.menu => edit.kind = "none"

DialogsGood ==
  /\ open \in [ help : BOOLEAN, detail : BOOLEAN, prompt : BOOLEAN,
                confirm : BOOLEAN, menu : BOOLEAN ]
  /\ edit = [kind |-> edit.kind, port |-> edit.port, text |-> edit.text]
  /\ edit.kind \in {"none", "filter", "port", "label"}
  /\ Apart

PromptKeepsItsRow == open.prompt => SelectedPort(table) \in {asked, 0}

EditorKeepsItsPort == edit.kind \in {"port", "label"} => edit.port = asked

IfaceInv == TableGood /\ DialogsGood /\ PromptKeepsItsRow /\ EditorKeepsItsPort

\* What every step shows, but that the steps of Navigation may select.
Kept == IfaceInv' /\ told' \in {0, asked}

Follows == SelectedPort(table') \in {SelectedPort(table), 0}

Good == Kept /\ Follows

LEMMA IfaceInit == Init => IfaceInv
<1> SUFFICES ASSUME Init PROVE IfaceInv
  OBVIOUS
<1>1. /\ table = [rows |-> << >>, cursor |-> 0, offset |-> 0]
      /\ table.rows = << >> /\ table.cursor = 0 /\ table.offset = 0 /\ size \in Sizes
  BY DEF Init, NoSelection
<1>2. TableGood
  <2>1. Len(<< >>) = 0 /\ DOMAIN << >> = 1..0
    OBVIOUS
  <2> QED
    BY <1>1, <2>1 DEF TableGood, SelectionIsVisible, NoSelection
<1>3. DialogsGood /\ PromptKeepsItsRow /\ EditorKeepsItsPort
  BY DEF Init, DialogsGood, Apart, NothingOpen, NoEditor, PromptKeepsItsRow,
         EditorKeepsItsPort
<1> QED
  BY <1>2, <1>3 DEF IfaceInv

-----------------------------------------------------------------------------
(***************************************************************************)
(* Steps by what they do to the dialogs: leave them alone, change layers   *)
(* that do not ask, close the question, or open it for the selected row.   *)
(***************************************************************************)
LEMMA QuietKeeps ==
  ASSUME IfaceInv, Steady \/ Fresh, open' = open, NoEdit, told' = 0
  PROVE  Good
<1>1. TableGood' /\ Follows
  BY TableKept DEF IfaceInv, Follows
<1>2. DialogsGood' /\ EditorKeepsItsPort'
  BY DEF NoEdit, IfaceInv, DialogsGood, Apart, EditorKeepsItsPort
<1>3. PromptKeepsItsRow'
  BY <1>1 DEF NoEdit, IfaceInv, PromptKeepsItsRow, Follows
<1> QED
  BY <1>1, <1>2, <1>3 DEF Good, Kept, IfaceInv

LEMMA LayersKeep ==
  ASSUME IfaceInv, NEW L, Layers(L), DialogsGood', L.prompt => open.prompt
  PROVE  Good
<1>1. Steady /\ open' = L /\ edit' = edit /\ asked' = asked /\ told' = 0
  BY DEF Layers, Showing, NoEdit, Session, Silent, Steady
<1>2. TableGood' /\ Follows
  BY <1>1, TableKept DEF IfaceInv, Follows
<1>3. EditorKeepsItsPort' /\ PromptKeepsItsRow'
  BY <1>1, <1>2 DEF IfaceInv, EditorKeepsItsPort, PromptKeepsItsRow, Follows
<1> QED
  BY <1>1, <1>2, <1>3 DEF Good, Kept, IfaceInv

\* Nothing is asked and nothing edited afterwards, or the search is.
LEMMA PlainKeeps ==
  ASSUME IfaceInv, Steady \/ Fresh, DialogsGood', ~open'.prompt,
         edit'.kind \in {"none", "filter"} \/ edit'.port = asked',
         told' \in {0, asked}
  PROVE  Good
<1>1. TableGood' /\ Follows
  BY TableKept DEF IfaceInv, Follows
<1>2. EditorKeepsItsPort' /\ PromptKeepsItsRow'
  BY DEF EditorKeepsItsPort, PromptKeepsItsRow
<1> QED
  BY <1>1, <1>2 DEF Good, Kept, IfaceInv

LEMMA OpenKeeps ==
  ASSUME IfaceInv, TableGood', NEW L, OpenRow(table', L), edit' = edit,
         edit.kind = "none", told' \in {0, asked}, ~L.prompt,
         L \in [ help : BOOLEAN, detail : BOOLEAN, prompt : BOOLEAN,
                 confirm : BOOLEAN, menu : BOOLEAN ],
         ~L.confirm, ~L.menu
  PROVE  Kept
<1>1. \/ open' = L
      \/ /\ open' = [L EXCEPT !.prompt = TRUE] /\ Selected(table')
         /\ asked' = table'.rows[table'.cursor].port
  BY DEF OpenRow
<1>2. DialogsGood' /\ EditorKeepsItsPort'
  BY <1>1 DEF IfaceInv, DialogsGood, Apart, EditorKeepsItsPort
<1>3. PromptKeepsItsRow'
  BY <1>1 DEF PromptKeepsItsRow, SelectedPort
<1> QED
  BY <1>2, <1>3 DEF Kept, IfaceInv

-----------------------------------------------------------------------------
(***************************************************************************)
(* The commands.                                                           *)
(***************************************************************************)
LEMMA TableAlone ==
  ASSUME IfaceInv, KeyLayer = "table" \/ MouseLayer = "table"
  PROVE  ~open.prompt /\ ~open.confirm /\ ~open.menu /\ edit.kind = "none"
  BY DEF KeyLayer, MouseLayer

LEMMA SteadyOrFresh ==
  /\ Showing /\ Session => Steady
  /\ Refreshed /\ Session => Fresh
  BY DEF Showing, Session, Steady, Fresh, Refreshed

LEMMA CommandsKeep ==
  ASSUME IfaceInv, Cycle \/ CopySelected \/ TogglePause \/ Stop \/ RetryKey
  PROVE  Good
<1>1. /\ Steady \/ Fresh
      /\ open' = open /\ NoEdit /\ told' = 0
  BY SteadyOrFresh DEF Cycle, CopySelected, TogglePause, Stop, RetryKey, Silent,
                       Steady, Showing
<1> QED
  BY <1>1, QuietKeeps

LEMMA ArrangeKeeps ==
  ASSUME IfaceInv, NEW v, NEW ring, Arrange(v, ring)
  PROVE  Good
<1>1. Fresh /\ open' = open /\ NoEdit /\ told' = 0
  BY SteadyOrFresh DEF Arrange, Silent
<1> QED
  BY <1>1, QuietKeeps

LEMMA ActivateKeeps == ASSUME IfaceInv, Activate PROVE Good
  BY ArrangeKeeps DEF Activate

LEMMA OpenSelectedKeeps ==
  ASSUME IfaceInv, OpenSelected, KeyLayer = "table" \/ MouseLayer = "table"
  PROVE  Good
<1>1. Steady /\ table' = table /\ edit' = edit /\ told' = 0 /\ OpenRow(table, open)
  BY DEF OpenSelected, Showing, Session, Silent, Steady
<1>2. OpenRow(table', open)
  BY <1>1
<1>3. TableGood' /\ Follows
  BY <1>1, TableKept DEF IfaceInv, Follows
<1>4. Kept
  BY <1>1, <1>2, <1>3, TableAlone, OpenKeeps DEF IfaceInv, DialogsGood
<1> QED
  BY <1>3, <1>4 DEF Good

LEMMA OpenEditorKeeps ==
  ASSUME IfaceInv, KeyLayer = "table", NEW kind \in {"port", "label"}, OpenEditor(kind)
  PROVE  Good
<1>1. CASE \E text \in {""} \cup Numbers : EditWith(kind, SelectedPort(table), text)
  <2>1. PICK text : EditWith(kind, SelectedPort(table), text)
    BY <1>1
  <2>2. /\ Steady /\ open' = open /\ told' = 0 /\ edit'.port = asked'
        /\ edit' = [kind |-> kind, port |-> edit'.port, text |-> text]
    BY <2>1, SteadyOrFresh DEF EditWith, Silent
  <2>3. DialogsGood' /\ ~open'.prompt
    BY <2>2, TableAlone DEF IfaceInv, DialogsGood, Apart
  <2> QED
    BY <2>2, <2>3, PlainKeeps
<1>2. CASE ~Selected(table)
  <2>1. Steady /\ open' = open /\ NoEdit /\ told' = 0
    BY <1>2, SteadyOrFresh DEF OpenEditor, Silent
  <2> QED
    BY <2>1, QuietKeeps
<1> QED
  BY <1>1, <1>2 DEF OpenEditor

LEMMA FilterKeeps ==
  ASSUME IfaceInv, KeyLayer = "table", OpenFilter PROVE Good
<1>1. /\ Steady /\ open' = open /\ told' = 0
      /\ edit' = [kind |-> "filter", port |-> 0, text |-> view.query]
  BY SteadyOrFresh DEF OpenFilter, EditWith, Silent
<1>2. DialogsGood' /\ ~open'.prompt
  BY <1>1, TableAlone DEF IfaceInv, DialogsGood, Apart
<1> QED
  BY <1>1, <1>2, PlainKeeps

\* The editor closes, with what was entered or without it.
LEMMA EditorKeeps ==
  ASSUME IfaceInv, edit.kind # "none", CloseEditor \/ (Apply /\ edit.kind # "filter")
  PROVE  Good
<1>1. /\ Steady \/ Fresh
      /\ open' = open /\ edit' = NoEditor /\ told' \in {0, asked}
  <2>1. CASE CloseEditor
    BY <2>1, SteadyOrFresh DEF CloseEditor, Silent
  <2>2. CASE Apply /\ edit.kind # "filter"
    <3>1. edit.port = asked
      BY <2>2 DEF IfaceInv, DialogsGood, EditorKeepsItsPort
    <3> QED
      BY <2>2, <3>1, SteadyOrFresh DEF Apply, Silent
  <2> QED
    BY <2>1, <2>2
<1>2. DialogsGood' /\ ~open'.prompt
  BY <1>1 DEF IfaceInv, DialogsGood, Apart, NoEditor
<1> QED
  BY <1>1, <1>2, PlainKeeps DEF NoEditor

\* The answer to the question is the answer about its port.
LEMMA ChosenKeeps ==
  ASSUME IfaceInv, open.prompt, NEW scheme, Chosen(scheme)
  PROVE  Good
<1> DEFINE L == [open EXCEPT !.prompt = FALSE]
<1>1. /\ ~open.confirm /\ ~open.menu /\ edit.kind = "none"
      /\ SelectedPort(table) \in {asked, 0} /\ edit' = edit /\ size' = size
  BY DEF IfaceInv, DialogsGood, Apart, PromptKeepsItsRow, Chosen, Session
<1>2. /\ L \in [ help : BOOLEAN, detail : BOOLEAN, prompt : BOOLEAN,
                 confirm : BOOLEAN, menu : BOOLEAN ]
      /\ ~L.prompt /\ ~L.confirm /\ ~L.menu
  BY <1>1 DEF IfaceInv, DialogsGood
<1>3. \/ \E snaps \in SUBSET Snaps :
           /\ Reload(snaps, SelectedPort(table)) /\ told' = SelectedPort(table)
           /\ OpenRow(table', L)
      \/ table' = table /\ open' = L /\ told' = 0
  BY DEF Chosen, Silent
<1> HIDE DEF L
<1>4. CASE \E snaps \in SUBSET Snaps :
             /\ Reload(snaps, SelectedPort(table)) /\ told' = SelectedPort(table)
             /\ OpenRow(table', L)
  <2>1. Fresh /\ told' \in {0, asked} /\ OpenRow(table', L)
    BY <1>1, <1>4 DEF Fresh
  <2>2. TableGood' /\ Follows
    BY <2>1, TableKept DEF IfaceInv, Follows
  <2>3. Kept
    BY <1>1, <1>2, <2>1, <2>2, OpenKeeps
  <2> QED
    BY <2>2, <2>3 DEF Good
<1>5. CASE table' = table /\ open' = L /\ told' = 0
  <2>1. Steady /\ ~open'.prompt
    BY <1>1, <1>2, <1>5 DEF Steady
  <2>2. DialogsGood'
    BY <1>1, <1>2, <1>5 DEF IfaceInv, DialogsGood, Apart
  <2> QED
    BY <1>1, <1>5, <2>1, <2>2, PlainKeeps
<1> QED
  BY <1>3, <1>4, <1>5

-----------------------------------------------------------------------------
(***************************************************************************)
(* The keys.                                                               *)
(***************************************************************************)
LEMMA AskingKeysKeep ==
  ASSUME IfaceInv, ConfirmQuit \/ KeepRunning \/ LeavePrompt \/ LeaveMenu
  PROVE  Good
<1>1. CASE ConfirmQuit
  <2>1. Steady /\ open' = [open EXCEPT !.confirm = FALSE] /\ NoEdit /\ told' = 0
    BY <1>1 DEF ConfirmQuit, Showing, Steady, Silent
  <2>2. open.confirm
    BY <1>1 DEF ConfirmQuit, Typed, KeyLayer
  <2>3. DialogsGood' /\ ~open'.prompt
    BY <2>1, <2>2 DEF IfaceInv, DialogsGood, Apart, NoEdit
  <2>4. edit'.kind \in {"none", "filter"}
    BY <2>1, <2>2 DEF IfaceInv, DialogsGood, Apart, NoEdit
  <2> QED
    BY <2>1, <2>3, <2>4, PlainKeeps
<1>2. CASE KeepRunning
  <2>1. DialogsGood'
    BY <1>2 DEF KeepRunning, Layers, NoEdit, IfaceInv, DialogsGood, Apart
  <2>2. [open EXCEPT !.confirm = FALSE].prompt => open.prompt
    BY DEF IfaceInv, DialogsGood
  <2> QED
    BY <1>2, <2>1, <2>2, LayersKeep DEF KeepRunning
<1>3. CASE LeavePrompt
  <2>1. Steady /\ open' = [open EXCEPT !.prompt = FALSE] /\ edit' = edit /\ told' = 0
    BY <1>3, SteadyOrFresh DEF LeavePrompt, Silent
  <2>2. open.prompt
    BY <1>3 DEF LeavePrompt, Typed, KeyLayer
  <2>3. DialogsGood' /\ ~open'.prompt /\ edit'.kind = "none"
    BY <2>1, <2>2 DEF IfaceInv, DialogsGood, Apart
  <2> QED
    BY <2>1, <2>3, PlainKeeps
<1>4. CASE LeaveMenu
  <2>1. DialogsGood'
    BY <1>4 DEF LeaveMenu, Layers, NoEdit, IfaceInv, DialogsGood, Apart
  <2>2. [open EXCEPT !.menu = FALSE].prompt => open.prompt
    BY DEF IfaceInv, DialogsGood
  <2> QED
    BY <1>4, <2>1, <2>2, LayersKeep DEF LeaveMenu
<1> QED
  BY <1>1, <1>2, <1>3, <1>4

LEMMA TypeKeeps ==
  ASSUME IfaceInv, NEW text, Type(text)
  PROVE  Good
<1>1. edit.kind # "none" /\ ~open.confirm
  BY DEF Type, Typed, KeyLayer
<1>2. /\ Steady \/ Fresh
      /\ open' = open /\ told' = 0 /\ asked' = asked /\ edit' = [edit EXCEPT !.text = text]
  <2>1. size' = size /\ (Showing \/ Reload(Snaps, 0))
    BY DEF Type, Session
  <2> QED
    BY <2>1 DEF Type, Silent, Showing, Steady, Fresh
<1>3. DialogsGood' /\ ~open'.prompt
  BY <1>1, <1>2 DEF IfaceInv, DialogsGood, Apart
<1>4. edit'.kind \in {"none", "filter"} \/ edit'.port = asked'
  BY <1>1, <1>2 DEF IfaceInv, DialogsGood, EditorKeepsItsPort
<1> QED
  BY <1>2, <1>3, <1>4, PlainKeeps

LEMMA EndEditorKeeps ==
  ASSUME IfaceInv, EnterEditor \/ EscapeEditor \/ ClickEditor
  PROVE  Good
<1>1. edit.kind # "none"
  BY DEF EnterEditor, EscapeEditor, ClickEditor, Typed, KeyLayer, Single, Clicked, MouseLayer
<1>2. CASE EscapeEditor /\ edit' = NoEditor /\ open' = open /\ Refreshed /\ Session /\ Silent
  <2>1. Fresh /\ told' = 0
    BY <1>2, SteadyOrFresh DEF Silent
  <2>2. DialogsGood' /\ ~open'.prompt
    BY <1>1, <1>2 DEF IfaceInv, DialogsGood, Apart, NoEditor
  <2> QED
    BY <1>2, <2>1, <2>2, PlainKeeps DEF NoEditor
<1>3. CASE CloseEditor \/ (Apply /\ edit.kind # "filter")
  BY <1>1, <1>3, EditorKeeps
<1> QED
  BY <1>2, <1>3 DEF EnterEditor, EscapeEditor, ClickEditor

\* Layers that the table and the key bar open and close.
LEMMA TogglesKeep ==
  ASSUME IfaceInv, KeyLayer = "table" \/ MouseLayer = "table",
         \/ ToggleHelp \/ ToggleDetail
         \/ Layers([open EXCEPT !.help = FALSE]) \/ Layers([open EXCEPT !.detail = FALSE])
         \/ Layers([open EXCEPT !.confirm = TRUE]) \/ Layers([open EXCEPT !.menu = TRUE])
  PROVE  Good
<1>1. PICK L \in { [open EXCEPT !.help = ~@], [open EXCEPT !.detail = ~@],
                   [open EXCEPT !.help = FALSE], [open EXCEPT !.detail = FALSE],
                   [open EXCEPT !.confirm = TRUE], [open EXCEPT !.menu = TRUE] } : Layers(L)
  BY DEF ToggleHelp, ToggleDetail
<1>2. /\ L \in [ help : BOOLEAN, detail : BOOLEAN, prompt : BOOLEAN,
                 confirm : BOOLEAN, menu : BOOLEAN ]
      /\ ~L.prompt /\ ~(L.confirm /\ L.menu)
  BY TableAlone DEF IfaceInv, DialogsGood
<1>3. open' = L /\ edit' = edit /\ edit.kind = "none"
  BY <1>1, TableAlone DEF Layers, NoEdit
<1>4. DialogsGood'
  BY <1>2, <1>3 DEF IfaceInv, DialogsGood, Apart
<1> QED
  BY <1>1, <1>2, <1>4, LayersKeep

LEMMA KeyKeeps == ASSUME IfaceInv, KeyStep PROVE Good
<1>1. ASSUME NEW text \in Queries \cup Numbers, Type(text) PROVE Good
  BY <1>1, TypeKeeps
<1>2. ASSUME NEW scheme \in {"http", "https"}, ChooseByKey(scheme) PROVE Good
  <2>1. open.prompt /\ Chosen(scheme)
    BY <1>2 DEF ChooseByKey, Typed, KeyLayer
  <2> QED
    BY <2>1, ChosenKeeps
<1>3. ASSUME NEW kind \in {"port", "label"}, EditorKey(kind) PROVE Good
  BY <1>3, OpenEditorKeeps DEF EditorKey, TableKey, Typed
<1>4. CASE EnterEditor \/ EscapeEditor
  BY <1>4, EndEditorKeeps
<1>5. CASE SkipAnimation \/ RetryKey \/ CtrlC \/ ModeKey \/ SchemeKey \/ CopyKey \/ PauseKey
  BY <1>5, CommandsKeep DEF SkipAnimation, CtrlC, ModeKey, SchemeKey, CopyKey, PauseKey
<1>6. CASE CycleSort \/ ReverseSort
  BY <1>6, ArrangeKeeps DEF CycleSort, ReverseSort
<1>7. CASE ActivateByKey
  BY <1>7, ActivateKeeps DEF ActivateByKey
<1>8. CASE OpenKey
  BY <1>8, OpenSelectedKeeps DEF OpenKey, TableKey, Typed
<1>9. CASE FilterKey
  BY <1>9, FilterKeeps DEF FilterKey, TableKey, Typed
<1>10. CASE CloseHelp \/ CloseDetail \/ AskQuit \/ HelpKey \/ DetailKey \/ ConfigKey
  <2>1. KeyLayer = "table"
    BY <1>10 DEF CloseHelp, CloseDetail, AskQuit, HelpKey, DetailKey, ConfigKey, TableKey,
                 Typed
  <2> QED
    BY <1>10, <2>1, TogglesKeep
       DEF CloseHelp, CloseDetail, AskQuit, HelpKey, DetailKey, ConfigKey
<1>11. CASE ConfirmQuit \/ KeepRunning \/ LeavePrompt \/ LeaveMenu
  BY <1>11, AskingKeysKeep
<1> QED
  BY <1>1, <1>2, <1>3, <1>4, <1>5, <1>6, <1>7, <1>8, <1>9, <1>10, <1>11 DEF KeyStep

-----------------------------------------------------------------------------
(***************************************************************************)
(* The mouse and the other messages.                                       *)
(***************************************************************************)
LEMMA MouseKeeps == ASSUME IfaceInv, MouseStep PROVE Good
<1>1. ASSUME NEW scheme \in {"http", "https"}, ClickChoice(scheme) PROVE Good
  <2>1. open.prompt /\ Chosen(scheme)
    BY <1>1 DEF ClickChoice, Single, Clicked, MouseLayer
  <2> QED
    BY <2>1, ChosenKeeps
<1>2. CASE ClickPrompt
  <2>1. Steady /\ open' = [open EXCEPT !.prompt = FALSE] /\ edit' = edit /\ told' = 0
    BY <1>2, SteadyOrFresh DEF ClickPrompt, Silent
  <2>2. open.prompt
    BY <1>2 DEF ClickPrompt, Single, Clicked, MouseLayer
  <2>3. DialogsGood' /\ ~open'.prompt /\ edit'.kind = "none"
    BY <2>1, <2>2 DEF IfaceInv, DialogsGood, Apart
  <2> QED
    BY <2>1, <2>3, PlainKeeps
<1>3. CASE ClickPopover
  <2>1. Layers([open EXCEPT !.help = FALSE, !.detail = FALSE])
    BY <1>3 DEF ClickPopover
  <2>2. DialogsGood'
    BY <2>1 DEF Layers, NoEdit, IfaceInv, DialogsGood, Apart
  <2>3. [open EXCEPT !.help = FALSE, !.detail = FALSE].prompt => open.prompt
    BY DEF IfaceInv, DialogsGood
  <2> QED
    BY <2>1, <2>2, <2>3, LayersKeep
<1>4. CASE ClickMenu
  <2>1. ASSUME Layers([open EXCEPT !.menu = FALSE]) PROVE Good
    <3>1. DialogsGood'
      BY <2>1 DEF Layers, NoEdit, IfaceInv, DialogsGood, Apart
    <3>2. [open EXCEPT !.menu = FALSE].prompt => open.prompt
      BY DEF IfaceInv, DialogsGood
    <3> QED
      BY <2>1, <3>1, <3>2, LayersKeep
  <2> QED
    BY <1>4, <2>1, ActivateKeeps DEF ClickMenu
<1>5. CASE ClickEditor
  BY <1>5, EndEditorKeeps
<1>6. ASSUME NEW entry \in DOMAIN KeyBar, ClickFooter(entry) PROVE Good
  <2>1. MouseLayer = "table"
    BY <1>6 DEF ClickFooter, Single, Clicked
  <2> QED
    BY <1>6, <2>1, TogglesKeep, OpenSelectedKeeps DEF ClickFooter
<1>7. ASSUME NEW i \in DOMAIN SortKeys, ClickHeader(SortKeys[i]) PROVE Good
  BY <1>7, ArrangeKeeps DEF ClickHeader
<1> QED
  BY <1>1, <1>2, <1>3, <1>4, <1>5, <1>6, <1>7 DEF MouseStep

LEMMA MessageKeeps == ASSUME IfaceInv, Message PROVE Good
<1>1. CASE Refresh
  <2>1. Fresh /\ open' = open /\ NoEdit /\ told' = 0
    BY <1>1, SteadyOrFresh DEF Refresh, Arrives, Silent
  <2> QED
    BY <2>1, QuietKeeps
<1>2. CASE Notify \/ TimerExpires \/ Tick \/ \E state \in {"up", "down"} : Report(state)
  <2>1. Steady /\ open' = open /\ NoEdit /\ told' = 0
    BY <1>2 DEF Notify, TimerExpires, Tick, Report, Arrives, Silent, Session, Showing, Steady
  <2> QED
    BY <2>1, QuietKeeps
<1>3. ASSUME NEW s \in Sizes, Resize(s) PROVE Good
  <2> DEFINE w == Window(Count, table.cursor, table.offset, TableHeight(s))
  <2>1. /\ table' = [table EXCEPT !.cursor = w.cursor, !.offset = w.offset]
        /\ size' = s /\ open' = open /\ NoEdit /\ told' = 0
    BY <1>3 DEF Resize, Arrives, Silent
  <2>2. table.cursor \in Int /\ table.cursor \in 0..Count
    BY DEF IfaceInv, TableGood, Count
  <2> HIDE DEF w
  <2>3. TableGood' /\ table'.rows = table.rows /\ table'.cursor = table.cursor
    BY <2>1, <2>2, MoveGood DEF IfaceInv, w
  <2>4. SelectedPort(table') = SelectedPort(table)
    BY <2>3 DEF SelectedPort, Selected
  <2>5. DialogsGood' /\ EditorKeepsItsPort' /\ PromptKeepsItsRow'
    BY <2>1, <2>4 DEF NoEdit, IfaceInv, DialogsGood, Apart, EditorKeepsItsPort,
                      PromptKeepsItsRow
  <2> QED
    BY <2>1, <2>3, <2>4, <2>5 DEF Good, Kept, Follows, IfaceInv
<1> QED
  BY <1>1, <1>2, <1>3 DEF Message

-----------------------------------------------------------------------------
(***************************************************************************)
(* Navigation: the selection changes, while nothing is asked.              *)
(***************************************************************************)
LEMMA SelectingKeeps ==
  ASSUME IfaceInv, KeyLayer = "table" \/ MouseLayer = "table",
         TableGood', open' = open, NoEdit, told' = 0
  PROVE  Kept
<1>1. DialogsGood' /\ EditorKeepsItsPort'
  BY DEF NoEdit, IfaceInv, DialogsGood, Apart, EditorKeepsItsPort
<1>2. PromptKeepsItsRow'
  BY TableAlone DEF PromptKeepsItsRow
<1> QED
  BY <1>1, <1>2 DEF Kept, IfaceInv

LEMMA MoveToKeeps ==
  ASSUME IfaceInv, KeyLayer = "table" \/ MouseLayer = "table", NEW c \in Int, MoveTo(c)
  PROVE  Kept
<1> DEFINE w == Window(Count, c, table.offset, TableHeight(size))
<1>1. /\ table' = [table EXCEPT !.cursor = w.cursor, !.offset = w.offset]
      /\ size' = size /\ open' = open /\ NoEdit /\ told' = 0
  BY DEF MoveTo, Session, Silent, NoEdit
<1> HIDE DEF w
<1>2. TableGood'
  <2>1. size \in Sizes /\ TableGood
    BY DEF IfaceInv, TableGood
  <2> QED
    BY <1>1, <2>1, MoveGood DEF w
<1> QED
  BY <1>1, <1>2, SelectingKeeps

LEMMA NavigationKeeps == ASSUME IfaceInv, Navigation PROVE Kept
<1>0. TableGood /\ table.cursor \in Int /\ Count \in Nat /\ size \in Sizes
  BY DEF IfaceInv, TableGood, Count
<1>1. ASSUME NEW delta \in {-1, 1}, Arrow(delta) \/ Page(delta) \/ Wheel(delta) PROVE Kept
  <2>1. KeyLayer = "table" \/ MouseLayer = "table"
    BY <1>1 DEF Arrow, Page, Wheel, TableKey, Typed, Single, Clicked
  <2>2. TableHeight(size) \in Int
    BY <1>0, HeightIsPositive
  <2>3. \E c \in Int : MoveTo(c)
    <3>1. delta \in Int /\ delta * TableHeight(size) \in Int /\ table.cursor + delta \in Int
      BY <1>0, <2>2
    <3> QED
      BY <1>0, <1>1, <3>1, MovedIsInt DEF Arrow, Page, Wheel
  <2> QED
    BY <2>1, <2>3, MoveToKeeps
<1>2. CASE Home \/ End
  <2>1. KeyLayer = "table" /\ \E c \in Int : MoveTo(c)
    BY <1>0, <1>2 DEF Home, End, TableKey, Typed, NoSelection
  <2> QED
    BY <2>1, MoveToKeeps
<1>3. ASSUME NEW i \in DOMAIN table.rows, NEW soon \in BOOLEAN, ClickRow(i, soon)
      PROVE  Kept
  <2> DEFINE w == Window(Count, i, table.offset, TableHeight(size))
  <2>1. /\ table' = [table EXCEPT !.cursor = w.cursor, !.offset = w.offset]
        /\ size' = size /\ edit' = edit /\ told' = 0 /\ MouseLayer = "table"
        /\ (open' = open /\ asked' = asked) \/ OpenRow(table', open)
    BY <1>3 DEF ClickRow, Clicked, Session, Silent
  <2> HIDE DEF w
  <2>2. i \in Int
    BY DEF IfaceInv, TableGood
  <2>3. TableGood'
    BY <1>0, <2>1, <2>2, MoveGood DEF w
  <2>4. CASE open' = open /\ asked' = asked
    BY <2>1, <2>3, <2>4, SelectingKeeps DEF NoEdit
  <2>5. CASE OpenRow(table', open)
    BY <2>1, <2>3, <2>5, TableAlone, OpenKeeps DEF IfaceInv, DialogsGood
  <2> QED
    BY <2>1, <2>4, <2>5
<1>4. ASSUME NEW i \in DOMAIN table.rows, NEW what, ClickCell(i, what) PROVE Kept
  <2>1. /\ Reload(Snaps, table.rows[i].port) /\ size' = size /\ MouseLayer = "table"
        /\ open' = open /\ NoEdit /\ told' = 0
    BY <1>4 DEF ClickCell, Clicked, Session, Silent
  <2>2. TableGood'
    BY <1>0, <2>1, ReloadGood
  <2> QED
    BY <2>1, <2>2, SelectingKeeps
<1> QED
  BY <1>1, <1>2, <1>3, <1>4 DEF Navigation

-----------------------------------------------------------------------------
LEMMA IfaceStep ==
  ASSUME IfaceInv, [Next]_vars
  PROVE  Kept \/ UNCHANGED vars
<1>1. CASE UNCHANGED vars
  BY <1>1
<1>2. CASE Next
  BY <1>2, KeyKeeps, MouseKeeps, MessageKeeps, NavigationKeeps DEF Next, Good, Ended
<1> QED
  BY <1>1, <1>2

LEMMA IfaceInvariant == Spec => []IfaceInv
<1>1. IfaceInv /\ UNCHANGED vars => IfaceInv'
  BY DEF vars, IfaceInv, TableGood, DialogsGood, Apart, PromptKeepsItsRow,
         EditorKeepsItsPort, SelectionIsVisible, OnScreen
<1>2. IfaceInv /\ [Next]_vars => IfaceInv'
  BY <1>1, IfaceStep DEF Kept
<1> QED
  BY <1>2, IfaceInit, PTL DEF Spec

(***************************************************************************)
(* SelectionIsVisible (model.go:525-553), for tables and windows of any    *)
(* size: no refresh, resize, search or change of order leaves the          *)
(* highlighted row outside the window.                                     *)
(***************************************************************************)
THEOREM HighlightIsOnScreen == Spec => []SelectionIsVisible
<1>1. IfaceInv => SelectionIsVisible
  BY DEF IfaceInv, TableGood
<1> QED
  BY <1>1, IfaceInvariant, PTL

(***************************************************************************)
(* OneDialogAtATime (model.go:284, 563): no sequence of keys, clicks and   *)
(* refreshes opens a second layer that takes every key, so the two orders  *)
(* in which keys and clicks look for their layer agree.                    *)
(***************************************************************************)
THEOREM DialogsExclude == Spec => []OneDialogAtATime
<1>1. IfaceInv => OneDialogAtATime
  <2> DEFINE D == {l \in {"prompt", "confirm", "menu"} : open[l]}
                    \cup (IF edit.kind = "none" THEN {} ELSE {"editor"})
  <2> SUFFICES ASSUME IfaceInv PROVE Cardinality(D) <= 1
    BY DEF OneDialogAtATime
  <2>1. \E l : D \subseteq {l}
    <3>1. Apart
      BY DEF IfaceInv, DialogsGood
    <3>2. CASE open.prompt
      <4>1. D \subseteq {"prompt"}
        BY <3>1, <3>2 DEF Apart
      <4> QED  BY <4>1
    <3>3. CASE open.confirm
      <4>1. D \subseteq {"confirm"}
        BY <3>1, <3>3 DEF Apart
      <4> QED  BY <4>1
    <3>4. CASE open.menu
      <4>1. D \subseteq {"menu"}
        BY <3>1, <3>4 DEF Apart
      <4> QED  BY <4>1
    <3>5. CASE ~open.prompt /\ ~open.confirm /\ ~open.menu
      <4>1. D \subseteq {"editor"}
        BY <3>5
      <4> QED  BY <4>1
    <3> QED
      BY <3>2, <3>3, <3>4, <3>5
  <2>2. PICK l : D \subseteq {l}
    BY <2>1
  <2> HIDE DEF D
  <2>3. IsFiniteSet({l}) /\ Cardinality({l}) = 1
    BY FS_Singleton
  <2>4. Cardinality(D) <= Cardinality({l})
    BY <2>2, <2>3, FS_Subset
  <2> QED
    BY <2>3, <2>4
<1> QED
  BY <1>1, IfaceInvariant, PTL

(***************************************************************************)
(* AnswersHitTheirPort (model.go:674, 726, 742): whatever the manager      *)
(* lists in between, a protocol, a port or a name reaches the port it was  *)
(* entered for, and an entry with a meaning always does.                   *)
(***************************************************************************)
THEOREM AnswersReachTheirPort == Spec => AnswersHitTheirPort
<1> DEFINE Reach == /\ told' \in {0, asked}
                    /\ (EnterEditor \/ ClickEditor) /\ edit.kind # "filter" /\ Meaningful
                         => told' = asked
<1>1. ASSUME IfaceInv, [Next]_vars PROVE Reach \/ UNCHANGED vars
  <2>1. CASE UNCHANGED vars
    BY <2>1
  <2>2. CASE Kept
    <3>1. ASSUME EnterEditor \/ ClickEditor, edit.kind # "filter", Meaningful
          PROVE  told' = asked
      <4>1. edit.kind # "none" /\ Apply
        BY <3>1 DEF EnterEditor, ClickEditor, Typed, KeyLayer, Single, Clicked, MouseLayer
      <4>2. edit.port = asked
        BY <1>1, <3>1, <4>1 DEF IfaceInv, DialogsGood, EditorKeepsItsPort
      <4> QED
        BY <3>1, <4>1, <4>2 DEF Apply
    <3> QED
      BY <2>2, <3>1 DEF Kept
  <2> QED
    BY <1>1, <2>1, <2>2, IfaceStep
<1> QED
  BY <1>1, IfaceInvariant, PTL DEF Spec, AnswersHitTheirPort

(***************************************************************************)
(* SelectionFollowsItsPort (model.go:461): for any snapshots, only the     *)
(* steps that are there to move the selection move it to another port.     *)
(***************************************************************************)
THEOREM SelectionIsTheUsers == Spec => SelectionFollowsItsPort
<1>1. ASSUME IfaceInv, [Next]_vars
      PROVE  SelectedPort(table') \in {SelectedPort(table), 0} \/ Navigation \/ UNCHANGED vars
  BY <1>1, KeyKeeps, MouseKeeps, MessageKeeps DEF Next, Good, Follows, Ended
<1> QED
  BY <1>1, IfaceInvariant, PTL DEF Spec, SelectionFollowsItsPort

-----------------------------------------------------------------------------
(***************************************************************************)
(* Types.  IfaceInv has those of the table and the layers.                 *)
(***************************************************************************)
Views ==
  [ sort : Keys, reverse : BOOLEAN, pre : BOOLEAN, last : BOOLEAN,
    query : Queries \cup Numbers ]

Texts == Queries \cup Numbers \cup {""}

EditTyped == edit.port \in Ports \cup {0} /\ edit.text \in Texts

Bells == [shown : BOOLEAN, own : BOOLEAN, older : BOOLEAN]

ClickTyped == clicked \in Ports \cup {0}

AnswerTyped == asked \in Ports \cup {0} /\ told \in Ports \cup {0}

FlagsTyped == link \in {"up", "down"} /\ falling \in Int /\ over \in BOOLEAN

RestTyped == /\ view \in Views /\ EditTyped /\ bell \in Bells
             /\ AnswerTyped /\ FlagsTyped

LEMMA NoEditorTyped == NoEditor.port \in Ports \cup {0} /\ NoEditor.text \in Texts
<1>1. NoEditor.port = 0 /\ NoEditor.text = ""
  BY DEF NoEditor
<1> QED
  BY <1>1 DEF Texts

LEMMA RestInit == Init => RestTyped /\ ClickTyped /\ zones \subseteq DOMAIN KeyBar
<1> SUFFICES ASSUME Init PROVE RestTyped /\ ClickTyped /\ zones \subseteq DOMAIN KeyBar
  OBVIOUS
<1>1. SortKeys[1] \in Keys
  BY InterfaceAssumption
<1>2. view \in Views
  BY <1>1, RowsAssumption DEF Init, Views
<1>3. zones \subseteq DOMAIN KeyBar
  BY DEF Init, Drawn
<1>4. bell \in Bells
  BY DEF Init, Bells, NoToast
<1>5. EditTyped
  BY NoEditorTyped DEF Init, EditTyped
<1>6. AnswerTyped /\ ClickTyped
  BY DEF Init, ClickTyped, AnswerTyped
<1>7. FlagsTyped
  <2>1. link = "up" /\ falling = -1 /\ over = FALSE
    BY DEF Init, NotFalling
  <2>2. falling \in Int
    BY <2>1
  <2> QED
    BY <2>1, <2>2 DEF FlagsTyped
<1> QED
  BY <1>2, <1>3, <1>4, <1>5, <1>6, <1>7 DEF RestTyped

LEMMA SelectedIsAPort ==
  ASSUME TableGood
  PROVE  SelectedPort(table) \in Ports \cup {0}
BY DEF TableGood, SelectedPort, Selected, Row

LEMMA BellTypes ==
  ASSUME bell \in Bells, Toast \/ Quiet \/ (\E t : NeedSelection(t))
  PROVE  bell' \in Bells
<1>1. CASE Toast
  <2>1. bell.own \in BOOLEAN /\ bell.older \in BOOLEAN
    BY DEF Bells
  <2>2. (bell.own \/ bell.older) \in BOOLEAN
    BY <2>1
  <2> QED
    BY <1>1, <2>2 DEF Toast, Bells
<1>2. CASE Quiet
  BY <1>2 DEF Quiet
<1> QED
  BY <1>1, <1>2 DEF NeedSelection

\* The commands, by what they do to the rest.
LEMMA CommandTypes ==
  ASSUME IfaceInv, RestTyped,
         \/ Cycle \/ CopySelected \/ TogglePause \/ Stop \/ CloseEditor \/ Apply
         \/ OpenSelected \/ RetryKey \/ \E L : Layers(L)
  PROVE  RestTyped'
<1> USE DEF RestTyped
<1>1. bell' \in Bells
  BY BellTypes DEF Cycle, CopySelected, TogglePause, Stop, CloseEditor, Apply,
     OpenSelected, OpenRow, RetryKey, Layers
<1>2. view' = view
  BY DEF Cycle, CopySelected, TogglePause, Stop, CloseEditor, Apply, OpenSelected,
     RetryKey, Layers, Showing
<1>3. edit' = edit \/ edit' = NoEditor
  BY DEF Cycle, CopySelected, TogglePause, Stop, CloseEditor, Apply, OpenSelected,
     RetryKey, Layers, NoEdit
<1>4. EditTyped'
  BY <1>3, NoEditorTyped DEF EditTyped
<1>5. asked' \in {asked, 0} \/ asked' = SelectedPort(table)
  BY DEF Cycle, CopySelected, TogglePause, Stop, CloseEditor, Apply, OpenSelected,
     RetryKey, Layers, NoEdit, OpenRow, SelectedPort
<1>6. told' \in {0, edit.port}
  BY DEF Cycle, CopySelected, TogglePause, Stop, CloseEditor, Apply, OpenSelected,
     RetryKey, Layers, Silent
<1>7. AnswerTyped'
  BY <1>5, <1>6, SelectedIsAPort DEF AnswerTyped, EditTyped, IfaceInv
<1>8. FlagsTyped'
  BY DEF Cycle, CopySelected, TogglePause, Stop, CloseEditor, Apply, OpenSelected,
     RetryKey, Layers, Session, FlagsTyped
<1> QED
  BY <1>1, <1>2, <1>4, <1>7, <1>8

LEMMA ArrangeTypes ==
  ASSUME RestTyped, NEW v \in Views, NEW ring, Arrange(v, ring)
  PROVE  RestTyped'
<1>1. view' = v /\ (Toast \/ Quiet) /\ NoEdit /\ Session /\ told' = 0
  BY DEF Arrange, Silent
<1>2. bell' \in Bells
  BY <1>1, BellTypes DEF RestTyped
<1> QED
  BY <1>1, <1>2 DEF RestTyped, NoEdit, EditTyped, AnswerTyped, FlagsTyped, Session

LEMMA NextKeyIsAKey ==
  ASSUME NEW seq \in Seq(Keys), seq # << >>, NEW key
  PROVE  NextKey(seq, key) \in Keys
<1> DEFINE at == {i \in DOMAIN seq : seq[i] = key}
           c  == CHOOSE i \in at : TRUE
<1>1. Len(seq) \in Nat \ {0} /\ DOMAIN seq = 1..Len(seq)
      /\ \A i \in 1..Len(seq) : seq[i] \in Keys
  OBVIOUS
<1>2. CASE at = {}
  BY <1>1, <1>2 DEF NextKey
<1>3. CASE at # {}
  <2>1. c \in at
    BY <1>3
  <2>2. NextKey(seq, key) = seq[(c % Len(seq)) + 1]
    BY <1>3 DEF NextKey
  <2> HIDE DEF c
  <2>3. c \in Nat
    BY <1>1, <2>1
  <2>4. (c % Len(seq)) + 1 \in 1..Len(seq)
    BY <1>1, <2>3
  <2> QED
    BY <1>1, <2>2, <2>4
<1> QED
  BY <1>2, <1>3

LEMMA ViewTypes ==
  ASSUME view \in Views
  PROVE  /\ [view EXCEPT !.pre = ~@] \in Views
         /\ [view EXCEPT !.last = ~@] \in Views
         /\ [view EXCEPT !.reverse = ~@] \in Views
         /\ \A key \in Keys : /\ [view EXCEPT !.sort = key] \in Views
                              /\ [view EXCEPT !.sort = key, !.reverse = FALSE] \in Views
         /\ \A text \in Queries \cup Numbers : [view EXCEPT !.query = text] \in Views
BY DEF Views

LEMMA ActivateTypes ==
  ASSUME RestTyped, Activate
  PROVE  RestTyped'
<1>1. NextKey(MenuKeys, view.sort) \in Keys
  BY InterfaceAssumption, NextKeyIsAKey
<1>2. PICK v \in Views : Arrange(v, FALSE)
  BY <1>1, ViewTypes DEF Activate, RestTyped
<1> QED
  BY <1>2, ArrangeTypes

LEMMA EditWithTypes ==
  ASSUME RestTyped, NEW kind, NEW port \in Ports \cup {0}, NEW text \in Texts,
         EditWith(kind, port, text)
  PROVE  RestTyped'
BY DEF RestTyped, EditWith, Showing, Quiet, Session, Silent, EditTyped, AnswerTyped,
   FlagsTyped

LEMMA OpenEditorTypes ==
  ASSUME IfaceInv, RestTyped, OpenFilter \/ \E kind : OpenEditor(kind)
  PROVE  RestTyped'
<1>1. CASE OpenFilter
  BY <1>1, EditWithTypes DEF OpenFilter, RestTyped, Views, Texts
<1>2. CASE \E kind : OpenEditor(kind)
  <2>1. PICK kind : OpenEditor(kind)
    BY <1>2
  <2>2. CASE \E text \in {""} \cup Numbers : EditWith(kind, SelectedPort(table), text)
    <3>1. SelectedPort(table) \in Ports \cup {0}
      BY SelectedIsAPort DEF IfaceInv
    <3> QED
      BY <2>2, <3>1, EditWithTypes DEF Texts
  <2>3. CASE NeedSelection(table) /\ Showing /\ NoEdit /\ Session /\ Silent
    <3>1. bell' \in Bells
      BY <2>3, BellTypes DEF RestTyped
    <3> QED
      BY <2>3, <3>1 DEF RestTyped, Showing, NoEdit, EditTyped, AnswerTyped, Session,
         Silent, FlagsTyped
  <2> QED
    BY <2>1, <2>2, <2>3 DEF OpenEditor
<1> QED
  BY <1>1, <1>2

LEMMA ChosenTypes ==
  ASSUME IfaceInv, RestTyped, TableGood', NEW scheme, Chosen(scheme)
  PROVE  RestTyped'
<1>1. view' = view /\ edit' = edit /\ Session
  BY DEF Chosen
<1>2. bell' \in Bells
  BY BellTypes DEF Chosen, OpenRow, RestTyped
<1>3. asked' = 0 \/ asked' = SelectedPort(table')
  BY DEF Chosen, OpenRow, SelectedPort
<1>4. SelectedPort(table') \in Ports \cup {0}
  BY DEF TableGood, SelectedPort, Selected, Row
<1>5. told' = 0 \/ told' = SelectedPort(table)
  BY DEF Chosen, Silent
<1> QED
  BY <1>1, <1>2, <1>3, <1>4, <1>5, SelectedIsAPort
  DEF RestTyped, EditTyped, AnswerTyped, FlagsTyped, Session, IfaceInv

LEMMA TypingTypes ==
  ASSUME RestTyped, NEW text \in Queries \cup Numbers, Type(text), DialogsGood
  PROVE  RestTyped'
<1>1. /\ edit' = [edit EXCEPT !.text = text]
      /\ view' \in {view, [view EXCEPT !.query = text]}
      /\ asked' = asked /\ told' = 0 /\ Quiet /\ Session
  BY DEF Type, Showing, Silent
<1>2. view' \in Views
  BY <1>1, ViewTypes DEF RestTyped
<1>3. EditTyped'
  BY <1>1 DEF RestTyped, EditTyped, DialogsGood, Texts
<1> QED
  BY <1>1, <1>2, <1>3 DEF RestTyped, AnswerTyped, FlagsTyped, Session, Quiet

LEMMA AskingTypes ==
  ASSUME RestTyped, ConfirmQuit \/ LeavePrompt \/ ClickPrompt \/ EscapeEditor,
         ~CloseEditor
  PROVE  RestTyped'
<1>1. Quiet /\ told' = 0 /\ asked' \in {asked, 0} /\ edit' \in {edit, NoEditor}
  BY DEF ConfirmQuit, LeavePrompt, ClickPrompt, EscapeEditor, NoEdit, Silent
<1>2. view' \in {view, [view EXCEPT !.query = ""]}
  BY DEF ConfirmQuit, LeavePrompt, ClickPrompt, EscapeEditor, Showing
<1>3. view' \in Views
  BY <1>2, ViewTypes, RowsAssumption DEF RestTyped
<1>4. FlagsTyped'
  <2>1. Frames \subseteq Int
    BY InterfaceAssumption
  <2>2. CASE Session
    BY <2>2 DEF Session, RestTyped, FlagsTyped
  <2>3. CASE ConfirmQuit
    BY <2>1, <2>3 DEF ConfirmQuit, RestTyped, FlagsTyped
  <2> QED
    BY <2>2, <2>3 DEF LeavePrompt, ClickPrompt, EscapeEditor
<1> QED
  BY <1>1, <1>3, <1>4, NoEditorTyped DEF RestTyped, Quiet, AnswerTyped, EditTyped

LEMMA KeyTypesKept ==
  ASSUME IfaceInv, RestTyped, TableGood', KeyStep
  PROVE  RestTyped'
<1>1. CASE \/ SkipAnimation \/ KeepRunning \/ EnterEditor \/ LeaveMenu \/ RetryKey
           \/ CloseHelp \/ CloseDetail \/ CtrlC \/ AskQuit \/ HelpKey \/ DetailKey
           \/ ModeKey \/ SchemeKey \/ OpenKey \/ CopyKey \/ PauseKey \/ ConfigKey
           \/ CloseEditor
  BY <1>1, CommandTypes
  DEF SkipAnimation, KeepRunning, EnterEditor, LeaveMenu, CloseHelp, CloseDetail, CtrlC,
      AskQuit, HelpKey, ToggleHelp, DetailKey, ToggleDetail, ModeKey, SchemeKey, OpenKey,
      CopyKey, PauseKey, ConfigKey
<1>2. CASE (ConfirmQuit \/ LeavePrompt \/ EscapeEditor) /\ ~CloseEditor
  BY <1>2, AskingTypes
<1>3. CASE ActivateByKey
  BY <1>3, ActivateTypes DEF ActivateByKey
<1>4. CASE CycleSort \/ ReverseSort
  <2>1. NextKey(SortKeys, view.sort) \in Keys
    BY InterfaceAssumption, NextKeyIsAKey
  <2>2. PICK v \in Views, ring \in BOOLEAN : Arrange(v, ring)
    BY <1>4, <2>1, ViewTypes DEF CycleSort, ReverseSort, RestTyped
  <2> QED
    BY <2>2, ArrangeTypes
<1>5. CASE FilterKey \/ \E kind \in {"port", "label"} : EditorKey(kind)
  BY <1>5, OpenEditorTypes DEF FilterKey, EditorKey
<1>6. CASE \E text \in Queries \cup Numbers : Type(text)
  BY <1>6, TypingTypes DEF IfaceInv
<1>7. CASE \E scheme \in {"http", "https"} : ChooseByKey(scheme)
  BY <1>7, ChosenTypes DEF ChooseByKey
<1> QED
  BY <1>1, <1>2, <1>3, <1>4, <1>5, <1>6, <1>7 DEF KeyStep

LEMMA MouseTypesKept ==
  ASSUME IfaceInv, RestTyped, TableGood', MouseStep
  PROVE  RestTyped'
<1>1. CASE \/ ClickPopover \/ ClickEditor
           \/ ClickMenu /\ ~Activate
           \/ \E entry \in DOMAIN KeyBar : ClickFooter(entry)
  BY <1>1, CommandTypes
  DEF ClickPopover, ClickEditor, ClickMenu, ClickFooter, ToggleDetail, ToggleHelp
<1>2. CASE ClickMenu /\ Activate
  BY <1>2, ActivateTypes
<1>3. CASE ClickPrompt
  <2>1. CASE CloseEditor
    BY <2>1, CommandTypes
  <2>2. CASE ~CloseEditor
    BY <1>3, <2>2, AskingTypes
  <2> QED
    BY <2>1, <2>2
<1>4. CASE \E scheme \in {"http", "https"} : ClickChoice(scheme)
  BY <1>4, ChosenTypes DEF ClickChoice
<1>5. ASSUME NEW i \in DOMAIN SortKeys, ClickHeader(SortKeys[i]) PROVE RestTyped'
  <2>1. SortKeys[i] \in Keys
    BY InterfaceAssumption
  <2>2. PICK v \in Views : Arrange(v, TRUE)
    BY <1>5, <2>1, ViewTypes DEF ClickHeader, RestTyped
  <2> QED
    BY <2>2, ArrangeTypes
<1> QED
  BY <1>1, <1>2, <1>3, <1>4, <1>5 DEF MouseStep

LEMMA NavigationTypesKept ==
  ASSUME IfaceInv, RestTyped, TableGood', Navigation
  PROVE  RestTyped'
<1>1. /\ view' = view /\ edit' = edit /\ Session /\ told' = 0
      /\ \/ bell' = bell \/ Toast \/ \E t : NeedSelection(t)
      /\ asked' \in {asked, 0} \/ asked' = SelectedPort(table')
  BY DEF Navigation, Arrow, Page, Wheel, Home, End, MoveTo, ClickCell, ClickRow, NoEdit,
     OpenRow, Silent, SelectedPort, Quiet
<1>2. bell' \in Bells
  BY <1>1, BellTypes DEF RestTyped, Quiet
<1>3. SelectedPort(table') \in Ports \cup {0}
  BY DEF TableGood, SelectedPort, Selected, Row
<1> QED
  BY <1>1, <1>2, <1>3 DEF RestTyped, EditTyped, AnswerTyped, FlagsTyped, Session

LEMMA MessageTypesKept ==
  ASSUME RestTyped, Message
  PROVE  RestTyped'
<1>1. /\ view' = view /\ edit' = edit /\ told' = 0 /\ asked' = asked
  BY DEF Message, Refresh, Notify, TimerExpires, Tick, Resize, Report, Arrives, NoEdit,
     Silent, Showing
<1>2. bell' \in Bells
  <2>1. CASE TimerExpires
    BY <2>1 DEF TimerExpires, RestTyped, Bells
  <2>2. CASE Toast \/ Quiet
    BY <2>2, BellTypes DEF RestTyped
  <2> QED
    BY <2>1, <2>2 DEF Message, Refresh, Notify, Tick, Resize, Report
<1>3. FlagsTyped'
  <2>1. CASE Tick
    <3>1. falling \in Int /\ link' = link /\ falling' = falling - 1 /\ over' = (falling = 1)
      BY <2>1 DEF Tick, RestTyped, FlagsTyped
    <3>2. falling' \in Int /\ over' \in BOOLEAN
      BY <3>1
    <3> QED
      BY <3>1, <3>2 DEF RestTyped, FlagsTyped
  <2>2. CASE ~Tick
    BY <2>2 DEF Message, Refresh, Notify, TimerExpires, Resize, Report, Session, RestTyped,
       FlagsTyped
  <2> QED
    BY <2>1, <2>2
<1> QED
  BY <1>1, <1>2, <1>3 DEF RestTyped, EditTyped, AnswerTyped

LEMMA ClickTypes ==
  ASSUME IfaceInv, ClickTyped, KeyStep \/ MouseStep \/ Navigation \/ Message
  PROVE  ClickTyped'
<1>1. \A i \in DOMAIN table.rows : table.rows[i].port \in Ports
  BY DEF IfaceInv, TableGood, Row
<1>2. clicked' \in {clicked, 0} \/ \E i \in DOMAIN table.rows : clicked' = table.rows[i].port
  <2>1. CASE KeyStep
    BY <2>1 DEF KeyStep, SkipAnimation, ConfirmQuit, KeepRunning, Type, EnterEditor,
       EscapeEditor, ChooseByKey, LeavePrompt, LeaveMenu, ActivateByKey, RetryKey,
       CloseHelp, CloseDetail, CtrlC, AskQuit, CycleSort, ReverseSort, FilterKey, HelpKey,
       DetailKey, EditorKey, ModeKey, SchemeKey, OpenKey, CopyKey, PauseKey, ConfigKey,
       TableKey, Typed
  <2>2. CASE MouseStep \/ Message
    BY <2>2 DEF MouseStep, ClickChoice, ClickPrompt, ClickPopover, ClickMenu, ClickEditor,
       ClickFooter, ClickHeader, Single, Message, Refresh, Notify, TimerExpires, Tick,
       Resize, Report, Arrives
  <2>3. CASE Navigation
    BY <2>3 DEF Navigation, Arrow, Page, Wheel, Home, End, ClickRow, ClickCell, TableKey,
       Typed, Single
  <2> QED
    BY <2>1, <2>2, <2>3
<1> QED
  BY <1>1, <1>2 DEF ClickTyped

IfaceTypes == RestTyped /\ ClickTyped /\ zones \subseteq DOMAIN KeyBar

LEMMA TypesStep ==
  ASSUME IfaceInv, IfaceInv', IfaceTypes, [Next]_vars
  PROVE  IfaceTypes'
<1>1. CASE UNCHANGED vars
  BY <1>1 DEF vars, IfaceTypes, RestTyped, EditTyped, AnswerTyped, FlagsTyped, ClickTyped
<1>2. CASE (KeyStep \/ MouseStep \/ Navigation \/ Message) /\ Draw
  <2>1. TableGood'
    BY DEF IfaceInv
  <2>2. RestTyped'
    BY <1>2, <2>1, KeyTypesKept, MouseTypesKept, NavigationTypesKept, MessageTypesKept
    DEF IfaceTypes
  <2>3. ClickTyped'
    BY <1>2, ClickTypes DEF IfaceTypes
  <2>4. zones' \subseteq DOMAIN KeyBar
    BY <1>2 DEF Draw, Drawn, IfaceTypes
  <2> QED
    BY <2>2, <2>3, <2>4 DEF IfaceTypes
<1> QED
  BY <1>1, <1>2 DEF Next, Ended

LEMMA TypesHold ==
  ASSUME IfaceInv, IfaceTypes
  PROVE  TypeOK
BY DEF IfaceInv, TableGood, DialogsGood, IfaceTypes, RestTyped, EditTyped, AnswerTyped,
   FlagsTyped, ClickTyped, Views, Texts, Bells, TypeOK, Count

(***************************************************************************)
(* Types: above all, that every row on the table is one the manager        *)
(* listed, and that the window starts at one of them (reload, sortStates,  *)
(* clampCursor).                                                           *)
(***************************************************************************)
THEOREM InterfaceTypes == Spec => []TypeOK
<1>1. IfaceInv /\ IfaceInv' /\ IfaceTypes /\ [Next]_vars => IfaceTypes'
  BY TypesStep
<1>2. Init => IfaceTypes
  BY RestInit DEF IfaceTypes
<1>3. IfaceInv /\ IfaceTypes => TypeOK
  BY TypesHold
<1> QED
  BY <1>1, <1>2, <1>3, IfaceInvariant, PTL DEF Spec
=============================================================================
