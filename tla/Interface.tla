------------------------------ MODULE Interface ------------------------------
(***************************************************************************)
(* The terminal interface (internal/ui): one event loop that handles keys, *)
(* clicks, the refresh ticker, the link's status and the timers of its     *)
(* toasts.  The manager changes between any two refreshes, so what it      *)
(* returns to a refresh is any snapshot.  FatalMsg is left out, nothing    *)
(* sends it, and so are the keys of the bar that it never draws.           *)
(***************************************************************************)
EXTENDS Rows, Sequences, FiniteSetsExt

CONSTANTS
  Snaps,        \* what the manager may list, as sets of rows
  SortKeys,     \* the cycle of the sort key
  MenuKeys,     \* the sort keys the settings offer, in their order
  Sizes,        \* the terminal's sizes
  Frames        \* the lengths of the closing animation; {} when it is off

\* Texts that name a local port, of those that can be typed.
CONSTANT Numbers

\* The manager has one entry of a port.
ASSUME InterfaceAssumption ==
  /\ \A s \in Snaps : /\ s \subseteq Row /\ IsFiniteSet(s)
                      /\ \A a, b \in s : a.port = b.port => a = b
  /\ SortKeys \in Seq(Keys) /\ SortKeys # << >>
  /\ MenuKeys \in Seq(Keys) /\ MenuKeys # << >>
  /\ Sizes \subseteq Nat \X Nat
  /\ Frames \subseteq Nat

VARIABLES
  table,    \* rows, cursor, offset
  view,     \* sort, reverse, pre-existing shown, inactive last, query
  open,     \* the layers that are open
  edit,     \* the inline editor: kind, port, text
  bell,     \* the toast: shown, and whether its own or an older timer runs
  link,     \* the status of the SSH link
  clicked,  \* the port of the last click on a row
  size,     \* width and height of the terminal
  zones,    \* the entries of the key bar that a click can hit
  falling,  \* the frames left of the closing animation; NotFalling before
  over,     \* the program was told to quit
  told,     \* the port the last step took an answer to; 0 when it took none
  asked     \* the port the open prompt or editor was opened for (auxiliary)

vars == <<table, view, open, edit, bell, link, clicked, size, zones, falling,
          over, told, asked>>

NotFalling == -1

NoEditor == [kind |-> "none", port |-> 0, text |-> ""]

NoToast == [shown |-> FALSE, own |-> FALSE, older |-> FALSE]

NothingOpen ==
  [ help |-> FALSE, detail |-> FALSE, prompt |-> FALSE, confirm |-> FALSE,
    menu |-> FALSE ]

Count == Len(table.rows)

TableHeight(s) == IF s[2] - 4 < 1 THEN 1 ELSE s[2] - 4

Selected(t) == t.cursor \in DOMAIN t.rows

SelectedPort(t) == IF Selected(t) THEN t.rows[t.cursor].port ELSE 0

-----------------------------------------------------------------------------
\* The cells a column takes, with the gap after it; traffic is two columns.
Cells ==
  [ local |-> 9, arrow |-> 3, remote |-> 9, mode |-> 3, scheme |-> 9,
    process |-> 13, age |-> 7, conns |-> 8, traffic |-> 20 ]

Always == {"local", "arrow", "remote", "process"}

\* The columns go in this order until the rest fits.
Layouts ==
  << Always \cup {"scheme", "age", "conns", "traffic", "mode"},
     Always \cup {"scheme", "age", "conns", "traffic"},
     Always \cup {"scheme", "age", "conns"},
     Always \cup {"scheme", "age"},
     Always \cup {"scheme"} >>

Needs ==
  [i \in DOMAIN Layouts |-> MapThenSumSet(LAMBDA c : Cells[c], Layouts[i])]

Columns(s) ==
  LET fits == {i \in DOMAIN Layouts : Needs[i] <= s[1] - 2}
  IN  IF fits = {} THEN Always
      ELSE Layouts[CHOOSE i \in fits : \A j \in fits : i <= j]

\* The key bar's entries with the cell each of them ends at.
KeyBar ==
  [move |-> 7, enter |-> 22, open |-> 31, config |-> 42, help |-> 51, quit |-> 62]

ChipWidth(v) ==
  (IF v.query = "" THEN 0 ELSE 2) + (IF v.pre THEN 13 ELSE 0)
    + (IF v.query # "" /\ v.pre THEN 3 ELSE 0)

\* An entry is clickable once the bar was drawn with room for it.
Drawn(s, v) == {k \in DOMAIN KeyBar : KeyBar[k] <= s[1] - 6 - ChipWidth(v)}

BarIsDrawn == edit.kind = "none" /\ ~bell.shown

\* Every message is followed by a frame; the bar gives way to an editor and to
\* a toast, and then its zones stay what they were.
Draw ==
  zones' = IF BarIsDrawn' /\ falling' = NotFalling
           THEN Drawn(size', view') ELSE zones

-----------------------------------------------------------------------------
Showing == table' = table /\ view' = view
NoEdit  == edit' = edit /\ asked' = asked
Session == UNCHANGED <<link, size, falling, over>>

\* The rows of one of the snapshots, in the order of the new settings.
Listings(snaps) ==
  {Sorted(S, view') : S \in {Listed(s, view') : s \in snaps}}

\* Mutant: a refresh keeps the cursor where it was.
ReloadInPlace(snaps, port) ==
  \E rows \in Listings(snaps) :
    LET w == Window(Len(rows), table.cursor, table.offset, TableHeight(size))
    IN  table' = [rows |-> rows, cursor |-> w.cursor, offset |-> w.offset]

\* Fresh rows, with the cursor on the row of the port it was on.
Reload(snaps, port) ==
  \E rows \in Listings(snaps) :
    LET at == {i \in DOMAIN rows : rows[i].port = port}
        c  == IF at = {} THEN NoSelection ELSE CHOOSE i \in at : TRUE
        w  == Window(Len(rows), c, table.offset, TableHeight(size))
    IN  table' = [rows |-> rows, cursor |-> w.cursor, offset |-> w.offset]

\* Whatever the manager lists by now.
Refreshed == Reload(Snaps, SelectedPort(table))

Toast == bell' = [shown |-> TRUE, own |-> TRUE, older |-> bell.own \/ bell.older]
Quiet == bell' = bell

\* A command that needs a row says so, unless there are none.
NeedSelection(t) == IF t.rows = << >> THEN Quiet ELSE Toast
-----------------------------------------------------------------------------
(***************************************************************************)
(* What the commands do, whether a key or a click asks for them.           *)
(***************************************************************************)
Silent == told' = 0

\* The cursor moves, and nothing else does.
MoveTo(c) ==
  LET w == Window(Count, c, table.offset, TableHeight(size))
  IN  /\ table' = [table EXCEPT !.cursor = w.cursor, !.offset = w.offset]
      /\ UNCHANGED <<view, open, edit, asked, bell>>
      /\ Session /\ Silent

\* The manager steps the mode or the protocol of the selected port.
Cycle ==
  /\ \/ Selected(table) /\ view' = view /\ Refreshed /\ Toast
     \/ ~Selected(table) /\ Showing /\ NeedSelection(table)
  /\ open' = open /\ NoEdit /\ Session /\ Silent

\* Opening the selected row of the table t: an unknown protocol is asked for.
OpenRow(t, layers) ==
  LET r == t.rows[t.cursor] IN
  \/ /\ ~Selected(t)
     /\ open' = layers /\ asked' = 0 /\ NeedSelection(t)
  \/ /\ Selected(t) /\ r.active /\ r.scheme = "unknown"
     /\ open' = [layers EXCEPT !.prompt = TRUE] /\ asked' = r.port /\ Quiet
  \/ /\ Selected(t)
     /\ ~r.active \/ r.scheme # "unknown"
     /\ open' = layers /\ asked' = 0 /\ Toast

OpenSelected ==
  /\ OpenRow(table, open)
  /\ Showing /\ edit' = edit /\ Session /\ Silent

\* Copies the address of an active tunnel into the frame.
CopySelected ==
  /\ \/ Selected(table) /\ Toast
     \/ ~Selected(table) /\ NeedSelection(table)
  /\ Showing /\ open' = open /\ NoEdit /\ Session /\ Silent

\* The answer goes to the row selected now; the manager remembers it.
Chosen(scheme) ==
  LET port  == SelectedPort(table)
      known == {s \in Snaps : \A r \in s : r.port = port => r.scheme = scheme}
  IN  /\ view' = view /\ edit' = edit /\ Session
      /\ \/ /\ Selected(table)
            /\ Reload(known, port) /\ told' = port
            /\ OpenRow(table', [open EXCEPT !.prompt = FALSE])
         \/ /\ ~Selected(table)
            /\ table' = table /\ open' = [open EXCEPT !.prompt = FALSE]
            /\ asked' = 0 /\ Silent /\ NeedSelection(table)

\* Layers that open and close without touching anything else.
Layers(layers) ==
  /\ open' = layers
  /\ Showing /\ NoEdit /\ Quiet /\ Session /\ Silent

\* A new order or a new choice of rows.
Arrange(v, ring) ==
  /\ view' = v /\ Refreshed /\ open' = open
  /\ IF ring THEN Toast ELSE Quiet
  /\ NoEdit /\ Session /\ Silent

NextKey(seq, key) ==
  LET at == {i \in DOMAIN seq : seq[i] = key}
  IN  IF at = {} THEN seq[1]
      ELSE seq[((CHOOSE i \in at : TRUE) % Len(seq)) + 1]

\* The entries of the settings: two switches and the sort key.  Where the
\* cursor stands among them is left out; it may be on any.
Activate ==
  \/ Arrange([view EXCEPT !.pre = ~@], FALSE)
  \/ Arrange([view EXCEPT !.last = ~@], FALSE)
  \/ Arrange([view EXCEPT !.sort = NextKey(MenuKeys, @)], FALSE)

\* An editor opens with a text; those of a port need a row.
EditWith(kind, port, text) ==
  /\ edit' = [kind |-> kind, port |-> port, text |-> text]
  /\ asked' = port
  /\ Showing /\ open' = open /\ Quiet /\ Session /\ Silent

OpenFilter == EditWith("filter", 0, view.query)

OpenEditor(kind) ==
  \/ /\ Selected(table)
     /\ \E text \in {""} \cup Numbers : EditWith(kind, SelectedPort(table), text)
  \/ /\ ~Selected(table)
     /\ NeedSelection(table)
     /\ Showing /\ open' = open /\ NoEdit /\ Session /\ Silent

\* Mutant: the edit is applied to the row selected now.
ApplyToSelection ==
  /\ edit' = NoEditor /\ asked' = 0
  /\ view' = view /\ Refreshed /\ Toast
  /\ told' = SelectedPort(table)
  /\ open' = open /\ Session

\* A name is any text; a local port is a number, or nothing for the default.
Meaningful == edit.kind = "label" \/ edit.text \in Numbers \cup {""}

\* The editor closes, and its port gets the text unless it names no port.
Apply ==
  /\ edit' = NoEditor /\ asked' = 0
  /\ \/ ~Meaningful /\ Showing /\ Silent
     \/ /\ Meaningful
        /\ view' = view /\ Refreshed
        /\ told' = edit.port
  /\ Toast /\ open' = open /\ Session

CloseEditor ==
  /\ edit' = NoEditor /\ asked' = 0
  /\ Showing /\ open' = open /\ Quiet /\ Session /\ Silent

TogglePause ==
  /\ view' = view /\ Refreshed /\ Toast
  /\ open' = open /\ NoEdit /\ Session /\ Silent

Stop ==
  /\ over' = TRUE
  /\ Showing /\ open' = open /\ NoEdit /\ Quiet
  /\ UNCHANGED <<link, size, falling>> /\ Silent

-----------------------------------------------------------------------------
(***************************************************************************)
(* Keys.  A key goes to the first layer of this list that is open; the     *)
(* table and what lies over it without taking every key come last.         *)
(***************************************************************************)
Running == ~over

KeyLayer ==
  IF falling # NotFalling THEN "closing"
  ELSE IF open.confirm THEN "confirm"
  ELSE IF edit.kind # "none" THEN "editor"
  ELSE IF open.prompt THEN "prompt"
  ELSE IF open.menu THEN "menu"
  ELSE "table"

Typed(layer) == Running /\ KeyLayer = layer /\ clicked' = clicked

Offline == link = "down"

\* A key of the table that the layers over it leave alone.
TableKey(key) ==
  /\ Typed("table")
  /\ ~(Offline /\ key = "r")
  /\ ~(open.help /\ key \in {"?", "esc", "q", "enter"})
  /\ ~(open.detail /\ key \in {"esc", "enter", "d", "q"})

SkipAnimation == Typed("closing") /\ Stop

\* Yes closes everything, with an animation unless it is off.
ConfirmQuit ==
  /\ Typed("confirm")
  /\ open' = [open EXCEPT !.confirm = FALSE]
  /\ \/ /\ Frames = {} \/ 0 \in {size[1], size[2]}
        /\ over' = TRUE /\ falling' = falling
     \/ /\ 0 \notin {size[1], size[2]}
        /\ falling' \in Frames /\ over' = over
  /\ Showing /\ NoEdit /\ Quiet /\ UNCHANGED <<link, size>> /\ Silent

\* n, esc, q and ctrl-c all keep the program running.
KeepRunning == Typed("confirm") /\ Layers([open EXCEPT !.confirm = FALSE])

\* Typing; a search starts over with every key.
Type(text) ==
  /\ Typed("editor")
  /\ edit' = [edit EXCEPT !.text = text]
  /\ IF edit.kind = "filter"
     THEN view' = [view EXCEPT !.query = text] /\ Reload(Snaps, 0)
     ELSE Showing
  /\ asked' = asked /\ open' = open /\ Quiet /\ Session /\ Silent

EnterEditor ==
  /\ Typed("editor")
  /\ IF edit.kind = "filter" THEN CloseEditor ELSE Apply

EscapeEditor ==
  /\ Typed("editor")
  /\ \/ edit.kind # "filter" /\ CloseEditor
     \/ /\ edit.kind = "filter"
        /\ edit' = NoEditor /\ asked' = 0
        /\ view' = [view EXCEPT !.query = ""] /\ Refreshed
        /\ open' = open /\ Quiet /\ Session /\ Silent

ChooseByKey(scheme) == Typed("prompt") /\ Chosen(scheme)

LeavePrompt ==
  /\ Typed("prompt")
  /\ open' = [open EXCEPT !.prompt = FALSE] /\ asked' = 0 /\ edit' = edit
  /\ Showing /\ Quiet /\ Session /\ Silent

LeaveMenu == Typed("menu") /\ Layers([open EXCEPT !.menu = FALSE])

ActivateByKey == Typed("menu") /\ Activate

\* The reconnect screen has one key.
RetryKey ==
  /\ Typed("table") /\ Offline
  /\ Showing /\ open' = open /\ NoEdit /\ Toast /\ Session /\ Silent

CloseHelp ==
  Typed("table") /\ open.help /\ Layers([open EXCEPT !.help = FALSE])

\* With the help over it, only d gets to the detail pane.
CloseDetail ==
  Typed("table") /\ open.detail /\ Layers([open EXCEPT !.detail = FALSE])

CtrlC == TableKey("ctrl+c") /\ Stop

AskQuit ==
  /\ TableKey("q") \/ TableKey("esc")
  /\ Layers([open EXCEPT !.confirm = TRUE])

Arrow(delta) ==
  TableKey("up") /\ MoveTo(Moved(Count, table.cursor, delta))

Page(delta) ==
  /\ TableKey("pgup")
  /\ MoveTo(Moved(Count, table.cursor, delta * TableHeight(size)))

Home == TableKey("g") /\ MoveTo(IF Count = 0 THEN NoSelection ELSE 1)

End == TableKey("G") /\ MoveTo(Count)

CycleSort ==
  /\ TableKey("s")
  /\ Arrange([view EXCEPT !.sort = NextKey(SortKeys, @)], TRUE)

ReverseSort ==
  /\ TableKey("r")
  /\ Arrange([view EXCEPT !.reverse = ~@], FALSE)

FilterKey == TableKey("/") /\ OpenFilter

EditorKey(kind) == TableKey("l") /\ OpenEditor(kind)

ToggleHelp == Layers([open EXCEPT !.help = ~@])

ToggleDetail == Selected(table) /\ Layers([open EXCEPT !.detail = ~@])

HelpKey == TableKey("?") /\ ToggleHelp

DetailKey == (TableKey("enter") \/ TableKey("d")) /\ ToggleDetail

ModeKey == TableKey("a") /\ Cycle

SchemeKey == TableKey("t") /\ Cycle

OpenKey == TableKey("o") /\ OpenSelected

CopyKey == TableKey("y") /\ CopySelected

PauseKey == TableKey("p") /\ TogglePause

ConfigKey == TableKey("c") /\ Layers([open EXCEPT !.menu = TRUE])

-----------------------------------------------------------------------------
(***************************************************************************)
(* The mouse.  Its layers come in an order of their own.                   *)
(***************************************************************************)
MouseLayer ==
  IF falling # NotFalling THEN "closing"
  ELSE IF open.prompt THEN "prompt"
  ELSE IF open.detail \/ open.help THEN "popover"
  ELSE IF open.menu THEN "menu"
  ELSE IF open.confirm THEN "confirm"
  ELSE IF edit.kind # "none" THEN "editor"
  ELSE "table"

Clicked(layer) == Running /\ MouseLayer = layer

\* A click that leaves the pair of a double click alone.
Single(layer) == Clicked(layer) /\ clicked' = clicked

Wheel(delta) ==
  /\ Single("table") /\ MoveTo(table.cursor + delta)

ClickChoice(scheme) ==
  Single("prompt") /\ Selected(table) /\ Chosen(scheme)

ClickPrompt ==
  /\ Single("prompt")
  /\ open' = [open EXCEPT !.prompt = FALSE] /\ asked' = 0 /\ edit' = edit
  /\ Showing /\ Quiet /\ Session /\ Silent

ClickPopover ==
  Single("popover") /\ Layers([open EXCEPT !.help = FALSE, !.detail = FALSE])

ClickMenu ==
  /\ Single("menu")
  /\ \/ Activate
     \/ Layers([open EXCEPT !.menu = FALSE])

\* A click beside the editor commits it.
ClickEditor ==
  /\ Single("editor")
  /\ IF edit.kind = "filter" THEN CloseEditor ELSE Apply

\* Mutant: the key bar is live while the quit question is open.
ClickFooterUnderneath(entry) ==
  /\ Running /\ MouseLayer \in {"confirm", "table"} /\ clicked' = clicked
  /\ entry \in zones
  /\ \/ entry = "open" /\ OpenSelected
     \/ entry = "config" /\ Layers([open EXCEPT !.menu = TRUE])

ClickFooter(entry) ==
  /\ Single("table")
  /\ entry \in zones
  /\ \/ entry = "enter" /\ ToggleDetail
     \/ entry = "open" /\ OpenSelected
     \/ entry = "config" /\ Layers([open EXCEPT !.menu = TRUE])
     \/ entry = "help" /\ ToggleHelp
     \/ entry = "quit" /\ Layers([open EXCEPT !.confirm = TRUE])

\* A click on a header sorts by it, and the next one reverses.
ClickHeader(key) ==
  /\ Single("table")
  /\ key \in Columns(size)
  /\ Arrange(IF view.sort = key THEN [view EXCEPT !.reverse = ~@]
             ELSE [view EXCEPT !.sort = key, !.reverse = FALSE], TRUE)

OnScreen(i) ==
  i \in DOMAIN table.rows /\ i \in (table.offset + 1)..(table.offset + TableHeight(size))

\* Two of the cells of a row are controls.
ClickCell(i, what) ==
  /\ Clicked("table") /\ OnScreen(i) /\ clicked' = 0
  /\ \/ what = "mode"  /\ "mode" \in Columns(size)
     \/ what = "cycle" /\ "scheme" \in Columns(size)
  /\ view' = view /\ Reload(Snaps, table.rows[i].port) /\ Toast
  /\ open' = open /\ NoEdit /\ Session /\ Silent

\* Elsewhere a click selects, and a second one soon after it opens.
ClickRow(i, soon) ==
  LET port == table.rows[i].port
      w    == Window(Count, i, table.offset, TableHeight(size))
  IN  /\ Clicked("table") /\ OnScreen(i)
      /\ table' = [table EXCEPT !.cursor = w.cursor, !.offset = w.offset]
      /\ view' = view /\ edit' = edit /\ Session /\ Silent
      /\ \/ /\ clicked # port \/ ~soon
            /\ clicked' = port
            /\ open' = open /\ asked' = asked /\ Quiet
         \/ /\ clicked = port /\ soon
            /\ clicked' = 0
            /\ OpenRow(table', open)

-----------------------------------------------------------------------------
(***************************************************************************)
(* The other messages.                                                     *)
(***************************************************************************)
Arrives == Running /\ clicked' = clicked /\ NoEdit /\ Silent

Refresh ==
  /\ Arrives /\ falling = NotFalling
  /\ view' = view /\ Refreshed /\ open' = open /\ Quiet /\ Session

Resize(s) ==
  LET w == Window(Count, table.cursor, table.offset, TableHeight(s))
  IN  /\ Arrives
      /\ size' = s
      /\ table' = [table EXCEPT !.cursor = w.cursor, !.offset = w.offset]
      /\ view' = view /\ open' = open /\ Quiet
      /\ UNCHANGED <<link, falling, over>>

\* down is disconnected or reconnecting, after the link was up once.
Report(state) ==
  /\ Arrives /\ link' = state
  /\ Showing /\ open' = open /\ Quiet
  /\ UNCHANGED <<size, falling, over>>

Notify == Arrives /\ Toast /\ Showing /\ open' = open /\ Session

\* A timer that is not the last toast's changes nothing.
TimerExpires ==
  /\ Arrives
  /\ \/ /\ bell.own
        /\ bell' = [bell EXCEPT !.shown = FALSE, !.own = FALSE]
     \/ /\ bell.older
        /\ \E more \in BOOLEAN : bell' = [bell EXCEPT !.older = more]
  /\ Showing /\ open' = open /\ Session

Tick ==
  /\ Arrives /\ falling > 0
  /\ falling' = falling - 1
  /\ over' = (falling = 1)
  /\ Showing /\ open' = open /\ Quiet /\ UNCHANGED <<link, size>>

Ended == over /\ UNCHANGED vars

KeyStep ==
  \/ SkipAnimation \/ ConfirmQuit \/ KeepRunning
  \/ \E text \in Queries \cup Numbers : Type(text)
  \/ EnterEditor \/ EscapeEditor
  \/ \E scheme \in {"http", "https"} : ChooseByKey(scheme)
  \/ LeavePrompt \/ LeaveMenu \/ ActivateByKey
  \/ RetryKey \/ CloseHelp \/ CloseDetail
  \/ CtrlC \/ AskQuit \/ CycleSort \/ ReverseSort
  \/ FilterKey \/ HelpKey \/ DetailKey
  \/ \E kind \in {"port", "label"} : EditorKey(kind)
  \/ ModeKey \/ SchemeKey \/ OpenKey \/ CopyKey \/ PauseKey \/ ConfigKey

MouseStep ==
  \/ \E scheme \in {"http", "https"} : ClickChoice(scheme)
  \/ ClickPrompt \/ ClickPopover \/ ClickMenu \/ ClickEditor
  \/ \E entry \in DOMAIN KeyBar : ClickFooter(entry)
  \/ \E i \in DOMAIN SortKeys : ClickHeader(SortKeys[i])

\* The steps that are there to move the selection.
Navigation ==
  \/ \E delta \in {-1, 1} : Arrow(delta) \/ Page(delta) \/ Wheel(delta)
  \/ Home \/ End
  \/ \E i \in DOMAIN table.rows, soon \in BOOLEAN : ClickRow(i, soon)
  \/ \E i \in DOMAIN table.rows, what \in {"mode", "cycle"} : ClickCell(i, what)

Message ==
  \/ Refresh \/ Notify \/ TimerExpires \/ Tick
  \/ \E s \in Sizes : Resize(s)
  \/ \E state \in {"up", "down"} : Report(state)

Next ==
  \/ (KeyStep \/ MouseStep \/ Navigation \/ Message) /\ Draw
  \/ Ended

\* The interface starts before the first scan.
Init ==
  /\ table = [rows |-> << >>, cursor |-> NoSelection, offset |-> 0]
  /\ view = [sort |-> SortKeys[1], reverse |-> FALSE, pre |-> FALSE,
             last |-> FALSE, query |-> ""]
  /\ open = NothingOpen /\ edit = NoEditor /\ bell = NoToast
  /\ link = "up" /\ clicked = 0 /\ size \in Sizes
  /\ zones = Drawn(size, view)
  /\ falling = NotFalling /\ over = FALSE /\ told = 0 /\ asked = 0

Spec == Init /\ [][Next]_vars

-----------------------------------------------------------------------------
TypeOK ==
  /\ table.cursor \in 0..Count /\ table.offset \in 0..Count
  /\ \A i \in DOMAIN table.rows : table.rows[i] \in Row
  /\ view \in [ sort : Keys, reverse : BOOLEAN, pre : BOOLEAN, last : BOOLEAN,
                query : Queries \cup Numbers ]
  /\ open \in [ help : BOOLEAN, detail : BOOLEAN, prompt : BOOLEAN,
                confirm : BOOLEAN, menu : BOOLEAN ]
  /\ edit \in [ kind : {"none", "filter", "port", "label"},
                port : Ports \cup {0}, text : Queries \cup Numbers \cup {""} ]
  /\ bell \in [shown : BOOLEAN, own : BOOLEAN, older : BOOLEAN]
  /\ link \in {"up", "down"}
  /\ {clicked, asked, told} \subseteq Ports \cup {0}
  /\ size \in Sizes /\ zones \subseteq DOMAIN KeyBar
  /\ falling \in Int /\ over \in BOOLEAN

(***************************************************************************)
(* The highlighted row is on screen, after any refresh, resize, search or  *)
(* change of order (model.go:525-553).                                     *)
(***************************************************************************)
SelectionIsVisible ==
  table.cursor # NoSelection => OnScreen(table.cursor)

(***************************************************************************)
(* Only moving the selection moves it to another port: rows that come, go  *)
(* or change places under the cursor leave it on its port or highlight     *)
(* nothing, so the next command cannot hit a neighbour (model.go:461).     *)
(***************************************************************************)
SelectionFollowsItsPort ==
  [][SelectedPort(table') \in {SelectedPort(table), 0} \/ Navigation]_vars

(***************************************************************************)
(* A protocol, a local port or a name that the user enters goes to the     *)
(* port the prompt or the editor was opened for, whatever the refreshes in *)
(* between did to the table; and an entry with a meaning is not lost with  *)
(* the row it was made on (model.go:674, 726, 742).                        *)
(***************************************************************************)
AnswersHitTheirPort ==
  [][/\ told' \in {0, asked}
     /\ (EnterEditor \/ ClickEditor) /\ edit.kind # "filter" /\ Meaningful
          => told' = asked]_vars

(***************************************************************************)
(* At most one of the layers that take every key is open, so that the keys *)
(* and the clicks, which look for them in different orders, agree on the   *)
(* one they reach (model.go:284, 563).                                     *)
(***************************************************************************)
OneDialogAtATime ==
  Cardinality({l \in {"prompt", "confirm", "menu"} : open[l]}
                \cup (IF edit.kind = "none" THEN {} ELSE {"editor"})) <= 1

=============================================================================
