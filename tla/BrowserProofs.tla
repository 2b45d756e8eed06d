---------------------------- MODULE BrowserProofs ----------------------------
(***************************************************************************)
(* Proofs about the requests to open a URL, for any number of bridges and  *)
(* of calls.                                                               *)
(***************************************************************************)
EXTENDS Browser, TLAPS

HandlerSteps == Unanswered \cup {"none", "pending", "done"}

Handler ==
  [ step : HandlerSteps, asked : BOOLEAN, says : {"", "eof", "err", "ok"},
    opened : BOOLEAN ]

\* The steps a handler takes only once it has checked the nonce.
Routed == Unanswered \ {"reading"}

-----------------------------------------------------------------------------
(***************************************************************************)
(* The inductive invariant.  A call k and its handler h agree: a handler   *)
(* begins with the connection, gets past the line only with its bridge's   *)
(* nonce, opens a URL as the last thing it does, and says ok only then.    *)
(***************************************************************************)
Agree(k, h) ==
  /\ k.step \in {"idle", "dialing"} => h.step = "none"
  /\ h.step # "none" => k.to \in Bridges
  /\ h.step \in Routed \/ h.opened => k.nonce = k.to
  /\ h.opened => h.step = "done"
  /\ h.says = "ok" => h.opened
  /\ k.step = "exit0" => h.opened

\* A handler that runs holds Close up.
Held(k, h) == h.step \in Unanswered => phase[k.to] \in {"serving", "closing"}

LoopsServe == \A b \in Bridges : serves[b] => phase[b] \in {"serving", "closing"}

BrowserInv ==
  /\ TypeOK
  /\ handler \in [Calls -> Handler]
  /\ \A c \in Calls : Agree(call[c], handler[c]) /\ Held(call[c], handler[c])
  /\ LoopsServe

LEMMA BrowserInit == Init => BrowserInv
<1> SUFFICES ASSUME Init PROVE BrowserInv
  OBVIOUS
<1>1. NoHandler \in Handler
  BY DEF NoHandler, Handler, HandlerSteps
<1>2. TypeOK
  BY DEF Init, TypeOK, NoCall, NoHandler, Paths, Rows
<1>3. \A c \in Calls : Agree(call[c], handler[c]) /\ Held(call[c], handler[c])
  BY DEF Init, Agree, Held, NoCall, NoHandler, Routed, Unanswered
<1>4. LoopsServe
  BY DEF Init, LoopsServe
<1> QED
  BY <1>1, <1>2, <1>3, <1>4 DEF BrowserInv, Init

-----------------------------------------------------------------------------
(***************************************************************************)
(* The account and the network.  What becomes of a bridge does not touch   *)
(* the calls, and Close does not return before the handlers.               *)
(***************************************************************************)
LEMMA PathType ==
  ASSUME TypeOK, NEW b \in Bridges, Abandoned(b)
  PROVE  socket' \in Paths
BY DEF TypeOK, Abandoned, Paths

LEMMA BridgeStep ==
  ASSUME BrowserInv, NEW b \in Bridges,
         Install(b) \/ Shuts(b) \/ LinkEnds(b) \/ Changes(b)
  PROVE  /\ TypeOK' /\ UNCHANGED <<call, handler>>
         /\ \A d \in Bridges :
              phase[d] \in {"serving", "closing"}
                => \/ phase'[d] \in {"serving", "closing"}
                   \/ HandlersOf(d) = {} /\ ~serves'[d]
         /\ \A d \in Bridges : serves'[d] => serves[d] \/ phase'[d] = "serving"
<1> USE DEF BrowserInv, Step, Elsewhere
<1>1. CASE PrepareRemote(b) \/ ListenUnix(b) \/ ListenFails(b)
  <2>1. TypeOK'
    BY <1>1 DEF PrepareRemote, ListenUnix, ListenFails, TypeOK, Paths, Bridge
  <2> QED
    BY <1>1, <2>1 DEF PrepareRemote, ListenUnix, ListenFails, TypeOK
<1>2. CASE Writes(b)
  <2>1. TypeOK'
    BY <1>2, PathType DEF Writes, WriteShim, WriteFails, TypeOK, Paths, Bridge
  <2> QED
    BY <1>2, <2>1 DEF Writes, WriteShim, WriteFails, TypeOK
<1>3. CASE CloseListener(b) \/ ServeEnds(b) \/ LinkEnds(b)
  <2>1. TypeOK'
    BY <1>3, PathType DEF CloseListener, ServeEnds, LinkEnds, TypeOK, Bridge
  <2> QED
    BY <1>3, <2>1 DEF CloseListener, ServeEnds, LinkEnds, TypeOK
<1>4. CASE WaitedForAll(b)
  <2>1. TypeOK'
    BY <1>4 DEF WaitedForAll, Closed, TypeOK, Rows, Bridge
  <2> QED
    BY <1>4, <2>1 DEF WaitedForAll, Closed, TypeOK
<1>5. CASE Changes(b)
  <2>1. TypeOK'
    BY <1>5 DEF Changes, TypeOK, Bridge
  <2> QED
    BY <1>5, <2>1 DEF Changes
<1> QED
  BY <1>1, <1>2, <1>3, <1>4, <1>5 DEF Install, Shuts

LEMMA BridgeKeeps ==
  ASSUME BrowserInv, NEW b \in Bridges,
         Install(b) \/ Shuts(b) \/ LinkEnds(b) \/ Changes(b)
  PROVE  BrowserInv'
<1>1. LoopsServe'
  BY BridgeStep DEF BrowserInv, LoopsServe
<1>2. ASSUME NEW c \in Calls
      PROVE  (Agree(call[c], handler[c]) /\ Held(call[c], handler[c]))'
  <2>1. Agree(call[c], handler[c])'
    BY BridgeStep DEF BrowserInv, Agree
  <2>2. CASE handler[c].step \in Unanswered
    <3>1. /\ call[c].to \in Bridges /\ c \in HandlersOf(call[c].to)
          /\ phase[call[c].to] \in {"serving", "closing"}
      BY <2>2 DEF BrowserInv, Agree, Held, HandlersOf, Unanswered
    <3>2. phase'[call[c].to] \in {"serving", "closing"}
      BY <3>1, BridgeStep
    <3> QED
      BY <2>1, <3>2, BridgeStep DEF Held
  <2>3. CASE handler[c].step \notin Unanswered
    BY <2>1, <2>3, BridgeStep DEF Held
  <2> QED
    BY <2>2, <2>3
<1> QED
  BY <1>1, <1>2, BridgeStep DEF BrowserInv

-----------------------------------------------------------------------------
(***************************************************************************)
(* The calls.  A step of one call keeps the invariant if what it makes of  *)
(* the call and of the handler agrees.                                     *)
(***************************************************************************)
LEMMA StepOfOneCall ==
  ASSUME BrowserInv, NEW c \in Calls, NEW h \in Handler,
         handler' = [handler EXCEPT ![c] = h],
         \A d \in Calls \ {c} : call'[d] = call[d],
         TypeOK', UNCHANGED <<phase, serves>>,
         Agree(call'[c], h), Held(call'[c], h)
  PROVE  BrowserInv'
<1>1. handler' \in [Calls -> Handler] /\ handler'[c] = h
  BY DEF BrowserInv
<1>2. ASSUME NEW d \in Calls
      PROVE  (Agree(call[d], handler[d]) /\ Held(call[d], handler[d]))'
  <2>1. CASE d = c
    BY <1>1, <2>1 DEF Agree, Held
  <2>2. CASE d # c
    <3>1. handler'[d] = handler[d] /\ call'[d] = call[d]
      BY <2>2 DEF BrowserInv
    <3> QED
      BY <3>1 DEF BrowserInv, Agree, Held
  <2> QED
    BY <2>1, <2>2
<1> QED
  BY <1>1, <1>2 DEF BrowserInv, LoopsServe

CallSteps == {"idle", "dialing", "connected", "sent", "left", "exit0", "fallback"}

Call == [step : CallSteps, nonce : Bridges \cup {Nobody}, to : Bridges \cup {Nobody}]

\* A call becomes k and its handler h, and nothing else changes but the row.
Become(c, k, h) ==
  /\ call' = [call EXCEPT ![c] = k] /\ handler' = [handler EXCEPT ![c] = h]
  /\ UNCHANGED <<shim, socket, phase, serves, link>>

LEMMA BecomeKeeps ==
  ASSUME BrowserInv, NEW c \in Calls, NEW k \in Call, NEW h \in Handler,
         Become(c, k, h), row' \in [Bridges -> Rows], Agree(k, h), Held(k, h)
  PROVE  BrowserInv'
<1>1. /\ call' \in [Calls -> Call] /\ call'[c] = k
      /\ \A d \in Calls \ {c} : call'[d] = call[d]
  BY DEF Become, BrowserInv, TypeOK, Call, CallSteps
<1>2. handler' = [handler EXCEPT ![c] = h] /\ handler'[c] = h
      /\ \A d \in Calls \ {c} : handler'[d] = handler[d]
  BY DEF Become, BrowserInv
<1>3. \A d \in Calls : handler'[d].step # "none" => call'[d].to \in Bridges
  BY <1>1, <1>2 DEF Agree, BrowserInv
<1>4. TypeOK'
  BY <1>1, <1>3 DEF Become, BrowserInv, TypeOK, Call, CallSteps, Bridge
<1> QED
  BY <1>1, <1>2, <1>4, StepOfOneCall DEF Become

LEMMA CallTypes ==
  ASSUME BrowserInv, NEW c \in Calls
  PROVE  /\ call[c] \in Call /\ handler[c] \in Handler
         /\ call \in [Calls -> Call] /\ handler \in [Calls -> Handler]
         /\ Agree(call[c], handler[c]) /\ Held(call[c], handler[c])
         /\ row \in [Bridges -> Rows]
BY DEF BrowserInv, TypeOK, Call, CallSteps

(***************************************************************************)
(* The remote side: it connects once, and hears ok only from a handler     *)
(* that is done.                                                           *)
(***************************************************************************)
LEMMA ConnectsKeeps ==
  ASSUME BrowserInv, NEW c \in Calls, call[c].step \in {"idle", "dialing"},
         socket \in Bridges, Connects(c),
         UNCHANGED <<shim, socket, phase, serves, link, row>>
  PROVE  BrowserInv'
<1> DEFINE k == [call[c] EXCEPT !.step = "connected", !.to = socket]
           h == [handler[c] EXCEPT !.step = "pending"]
<1>1. k \in Call /\ k.step = "connected" /\ k.to = socket /\ k.nonce = call[c].nonce
  BY CallTypes DEF Call, CallSteps
<1>2. /\ h \in Handler /\ h.step = "pending"
      /\ h.opened = handler[c].opened /\ h.says = handler[c].says
  BY CallTypes DEF Handler, HandlerSteps
<1>3. Become(c, k, h)
  BY CallTypes DEF Connects, Become
<1>4. handler[c].step = "none" /\ handler[c].opened = FALSE
  BY CallTypes DEF Agree, Handler
<1>5. Agree(k, h) /\ Held(k, h)
  BY <1>1, <1>2, <1>4, CallTypes DEF Agree, Held, Routed, Unanswered
<1> HIDE DEF k, h
<1> QED
  BY <1>1, <1>2, <1>3, <1>5, CallTypes, BecomeKeeps

\* A step of the remote side that only moves its own place.
LEMMA CallerKeeps ==
  ASSUME BrowserInv, NEW c \in Calls, NEW k \in Call,
         call' = [call EXCEPT ![c] = k],
         UNCHANGED <<shim, socket, phase, serves, link, row, handler>>,
         Agree(k, handler[c]), Held(k, handler[c])
  PROVE  BrowserInv'
<1>1. handler' = [handler EXCEPT ![c] = handler[c]]
  BY CallTypes
<1>2. Become(c, k, handler[c])
  BY <1>1 DEF Become
<1> QED
  BY <1>2, CallTypes, BecomeKeeps

LEMMA ClientKeeps ==
  ASSUME BrowserInv, NEW c \in Calls, Client(c)
  PROVE  BrowserInv'
<1>1. CASE RunShim(c)
  <2>1. PICK s \in {"fallback", "dialing"} :
          call' = [call EXCEPT ![c].nonce = shim, ![c].step = s]
    BY <1>1 DEF RunShim
  <2> DEFINE k == [call[c] EXCEPT !.nonce = shim, !.step = s]
  <2>2. k \in Call /\ k.step = s /\ k.to = call[c].to
    BY CallTypes DEF Call, CallSteps, BrowserInv, TypeOK
  <2>3. call' = [call EXCEPT ![c] = k]
    BY <2>1, CallTypes
  <2>4. handler[c].step = "none" /\ handler[c].opened = FALSE
    BY <1>1, CallTypes DEF RunShim, Agree, Handler
  <2>5. Agree(k, handler[c]) /\ Held(k, handler[c])
    BY <2>2, <2>4, CallTypes DEF Agree, Held, Routed, Unanswered
  <2> HIDE DEF k
  <2> QED
    BY <1>1, <2>2, <2>3, <2>5, CallerKeeps DEF RunShim, Remote
<1>2. CASE Intrude(c)
  BY <1>2, ConnectsKeeps DEF Intrude, Listens
<1>3. CASE Dial(c) /\ Listens
  BY <1>3, ConnectsKeeps DEF Dial, Listens
<1>4. ASSUME NEW s \in CallSteps \ {"idle", "dialing"},
             call' = [call EXCEPT ![c].step = s],
             UNCHANGED <<shim, socket, phase, serves, link, row, handler>>,
             s = "exit0" => handler[c].opened
      PROVE  BrowserInv'
  <2> DEFINE k == [call[c] EXCEPT !.step = s]
  <2>1. k \in Call /\ k.step = s /\ k.to = call[c].to /\ k.nonce = call[c].nonce
    BY CallTypes DEF Call
  <2>2. call' = [call EXCEPT ![c] = k]
    BY <1>4, CallTypes
  <2>3. Agree(k, handler[c]) /\ Held(k, handler[c])
    BY <1>4, <2>1, CallTypes DEF Agree, Held
  <2> HIDE DEF k
  <2> QED
    BY <1>4, <2>1, <2>2, <2>3, CallerKeeps
<1>5. CASE Dial(c) /\ ~Listens
  BY <1>4, <1>5 DEF Dial, CallSteps
<1>6. CASE Send(c) \/ Leave(c) \/ GiveUp(c)
  BY <1>4, <1>6 DEF Send, Leave, GiveUp, Caller, Remote, CallSteps
<1>7. CASE Hear(c)
  <2>1. PICK heard \in {handler[c].says, "eof"} :
          call' = [call EXCEPT ![c].step = IF heard = "ok" THEN "exit0" ELSE "fallback"]
    BY <1>7 DEF Hear
  <2>2. heard = "ok" => handler[c].opened
    BY <2>1, CallTypes DEF Agree
  <2> QED
    BY <1>4, <1>7, <2>1, <2>2 DEF Hear, Remote, CallSteps
<1> QED
  BY <1>1, <1>2, <1>3, <1>5, <1>6, <1>7 DEF Client

(***************************************************************************)
(* The local side.  Two kinds of steps: on to another question, or an      *)
(* answer.                                                                 *)
(***************************************************************************)
Begun(c) == handler[c].step \in Unanswered \cup {"pending"}

LEMMA HandlerKeeps ==
  ASSUME BrowserInv, NEW c \in Calls, NEW h \in Handler,
         handler' = [handler EXCEPT ![c] = h],
         Local, row' \in [Bridges -> Rows], Agree(call[c], h), Held(call[c], h)
  PROVE  BrowserInv'
<1>1. call' = [call EXCEPT ![c] = call[c]]
  BY CallTypes DEF Local
<1>2. Become(c, call[c], h)
  BY <1>1 DEF Become, Local
<1> QED
  BY <1>2, CallTypes, BecomeKeeps

LEMMA OnwardKeeps ==
  ASSUME BrowserInv, NEW c \in Calls, Begun(c), NEW s \in Unanswered,
         Goes(c, s) \/ Asked(c, s),
         handler[c].step = "pending" => serves[Bridge(c)],
         s # "reading" => call[c].nonce = call[c].to,
         Local, row' \in [Bridges -> Rows]
  PROVE  BrowserInv'
<1>1. PICK h \in Handler :
        /\ handler' = [handler EXCEPT ![c] = h]
        /\ h.step = s /\ h.opened = handler[c].opened /\ h.says = handler[c].says
  <2>1. CASE Goes(c, s)
    <3> DEFINE h == [handler[c] EXCEPT !.step = s]
    <3>1. /\ h \in Handler /\ h.step = s
          /\ h.opened = handler[c].opened /\ h.says = handler[c].says
      BY CallTypes DEF Handler, HandlerSteps
    <3>2. handler' = [handler EXCEPT ![c] = h]
      BY <2>1, CallTypes DEF Goes
    <3> HIDE DEF h
    <3> QED
      BY <3>1, <3>2
  <2>2. CASE Asked(c, s)
    <3> DEFINE h == [handler[c] EXCEPT !.step = s, !.asked = TRUE]
    <3>1. /\ h \in Handler /\ h.step = s
          /\ h.opened = handler[c].opened /\ h.says = handler[c].says
      BY CallTypes DEF Handler, HandlerSteps
    <3>2. handler' = [handler EXCEPT ![c] = h]
      BY <2>2, CallTypes DEF Asked
    <3> HIDE DEF h
    <3> QED
      BY <3>1, <3>2
  <2> QED
    BY <2>1, <2>2
<1>2. /\ call[c].to \in Bridges /\ call[c].step \notin {"idle", "dialing"}
      /\ ~handler[c].opened
  BY CallTypes DEF Begun, Agree, Unanswered, Handler
<1>3. Agree(call[c], h)
  BY <1>1, <1>2, CallTypes DEF Agree, Routed, Unanswered
<1>4. Held(call[c], h)
  <2>1. phase[call[c].to] \in {"serving", "closing"}
    BY <1>2, CallTypes DEF Begun, Held, BrowserInv, LoopsServe, Bridge
  <2> QED
    BY <2>1 DEF Held
<1> QED
  BY <1>1, <1>3, <1>4, HandlerKeeps

LEMMA AnswerKeeps ==
  ASSUME BrowserInv, NEW c \in Calls, Begun(c),
         NEW opened \in BOOLEAN, NEW text \in {"eof", "err", "ok"},
         Answered(c, opened, text), text = "ok" => opened,
         opened => call[c].nonce = call[c].to, Local, row' = row
  PROVE  BrowserInv'
<1> DEFINE h == [step |-> "done", asked |-> FALSE, says |-> text, opened |-> opened]
<1>1. /\ h \in Handler /\ h.step = "done" /\ h.says = text /\ h.opened = opened
      /\ handler' = [handler EXCEPT ![c] = h]
  BY DEF Handler, HandlerSteps, Answered
<1>2. /\ call[c].to \in Bridges
      /\ call[c].step \notin {"idle", "dialing", "exit0"}
  BY CallTypes DEF Begun, Agree, Unanswered, Handler
<1> HIDE DEF h
<1>3. Agree(call[c], h) /\ Held(call[c], h)
  BY <1>1, <1>2 DEF Agree, Held, Routed, Unanswered
<1> QED
  BY <1>1, <1>3, CallTypes, HandlerKeeps

(***************************************************************************)
(* What a request makes of a row that is listed is a row.                  *)
(***************************************************************************)
LEMMA ListedRow ==
  ASSUME NEW r \in Rows, r # Refused
  PROVE  Requested(r) \subseteq Rows /\ Moved(r) \subseteq Rows
<1>1. r.mode \in {"auto", "on"}
  BY DEF Rows, Attempts, SkippedRow
<1>2. [r EXCEPT !.mode = "on"] \in Rows \/ r.shows \notin Tunnels
  BY DEF Rows, Attempts, SkippedRow, Refused, Tunnels
<1>3. Attempts("auto") \subseteq Rows /\ Attempts("on") \subseteq Rows /\ SkippedRow \in Rows
  BY DEF Rows
<1> QED
  BY <1>1, <1>2, <1>3 DEF Requested, Moved

LEMMA HandleKeeps ==
  ASSUME BrowserInv, NEW c \in Calls, Handle(c)
  PROVE  BrowserInv'
<1>0. /\ row \in [Bridges -> Rows]
      /\ handler[c].step \in Routed => call[c].nonce = call[c].to
      /\ Begun(c) => call[c].to \in Bridges
  BY CallTypes DEF Agree, Begun, Unanswered
<1>1. CASE Accept(c) \/ Poll(c)
  <2>1. CASE Accept(c)
    BY <1>0, <2>1, OnwardKeeps DEF Accept, At, Begun, Unanswered
  <2>2. CASE Poll(c)
    <3>1. Begun(c) /\ "looking" \in Unanswered /\ call[c].nonce = call[c].to
      BY <1>0, <2>2 DEF Poll, At, Begun, Routed, Unanswered
    <3> QED
      BY <1>0, <2>2, <3>1, OnwardKeeps DEF Poll, At
  <2> QED
    BY <1>1, <2>1, <2>2
<1>2. CASE Rejected(c) \/ ReadFails(c) \/ Expire(c)
  <2>1. Begun(c) /\ Local /\ row' = row /\ \E t \in {"eof", "err"} : Answered(c, FALSE, t)
    BY <1>2 DEF Rejected, ReadFails, Expire, At, Begun, Unanswered, Answers
  <2> QED
    BY <2>1, AnswerKeeps
<1>3. CASE Parse(c)
  <2>1. Begun(c) /\ Local /\ row' = row /\ handler[c].step = "reading"
    BY <1>3 DEF Parse, At, Begun, Unanswered
  <2>2. CASE Answers(c, "err")
    BY <2>1, <2>2, AnswerKeeps DEF Answers
  <2>3. CASE Authentic(c) /\ (Goes(c, "looking") \/ Goes(c, "opening"))
    <3>1. call[c].nonce = call[c].to
      BY <2>3 DEF Authentic, Bridge
    <3>2. PICK s \in {"looking", "opening"} : Goes(c, s)
      BY <2>3
    <3>3. s \in Unanswered /\ handler[c].step # "pending"
      BY <2>1 DEF Unanswered
    <3> QED
      BY <1>0, <2>1, <3>1, <3>2, <3>3, OnwardKeeps
  <2> QED
    BY <1>3, <2>2, <2>3 DEF Parse
<1>4. ASSUME handler[c].step \in Routed, NEW s \in Unanswered,
             Goes(c, s) \/ Asked(c, s), Local, row' \in [Bridges -> Rows]
      PROVE  BrowserInv'
  <2>1. Begun(c) /\ handler[c].step # "pending" /\ call[c].nonce = call[c].to
    BY <1>0, <1>4 DEF Begun, Routed, Unanswered
  <2> QED
    BY <1>4, <2>1, OnwardKeeps
<1>5. CASE Look(c)
  <2>1. Row(c) \in Rows
    BY <1>0, <1>5 DEF Look, At, Begun, Unanswered, Row, Bridge
  <2>2. \/ Row(c).shows \in {"active", "remapped"}
        \/ Row(c).shows \notin Tunnels
    BY DEF Tunnels
  <2>3. PICK s \in {"opening", "moving", "waiting", "asking"} : Goes(c, s)
    BY <1>5, <2>2 DEF Look, Tunnels
  <2> QED
    BY <1>0, <1>4, <1>5, <2>3 DEF Look, At, Routed, Unanswered
<1>6. CASE ForwardNow(c)
  <2>1. Row(c) \in Rows
    BY <1>0, <1>6 DEF ForwardNow, At, Begun, Unanswered, Row, Bridge
  <2>2. Row(c) # Refused => Requested(Row(c)) \subseteq Rows
    BY <2>1, ListedRow
  <2>3. row' = row \/ \E r \in Rows : Becomes(c, r)
    BY <1>6, <2>2 DEF ForwardNow, AskedFor
  <2>4. row' \in [Bridges -> Rows]
    BY <1>0, <2>3 DEF Becomes
  <2>5. PICK s \in {"looking", "waiting"} : Asked(c, s)
    BY <1>6 DEF ForwardNow, AskedFor
  <2>6. handler[c].step \in Routed /\ s \in Unanswered /\ Local
    BY <1>6 DEF ForwardNow, At, Routed, Unanswered
  <2> QED
    BY <1>4, <2>4, <2>5, <2>6
<1>7. CASE StayPut(c) \/ TryLocalPort(c) \/ Relook(c)
  <2>1. Row(c) \in Rows
    BY <1>0, <1>7 DEF StayPut, TryLocalPort, Relook, At, Begun, Unanswered, Row, Bridge
  <2>2. Row(c) # Refused => Moved(Row(c)) \subseteq Rows
    BY <2>1, ListedRow
  <2>3. row' = row \/ \E r \in Rows : Becomes(c, r)
    BY <1>7, <2>2 DEF StayPut, TryLocalPort, Relook
  <2>4. row' \in [Bridges -> Rows]
    BY <1>0, <2>3 DEF Becomes
  <2>5. PICK s \in {"opening", "relooking"} : Goes(c, s)
    BY <1>7 DEF StayPut, TryLocalPort, Relook
  <2>6. handler[c].step \in Routed /\ s \in Unanswered /\ Local
    BY <1>7 DEF StayPut, TryLocalPort, Relook, At, Routed, Unanswered
  <2> QED
    BY <1>4, <2>4, <2>5, <2>6
<1>8. CASE Open(c)
  <2>1. Begun(c) /\ call[c].nonce = call[c].to /\ Local /\ row' = row
    BY <1>0, <1>8 DEF Open, At, Begun, Routed, Unanswered
  <2>2. PICK opened \in BOOLEAN : Answered(c, opened, IF opened THEN "ok" ELSE "err")
    BY <1>8 DEF Open
  <2> QED
    BY <2>1, <2>2, AnswerKeeps
<1> QED
  BY <1>1, <1>2, <1>3, <1>5, <1>6, <1>7, <1>8 DEF Handle, Route

LEMMA BrowserStep == BrowserInv /\ [Next]_vars => BrowserInv'
<1> SUFFICES ASSUME BrowserInv, [Next]_vars
             PROVE  BrowserInv'
  OBVIOUS
<1>1. CASE Next
  BY <1>1, BridgeKeeps, ClientKeeps, HandleKeeps DEF Next
<1>2. CASE UNCHANGED vars
  BY <1>2 DEF vars, BrowserInv, TypeOK, Agree, Held, LoopsServe, Bridge
<1> QED
  BY <1>1, <1>2

-----------------------------------------------------------------------------
(***************************************************************************)
(* No session opens what another session's shim asks for, whoever has      *)
(* installed itself last (authentic).                                      *)
(***************************************************************************)
THEOREM NobodyElsesRequests == Spec => []OnlyItsOwnRequests
<1>1. BrowserInv => OnlyItsOwnRequests
  BY DEF BrowserInv, Agree, OnlyItsOwnRequests, Bridge
<1> QED
  BY <1>1, BrowserInit, BrowserStep, PTL DEF Spec

(***************************************************************************)
(* A shim that reports success has had its URL opened, wherever the        *)
(* connection was cut (handle, shim.sh).                                   *)
(***************************************************************************)
THEOREM SuccessMeansOpened == Spec => []OkMeansOpened
<1>1. BrowserInv => OkMeansOpened
  BY DEF BrowserInv, Agree, OkMeansOpened
<1> QED
  BY <1>1, BrowserInit, BrowserStep, PTL DEF Spec

(***************************************************************************)
(* After Close no handler of the bridge is left (wg.Wait in Close).        *)
(***************************************************************************)
THEOREM CloseIsLast == Spec => []NothingOutlivesClose
<1>1. BrowserInv => NothingOutlivesClose
  <2> SUFFICES ASSUME BrowserInv, NEW b \in Bridges, phase[b] = "closed",
                      NEW c \in HandlersOf(b)
               PROVE  FALSE
    BY DEF NothingOutlivesClose
  <2> QED
    BY DEF BrowserInv, Held, HandlersOf
<1> QED
  BY <1>1, BrowserInit, BrowserStep, PTL DEF Spec
=============================================================================
