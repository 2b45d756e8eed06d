------------------------ MODULE TunnelManagerProofs -------------------------
(***************************************************************************)
(* Proofs about the tunnel manager, for any ports, policy and settings.    *)
(***************************************************************************)
EXTENDS TunnelManager, TLAPS

USE PortsAssumption, OptionsAssumption

(***************************************************************************)
(* What one call of applyLocked makes of the record e of port p: only the  *)
(* tunnel, the error and the reason to skip change; the reason is the      *)
(* current one; a tunnel that is new dials over the link in use and is     *)
(* flagged exactly when its local port differs from the remote one.        *)
(***************************************************************************)
AppliedTo(p, e, f) ==
  /\ f = [e EXCEPT !.skip = Want(p, e), !.fwd = f.fwd, !.err = f.err]
  /\ f.skip # "none" => f.fwd = NoFwd
  /\ f.skip = "none" /\ dialer # 0 => f.fwd # NoFwd \/ f.err # 0
  /\ \/ f.fwd \in {NoFwd, e.fwd}
     \/ /\ dialer # 0
        /\ f.fwd.dialer = dialer
        /\ f.fwd.remapped <=> f.fwd.local # p

\* The verdict on a service is one of the reasons to skip, or "none".
LEMMA EvalType ==
  ASSUME NEW pol, NEW port, NEW bind, NEW preexisting
  PROVE  Eval(pol, port, bind, preexisting) \in Skips
BY DEF Eval, Skips

LEMMA WantType ==
  ASSUME NEW p, NEW e
  PROVE  Want(p, e) \in Skips
BY EvalType DEF Want, Skips

\* A grant of the allocator is a local port, flagged when it is not p; a
\* refusal names the port in conflict.
LEMMA AllocateType ==
  ASSUME NEW p \in Ports, NEW preferred \in LocalPorts \cup {0},
         NEW prev \in LocalPorts \cup {0},
         NEW a \in Allocate(p, preferred, prev)
  PROVE  /\ a.err \in LocalPorts \cup {0}
         /\ a.err = 0 => /\ a.local \in LocalPorts
                         /\ a.remapped \in BOOLEAN
                         /\ a.remapped <=> a.local # p
<1> DEFINE open(q)  == q # 0 /\ q \notin InUse(p)
           spare    == Ephemeral \ InUse(p)
           conflict == IF preferred # 0 THEN preferred
                       ELSE IF prev # 0 THEN prev ELSE p
<1>0. p \in LocalPorts /\ p # 0 /\ conflict \in LocalPorts
  OBVIOUS
<1>1. CASE open(preferred)
  <2>1. a = [local |-> preferred, remapped |-> preferred # p, err |-> 0]
    BY <1>1 DEF Allocate
  <2> QED  BY <2>1, <1>1
<1>2. CASE ~open(preferred) /\ prev # p /\ open(prev)
  <2>1. a = [local |-> prev, remapped |-> TRUE, err |-> 0]
    BY <1>2 DEF Allocate
  <2> QED  BY <2>1, <1>2
<1>3. CASE ~open(preferred) /\ ~(prev # p /\ open(prev)) /\ open(p)
  <2>1. a = [local |-> p, remapped |-> FALSE, err |-> 0]
    BY <1>3 DEF Allocate
  <2> QED  BY <2>1, <1>0
<1>4. CASE ~open(preferred) /\ ~(prev # p /\ open(prev)) /\ ~open(p)
  <2>1. CASE SamePort \/ spare = {}
    <3>1. a = [local |-> 0, remapped |-> FALSE, err |-> conflict]
      BY <1>4, <2>1 DEF Allocate
    <3> QED  BY <3>1, <1>0
  <2>2. CASE ~(SamePort \/ spare = {})
    <3>1. a \in {[local |-> q, remapped |-> TRUE, err |-> 0] : q \in spare}
      BY <1>4, <2>2 DEF Allocate
    <3>2. PICK q \in spare : a = [local |-> q, remapped |-> TRUE, err |-> 0]
      BY <3>1
    <3>3. q # p
      BY <1>0, <1>4
    <3> QED  BY <3>2, <3>3
  <2> QED  BY <2>1, <2>2
<1> QED  BY <1>1, <1>2, <1>3, <1>4

-----------------------------------------------------------------------------
(***************************************************************************)
(* The inductive invariant.  Each part needs the others: a tunnel opened   *)
(* by a reconnect is over the live link only because none was left from    *)
(* the last one, and an entry is settled after SetPolicy or SetDialer only *)
(* because the job they leave behind names every entry.                    *)
(***************************************************************************)
IInv ==
  /\ TypeOK
  /\ TunnelsUseTheLiveLink
  /\ EveryEntrySettled
  /\ ExemptionsEndWithThePause
  /\ RemapsAreFlagged

\* The link in use is one of the connections made.
LEMMA DialerType ==
  ASSUME TypeOK, dialer # 0
  PROVE  dialer \in 1..MaxSessions
BY DEF TypeOK

(***************************************************************************)
(* One call of applyLocked replaces one record, by one AppliedTo describes. *)
(***************************************************************************)
LEMMA ApplyLemma ==
  ASSUME TypeOK, NEW p \in Ports, NEW e \in Entry, e.bind # "absent",
         NEW prev \in LocalPorts \cup {0}, Apply(p, e, prev)
  PROVE  /\ \E f \in Entry : Becomes(p, f) /\ AppliedTo(p, e, f)
         /\ sticky' \in [Ports -> LocalPorts \cup {0}]
         /\ served' \subseteq Talkative
<1>0. /\ Want(p, e) \in Skips
      /\ sticky \in [Ports -> LocalPorts \cup {0}]
      /\ served \subseteq Talkative
  BY WantType DEF TypeOK
<1>1. CASE Skip(p, e, prev)
  <2> DEFINE f == [e EXCEPT !.skip = Want(p, e), !.fwd = NoFwd]
  <2>1. f \in Entry /\ f.fwd = NoFwd /\ f.err = e.err /\ f.skip = Want(p, e)
    BY <1>0 DEF Entry
  <2>2. f = [e EXCEPT !.skip = Want(p, e), !.fwd = f.fwd, !.err = f.err]
    BY <2>1 DEF Entry
  <2>3. Becomes(p, f) /\ Want(p, e) # "none"
    BY <1>1 DEF Skip
  <2>4. AppliedTo(p, e, f)
    BY <2>1, <2>2, <2>3 DEF AppliedTo
  <2> QED  BY <1>0, <1>1, <2>1, <2>3, <2>4 DEF Skip, Record
<1>2. CASE Leave(p, e, prev)
  <2> DEFINE f == [e EXCEPT !.skip = "none"]
  <2>1. f \in Entry /\ f.fwd = e.fwd /\ f.err = e.err /\ f.skip = "none"
    BY DEF Entry, Skips
  <2>2. Want(p, e) = "none" /\ Rests(e) /\ Becomes(p, f)
    BY <1>2 DEF Leave
  <2>3. f = [e EXCEPT !.skip = Want(p, e), !.fwd = f.fwd, !.err = f.err]
    BY <2>1, <2>2 DEF Entry
  <2>4. AppliedTo(p, e, f)
    BY <2>1, <2>2, <2>3 DEF AppliedTo, Rests
  <2> QED  BY <1>0, <1>2, <2>1, <2>2, <2>4 DEF Leave, Record
<1>3. ASSUME Want(p, e) = "none", ~Rests(e),
             NEW a \in Allocate(p, e.pin, prev), Open(p, e, a)
      PROVE  /\ \E f \in Entry : Becomes(p, f) /\ AppliedTo(p, e, f)
             /\ sticky' \in [Ports -> LocalPorts \cup {0}]
             /\ served' \subseteq Talkative
  <2> DEFINE g == NewForwarder(e, a)
             f == [e EXCEPT !.skip = "none", !.err = 0, !.fwd = g]
  <2>1. /\ a.err = 0 /\ a.local \in LocalPorts /\ a.remapped \in BOOLEAN
        /\ a.remapped <=> a.local # p
    <3>1. e.pin \in LocalPorts \cup {0}
      BY DEF Entry
    <3> QED  BY <1>3, <3>1, AllocateType DEF Open
  <2>2. dialer # 0 /\ dialer \in 1..MaxSessions
    BY <1>3, DialerType DEF Rests
  <2>3. DialAddr(e.bind) \in Addrs
    BY DEF Entry, Binds, DialAddr, Addrs
  <2>4. /\ g \in Forwarder /\ g.dialer = dialer
        /\ g.local = a.local /\ g.remapped = a.remapped
    BY <2>1, <2>2, <2>3 DEF NewForwarder, Forwarder
  <2>5. g # NoFwd
    <3>1. g.local # 0
      BY <2>1, <2>4
    <3>2. NoFwd.local = 0
      BY DEF NoFwd
    <3> HIDE DEF g
    <3> QED  BY <3>1, <3>2
  <2>6. f \in Entry /\ f.fwd = g /\ f.err = 0 /\ f.skip = "none"
    BY <2>4 DEF Entry, Skips
  <2>7. f = [e EXCEPT !.skip = Want(p, e), !.fwd = f.fwd, !.err = f.err]
    BY <1>3, <2>6 DEF Entry
  <2>8. AppliedTo(p, e, f)
    BY <2>1, <2>2, <2>4, <2>5, <2>6, <2>7 DEF AppliedTo
  <2>9. Becomes(p, f)
    BY <1>3 DEF Open
  <2> QED  BY <1>0, <1>3, <2>1, <2>6, <2>8, <2>9 DEF Open, Record
<1>4. ASSUME Want(p, e) = "none", ~Rests(e),
             NEW a \in Allocate(p, e.pin, prev), Fail(p, e, prev, a)
      PROVE  /\ \E f \in Entry : Becomes(p, f) /\ AppliedTo(p, e, f)
             /\ sticky' \in [Ports -> LocalPorts \cup {0}]
             /\ served' \subseteq Talkative
  <2> DEFINE f == [e EXCEPT !.skip = "none", !.err = a.err]
  <2>1. a.err \in LocalPorts \cup {0}
    <3>1. e.pin \in LocalPorts \cup {0}
      BY DEF Entry
    <3> QED  BY <3>1, AllocateType
  <2>2. f \in Entry /\ f.fwd = e.fwd /\ f.err = a.err /\ f.skip = "none"
    BY <2>1 DEF Entry, Skips
  <2>3. f = [e EXCEPT !.skip = Want(p, e), !.fwd = f.fwd, !.err = f.err]
    BY <1>4, <2>2 DEF Entry
  <2>4. AppliedTo(p, e, f)
    BY <1>4, <2>2, <2>3 DEF AppliedTo, Fail
  <2>5. Becomes(p, f)
    BY <1>4 DEF Fail
  <2> QED  BY <1>0, <1>4, <2>2, <2>4, <2>5 DEF Fail, Record
<1> QED  BY <1>1, <1>2, <1>3, <1>4 DEF Apply

(***************************************************************************)
(* The parts of IInv that a change of the entries can disturb.             *)
(***************************************************************************)
EntriesOK ==
  /\ listed \subseteq Ports
  /\ entry \in [Ports -> Entry]
  /\ \A p \in Ports \ listed : entry[p] = Blank
  /\ \A p \in listed : entry[p].bind # "absent"
  /\ TunnelsUseTheLiveLink
  /\ EveryEntrySettled
  /\ ExemptionsEndWithThePause
  /\ RemapsAreFlagged

\* A record AppliedTo describes is settled.
LEMMA AppliedIsSettled ==
  ASSUME NEW p \in Ports, NEW e \in Entry, NEW f \in Entry, AppliedTo(p, e, f)
  PROVE  /\ f.mode = e.mode /\ f.bind = e.bind /\ f.pausedKeep = e.pausedKeep
         /\ Want(p, f) = Want(p, e)
         /\ f.skip = Want(p, f)
         /\ f.skip # "none" => f.fwd = NoFwd
         /\ f.skip = "none" /\ dialer # 0 => f.fwd # NoFwd \/ f.err # 0
<1>1. f = [e EXCEPT !.skip = Want(p, e), !.fwd = f.fwd, !.err = f.err]
  BY DEF AppliedTo
<1>2. /\ f.mode = e.mode /\ f.bind = e.bind /\ f.pausedKeep = e.pausedKeep
      /\ f.preexisting = e.preexisting /\ f.skip = Want(p, e)
  BY <1>1 DEF Entry
<1>3. Want(p, f) = Want(p, e)
  BY <1>2 DEF Want
<1> QED  BY <1>2, <1>3 DEF AppliedTo

(***************************************************************************)
(* What the methods that call applyLocked on one entry have in common: e   *)
(* is the record they hand to it.  It keeps the tunnel of p or gives it    *)
(* up, and it is exempt from the pause only if p was.                      *)
(***************************************************************************)
LEMMA OneEntry ==
  ASSUME TypeOK, EntriesOK, NEW p \in Ports, NEW e \in Entry, e.bind # "absent",
         e.fwd = NoFwd \/ (p \in listed /\ e.fwd = entry[p].fwd),
         e.pausedKeep => policy.Paused /\ e.mode = "auto",
         NEW prev \in LocalPorts \cup {0}, Apply(p, e, prev),
         listed' = listed \cup {p}, dialer' = dialer, policy' = policy,
         closed' = closed,
         \A q \in Ports \ {p} :
           job.kind = "apply" /\ q \in job.todo => job'.kind = "apply" /\ q \in job'.todo
  PROVE  EntriesOK' /\ sticky' \in [Ports -> LocalPorts \cup {0}] /\ served' \subseteq Talkative
<1>1. PICK f \in Entry : Becomes(p, f) /\ AppliedTo(p, e, f)
  BY ApplyLemma
<1>2. sticky' \in [Ports -> LocalPorts \cup {0}] /\ served' \subseteq Talkative
  BY ApplyLemma
<1>3. /\ f.mode = e.mode /\ f.bind = e.bind /\ f.pausedKeep = e.pausedKeep
      /\ f.skip = Want(p, f)
      /\ f.skip # "none" => f.fwd = NoFwd
      /\ f.skip = "none" /\ dialer # 0 => f.fwd # NoFwd \/ f.err # 0
  BY <1>1, AppliedIsSettled
<1>4. /\ entry \in [Ports -> Entry]
      /\ entry' \in [Ports -> Entry]
      /\ entry'[p] = f
      /\ \A q \in Ports \ {p} : entry'[q] = entry[q]
  BY <1>1 DEF Becomes, EntriesOK
<1>5. \A g : Want(p, g)' = Want(p, g)
  BY DEF Want
<1>6. \A q, g : Want(q, g)' = Want(q, g)
  BY DEF Want
<1>7. f.fwd # NoFwd => /\ dialer # 0
                       /\ f.fwd.dialer = dialer
                       /\ f.fwd.remapped <=> f.fwd.local # p
  BY <1>1 DEF AppliedTo, EntriesOK, TunnelsUseTheLiveLink, RemapsAreFlagged, Up
<1>8. TunnelsUseTheLiveLink'
  BY <1>4, <1>7 DEF EntriesOK, TunnelsUseTheLiveLink, Up
<1>9. RemapsAreFlagged'
  BY <1>4, <1>7 DEF EntriesOK, RemapsAreFlagged, Up
<1>10. ExemptionsEndWithThePause'
  BY <1>3, <1>4 DEF EntriesOK, ExemptionsEndWithThePause
<1>11. EveryEntrySettled'
  <2> SUFFICES ASSUME ~closed', NEW q \in listed'
               PROVE  Settled(q)' \/ (job'.kind = "apply" /\ q \in job'.todo)
    BY DEF EveryEntrySettled
  <2>1. CASE q = p
    BY <2>1, <1>3, <1>4, <1>6 DEF Settled
  <2>2. CASE q # p
    <3>1. q \in listed /\ q \in Ports /\ entry'[q] = entry[q]
      BY <2>2, <1>4 DEF EntriesOK
    <3>2. Settled(q) => Settled(q)'
      BY <3>1, <1>6 DEF Settled
    <3>3. Settled(q) \/ (job.kind = "apply" /\ q \in job.todo)
      BY <3>1 DEF EntriesOK, EveryEntrySettled
    <3> QED  BY <3>1, <3>2, <3>3, <2>2
  <2> QED  BY <2>1, <2>2
<1>12. /\ \A q \in Ports \ listed' : entry'[q] = Blank
       /\ \A q \in listed' : entry'[q].bind # "absent"
       /\ listed' \subseteq Ports
  BY <1>3, <1>4 DEF EntriesOK
<1> QED  BY <1>2, <1>4, <1>8, <1>9, <1>10, <1>11, <1>12 DEF EntriesOK

(***************************************************************************)
(* What IInv says apart from the entries.                                  *)
(***************************************************************************)
RestOK ==
  /\ baseline \subseteq Ports
  /\ haveBase \in BOOLEAN
  /\ policy \in PolicyOver(Ports)
  /\ sessions \in 1..MaxSessions
  /\ dialer \in {0, sessions}
  /\ sticky \in [Ports -> LocalPorts \cup {0}]
  /\ taken \subseteq Volatile
  /\ saved \in [Ports -> Decision]
  /\ served \subseteq Talkative
  /\ moving \subseteq Ports
  /\ JobOK
  /\ ui \in Remembering
  /\ closed \in BOOLEAN

LEMMA IInvParts == IInv <=> EntriesOK /\ RestOK
BY DEF IInv, TypeOK, EntriesOK, RestOK

(***************************************************************************)
(* A step that touches no entry but in what a row shows (its scheme, its   *)
(* label, the scans it missed), and nothing a verdict depends on.          *)
(***************************************************************************)
Cosmetic(e, f) ==
  /\ f.bind = e.bind /\ f.fwd = e.fwd /\ f.skip = e.skip /\ f.err = e.err
  /\ f.mode = e.mode /\ f.preexisting = e.preexisting
  /\ f.pausedKeep = e.pausedKeep

LEMMA CosmeticStep ==
  ASSUME EntriesOK, entry' \in [Ports -> Entry], listed' \subseteq listed,
         \A p \in listed' : Cosmetic(entry[p], entry'[p]),
         \A p \in Ports \ listed' : entry'[p] = Blank,
         policy' = policy, dialer' = dialer, closed' = closed,
         \A p \in listed : job.kind = "apply" /\ p \in job.todo
                           => job'.kind = "apply" /\ p \in job'.todo
  PROVE  EntriesOK'
<1>1. Blank.fwd = NoFwd /\ ~Blank.pausedKeep
  BY DEF Blank
<1>2. \A p \in listed' : Settled(p) => Settled(p)'
  BY DEF Settled, Want, Cosmetic
<1>3. \A p \in Ports : p \in listed' \/ entry'[p] = Blank
  OBVIOUS
<1>4. TunnelsUseTheLiveLink'
  BY <1>1, <1>3 DEF EntriesOK, TunnelsUseTheLiveLink, Up, Cosmetic
<1>5. RemapsAreFlagged'
  BY DEF EntriesOK, RemapsAreFlagged, Up, Cosmetic
<1>6. ExemptionsEndWithThePause'
  BY <1>1, <1>3 DEF EntriesOK, ExemptionsEndWithThePause, Cosmetic
<1>7. EveryEntrySettled'
  BY <1>2 DEF EntriesOK, EveryEntrySettled
<1> QED  BY <1>4, <1>5, <1>6, <1>7 DEF EntriesOK, Cosmetic

\* A step that leaves the entries alone.
LEMMA NoEntryStep ==
  ASSUME EntriesOK, UNCHANGED <<listed, entry, policy, dialer>>,
         closed' = closed, job.kind = "apply" => job' = job
  PROVE  EntriesOK'
<1>1. \A p \in listed : Cosmetic(entry[p], entry'[p])
  BY DEF Cosmetic
<1> QED  BY <1>1, CosmeticStep DEF EntriesOK

\* The record a new entry starts from.
LEMMA RestoredType ==
  ASSUME RestOK, NEW p \in Ports
  PROVE  /\ Restored(p) \in Entry
         /\ Restored(p).fwd = NoFwd
         /\ Restored(p).pausedKeep = FALSE
<1> DEFINE R(b, c, d) ==
             [Blank EXCEPT !.preexisting = b, !.scheme = d.scheme, !.pinned = c,
                           !.mode = d.mode, !.pin = d.local, !.label = d.label]
<1>1. ASSUME NEW b \in BOOLEAN, NEW c \in BOOLEAN, NEW d \in Decision
      PROVE  /\ R(b, c, d) \in Entry
             /\ R(b, c, d).fwd = NoFwd /\ R(b, c, d).pausedKeep = FALSE
  <2>1. Blank \in Entry /\ Blank.fwd = NoFwd /\ Blank.pausedKeep = FALSE
    BY DEF Blank, Entry, Skips, Modes, Schemes
  <2>2. /\ d.label \in Labels \cup {""} /\ d.mode \in Modes
        /\ d.local \in LocalPorts \cup {0} /\ d.scheme \in Schemes
    BY DEF Decision
  <2>3. R(b, c, d) \in Entry
    BY <2>1, <2>2, ZenonT(60) DEF Entry
  <2>4. R(b, c, d).fwd = Blank.fwd /\ R(b, c, d).pausedKeep = Blank.pausedKeep
    BY <2>1 DEF Entry
  <2> QED  BY <2>1, <2>3, <2>4
<1>2. /\ saved[p] \in Decision
      /\ (p \in baseline) \in BOOLEAN
      /\ (saved[p].scheme # "unknown") \in BOOLEAN
  BY DEF RestOK
<1>3. Restored(p) = R(p \in baseline, saved[p].scheme # "unknown", saved[p])
  BY DEF Restored
<1> HIDE DEF R
<1> DEFINE OK(r) == r \in Entry /\ r.fwd = NoFwd /\ r.pausedKeep = FALSE
<1>4. \A b, c \in BOOLEAN : \A d \in Decision : OK(R(b, c, d))
  BY <1>1
<1> HIDE DEF OK
<1>5. OK(R(p \in baseline, saved[p].scheme # "unknown", saved[p]))
  BY <1>2, <1>4, Zenon
<1>6. OK(Restored(p))
  BY <1>3, <1>5, Zenon
<1> QED  BY <1>6 DEF OK
LEMMA InitInv == Init => IInv
<1> SUFFICES ASSUME Init PROVE EntriesOK /\ RestOK
  BY IInvParts
<1>1. Blank \in Entry /\ Blank.fwd = NoFwd /\ Blank.pausedKeep = FALSE
  BY DEF Blank, Entry, Skips, Modes, Schemes
<1>2. EntriesOK
  BY <1>1 DEF Init, EntriesOK, TunnelsUseTheLiveLink, EveryEntrySettled,
     ExemptionsEndWithThePause, RemapsAreFlagged, Up
<1>3. saved \in [Ports -> Decision]
  BY DEF Init
<1>4. JobOK
  BY DEF Init, JobOK, Job, Free, Scans, NoScan
<1>5. ui \in Remembering
  BY DEF Init, Idle, Remembering, Forgotten, Decision, Modes, Schemes
<1>6. sessions \in 1..MaxSessions /\ dialer \in {0, sessions}
  BY DEF Init
<1>7. sticky \in [Ports -> LocalPorts \cup {0}] /\ taken \subseteq Volatile
  BY DEF Init
<1>8. /\ baseline \subseteq Ports /\ haveBase \in BOOLEAN
      /\ policy \in PolicyOver(Ports) /\ closed \in BOOLEAN
  BY DEF Init
<1>9. served \subseteq Talkative /\ moving \subseteq Ports
  BY DEF Init
<1> QED  BY <1>2, <1>3, <1>4, <1>5, <1>6, <1>7, <1>8, <1>9 DEF RestOK

-----------------------------------------------------------------------------
(***************************************************************************)
(* Each step preserves IInv.  First the steps that call applyLocked.       *)
(***************************************************************************)
LEMMA ApplyNextInv ==
  ASSUME IInv, NEW p \in Ports, ApplyNext(p)
  PROVE  IInv'
<1>1. TypeOK /\ EntriesOK /\ RestOK
  BY IInvParts DEF IInv
<1> DEFINE e == entry[p]
<1>2. /\ p \in listed /\ e \in Entry /\ e.bind # "absent"
      /\ sticky[p] \in LocalPorts \cup {0}
      /\ e.pausedKeep => policy.Paused /\ e.mode = "auto"
  BY <1>1 DEF ApplyNext, EntriesOK, RestOK, JobOK, ExemptionsEndWithThePause
<1>3. job' = IF job.todo = {p} THEN Free ELSE [job EXCEPT !.todo = @ \ {p}]
  BY DEF ApplyNext
<1>4. JobOK'
  BY <1>1, <1>3 DEF ApplyNext, RestOK, JobOK, Job, Free, scanned, Scans, NoScan
<1>5. \A q \in Ports \ {p} :
        job.kind = "apply" /\ q \in job.todo => job'.kind = "apply" /\ q \in job'.todo
  BY <1>1, <1>3 DEF RestOK, JobOK, Job
<1>6. EntriesOK' /\ sticky' \in [Ports -> LocalPorts \cup {0}] /\ served' \subseteq Talkative
  BY <1>1, <1>2, <1>5, OneEntry DEF ApplyNext, scanned, link
<1>7. RestOK'
  BY <1>1, <1>4, <1>6 DEF RestOK, ApplyNext, scanned, link
<1> QED  BY <1>6, <1>7, IInvParts, PTL

LEMMA SyncPortInv ==
  ASSUME IInv, NEW p \in Ports, SyncPort(p)
  PROVE  IInv'
<1>1. TypeOK /\ EntriesOK /\ RestOK
  BY IInvParts DEF IInv
<1> DEFINE known == IF p \in listed THEN entry[p] ELSE Restored(p)
           e == [known EXCEPT !.missing = 0, !.bind = job.scan[p]]
<1>2. /\ known \in Entry
      /\ known.fwd = NoFwd \/ (p \in listed /\ known.fwd = entry[p].fwd)
      /\ known.pausedKeep => policy.Paused /\ known.mode = "auto"
  BY <1>1, RestoredType DEF EntriesOK, ExemptionsEndWithThePause
<1>3. job.scan[p] \in Binds
  BY <1>1 DEF SyncPort, RestOK, JobOK, Job, Scans
<1>4. /\ e \in Entry /\ e.bind # "absent" /\ e.fwd = known.fwd
      /\ e.pausedKeep = known.pausedKeep /\ e.mode = known.mode
  BY <1>2, <1>3, ZenonT(60) DEF Entry, Binds
<1>5. sticky[p] \in LocalPorts \cup {0}
  BY <1>1 DEF RestOK
<1>6. JobOK'
  BY <1>1 DEF SyncPort, RestOK, JobOK, Job, Free
<1> HIDE DEF known
<1>7. /\ Apply(p, e, sticky[p]) /\ listed' = listed \cup {p}
      /\ dialer' = dialer /\ policy' = policy /\ closed' = closed
      /\ job.kind = "sync"
  BY DEF SyncPort, link, known
<1> HIDE DEF e
<1>8. EntriesOK' /\ sticky' \in [Ports -> LocalPorts \cup {0}] /\ served' \subseteq Talkative
  BY <1>1, <1>2, <1>4, <1>5, <1>7, OneEntry
<1>9. RestOK'
  BY <1>1, <1>6, <1>8 DEF RestOK, SyncPort, link
<1> QED  BY <1>8, <1>9, IInvParts, PTL

LEMMA CycleModeInv ==
  ASSUME IInv, NEW p \in Ports, CycleMode(p)
  PROVE  IInv'
<1>1. TypeOK /\ EntriesOK /\ RestOK
  BY IInvParts DEF IInv
<1> DEFINE mode == NextMode(entry[p].mode)
           e == [entry[p] EXCEPT
                   !.mode = mode,
                   !.pausedKeep = @ /\ mode = "auto",
                   !.err = IF mode = "off" THEN @ ELSE 0]
<1>2. /\ p \in listed /\ entry[p] \in Entry /\ entry[p].bind # "absent"
      /\ entry[p].pausedKeep => policy.Paused
  BY <1>1 DEF CycleMode, EntriesOK, ExemptionsEndWithThePause
<1>3. mode \in Modes
  BY <1>2 DEF Entry, Modes, NextMode
<1>4. /\ e \in Entry /\ e.bind # "absent" /\ e.fwd = entry[p].fwd /\ e.mode = mode
      /\ e.pausedKeep => entry[p].pausedKeep /\ mode = "auto"
  <2>1. (IF mode = "off" THEN entry[p].err ELSE 0) \in LocalPorts \cup {0}
    BY <1>2 DEF Entry
  <2>2. (entry[p].pausedKeep /\ mode = "auto") \in BOOLEAN
    OBVIOUS
  <2>3. /\ e.bind = entry[p].bind /\ e.fwd = entry[p].fwd /\ e.mode = mode
        /\ e.pausedKeep = (entry[p].pausedKeep /\ mode = "auto")
    BY <1>2 DEF Entry
  <2>4. e \in Entry
    BY <1>2, <1>3, <2>1, <2>2, ZenonT(60) DEF Entry
  <2> QED  BY <1>2, <2>3, <2>4
<1>5. sticky[p] \in LocalPorts \cup {0}
  BY <1>1 DEF RestOK
<1>6. /\ Apply(p, e, sticky[p]) /\ UNCHANGED <<scanned, link, policy, taken, saved, moving, job, closed>>
      /\ Remember(p) /\ job = Free
  BY DEF CycleMode, Command, Unlocked
<1> HIDE DEF e, mode
<1>7. EntriesOK' /\ sticky' \in [Ports -> LocalPorts \cup {0}] /\ served' \subseteq Talkative
  BY <1>1, <1>2, <1>4, <1>5, <1>6, OneEntry DEF scanned, link, Free
<1>8. ui' \in Remembering
  BY <1>6 DEF Remember, Remembering, Forgotten, Decision, Modes, Schemes
<1>9. RestOK'
  BY <1>1, <1>6, <1>7, <1>8 DEF RestOK, JobOK, scanned, link
<1> QED  BY <1>7, <1>9, IInvParts, PTL

\* What a move does to the entries, whoever asked for it.
LEMMA RelocateStep ==
  ASSUME IInv, NEW p \in Ports, NEW q \in LocalPorts \cup {0}, Relocate(p, q),
         job = Free
  PROVE  EntriesOK' /\ sticky' \in [Ports -> LocalPorts \cup {0}] /\ served' \subseteq Talkative
<1>1. TypeOK /\ EntriesOK
  BY IInvParts DEF IInv
<1> DEFINE e == [entry[p] EXCEPT !.pin = q, !.fwd = NoFwd, !.err = 0]
<1>2. /\ p \in listed /\ entry[p] \in Entry /\ entry[p].bind # "absent"
      /\ entry[p].pausedKeep => policy.Paused /\ entry[p].mode = "auto"
  BY <1>1 DEF Relocate, EntriesOK, ExemptionsEndWithThePause
<1>3. /\ e \in Entry /\ e.bind # "absent" /\ e.fwd = NoFwd
      /\ e.pausedKeep => policy.Paused /\ e.mode = "auto"
  BY <1>2 DEF Entry
<1>4. Apply(p, e, 0) /\ UNCHANGED <<scanned, link, policy, closed>>
  BY DEF Relocate
<1> HIDE DEF e
<1> QED  BY <1>1, <1>2, <1>3, <1>4, OneEntry DEF scanned, link, Free

LEMMA SetLocalPortInv ==
  ASSUME IInv, NEW p \in Ports, NEW q \in Pins \cup {0}, SetLocalPort(p, q)
  PROVE  IInv'
<1>1. RestOK
  BY IInvParts
<1>2. EntriesOK' /\ sticky' \in [Ports -> LocalPorts \cup {0}] /\ served' \subseteq Talkative
  BY RelocateStep DEF SetLocalPort, Command, Unlocked
<1>3. ui' \in Remembering
  BY DEF SetLocalPort, Remember, Remembering, Forgotten, Decision, Modes, Schemes
<1>4. RestOK'
  BY <1>1, <1>2, <1>3 DEF RestOK, JobOK, SetLocalPort, Relocate, scanned, link
<1> QED  BY <1>2, <1>4, IInvParts, PTL

LEMMA TryLocalPortInv ==
  ASSUME IInv, NEW p \in Ports, TryLocalPort(p)
  PROVE  IInv'
<1>1. RestOK
  BY IInvParts
<1>2. EntriesOK' /\ sticky' \in [Ports -> LocalPorts \cup {0}] /\ served' \subseteq Talkative
  BY RelocateStep DEF TryLocalPort, Request, Unlocked
<1>3. RestOK'
  BY <1>1, <1>2 DEF RestOK, JobOK, TryLocalPort, Relocate, scanned, link
<1> QED  BY <1>2, <1>3, IInvParts, PTL

LEMMA ForwardNowInv ==
  ASSUME IInv, NEW p \in Ports, ForwardNow(p)
  PROVE  IInv'
<1>1. TypeOK /\ EntriesOK /\ RestOK
  BY IInvParts DEF IInv
<1> DEFINE e == [entry[p] EXCEPT !.mode = "on", !.pausedKeep = FALSE, !.err = 0]
<1>2. p \in listed /\ entry[p] \in Entry /\ entry[p].bind # "absent"
  BY <1>1 DEF ForwardNow, EntriesOK
<1>3. e \in Entry /\ e.bind # "absent" /\ e.fwd = entry[p].fwd /\ ~e.pausedKeep
  BY <1>2 DEF Entry, Modes
<1>4. /\ Apply(p, e, sticky[p]) /\ job = Free
      /\ UNCHANGED <<scanned, link, policy, taken, saved, moving, job, ui, closed>>
  BY DEF ForwardNow, Request, Unlocked
<1>5. sticky[p] \in LocalPorts \cup {0}
  BY <1>1 DEF RestOK
<1> HIDE DEF e
<1>6. EntriesOK' /\ sticky' \in [Ports -> LocalPorts \cup {0}] /\ served' \subseteq Talkative
  BY <1>1, <1>2, <1>3, <1>4, <1>5, OneEntry DEF scanned, link, Free
<1>7. RestOK'
  BY <1>1, <1>4, <1>6 DEF RestOK, JobOK, scanned, link
<1> QED  BY <1>6, <1>7, IInvParts, PTL

(***************************************************************************)
(* The steps of Sync that do not.                                          *)
(***************************************************************************)
LEMMA SyncStartInv ==
  ASSUME IInv, SyncStart
  PROVE  IInv'
<1>1. EntriesOK /\ RestOK
  BY IInvParts
<1>2. PICK scan \in Snaps :
        LET found == {p \in Ports : scan[p] # "absent"}
        IN  /\ job' = [kind |-> "sync", todo |-> found, scan |-> scan]
            /\ baseline' = IF haveBase THEN baseline ELSE found
  BY DEF SyncStart
<1>3. scan \in Scans
  OBVIOUS
<1>4. JobOK'
  BY <1>1, <1>2, <1>3 DEF SyncStart, Unlocked, JobOK, Job
<1>5. EntriesOK'
  BY <1>1, NoEntryStep DEF SyncStart, Unlocked, Free, link
<1>6. RestOK'
  BY <1>1, <1>2, <1>4 DEF SyncStart, RestOK, link, memory
<1> QED  BY <1>5, <1>6, IInvParts, PTL

LEMMA SyncSweepInv ==
  ASSUME IInv, SyncSweep
  PROVE  IInv'
<1>1. EntriesOK /\ RestOK
  BY IInvParts
<1> DEFINE missed == {p \in listed : job.scan[p] = "absent"}
           gone   == {p \in missed : Gone(p)}
<1>2. /\ listed' = listed \ gone
      /\ entry' = [p \in Ports |->
                     IF p \in gone THEN Blank
                     ELSE IF p \in missed THEN [entry[p] EXCEPT !.missing = @ + 1]
                     ELSE entry[p]]
      /\ job' = Free /\ job.kind = "sync"
      /\ UNCHANGED <<link, memory, baseline, haveBase, policy, taken, saved,
                     moving, ui, closed>>
  BY DEF SyncSweep
<1>3. gone \subseteq missed /\ missed \subseteq listed
  OBVIOUS
<1> HIDE DEF gone, missed
<1>4. Blank \in Entry
  BY DEF Blank, Entry, Skips, Modes, Schemes
<1>5. ASSUME NEW p \in Ports
      PROVE  /\ [entry[p] EXCEPT !.missing = @ + 1] \in Entry
             /\ Cosmetic(entry[p], [entry[p] EXCEPT !.missing = @ + 1])
  <2>1. entry[p] \in Entry /\ entry[p].missing + 1 \in Nat
    <3>1. entry[p] \in Entry
      BY <1>1 DEF EntriesOK
    <3>2. entry[p].missing \in Nat
      BY <3>1 DEF Entry
    <3> QED  BY <3>1, <3>2
  <2>2. \A e \in Entry, n \in Nat :
           /\ [e EXCEPT !.missing = n] \in Entry
           /\ Cosmetic(e, [e EXCEPT !.missing = n])
    BY DEF Entry, Cosmetic
  <2> QED  BY <2>1, <2>2
<1>6. entry' \in [Ports -> Entry]
  BY <1>1, <1>2, <1>4, <1>5 DEF EntriesOK
<1>7. \A p \in listed' : Cosmetic(entry[p], entry'[p])
  <2> SUFFICES ASSUME NEW p \in listed' PROVE Cosmetic(entry[p], entry'[p])
    OBVIOUS
  <2>1. p \in Ports /\ p \notin gone
    BY <1>1, <1>2 DEF EntriesOK
  <2>2. CASE p \in missed
    BY <2>1, <2>2, <1>2, <1>5
  <2>3. CASE p \notin missed
    BY <2>1, <2>3, <1>2 DEF Cosmetic
  <2> QED  BY <2>2, <2>3
<1>8. \A p \in Ports \ listed' : entry'[p] = Blank
  BY <1>1, <1>2, <1>3 DEF EntriesOK
<1>9. EntriesOK'
  BY <1>1, <1>2, <1>6, <1>7, <1>8, CosmeticStep DEF link
<1>10. RestOK'
  <2>1. JobOK'
    BY <1>2 DEF JobOK, Job, Free, Scans, NoScan
  <2> QED  BY <1>1, <1>2, <2>1 DEF RestOK, link, memory
<1> QED  BY <1>9, <1>10, IInvParts, PTL

(***************************************************************************)
(* The steps of the supervisor and of the pause: they rewrite every entry, *)
(* and leave a job that names every entry.                                 *)
(***************************************************************************)
LEMMA ApplyAllJob ==
  ASSUME listed \subseteq Ports, ~closed
  PROVE  /\ ApplyAll \in Job
         /\ ApplyAll.kind = "free" => ApplyAll = Free /\ listed = {}
         /\ ApplyAll.kind = "apply" => ApplyAll.todo # {}
         /\ ApplyAll.kind # "sync"
         /\ \A p \in listed : ApplyAll.kind = "apply" /\ p \in ApplyAll.todo
         /\ ApplyAll.todo \subseteq listed
BY DEF ApplyAll, Job, Free, Scans, NoScan

\* A record whose tunnel is closed, and the scans it missed forgotten.
LEMMA ClosedRecord ==
  ASSUME NEW e \in Entry, NEW f, f = [e EXCEPT !.fwd = NoFwd, !.missing = 0]
  PROVE  /\ f \in Entry
         /\ f.fwd = NoFwd /\ f.bind = e.bind /\ f.skip = e.skip
         /\ f.mode = e.mode /\ f.preexisting = e.preexisting
         /\ f.pausedKeep = e.pausedKeep
         /\ e.fwd = NoFwd /\ e.missing = 0 => f = e
BY DEF Entry

LEMMA BlankType ==
  /\ Blank \in Entry
  /\ Blank.fwd = NoFwd /\ Blank.missing = 0 /\ Blank.pausedKeep = FALSE
BY DEF Blank, Entry, Skips, Modes, Schemes

LEMMA LinkDownInv ==
  ASSUME IInv, LinkDown
  PROVE  IInv'
<1>1. EntriesOK /\ RestOK
  BY IInvParts
<1>2. /\ entry' = [p \in Ports |-> [entry[p] EXCEPT !.fwd = NoFwd, !.missing = 0]]
      /\ dialer' = 0 /\ job = Free
      /\ UNCHANGED <<scanned, memory, policy, sessions, taken, saved, moving, job,
                     ui, closed>>
  BY DEF LinkDown, Unlocked
<1>3. ASSUME NEW p \in Ports
      PROVE  /\ entry'[p] \in Entry
             /\ entry'[p].fwd = NoFwd /\ entry'[p].bind = entry[p].bind
             /\ entry'[p].skip = entry[p].skip /\ entry'[p].mode = entry[p].mode
             /\ entry'[p].preexisting = entry[p].preexisting
             /\ entry'[p].pausedKeep = entry[p].pausedKeep
             /\ p \notin listed => entry'[p] = Blank
  <2>1. entry[p] \in Entry /\ (p \notin listed => entry[p] = Blank)
    BY <1>1 DEF EntriesOK
  <2>2. entry'[p] = [entry[p] EXCEPT !.fwd = NoFwd, !.missing = 0]
    BY <1>2
  <2>3. /\ entry'[p] \in Entry
        /\ entry'[p].fwd = NoFwd /\ entry'[p].bind = entry[p].bind
        /\ entry'[p].skip = entry[p].skip /\ entry'[p].mode = entry[p].mode
        /\ entry'[p].preexisting = entry[p].preexisting
        /\ entry'[p].pausedKeep = entry[p].pausedKeep
        /\ entry[p].fwd = NoFwd /\ entry[p].missing = 0 => entry'[p] = entry[p]
    BY <2>1, <2>2, ClosedRecord, Zenon
  <2>4. p \notin listed => entry'[p] = Blank
    BY <2>1, <2>3, BlankType
  <2> QED  BY <2>3, <2>4, Zenon
<1>4. entry' \in [Ports -> Entry]
  BY <1>2, <1>3
<1>5. EveryEntrySettled'
  <2>1. \A p \in listed : Settled(p) => Settled(p)'
    <3> SUFFICES ASSUME NEW p \in listed PROVE Settled(p) => Settled(p)'
      OBVIOUS
    <3>1. p \in Ports
      BY <1>1 DEF EntriesOK
    <3>2. \A g : Want(p, g)' = Want(p, g)
      BY <1>2 DEF Want
    <3>3. Want(p, entry'[p]) = Want(p, entry[p])
      BY <3>1, <1>3 DEF Want
    <3> QED  BY <3>1, <3>2, <3>3, <1>2, <1>3 DEF Settled
  <2> QED  BY <1>1, <1>2, <2>1 DEF EntriesOK, EveryEntrySettled, scanned, Free
<1>6. EntriesOK'
  <2>1. listed' = listed /\ listed \subseteq Ports
    BY <1>1, <1>2 DEF EntriesOK, scanned
  <2>2. TunnelsUseTheLiveLink' /\ RemapsAreFlagged'
    BY <1>3, <2>1 DEF TunnelsUseTheLiveLink, RemapsAreFlagged, Up
  <2>3. ExemptionsEndWithThePause'
    <3>1. \A q \in Ports : entry[q].pausedKeep
                           => policy.Paused /\ entry[q].mode = "auto" /\ q \in listed
      BY <1>1 DEF EntriesOK, ExemptionsEndWithThePause
    <3>2. policy' = policy
      BY <1>2
    <3>3. \A q \in Ports : entry'[q].pausedKeep = entry[q].pausedKeep
                           /\ entry'[q].mode = entry[q].mode
      BY <1>3
    <3>4. \A q \in Ports : entry'[q].pausedKeep
                           => policy'.Paused /\ entry'[q].mode = "auto" /\ q \in listed'
      BY <2>1, <3>1, <3>2, <3>3, Zenon
    <3> QED  BY <3>4 DEF ExemptionsEndWithThePause
  <2>4. /\ \A p \in Ports \ listed' : entry'[p] = Blank
        /\ \A p \in listed' : entry'[p].bind # "absent"
    BY <1>1, <1>3, <2>1 DEF EntriesOK
  <2> QED  BY <1>4, <1>5, <2>1, <2>2, <2>3, <2>4 DEF EntriesOK
<1>7. RestOK'
  BY <1>1, <1>2 DEF RestOK, JobOK, scanned, memory
<1> QED  BY <1>6, <1>7, IInvParts, PTL

LEMMA LinkUpInv ==
  ASSUME IInv, LinkUp
  PROVE  IInv'
<1>1. EntriesOK /\ RestOK
  BY IInvParts
<1>2. /\ dialer = 0 /\ sessions < MaxSessions /\ sessions' = sessions + 1
      /\ dialer' = sessions + 1 /\ job' = ApplyAll /\ ~closed
      /\ UNCHANGED <<scanned, memory, entry, policy, taken, saved, moving, ui,
                     closed>>
  BY DEF LinkUp, Unlocked, NewDialer
<1>3. JobOK'
  BY <1>1, <1>2, ApplyAllJob DEF EntriesOK, JobOK, scanned
<1>4. EveryEntrySettled'
  BY <1>1, <1>2, ApplyAllJob DEF EntriesOK, EveryEntrySettled, scanned
<1>5. \A p \in Ports : ~Up(p)
  BY <1>1, <1>2 DEF EntriesOK, TunnelsUseTheLiveLink
<1>6. EntriesOK'
  BY <1>1, <1>2, <1>4, <1>5 DEF EntriesOK, TunnelsUseTheLiveLink,
     RemapsAreFlagged, ExemptionsEndWithThePause, Up, scanned
<1>7. RestOK'
  <2>1. sessions' \in 1..MaxSessions /\ dialer' \in {0, sessions'}
    BY <1>1, <1>2 DEF RestOK
  <2> QED  BY <1>1, <1>2, <1>3, <2>1 DEF RestOK, scanned, memory
<1> QED  BY <1>6, <1>7, IInvParts, PTL

LEMMA TogglePauseInv ==
  ASSUME IInv, TogglePause
  PROVE  IInv'
<1>1. EntriesOK /\ RestOK
  BY IInvParts
<1> DEFINE pausing == ~policy.Paused
<1>2. /\ policy' = [policy EXCEPT !.Paused = pausing]
      /\ entry' = [p \in Ports |-> [entry[p] EXCEPT !.pausedKeep = Kept(p, pausing)]]
      /\ job' = ApplyAll /\ ~closed
      /\ UNCHANGED <<scanned, link, memory, taken, saved, moving, ui, closed>>
  BY DEF TogglePause, Command, Unlocked
<1>3. policy' \in PolicyOver(Ports) /\ policy'.Paused = pausing
  BY <1>1, <1>2 DEF RestOK, PolicyOver
<1>4. ASSUME NEW p \in Ports
      PROVE  /\ entry'[p] \in Entry
             /\ entry'[p].fwd = entry[p].fwd /\ entry'[p].bind = entry[p].bind
             /\ entry'[p].mode = entry[p].mode
             /\ entry'[p].pausedKeep => /\ pausing /\ entry[p].mode = "auto"
                                        /\ p \in listed
             /\ p \notin listed => entry'[p] = Blank
  <2>1. entry[p] \in Entry /\ (p \notin listed => entry[p] = Blank)
    BY <1>1 DEF EntriesOK
  <2>2. Kept(p, pausing) \in BOOLEAN /\ (p \notin listed => ~Kept(p, pausing))
    <3>1. Kept(p, pausing) \in BOOLEAN
      BY DEF Kept
    <3>2. p \notin listed => ~Kept(p, pausing)
      BY <2>1, BlankType DEF Kept, Up
    <3> QED  BY <3>1, <3>2
  <2>3. entry'[p] = [entry[p] EXCEPT !.pausedKeep = Kept(p, pausing)]
    BY <1>2
  <2>4. Kept(p, pausing) => pausing /\ entry[p].mode = "auto" /\ p \in listed
    BY <2>2 DEF Kept
  <2>5. ASSUME NEW e \in Entry, NEW b \in BOOLEAN, NEW f,
               f = [e EXCEPT !.pausedKeep = b]
        PROVE  /\ f \in Entry /\ f.fwd = e.fwd /\ f.bind = e.bind
               /\ f.mode = e.mode /\ (f.pausedKeep => b)
    BY <2>5 DEF Entry
  <2>6. [Blank EXCEPT !.pausedKeep = FALSE] = Blank
    BY BlankType DEF Entry
  <2> HIDE DEF pausing
  <2>7. /\ entry'[p] \in Entry
        /\ entry'[p].fwd = entry[p].fwd /\ entry'[p].bind = entry[p].bind
        /\ entry'[p].mode = entry[p].mode
        /\ entry'[p].pausedKeep => Kept(p, pausing)
    <3> DEFINE e == entry[p]
               f == entry'[p]
               b == Kept(p, pausing)
    <3>1. e \in Entry /\ b \in BOOLEAN /\ f = [e EXCEPT !.pausedKeep = b]
      BY <2>1, <2>2, <2>3
    <3> HIDE DEF e, f, b
    <3>2. f \in Entry /\ f.fwd = e.fwd /\ f.bind = e.bind /\ f.mode = e.mode /\ (f.pausedKeep => b)
      BY <2>5, <3>1
    <3> QED  BY <3>2 DEF e, f, b
  <2>8. ASSUME p \notin listed PROVE entry'[p] = Blank
    <3>1. Kept(p, pausing) = FALSE /\ entry[p] = Blank
      BY <2>1, <2>2, <2>8
    <3> QED  BY <2>3, <2>6, <3>1
  <2> QED  BY <2>4, <2>7, <2>8, Zenon
<1>5. entry' \in [Ports -> Entry]
  BY <1>2, <1>4
<1>6. JobOK'
  BY <1>1, <1>2, ApplyAllJob DEF EntriesOK, JobOK, scanned
<1>7. EveryEntrySettled'
  BY <1>1, <1>2, ApplyAllJob DEF EntriesOK, EveryEntrySettled, scanned
<1>8. ExemptionsEndWithThePause'
  BY <1>2, <1>3, <1>4 DEF ExemptionsEndWithThePause, scanned
<1>9. EntriesOK'
  BY <1>1, <1>2, <1>4, <1>5, <1>7, <1>8 DEF EntriesOK, TunnelsUseTheLiveLink,
     RemapsAreFlagged, Up, scanned, link
<1>10. RestOK'
  BY <1>1, <1>2, <1>3, <1>6 DEF RestOK, scanned, link, memory
<1> QED  BY <1>9, <1>10, IInvParts, PTL

LEMMA CloseInv ==
  ASSUME IInv, Close
  PROVE  IInv'
<1>1. EntriesOK /\ RestOK
  BY IInvParts
<1>2. /\ entry' = [p \in Ports |-> [entry[p] EXCEPT !.fwd = NoFwd]]
      /\ closed' = TRUE /\ job = Free
      /\ UNCHANGED <<scanned, link, memory, policy, taken, saved, moving, job, ui>>
  BY DEF Close, Unlocked
<1>3. ASSUME NEW e \in Entry, NEW f, f = [e EXCEPT !.fwd = NoFwd]
      PROVE  /\ f \in Entry
             /\ f.fwd = NoFwd /\ f.bind = e.bind /\ f.mode = e.mode
             /\ (f.pausedKeep => e.pausedKeep)
             /\ (e.fwd = NoFwd => f = e)
  BY <1>3 DEF Entry
<1>4. ASSUME NEW p \in Ports
      PROVE  /\ entry'[p] \in Entry
             /\ entry'[p].fwd = NoFwd /\ entry'[p].bind = entry[p].bind
             /\ entry'[p].mode = entry[p].mode
             /\ (entry'[p].pausedKeep => entry[p].pausedKeep)
             /\ (entry[p].fwd = NoFwd => entry'[p] = entry[p])
  <2> DEFINE e == entry[p]
             f == entry'[p]
  <2>1. e \in Entry /\ f = [e EXCEPT !.fwd = NoFwd]
    BY <1>1, <1>2 DEF EntriesOK
  <2> HIDE DEF e, f
  <2>2. /\ f \in Entry
        /\ f.fwd = NoFwd /\ f.bind = e.bind /\ f.mode = e.mode
        /\ (f.pausedKeep => e.pausedKeep)
        /\ (e.fwd = NoFwd => f = e)
    BY <1>3, <2>1
  <2> QED  BY <2>2 DEF e, f
<1>5. listed' = listed /\ listed \subseteq Ports
  BY <1>1, <1>2 DEF EntriesOK, scanned
<1>6. entry' \in [Ports -> Entry]
  BY <1>2, <1>4
<1>7. /\ \A p \in Ports \ listed' : entry'[p] = Blank
      /\ \A p \in listed' : entry'[p].bind # "absent"
  BY <1>1, <1>4, <1>5, BlankType DEF EntriesOK
<1>8. TunnelsUseTheLiveLink' /\ RemapsAreFlagged'
  BY <1>4, <1>5 DEF TunnelsUseTheLiveLink, RemapsAreFlagged, Up
<1>9. ExemptionsEndWithThePause'
  BY <1>1, <1>2, <1>4, <1>5 DEF EntriesOK, ExemptionsEndWithThePause
<1>10. EveryEntrySettled'
  BY <1>2 DEF EveryEntrySettled
<1>11. EntriesOK'
  BY <1>5, <1>6, <1>7, <1>8, <1>9, <1>10 DEF EntriesOK
<1>12. RestOK'
  BY <1>1, <1>2 DEF RestOK, JobOK, scanned, link, memory
<1> QED  BY <1>11, <1>12, IInvParts, PTL

(***************************************************************************)
(* The steps that change at most what a row shows.                         *)
(***************************************************************************)
LEMMA RowStep ==
  ASSUME EntriesOK, NEW p \in listed, NEW f \in Entry, Cosmetic(entry[p], f),
         Becomes(p, f), UNCHANGED <<scanned, link, policy, closed, job>>
  PROVE  EntriesOK'
<1>1. /\ entry' \in [Ports -> Entry] /\ entry'[p] = f
      /\ \A q \in Ports \ {p} : entry'[q] = entry[q]
  BY DEF EntriesOK, Becomes
<1>2. \A q \in listed : Cosmetic(entry[q], entry'[q])
  BY <1>1 DEF Cosmetic, EntriesOK
<1>3. \A q \in Ports \ listed : entry'[q] = Blank
  BY <1>1 DEF EntriesOK
<1>4. /\ listed' = listed /\ policy' = policy /\ dialer' = dialer
      /\ closed' = closed /\ job' = job
  BY DEF scanned, link
<1> QED  BY <1>1, <1>2, <1>3, <1>4, CosmeticStep

LEMMA SetSchemeInv ==
  ASSUME IInv, NEW p \in Ports, NEW s \in Schemes, SetScheme(p, s)
  PROVE  IInv'
<1>1. EntriesOK /\ RestOK /\ p \in listed
  BY IInvParts DEF SetScheme
<1> DEFINE f == [entry[p] EXCEPT !.scheme = s, !.pinned = s # "unknown"]
<1>2. ASSUME NEW e \in Entry, NEW b \in BOOLEAN
      PROVE  /\ [e EXCEPT !.scheme = s, !.pinned = b] \in Entry
             /\ Cosmetic(e, [e EXCEPT !.scheme = s, !.pinned = b])
  BY DEF Entry, Cosmetic
<1>3. entry[p] \in Entry /\ (s # "unknown") \in BOOLEAN
  BY <1>1 DEF EntriesOK
<1>4. f \in Entry /\ Cosmetic(entry[p], f)
  BY <1>2, <1>3, Zenon
<1>5. /\ Becomes(p, f) /\ Remember(p)
      /\ UNCHANGED <<scanned, link, memory, policy, taken, saved, moving, job,
                     closed>>
  BY DEF SetScheme
<1> HIDE DEF f
<1>6. EntriesOK'
  BY <1>1, <1>4, <1>5, RowStep
<1>7. ui' \in Remembering
  BY <1>5 DEF Remember, Remembering, Forgotten, Decision, Modes, Schemes
<1>8. RestOK'
  BY <1>1, <1>5, <1>7 DEF RestOK, JobOK, scanned, link, memory
<1> QED  BY <1>6, <1>8, IInvParts, PTL

LEMMA SetLabelInv ==
  ASSUME IInv, NEW p \in Ports, NEW label \in Labels \cup {""}, SetLabel(p, label)
  PROVE  IInv'
<1>1. EntriesOK /\ RestOK /\ p \in listed
  BY IInvParts DEF SetLabel
<1> DEFINE f == [entry[p] EXCEPT !.label = label]
<1>2. f \in Entry /\ Cosmetic(entry[p], f)
  <2>1. ASSUME NEW e \in Entry
        PROVE  /\ [e EXCEPT !.label = label] \in Entry
               /\ Cosmetic(e, [e EXCEPT !.label = label])
    BY DEF Entry, Cosmetic
  <2>2. entry[p] \in Entry
    BY <1>1 DEF EntriesOK
  <2> QED  BY <2>1, <2>2, Zenon
<1>3. /\ Becomes(p, f) /\ Remember(p)
      /\ UNCHANGED <<scanned, link, memory, policy, taken, saved, moving, job,
                     closed>>
  BY DEF SetLabel
<1> HIDE DEF f
<1>4. EntriesOK'
  BY <1>1, <1>2, <1>3, RowStep
<1>5. ui' \in Remembering
  BY <1>3 DEF Remember, Remembering, Forgotten, Decision, Modes, Schemes
<1>6. RestOK'
  BY <1>1, <1>3, <1>5 DEF RestOK, JobOK, scanned, link, memory
<1> QED  BY <1>4, <1>6, IInvParts, PTL

LEMMA ObserveSchemeInv ==
  ASSUME IInv, NEW p \in Ports, NEW s \in Schemes, ObserveScheme(p, s)
  PROVE  IInv'
<1>1. EntriesOK /\ RestOK /\ p \in listed
  BY IInvParts DEF ObserveScheme
<1> DEFINE f == [entry[p] EXCEPT !.scheme = s]
<1>2. f \in Entry /\ Cosmetic(entry[p], f)
  <2>1. ASSUME NEW e \in Entry
        PROVE  /\ [e EXCEPT !.scheme = s] \in Entry
               /\ Cosmetic(e, [e EXCEPT !.scheme = s])
    BY DEF Entry, Cosmetic
  <2>2. entry[p] \in Entry
    BY <1>1 DEF EntriesOK
  <2> QED  BY <2>1, <2>2, Zenon
<1>3. /\ Becomes(p, f)
      /\ UNCHANGED <<scanned, link, memory, policy, taken, saved, moving, job, ui,
                     closed>>
  BY DEF ObserveScheme
<1> HIDE DEF f
<1>4. EntriesOK'
  BY <1>1, <1>2, <1>3, RowStep
<1>5. RestOK'
  BY <1>1, <1>3 DEF RestOK, JobOK, scanned, link, memory
<1> QED  BY <1>4, <1>5, IInvParts, PTL

LEMMA CopyDecisionInv ==
  ASSUME IInv, CopyDecision
  PROVE  IInv'
<1>1. EntriesOK /\ RestOK
  BY IInvParts
<1> DEFINE p == ui.port
<1>2. ui' = IF p \notin listed THEN Idle
            ELSE [at |-> "store", port |-> p, decision |-> DecisionOf(entry[p])]
  BY DEF CopyDecision
<1>3. Idle \in Remembering
  BY DEF Idle, Remembering, Forgotten, Decision, Modes, Schemes
<1>4. ASSUME NEW e \in Entry PROVE DecisionOf(e) \in Decision
  BY DEF DecisionOf, Decision, Entry, Schemes
<1>5. ui' \in Remembering
  BY <1>1, <1>2, <1>3, <1>4 DEF EntriesOK, RestOK, Remembering
<1>6. EntriesOK'
  BY <1>1, NoEntryStep DEF CopyDecision, scanned, link
<1>7. RestOK'
  BY <1>1, <1>5 DEF CopyDecision, RestOK, JobOK, scanned, link, memory
<1> QED  BY <1>6, <1>7, IInvParts, PTL

LEMMA StoreDecisionInv ==
  ASSUME IInv, StoreDecision
  PROVE  IInv'
<1>1. EntriesOK /\ RestOK
  BY IInvParts
<1>2. ui' \in Remembering
  BY DEF StoreDecision, Idle, Remembering, Forgotten, Decision, Modes, Schemes
<1>3. saved' \in [Ports -> Decision]
  BY <1>1 DEF StoreDecision, RestOK, Remembering
<1>4. EntriesOK'
  BY <1>1, NoEntryStep DEF StoreDecision, scanned, link
<1>5. RestOK'
  BY <1>1, <1>2, <1>3 DEF StoreDecision, RestOK, JobOK, scanned, link, memory
<1> QED  BY <1>4, <1>5, IInvParts, PTL

LEMMA ProbeLocalPortInv ==
  ASSUME IInv, NEW p \in Ports, ProbeLocalPort(p)
  PROVE  IInv'
<1>1. EntriesOK /\ RestOK
  BY IInvParts
<1>2. moving' \subseteq Ports
  BY <1>1 DEF ProbeLocalPort, RestOK
<1>3. EntriesOK'
  BY <1>1, NoEntryStep DEF ProbeLocalPort, scanned, link
<1>4. RestOK'
  BY <1>1, <1>2 DEF ProbeLocalPort, RestOK, JobOK, scanned, link, memory
<1> QED  BY <1>3, <1>4, IInvParts, PTL

LEMMA TryUnlistedInv ==
  ASSUME IInv, NEW p \in Ports, TryUnlisted(p)
  PROVE  IInv'
<1>1. EntriesOK /\ RestOK
  BY IInvParts
<1>2. moving' \subseteq Ports
  BY <1>1 DEF TryUnlisted, RestOK
<1>3. EntriesOK'
  BY <1>1, NoEntryStep DEF TryUnlisted, scanned, link
<1>4. RestOK'
  BY <1>1, <1>2 DEF TryUnlisted, RestOK, JobOK, scanned, link, memory
<1> QED  BY <1>3, <1>4, IInvParts, PTL

LEMMA OtherBindsInv ==
  ASSUME IInv, NEW q \in LocalPorts, OtherBinds(q)
  PROVE  IInv'
<1>1. EntriesOK /\ RestOK
  BY IInvParts
<1>2. taken' \subseteq Volatile
  BY <1>1 DEF OtherBinds, RestOK
<1>3. EntriesOK'
  BY <1>1, NoEntryStep DEF OtherBinds, scanned, link
<1>4. RestOK'
  BY <1>1, <1>2 DEF OtherBinds, RestOK, JobOK, scanned, link, memory
<1> QED  BY <1>3, <1>4, IInvParts, PTL

LEMMA OtherFreesInv ==
  ASSUME IInv, NEW q \in LocalPorts, OtherFrees(q)
  PROVE  IInv'
<1>1. EntriesOK /\ RestOK
  BY IInvParts
<1>2. taken' \subseteq Volatile
  BY <1>1 DEF OtherFrees, RestOK
<1>3. EntriesOK'
  BY <1>1, NoEntryStep DEF OtherFrees, scanned, link
<1>4. RestOK'
  BY <1>1, <1>2 DEF OtherFrees, RestOK, JobOK, scanned, link, memory
<1> QED  BY <1>3, <1>4, IInvParts, PTL

LEMMA StutterInv ==
  ASSUME IInv, UNCHANGED vars
  PROVE  IInv'
<1>1. EntriesOK /\ RestOK
  BY IInvParts
<1>2. EntriesOK'
  BY <1>1, NoEntryStep DEF vars
<1>3. RestOK'
  BY <1>1 DEF RestOK, JobOK, vars
<1> QED  BY <1>2, <1>3, IInvParts, PTL

-----------------------------------------------------------------------------
LEMMA NextInv == IInv /\ [Next]_vars => IInv'
<1> SUFFICES ASSUME IInv, [Next]_vars PROVE IInv'
  OBVIOUS
<1>1. ASSUME NEW p \in Ports, NextScheme(entry[p].scheme) \in Schemes, CycleScheme(p)
      PROVE  IInv'
  BY <1>1, SetSchemeInv DEF CycleScheme
<1>2. ASSUME NEW p \in Ports PROVE NextScheme(entry[p].scheme) \in Schemes
  <2>1. entry[p].scheme \in Schemes
    BY IInvParts DEF EntriesOK, Entry
  <2> QED  BY <2>1 DEF NextScheme, Schemes
<1>3. CASE Sync
  BY <1>3, SyncStartInv, SyncPortInv, SyncSweepInv DEF Sync
<1>4. CASE \E p \in Ports : ApplyNext(p)
  BY <1>4, ApplyNextInv
<1>5. CASE Supervise
  BY <1>5, LinkDownInv, LinkUpInv, CloseInv DEF Supervise
<1>6. CASE User
  BY <1>6, <1>1, <1>2, TogglePauseInv, CopyDecisionInv, StoreDecisionInv,
     CycleModeInv, SetSchemeInv, SetLocalPortInv, SetLabelInv DEF User
<1>7. CASE Bridge
  BY <1>7, ForwardNowInv, ProbeLocalPortInv, TryUnlistedInv, TryLocalPortInv DEF Bridge
<1>8. CASE Environment
  BY <1>8, OtherBindsInv, OtherFreesInv, ObserveSchemeInv DEF Environment
<1>9. CASE Ended \/ UNCHANGED vars
  BY <1>9, StutterInv DEF Ended
<1> QED  BY <1>3, <1>4, <1>5, <1>6, <1>7, <1>8, <1>9 DEF Next

(***************************************************************************)
(* IInv holds throughout.                                                  *)
(***************************************************************************)
THEOREM Invariance == Spec => []IInv
BY InitInv, NextInv, PTL DEF Spec

(***************************************************************************)
(* Every variable keeps its shape; ports without an entry carry nothing.   *)
(***************************************************************************)
THEOREM TypeCorrect == Spec => []TypeOK
<1>1. IInv => TypeOK
  BY DEF IInv
<1> QED  BY <1>1, Invariance, PTL

(***************************************************************************)
(* No tunnel outlives its SSH connection, however SetDialer interleaves    *)
(* with scans, keys and browser requests.                                  *)
(***************************************************************************)
THEOREM LiveLink == Spec => []TunnelsUseTheLiveLink
<1>1. IInv => TunnelsUseTheLiveLink
  BY DEF IInv
<1> QED  BY <1>1, Invariance, PTL

(***************************************************************************)
(* Every entry is what its mode, the pause and the policy ask for.         *)
(***************************************************************************)
THEOREM Settlement == Spec => []EveryEntrySettled
<1>1. IInv => EveryEntrySettled
  BY DEF IInv
<1> QED  BY <1>1, Invariance, PTL

(***************************************************************************)
(* No exemption from a pause survives it.                                  *)
(***************************************************************************)
THEOREM Exemptions == Spec => []ExemptionsEndWithThePause
<1>1. IInv => ExemptionsEndWithThePause
  BY DEF IInv
<1> QED  BY <1>1, Invariance, PTL

(***************************************************************************)
(* No tunnel has a silently different local port.                          *)
(***************************************************************************)
THEOREM NoSilentRemap == Spec => []RemapsAreFlagged
<1>1. IInv => RemapsAreFlagged
  BY DEF IInv
<1> QED  BY <1>1, Invariance, PTL
=============================================================================
