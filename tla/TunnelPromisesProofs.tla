------------------------ MODULE TunnelPromisesProofs ------------------------
(***************************************************************************)
(* Proofs of what the documentation promises about tunnels over time, for  *)
(* any ports, policy and settings.                                         *)
(*                                                                         *)
(* Every promise is about one port at a time.  So the steps of the manager *)
(* are first described by what each may do to one port (PortStep); each    *)
(* promise is then an induction over the handful of such fates.            *)
(***************************************************************************)
EXTENDS TunnelHistory, TunnelMemory, TunnelManagerProofs

USE PortsAssumption, OptionsAssumption

(***************************************************************************)
(* The record a call of applyLocked for p starts from.                     *)
(***************************************************************************)
Known(p) == IF p \in listed THEN entry[p] ELSE Restored(p)

\* The callers that move the tunnel of p and forget the port it had.
Relocates(p) == p \in moving \/ ui' # ui

(***************************************************************************)
(* What the six callers of applyLocked hand to it: the record e, and the   *)
(* local port prev that is remembered for p.                               *)
(***************************************************************************)
Handed(p, e, prev) ==
  /\ e \in Entry /\ e.bind # "absent" /\ prev \in LocalPorts \cup {0}
  /\ p \in listed'
  /\ policy' = policy /\ closed' = closed
  /\ e.scheme = Known(p).scheme /\ e.pinned = Known(p).pinned
  /\ e.pausedKeep <=> Known(p).pausedKeep /\ e.mode = Known(p).mode
  /\ Known(p).mode = "off" => e.mode = "off" \/ CycleMode(p)
  /\ \/ job.kind = "sync" /\ p \in job.todo /\ e.missing = 0
     \/ job.kind # "sync" /\ p \in listed /\ e.missing = entry[p].missing
  /\ \/ prev = sticky[p] /\ e.fwd = Known(p).fwd
     \/ prev = 0 /\ e.fwd = NoFwd /\ Relocates(p)

(***************************************************************************)
(* What it makes of them: the tunnel of p is gone or as it was, and the    *)
(* allocator remembers prev; or a new one has a local port the allocator   *)
(* granted, and that is what it remembers.                                 *)
(***************************************************************************)
Granted(p, e, prev) ==
  /\ e.fwd = NoFwd
  /\ entry'[p].fwd # NoFwd
  /\ sticky'[p] = entry'[p].fwd.local
  /\ \E a \in Allocate(p, e.pin, prev) : a.err = 0 /\ a.local = sticky'[p]

Handled(p, e, prev) ==
  /\ Handed(p, e, prev)
  /\ entry'[p] \in Entry
  /\ AppliedTo(p, e, entry'[p])
  /\ entry'[p].pin = e.pin
  /\ \/ entry'[p].fwd \in {NoFwd, e.fwd} /\ sticky'[p] = prev
     \/ Granted(p, e, prev)

\* Nothing happens to p.
Untouched(p) ==
  /\ p \in listed' <=> p \in listed
  /\ entry'[p] = entry[p] /\ sticky'[p] = sticky[p]

\* The record of p keeps what no step but applyLocked and the keys change.
SameUser(p) ==
  /\ p \in listed' <=> p \in listed
  /\ entry'[p].mode = entry[p].mode /\ sticky'[p] = sticky[p]

\* A scan missed p.
Swept(p) ==
  /\ SyncSweep /\ p \in listed /\ job.scan[p] = "absent"
  /\ sticky'[p] = sticky[p]
  /\ \/ Gone(p) /\ p \notin listed' /\ entry'[p] = Blank
     \/ ~Gone(p) /\ p \in listed' /\ entry'[p] = [entry[p] EXCEPT !.missing = @ + 1]

\* The link, or the program, took the tunnel of p down.
Downed(p) ==
  /\ LinkDown \/ Close
  /\ SameUser(p)
  /\ entry'[p].fwd = NoFwd
  /\ entry'[p].scheme = entry[p].scheme /\ entry'[p].pinned = entry[p].pinned
  /\ entry'[p].pausedKeep = entry[p].pausedKeep
  /\ entry'[p].missing = (IF LinkDown THEN 0 ELSE entry[p].missing)

\* The pause began or ended.
Exempted(p) ==
  /\ TogglePause
  /\ SameUser(p)
  /\ entry'[p].fwd = entry[p].fwd
  /\ entry'[p].scheme = entry[p].scheme /\ entry'[p].pinned = entry[p].pinned
  /\ entry'[p].missing = entry[p].missing
  /\ entry'[p].pausedKeep = Kept(p, ~policy.Paused)

\* What is known of the service changed.
Restyled(p) ==
  /\ policy' = policy /\ closed' = closed /\ job' = job /\ dialer' = dialer
  /\ p \in listed
  /\ SameUser(p)
  /\ entry'[p].fwd = entry[p].fwd /\ entry'[p].missing = entry[p].missing
  /\ entry'[p].pausedKeep = entry[p].pausedKeep
  /\ entry'[p].pinned => \/ entry[p].pinned /\ entry'[p].scheme = entry[p].scheme
                         \/ entry'[p].scheme \in Schemes /\ SetScheme(p, entry'[p].scheme)

PortStep(p) ==
  \/ Untouched(p)
  \/ \E e, prev : Handled(p, e, prev)
  \/ Swept(p)
  \/ Downed(p)
  \/ Exempted(p)
  \/ Restyled(p)

-----------------------------------------------------------------------------
(***************************************************************************)
(* Where the tunnel and the memory of the allocator are after one call of  *)
(* applyLocked.                                                            *)
(***************************************************************************)
LEMMA ApplyPlaces ==
  ASSUME TypeOK, NEW p \in Ports, NEW e \in Entry, e.bind # "absent",
         NEW prev \in LocalPorts \cup {0}, Apply(p, e, prev)
  PROVE  /\ entry'[p] \in Entry
         /\ AppliedTo(p, e, entry'[p])
         /\ entry'[p].pin = e.pin
         /\ \/ entry'[p].fwd \in {NoFwd, e.fwd} /\ sticky'[p] = prev
            \/ Granted(p, e, prev)
         /\ \A q \in Ports \ {p} : entry'[q] = entry[q] /\ sticky'[q] = sticky[q]
<1>1. PICK f \in Entry : Becomes(p, f) /\ AppliedTo(p, e, f)
  BY ApplyLemma
<1>2. /\ entry \in [Ports -> Entry] /\ sticky \in [Ports -> LocalPorts \cup {0}]
  BY DEF TypeOK
<1>3. /\ entry'[p] = f /\ entry' \in [Ports -> Entry]
      /\ \A q \in Ports \ {p} : entry'[q] = entry[q]
  BY <1>1, <1>2 DEF Becomes
<1>4. f.pin = e.pin
  <2>1. f = [e EXCEPT !.skip = Want(p, e), !.fwd = f.fwd, !.err = f.err]
    BY <1>1 DEF AppliedTo
  <2> QED  BY <2>1 DEF Entry
<1>5. ASSUME NEW r, Record(p, r)
      PROVE  sticky'[p] = r /\ \A q \in Ports \ {p} : sticky'[q] = sticky[q]
  BY <1>2, <1>5 DEF Record
<1>6. ASSUME NEW g, Becomes(p, g) PROVE g = f
  BY <1>2, <1>3, <1>6 DEF Becomes
<1>7. CASE Skip(p, e, prev)
  <2>1. Becomes(p, [e EXCEPT !.skip = Want(p, e), !.fwd = NoFwd]) /\ Record(p, prev)
    BY <1>7 DEF Skip
  <2>2. f = [e EXCEPT !.skip = Want(p, e), !.fwd = NoFwd]
    BY <2>1, <1>6
  <2>3. f.fwd = NoFwd
    BY <2>2 DEF Entry
  <2> QED  BY <1>1, <1>3, <1>4, <1>5, <2>1, <2>3
<1>8. CASE Leave(p, e, prev)
  <2>1. Becomes(p, [e EXCEPT !.skip = "none"]) /\ Record(p, prev)
    BY <1>8 DEF Leave
  <2>2. f = [e EXCEPT !.skip = "none"]
    BY <2>1, <1>6
  <2>3. f.fwd = e.fwd
    BY <2>2 DEF Entry
  <2> QED  BY <1>1, <1>3, <1>4, <1>5, <2>1, <2>3
<1>9. ASSUME ~Rests(e), NEW a \in Allocate(p, e.pin, prev), Open(p, e, a)
      PROVE  Granted(p, e, prev) /\ \A q \in Ports \ {p} : sticky'[q] = sticky[q]
  <2>1. /\ Becomes(p, [e EXCEPT !.skip = "none", !.err = 0, !.fwd = NewForwarder(e, a)])
        /\ Record(p, a.local) /\ a.err = 0 /\ e.fwd = NoFwd
    BY <1>9 DEF Open, Rests
  <2>2. f = [e EXCEPT !.skip = "none", !.err = 0, !.fwd = NewForwarder(e, a)]
    BY <2>1, <1>6
  <2>3. f.fwd = NewForwarder(e, a)
    BY <2>2 DEF Entry
  <2>4. f.fwd.local = a.local
    BY <2>3 DEF NewForwarder
  <2>5. a.local # 0
    <3>1. e.pin \in LocalPorts \cup {0}
      BY DEF Entry
    <3> QED  BY <2>1, <3>1, AllocateType
  <2>6. f.fwd # NoFwd
    <3>1. f.fwd.local # 0
      BY <2>4, <2>5
    <3>2. NoFwd.local = 0
      BY DEF NoFwd
    <3> QED  BY <3>1, <3>2
  <2> QED  BY <1>3, <1>5, <1>9, <2>1, <2>4, <2>6 DEF Granted
<1>10. ASSUME ~Rests(e), NEW a \in Allocate(p, e.pin, prev), Fail(p, e, prev, a)
       PROVE  /\ entry'[p].fwd \in {NoFwd, e.fwd} /\ sticky'[p] = prev
              /\ \A q \in Ports \ {p} : sticky'[q] = sticky[q]
  <2>1. Becomes(p, [e EXCEPT !.skip = "none", !.err = a.err]) /\ Record(p, prev)
    BY <1>10 DEF Fail
  <2>2. f = [e EXCEPT !.skip = "none", !.err = a.err]
    BY <2>1, <1>6
  <2>3. f.fwd = e.fwd
    BY <2>2 DEF Entry
  <2> QED  BY <1>3, <1>5, <2>1, <2>3
<1> QED  BY <1>1, <1>3, <1>4, <1>7, <1>8, <1>9, <1>10 DEF Apply

\* The fields of the record a new entry starts from.
LEMMA RestoredFields ==
  ASSUME NEW p
  PROVE  /\ Restored(p).fwd = NoFwd /\ Restored(p).pausedKeep = FALSE
         /\ Restored(p).mode = saved[p].mode
         /\ Restored(p).scheme = saved[p].scheme
         /\ Restored(p).pinned = (saved[p].scheme # "unknown")
         /\ Restored(p).missing = 0
BY DEF Restored, Blank

(***************************************************************************)
(* What applyLocked leaves of the record it was handed: nothing the user   *)
(* decided changes, a port that is off has no tunnel, and while forwarding *)
(* is paused an automatic port has one only if it is exempt.               *)
(***************************************************************************)
LEMMA HandledFields ==
  ASSUME NEW p, NEW e, NEW prev, Handled(p, e, prev)
  PROVE  /\ entry'[p].scheme = Known(p).scheme /\ entry'[p].pinned = Known(p).pinned
         /\ entry'[p].pausedKeep
              <=> Known(p).pausedKeep /\ entry'[p].mode = Known(p).mode
         /\ Known(p).mode = "off" => entry'[p].mode = "off" \/ CycleMode(p)
         /\ entry'[p].mode = "off" => entry'[p].fwd = NoFwd
         /\ policy.Paused /\ entry'[p].mode = "auto" /\ entry'[p].fwd # NoFwd
              => entry'[p].pausedKeep
         /\ entry'[p].missing = e.missing
<1>1. e \in Entry /\ entry'[p] \in Entry /\ AppliedTo(p, e, entry'[p]) /\ Handed(p, e, prev)
  BY DEF Handled, Handed
<1>2. /\ entry'[p].scheme = e.scheme /\ entry'[p].pinned = e.pinned
      /\ entry'[p].pausedKeep = e.pausedKeep /\ entry'[p].mode = e.mode
      /\ entry'[p].missing = e.missing
      /\ entry'[p].skip = Want(p, e)
      /\ entry'[p].skip # "none" => entry'[p].fwd = NoFwd
  BY <1>1 DEF AppliedTo, Entry
<1>3. e.mode = "off" => Want(p, e) = "off"
  BY DEF Want
<1>4. policy.Paused /\ e.mode = "auto" /\ Want(p, e) = "none" => e.pausedKeep
  BY DEF Want, Eval
<1> QED  BY <1>1, <1>2, <1>3, <1>4 DEF Handed

\* One call of applyLocked, seen from every port.
LEMMA HandedStep ==
  ASSUME TypeOK, NEW p \in Ports, NEW e, NEW prev, Handed(p, e, prev),
         Apply(p, e, prev), listed' = listed \cup {p}
  PROVE  /\ \A q \in Ports : PortStep(q)
         /\ entry'[p].missing = e.missing
<1>1. e \in Entry /\ e.bind # "absent" /\ prev \in LocalPorts \cup {0}
  BY DEF Handed
<1>2. Handled(p, e, prev)
  BY <1>1, ApplyPlaces DEF Handled
<1>3. \A q \in Ports \ {p} : Untouched(q)
  BY <1>1, ApplyPlaces DEF Untouched
<1> QED  BY <1>2, <1>3, HandledFields DEF PortStep

-----------------------------------------------------------------------------
(***************************************************************************)
(* The six callers.                                                        *)
(***************************************************************************)
LEMMA KnownEntry ==
  ASSUME IInv, NEW p \in listed
  PROVE  /\ Known(p) = entry[p] /\ entry[p] \in Entry
         /\ p \in Ports /\ entry[p].bind # "absent"
         /\ sticky[p] \in LocalPorts \cup {0}
         /\ entry[p].pausedKeep => entry[p].mode = "auto"
BY DEF IInv, TypeOK, Known, ExemptionsEndWithThePause

LEMMA SyncPortStep ==
  ASSUME IInv, NEW p \in Ports, SyncPort(p)
  PROVE  (\A q \in Ports : PortStep(q)) /\ entry'[p].missing = 0
<1>1. TypeOK /\ EntriesOK /\ RestOK
  BY IInvParts DEF IInv
<1> DEFINE known == Known(p)
           e == [known EXCEPT !.missing = 0, !.bind = job.scan[p]]
<1>2. known \in Entry
  BY <1>1, RestoredType DEF EntriesOK, Known
<1>3. job.scan[p] \in Binds
  BY <1>1 DEF SyncPort, RestOK, JobOK, Job, Scans
<1>4. ASSUME NEW k \in Entry, NEW b \in Binds
      PROVE  /\ [k EXCEPT !.missing = 0, !.bind = b] \in Entry
             /\ [k EXCEPT !.missing = 0, !.bind = b].bind # "absent"
             /\ [k EXCEPT !.missing = 0, !.bind = b].missing = 0
             /\ [k EXCEPT !.missing = 0, !.bind = b].fwd = k.fwd
             /\ [k EXCEPT !.missing = 0, !.bind = b].mode = k.mode
             /\ [k EXCEPT !.missing = 0, !.bind = b].scheme = k.scheme
             /\ [k EXCEPT !.missing = 0, !.bind = b].pinned = k.pinned
             /\ [k EXCEPT !.missing = 0, !.bind = b].pausedKeep = k.pausedKeep
  BY ZenonT(60) DEF Entry, Binds
<1>5. /\ Apply(p, e, sticky[p]) /\ listed' = listed \cup {p}
      /\ job.kind = "sync" /\ p \in job.todo
      /\ policy' = policy /\ closed' = closed
  BY DEF SyncPort, Known
<1> HIDE DEF known
<1>6. /\ e \in Entry /\ e.bind # "absent" /\ e.missing = 0
      /\ e.fwd = known.fwd /\ e.mode = known.mode
      /\ e.scheme = known.scheme /\ e.pinned = known.pinned
      /\ e.pausedKeep = known.pausedKeep
  BY <1>2, <1>3, <1>4
<1> HIDE DEF e
<1>7. sticky[p] \in LocalPorts \cup {0}
  BY <1>1 DEF RestOK
<1>8. Handed(p, e, sticky[p])
  BY <1>5, <1>6, <1>7 DEF Handed, known
<1> QED  BY <1>1, <1>5, <1>6, <1>8, HandedStep

LEMMA ApplyNextStep ==
  ASSUME IInv, NEW p \in Ports, ApplyNext(p)
  PROVE  \A q \in Ports : PortStep(q)
<1>1. TypeOK /\ p \in listed /\ job.kind = "apply"
  BY DEF ApplyNext, IInv, TypeOK, JobOK
<1>2. /\ Known(p) = entry[p] /\ entry[p] \in Entry /\ entry[p].bind # "absent"
      /\ sticky[p] \in LocalPorts \cup {0}
  BY <1>1, KnownEntry
<1>3. /\ Apply(p, entry[p], sticky[p]) /\ listed' = listed \cup {p}
      /\ policy' = policy /\ closed' = closed
  BY <1>1 DEF ApplyNext, scanned
<1>4. Handed(p, entry[p], sticky[p])
  BY <1>1, <1>2, <1>3 DEF Handed
<1> QED  BY <1>1, <1>3, <1>4, HandedStep

LEMMA CycleModeStep ==
  ASSUME IInv, NEW p \in Ports, CycleMode(p)
  PROVE  \A q \in Ports : PortStep(q)
<1> DEFINE m(k) == NextMode(k.mode)
           e(k) == [k EXCEPT !.mode = m(k),
                             !.pausedKeep = @ /\ m(k) = "auto",
                             !.err = IF m(k) = "off" THEN @ ELSE 0]
<1>1. /\ TypeOK /\ p \in listed /\ Apply(p, e(entry[p]), sticky[p])
      /\ listed' = listed \cup {p} /\ policy' = policy /\ closed' = closed
      /\ job.kind # "sync"
  BY DEF CycleMode, Command, Unlocked, Free, IInv, scanned
<1>2. /\ Known(p) = entry[p] /\ entry[p] \in Entry /\ entry[p].bind # "absent"
      /\ sticky[p] \in LocalPorts \cup {0}
      /\ entry[p].pausedKeep => entry[p].mode = "auto"
  BY <1>1, KnownEntry
<1>3. ASSUME NEW k \in Entry
      PROVE  /\ e(k) \in Entry /\ e(k).bind = k.bind /\ e(k).fwd = k.fwd
             /\ e(k).missing = k.missing /\ e(k).mode = m(k)
             /\ e(k).scheme = k.scheme /\ e(k).pinned = k.pinned
             /\ e(k).pausedKeep = (k.pausedKeep /\ m(k) = "auto")
             /\ m(k) # k.mode
  <2>1. m(k) \in Modes /\ m(k) # k.mode
    BY DEF Entry, Modes, NextMode
  <2>2. /\ (IF m(k) = "off" THEN k.err ELSE 0) \in LocalPorts \cup {0}
        /\ (k.pausedKeep /\ m(k) = "auto") \in BOOLEAN
    BY DEF Entry
  <2> HIDE DEF m
  <2>3. e(k) \in Entry
    BY <2>1, <2>2, ZenonT(60) DEF Entry
  <2>4. /\ e(k).bind = k.bind /\ e(k).fwd = k.fwd
        /\ e(k).missing = k.missing /\ e(k).mode = m(k)
        /\ e(k).scheme = k.scheme /\ e(k).pinned = k.pinned
        /\ e(k).pausedKeep = (k.pausedKeep /\ m(k) = "auto")
    BY DEF Entry
  <2> QED  BY <2>1, <2>3, <2>4, Zenon
<1>4. m(entry[p]) = "auto" => entry[p].mode = "off"
  BY <1>2 DEF NextMode, Entry, Modes
<1> DEFINE f == e(entry[p])
<1>5. /\ f \in Entry /\ f.bind # "absent" /\ f.fwd = entry[p].fwd
      /\ f.missing = entry[p].missing
      /\ f.scheme = entry[p].scheme /\ f.pinned = entry[p].pinned
      /\ f.pausedKeep <=> entry[p].pausedKeep /\ f.mode = entry[p].mode
  <2>1. /\ f \in Entry /\ f.bind = entry[p].bind /\ f.fwd = entry[p].fwd
        /\ f.missing = entry[p].missing /\ f.mode = m(entry[p])
        /\ f.scheme = entry[p].scheme /\ f.pinned = entry[p].pinned
        /\ f.pausedKeep = (entry[p].pausedKeep /\ m(entry[p]) = "auto")
        /\ m(entry[p]) # entry[p].mode
    BY <1>2, <1>3, Zenon
  <2> HIDE DEF f, m
  <2> QED  BY <1>2, <1>4, <2>1
<1> HIDE DEF m, f
<1>6. Handed(p, f, sticky[p])
  BY <1>1, <1>2, <1>5 DEF Handed
<1>7. Apply(p, f, sticky[p])
  BY <1>1 DEF f
<1> QED  BY <1>1, <1>6, <1>7, HandedStep

LEMMA RelocatePortStep ==
  ASSUME IInv, NEW p \in Ports, NEW q \in LocalPorts \cup {0}, Relocate(p, q),
         Relocates(p), job = Free
  PROVE  \A r \in Ports : PortStep(r)
<1> DEFINE e(k) == [k EXCEPT !.pin = q, !.fwd = NoFwd, !.err = 0]
           f == e(entry[p])
<1>1. /\ TypeOK /\ p \in listed /\ Apply(p, f, 0)
      /\ listed' = listed \cup {p} /\ policy' = policy /\ closed' = closed
      /\ job.kind # "sync"
  BY DEF Relocate, Free, IInv, scanned
<1>2. /\ Known(p) = entry[p] /\ entry[p] \in Entry /\ entry[p].bind # "absent"
      /\ entry[p].pausedKeep => entry[p].mode = "auto"
  BY <1>1, KnownEntry
<1>3. ASSUME NEW k \in Entry
      PROVE  /\ e(k) \in Entry /\ e(k).bind = k.bind /\ e(k).fwd = NoFwd
             /\ e(k).missing = k.missing /\ e(k).mode = k.mode
             /\ e(k).scheme = k.scheme /\ e(k).pinned = k.pinned
             /\ e(k).pausedKeep = k.pausedKeep
  BY DEF Entry
<1>4. /\ f \in Entry /\ f.bind # "absent" /\ f.fwd = NoFwd
      /\ f.missing = entry[p].missing /\ f.mode = entry[p].mode
      /\ f.scheme = entry[p].scheme /\ f.pinned = entry[p].pinned
      /\ f.pausedKeep = entry[p].pausedKeep
  BY <1>2, <1>3, Zenon
<1> HIDE DEF f
<1>5. Handed(p, f, 0)
  BY <1>1, <1>2, <1>4 DEF Handed
<1> QED  BY <1>1, <1>5, HandedStep

LEMMA ForwardNowStep ==
  ASSUME IInv, NEW p \in Ports, ForwardNow(p)
  PROVE  \A q \in Ports : PortStep(q)
<1> DEFINE e(k) == [k EXCEPT !.mode = "on", !.pausedKeep = FALSE, !.err = 0]
           f == e(entry[p])
<1>1. /\ TypeOK /\ p \in listed /\ Apply(p, f, sticky[p])
      /\ listed' = listed \cup {p} /\ policy' = policy /\ closed' = closed
      /\ job.kind # "sync" /\ entry[p].mode # "off"
  BY DEF ForwardNow, Request, Unlocked, Free, Refuses, IInv, scanned
<1>2. /\ Known(p) = entry[p] /\ entry[p] \in Entry /\ entry[p].bind # "absent"
      /\ sticky[p] \in LocalPorts \cup {0}
      /\ entry[p].pausedKeep => entry[p].mode = "auto"
  BY <1>1, KnownEntry
<1>3. ASSUME NEW k \in Entry
      PROVE  /\ e(k) \in Entry /\ e(k).bind = k.bind /\ e(k).fwd = k.fwd
             /\ e(k).missing = k.missing /\ e(k).mode = "on"
             /\ e(k).scheme = k.scheme /\ e(k).pinned = k.pinned
             /\ e(k).pausedKeep = FALSE
  BY DEF Entry, Modes
<1>4. /\ f \in Entry /\ f.bind # "absent" /\ f.fwd = entry[p].fwd
      /\ f.missing = entry[p].missing /\ f.mode = "on"
      /\ f.scheme = entry[p].scheme /\ f.pinned = entry[p].pinned
      /\ f.pausedKeep = FALSE
  BY <1>2, <1>3, Zenon
<1> HIDE DEF f
<1>5. Handed(p, f, sticky[p])
  BY <1>1, <1>2, <1>4 DEF Handed
<1> QED  BY <1>1, <1>5, HandedStep

-----------------------------------------------------------------------------
(***************************************************************************)
(* The steps that do not call applyLocked.                                 *)
(***************************************************************************)
LEMMA SyncSweepStep ==
  ASSUME IInv, SyncSweep
  PROVE  \A q \in Ports : PortStep(q)
<1> SUFFICES ASSUME NEW q \in Ports PROVE PortStep(q)
  OBVIOUS
<1> DEFINE missed == {p \in listed : job.scan[p] = "absent"}
           gone   == {p \in missed : Gone(p)}
<1>1. /\ listed' = listed \ gone
      /\ entry' = [p \in Ports |->
                     IF p \in gone THEN Blank
                     ELSE IF p \in missed THEN [entry[p] EXCEPT !.missing = @ + 1]
                     ELSE entry[p]]
      /\ sticky' = sticky
  BY DEF SyncSweep, memory
<1>2. CASE q \in missed
  <2>1. q \in listed /\ job.scan[q] = "absent"
    BY <1>2
  <2>2. Gone(q) => q \notin listed' /\ entry'[q] = Blank
    BY <1>1, <1>2
  <2>3. ~Gone(q) => q \in listed' /\ entry'[q] = [entry[q] EXCEPT !.missing = @ + 1]
    BY <1>1, <1>2
  <2>4. Swept(q)
    BY <1>1, <2>1, <2>2, <2>3 DEF Swept
  <2> QED  BY <2>4 DEF PortStep
<1>3. CASE q \notin missed
  <2>1. Untouched(q)
    BY <1>1, <1>3 DEF Untouched
  <2> QED  BY <2>1 DEF PortStep
<1> QED  BY <1>2, <1>3

LEMMA LinkDownStep ==
  ASSUME IInv, LinkDown
  PROVE  \A q \in Ports : Downed(q)
<1> SUFFICES ASSUME NEW q \in Ports PROVE Downed(q)
  OBVIOUS
<1>1. /\ entry' = [p \in Ports |-> [entry[p] EXCEPT !.fwd = NoFwd, !.missing = 0]]
      /\ listed' = listed /\ sticky' = sticky
  BY DEF LinkDown, scanned, memory
<1>2. ASSUME NEW e \in Entry, NEW f, f = [e EXCEPT !.fwd = NoFwd, !.missing = 0]
      PROVE  /\ f.fwd = NoFwd /\ f.missing = 0 /\ f.mode = e.mode
             /\ f.scheme = e.scheme /\ f.pinned = e.pinned
             /\ f.pausedKeep = e.pausedKeep
  BY <1>2 DEF Entry
<1>3. entry[q] \in Entry /\ entry'[q] = [entry[q] EXCEPT !.fwd = NoFwd, !.missing = 0]
  BY <1>1 DEF IInv, TypeOK
<1>4. /\ entry'[q].fwd = NoFwd /\ entry'[q].missing = 0
      /\ entry'[q].mode = entry[q].mode
      /\ entry'[q].scheme = entry[q].scheme /\ entry'[q].pinned = entry[q].pinned
      /\ entry'[q].pausedKeep = entry[q].pausedKeep
  BY <1>2, <1>3, Zenon
<1> QED  BY <1>1, <1>4 DEF Downed, SameUser

LEMMA CloseStep ==
  ASSUME IInv, Close, ~LinkDown
  PROVE  \A q \in Ports : PortStep(q)
<1> SUFFICES ASSUME NEW q \in Ports PROVE PortStep(q)
  OBVIOUS
<1>1. /\ entry' = [p \in Ports |-> [entry[p] EXCEPT !.fwd = NoFwd]]
      /\ listed' = listed /\ sticky' = sticky
  BY DEF Close, scanned, memory
<1>2. ASSUME NEW e \in Entry, NEW f, f = [e EXCEPT !.fwd = NoFwd]
      PROVE  /\ f.fwd = NoFwd /\ f.missing = e.missing /\ f.mode = e.mode
             /\ f.scheme = e.scheme /\ f.pinned = e.pinned
             /\ f.pausedKeep = e.pausedKeep
  BY <1>2 DEF Entry
<1>3. entry[q] \in Entry /\ entry'[q] = [entry[q] EXCEPT !.fwd = NoFwd]
  BY <1>1 DEF IInv, TypeOK
<1>4. /\ entry'[q].fwd = NoFwd /\ entry'[q].missing = entry[q].missing
      /\ entry'[q].mode = entry[q].mode
      /\ entry'[q].scheme = entry[q].scheme /\ entry'[q].pinned = entry[q].pinned
      /\ entry'[q].pausedKeep = entry[q].pausedKeep
  BY <1>2, <1>3, Zenon
<1> QED  BY <1>1, <1>4 DEF PortStep, Downed, SameUser

LEMMA TogglePauseStep ==
  ASSUME IInv, TogglePause
  PROVE  \A q \in Ports : Exempted(q)
<1> SUFFICES ASSUME NEW q \in Ports PROVE Exempted(q)
  OBVIOUS
<1> DEFINE kept == Kept(q, ~policy.Paused)
<1>1. /\ entry' = [p \in Ports |->
                     [entry[p] EXCEPT !.pausedKeep = Kept(p, ~policy.Paused)]]
      /\ listed' = listed /\ sticky' = sticky
  BY DEF TogglePause, scanned, memory
<1>2. ASSUME NEW e \in Entry, NEW b \in BOOLEAN, NEW f, f = [e EXCEPT !.pausedKeep = b]
      PROVE  /\ f.fwd = e.fwd /\ f.missing = e.missing /\ f.mode = e.mode
             /\ f.scheme = e.scheme /\ f.pinned = e.pinned
             /\ f.pausedKeep = b
  BY <1>2 DEF Entry
<1>3. entry[q] \in Entry /\ entry'[q] = [entry[q] EXCEPT !.pausedKeep = kept]
  BY <1>1 DEF IInv, TypeOK
<1>4. kept \in BOOLEAN
  BY DEF Kept
<1> HIDE DEF kept
<1>5. /\ entry'[q].fwd = entry[q].fwd /\ entry'[q].missing = entry[q].missing
      /\ entry'[q].mode = entry[q].mode
      /\ entry'[q].scheme = entry[q].scheme /\ entry'[q].pinned = entry[q].pinned
      /\ entry'[q].pausedKeep = kept
  <2> DEFINE e == entry[q]
             f == entry'[q]
  <2>1. e \in Entry /\ f = [e EXCEPT !.pausedKeep = kept]
    BY <1>3
  <2> HIDE DEF e, f
  <2>2. /\ f.fwd = e.fwd /\ f.missing = e.missing /\ f.mode = e.mode
        /\ f.scheme = e.scheme /\ f.pinned = e.pinned /\ f.pausedKeep = kept
    BY <1>2, <1>4, <2>1
  <2> QED  BY <2>2 DEF e, f
<1>6. entry'[q].pausedKeep = Kept(q, ~policy.Paused)
  BY <1>5 DEF kept
<1> QED  BY <1>1, <1>5, <1>6 DEF Exempted, SameUser

\* One record changes in what is known of the service, or in its label.
LEMMA RestyledStep ==
  ASSUME IInv, NEW p \in listed, NEW f \in Entry, Becomes(p, f),
         UNCHANGED <<listed, sticky, policy, closed, job, dialer>>,
         f.mode = entry[p].mode, f.fwd = entry[p].fwd,
         f.missing = entry[p].missing, f.pausedKeep = entry[p].pausedKeep,
         f.pinned => \/ entry[p].pinned /\ f.scheme = entry[p].scheme
                     \/ SetScheme(p, f.scheme)
  PROVE  \A q \in Ports : PortStep(q)
<1>1. entry \in [Ports -> Entry] /\ p \in Ports
  BY DEF IInv, TypeOK
<1>2. entry'[p] = f /\ \A q \in Ports \ {p} : entry'[q] = entry[q]
  BY <1>1 DEF Becomes
<1>3. f.scheme \in Schemes
  BY DEF Entry
<1>4. Restyled(p)
  BY <1>2, <1>3 DEF Restyled, SameUser
<1>5. \A q \in Ports \ {p} : Untouched(q)
  BY <1>2 DEF Untouched
<1> QED  BY <1>4, <1>5 DEF PortStep

LEMMA SetSchemeStep ==
  ASSUME IInv, NEW p \in Ports, NEW s \in Schemes, SetScheme(p, s)
  PROVE  \A q \in Ports : PortStep(q)
<1> DEFINE f == [entry[p] EXCEPT !.scheme = s, !.pinned = s # "unknown"]
<1>1. /\ p \in listed /\ Becomes(p, f)
      /\ UNCHANGED <<listed, sticky, policy, closed, job, dialer>>
  BY DEF SetScheme, scanned, memory, link
<1>2. ASSUME NEW e \in Entry, NEW b \in BOOLEAN, NEW g,
             g = [e EXCEPT !.scheme = s, !.pinned = b]
      PROVE  /\ g \in Entry
             /\ g.mode = e.mode /\ g.fwd = e.fwd /\ g.missing = e.missing
             /\ g.pausedKeep = e.pausedKeep /\ g.scheme = s
  BY <1>2 DEF Entry
<1>3. entry[p] \in Entry /\ (s # "unknown") \in BOOLEAN
  BY DEF IInv, TypeOK
<1>4. /\ f \in Entry
      /\ f.mode = entry[p].mode /\ f.fwd = entry[p].fwd
      /\ f.missing = entry[p].missing
      /\ f.pausedKeep = entry[p].pausedKeep /\ f.scheme = s
  BY <1>2, <1>3, Zenon
<1> HIDE DEF f
<1>5. SetScheme(p, f.scheme)
  BY <1>4
<1> QED  BY <1>1, <1>4, <1>5, RestyledStep

LEMMA SetLabelStep ==
  ASSUME IInv, NEW p \in Ports, NEW label \in Labels \cup {""}, SetLabel(p, label)
  PROVE  \A q \in Ports : PortStep(q)
<1> DEFINE f == [entry[p] EXCEPT !.label = label]
<1>1. /\ p \in listed /\ Becomes(p, f)
      /\ UNCHANGED <<listed, sticky, policy, closed, job, dialer>>
  BY DEF SetLabel, scanned, memory, link
<1>2. ASSUME NEW e \in Entry, NEW g, g = [e EXCEPT !.label = label]
      PROVE  /\ g \in Entry
             /\ g.mode = e.mode /\ g.fwd = e.fwd /\ g.missing = e.missing
             /\ g.pausedKeep = e.pausedKeep
             /\ g.scheme = e.scheme /\ g.pinned = e.pinned
  BY <1>2 DEF Entry
<1>3. entry[p] \in Entry
  BY DEF IInv, TypeOK
<1>4. /\ f \in Entry
      /\ f.mode = entry[p].mode /\ f.fwd = entry[p].fwd
      /\ f.missing = entry[p].missing
      /\ f.pausedKeep = entry[p].pausedKeep
      /\ f.scheme = entry[p].scheme /\ f.pinned = entry[p].pinned
  BY <1>2, <1>3, Zenon
<1> HIDE DEF f
<1> QED  BY <1>1, <1>4, RestyledStep

LEMMA ObserveSchemeStep ==
  ASSUME IInv, NEW p \in Ports, NEW s \in Schemes, ObserveScheme(p, s)
  PROVE  \A q \in Ports : PortStep(q)
<1> DEFINE f == [entry[p] EXCEPT !.scheme = s]
<1>1. /\ p \in listed /\ Becomes(p, f) /\ ~entry[p].pinned
      /\ UNCHANGED <<listed, sticky, policy, closed, job, dialer>>
  BY DEF ObserveScheme, scanned, memory, link
<1>2. ASSUME NEW e \in Entry, NEW g, g = [e EXCEPT !.scheme = s]
      PROVE  /\ g \in Entry
             /\ g.mode = e.mode /\ g.fwd = e.fwd /\ g.missing = e.missing
             /\ g.pausedKeep = e.pausedKeep /\ g.pinned = e.pinned
  BY <1>2 DEF Entry
<1>3. entry[p] \in Entry
  BY DEF IInv, TypeOK
<1>4. /\ f \in Entry
      /\ f.mode = entry[p].mode /\ f.fwd = entry[p].fwd
      /\ f.missing = entry[p].missing
      /\ f.pausedKeep = entry[p].pausedKeep /\ f.pinned = entry[p].pinned
  BY <1>2, <1>3, Zenon
<1> HIDE DEF f
<1> QED  BY <1>1, <1>4, RestyledStep

(***************************************************************************)
(* Whatever the manager does, each port meets one of these fates.          *)
(***************************************************************************)
LEMMA NextPortStep ==
  ASSUME IInv, [Next]_vars
  PROVE  \A q \in Ports : PortStep(q)
<1>1. ASSUME UNCHANGED <<listed, entry, sticky>>
      PROVE  \A q \in Ports : PortStep(q)
  BY <1>1 DEF PortStep, Untouched
<1>2. ASSUME NEW p \in Ports, CycleScheme(p) PROVE \A q \in Ports : PortStep(q)
  <2>1. entry[p].scheme \in Schemes
    BY IInvParts DEF EntriesOK, Entry
  <2>2. NextScheme(entry[p].scheme) \in Schemes
    BY <2>1 DEF NextScheme, Schemes
  <2> QED  BY <1>2, <2>2, SetSchemeStep DEF CycleScheme
<1>3. ASSUME NEW p \in Ports, NEW q \in Pins \cup {0}, SetLocalPort(p, q)
      PROVE  \A r \in Ports : PortStep(r)
  <2>1. job = Free /\ Relocate(p, q) /\ q \in LocalPorts \cup {0} /\ ui' # ui
    BY <1>3 DEF SetLocalPort, Command, Unlocked, Remember, Idle
  <2> QED  BY <2>1, RelocatePortStep DEF Relocates
<1>4. ASSUME NEW p \in Ports, TryLocalPort(p) PROVE \A q \in Ports : PortStep(q)
  <2>1. job = Free /\ Relocate(p, p) /\ p \in LocalPorts \cup {0} /\ p \in moving
    BY <1>4 DEF TryLocalPort, Request, Unlocked
  <2> QED  BY <2>1, RelocatePortStep DEF Relocates
<1>5. CASE Sync
  <2>1. CASE SyncStart
    BY <2>1, <1>1 DEF SyncStart, memory
  <2> QED  BY <1>5, <2>1, SyncPortStep, SyncSweepStep DEF Sync
<1>6. CASE \E p \in Ports : ApplyNext(p)
  BY <1>6, ApplyNextStep
<1>7. CASE Supervise
  <2>1. CASE LinkUp
    BY <2>1, <1>1 DEF LinkUp, scanned, memory
  <2>2. CASE LinkDown
    BY <2>2, LinkDownStep DEF PortStep
  <2> QED  BY <1>7, <2>1, <2>2, CloseStep DEF Supervise
<1>8. CASE User
  <2>1. CASE CopyDecision
    BY <2>1, <1>1 DEF CopyDecision, scanned, memory
  <2>2. CASE StoreDecision
    BY <2>2, <1>1 DEF StoreDecision, scanned, memory
  <2>3. CASE TogglePause
    BY <2>3, TogglePauseStep DEF PortStep
  <2> QED  BY <1>2, <1>3, <1>8, <2>1, <2>2, <2>3, CycleModeStep, SetSchemeStep,
           SetLabelStep DEF User
<1>9. CASE Bridge
  <2>1. ASSUME NEW p \in Ports, ProbeLocalPort(p) \/ TryUnlisted(p)
        PROVE  \A q \in Ports : PortStep(q)
    BY <2>1, <1>1 DEF ProbeLocalPort, TryUnlisted, scanned, memory
  <2> QED  BY <1>4, <1>9, <2>1, ForwardNowStep DEF Bridge
<1>10. CASE Environment
  <2>1. ASSUME NEW q \in LocalPorts, OtherBinds(q) \/ OtherFrees(q)
        PROVE  \A r \in Ports : PortStep(r)
    BY <2>1, <1>1 DEF OtherBinds, OtherFrees, scanned, memory
  <2> QED  BY <1>10, <2>1, ObserveSchemeStep DEF Environment
<1>11. CASE Ended \/ UNCHANGED vars
  BY <1>11, <1>1 DEF Ended, vars
<1> QED  BY <1>5, <1>6, <1>7, <1>8, <1>9, <1>10, <1>11 DEF Next

-----------------------------------------------------------------------------
(***************************************************************************)
(* Remembered decisions (TunnelMemory).                                    *)
(***************************************************************************)
LEMMA MemoryStep ==
  ASSUME [Next]_vars
  PROVE  /\ saved' = saved \/ StoreDecision
         /\ ui' = ui \/ ui' = Idle \/ (\E p \in Ports : Remember(p)) \/ CopyDecision
<1>1. CASE Sync
  BY <1>1 DEF Sync, SyncStart, SyncPort, SyncSweep
<1>2. CASE \E p \in Ports : ApplyNext(p)
  BY <1>2 DEF ApplyNext
<1>3. CASE Supervise
  BY <1>3 DEF Supervise, LinkDown, LinkUp, Close
<1>4. CASE User
  BY <1>4 DEF User, TogglePause, CopyDecision, StoreDecision, CycleMode,
     CycleScheme, SetScheme, SetLocalPort, Relocate, SetLabel
<1>5. CASE Bridge
  BY <1>5 DEF Bridge, ForwardNow, ProbeLocalPort, TryLocalPort, TryUnlisted, Relocate
<1>6. CASE Environment
  BY <1>6 DEF Environment, OtherBinds, OtherFrees, ObserveScheme
<1>7. CASE Ended \/ UNCHANGED vars
  BY <1>7 DEF Ended, vars
<1> QED  BY <1>1, <1>2, <1>3, <1>4, <1>5, <1>6, <1>7 DEF Next

(***************************************************************************)
(* What keeps a guessed scheme out of the settings: a pinned scheme is one *)
(* the user set, in the entries, in the decision on its way to the         *)
(* settings, and in the settings a new entry starts from.                  *)
(***************************************************************************)
SchemesInv ==
  /\ chosen \in [Ports -> SUBSET Schemes]
  /\ \A p \in listed : entry[p].pinned => entry[p].scheme \in chosen[p]
  /\ ui.at = "store" => /\ ui.port \in Ports
                        /\ ui.decision.scheme \in chosen[ui.port] \cup {"unknown"}
  /\ OnlyChosenSchemesAreRemembered

(***************************************************************************)
(* What keeps a port that is off down: its entry is off and has no tunnel, *)
(* or it has no entry, and the choice is in the settings the next one      *)
(* starts from.                                                            *)
(***************************************************************************)
OffInv ==
  /\ \A p \in listed : entry[p].mode = "off" => ~Up(p)
  /\ \A p \in listed : latest[p] = "off" => entry[p].mode = "off"
  /\ \A p \in Ports \ listed : latest[p] \in {"none", saved[p].mode}

LEMMA MInitInv == MInit => SchemesInv /\ OffInv
<1> SUFFICES ASSUME MInit PROVE SchemesInv /\ OffInv
  OBVIOUS
<1>1. saved \in [Ports -> Decision] /\ listed = {} /\ ui = Idle
  BY DEF MInit, Init
<1>2. \A p \in Ports : saved[p].scheme \in Schemes
  BY <1>1 DEF Decision
<1>3. chosen \in [Ports -> SUBSET Schemes]
  BY <1>2 DEF MInit
<1> QED  BY <1>1, <1>3 DEF MInit, SchemesInv, OffInv, OnlyChosenSchemesAreRemembered, Idle

LEMMA SchemesStep ==
  ASSUME IInv, SchemesInv, [Next]_vars, NextChosen
  PROVE  SchemesInv'
<1>1. chosen' = [p \in Ports |-> chosen[p] \cup {s \in Schemes : SetScheme(p, s)}]
  BY DEF NextChosen
<1>2. chosen' \in [Ports -> SUBSET Schemes]
  BY <1>1 DEF SchemesInv
<1>3. \A p \in Ports : /\ chosen[p] \subseteq chosen'[p]
                       /\ \A s \in Schemes : SetScheme(p, s) => s \in chosen'[p]
  BY <1>1
<1>4. OnlyChosenSchemesAreRemembered'
  <2>1. CASE saved' = saved
    BY <2>1, <1>3 DEF SchemesInv, OnlyChosenSchemesAreRemembered
  <2>2. CASE StoreDecision
    <3>1. /\ saved \in [Ports -> Decision] /\ ui.at = "store"
          /\ saved' = [saved EXCEPT ![ui.port] = ui.decision]
      BY <2>2 DEF StoreDecision, IInv, TypeOK
    <3> QED  BY <3>1, <1>3 DEF SchemesInv, OnlyChosenSchemesAreRemembered
  <2> QED  BY <2>1, <2>2, MemoryStep
<1>5. ASSUME ui'.at = "store"
      PROVE  /\ ui'.port \in Ports
             /\ ui'.decision.scheme \in chosen'[ui'.port] \cup {"unknown"}
  <2>1. CASE ui' = ui
    BY <2>1, <1>3, <1>5 DEF SchemesInv
  <2>2. CASE CopyDecision
    <3> DEFINE p == ui.port
    <3>1. /\ p \in listed
          /\ ui' = [at |-> "store", port |-> p, decision |-> DecisionOf(entry[p])]
      BY <2>2, <1>5 DEF CopyDecision, Idle
    <3>2. p \in Ports
      BY <3>1 DEF IInv, TypeOK
    <3>3. ui'.decision.scheme = IF entry[p].pinned THEN entry[p].scheme ELSE "unknown"
      BY <3>1 DEF DecisionOf
    <3> QED  BY <3>1, <3>2, <3>3, <1>3 DEF SchemesInv
  <2>3. ui' # Idle /\ \A p \in Ports : ~Remember(p)
    BY <1>5 DEF Idle, Remember
  <2> QED  BY <2>1, <2>2, <2>3, MemoryStep
<1>6. ASSUME NEW p \in listed', entry'[p].pinned
      PROVE  entry'[p].scheme \in chosen'[p]
  <2>1. p \in Ports /\ PortStep(p)
    <3>1. listed' \subseteq Ports
      BY NextInv DEF IInv, TypeOK
    <3> QED  BY <3>1, <1>6, NextPortStep
  <2>2. ASSUME p \in listed, entry[p].pinned, entry'[p].scheme = entry[p].scheme
        PROVE  entry'[p].scheme \in chosen'[p]
    BY <2>1, <2>2, <1>3 DEF SchemesInv
  <2>3. ASSUME NEW e, NEW prev, Handled(p, e, prev)
        PROVE  entry'[p].scheme \in chosen'[p]
    <3>1. entry'[p].scheme = Known(p).scheme /\ entry'[p].pinned = Known(p).pinned
      BY <2>3, HandledFields
    <3>2. CASE p \in listed
      BY <3>1, <3>2, <2>2, <1>6 DEF Known
    <3>3. CASE p \notin listed
      <4>1. /\ entry'[p].scheme = saved[p].scheme
            /\ saved[p].scheme # "unknown"
        BY <3>1, <3>3, <1>6, RestoredFields DEF Known
      <4> QED  BY <4>1, <2>1, <1>3 DEF SchemesInv, OnlyChosenSchemesAreRemembered
    <3> QED  BY <3>2, <3>3
  <2>4. CASE Untouched(p)
    BY <2>4, <2>2, <1>6 DEF Untouched
  <2>5. CASE Swept(p)
    <3>1. p \in listed /\ entry'[p] = [entry[p] EXCEPT !.missing = @ + 1]
      BY <2>5, <1>6 DEF Swept
    <3>2. entry[p] \in Entry
      BY <2>1 DEF IInv, TypeOK
    <3>3. entry'[p].pinned = entry[p].pinned /\ entry'[p].scheme = entry[p].scheme
      BY <3>1, <3>2 DEF Entry
    <3> QED  BY <3>1, <3>3, <2>2, <1>6
  <2>6. CASE Downed(p) \/ Exempted(p)
    BY <2>6, <2>2, <1>6 DEF Downed, Exempted, SameUser
  <2>7. CASE Restyled(p)
    BY <2>7, <2>1, <2>2, <1>3, <1>6 DEF Restyled, SameUser
  <2> QED  BY <2>1, <2>3, <2>4, <2>5, <2>6, <2>7 DEF PortStep
<1> QED  BY <1>2, <1>4, <1>5, <1>6 DEF SchemesInv

LEMMA OffStep ==
  ASSUME IInv, OffInv, [Next]_vars, NextChosen
  PROVE  OffInv'
<1>0. /\ listed \subseteq Ports /\ listed' \subseteq Ports
      /\ \A p \in Ports : entry[p] \in Entry
  BY NextInv DEF IInv, TypeOK
<1>1. ASSUME NEW p \in Ports
      PROVE  latest'[p] = IF CycleMode(p) THEN entry'[p].mode
                          ELSE IF p \in listed' \/ saved'[p].mode = latest[p] THEN latest[p]
                          ELSE "none"
  BY DEF NextChosen
<1>2. ASSUME NEW p \in Ports, p \notin listed'
      PROVE  latest'[p] \in {"none", saved'[p].mode}
  <2>1. ~CycleMode(p)
    BY <1>2 DEF CycleMode, scanned
  <2> QED  BY <2>1, <1>1, <1>2
<1>3. ASSUME NEW p \in listed'
      PROVE  /\ entry'[p].mode = "off" => entry'[p].fwd = NoFwd
             /\ latest'[p] = "off" => entry'[p].mode = "off"
  <2>1. p \in Ports /\ PortStep(p)
    BY <1>0, <1>3, NextPortStep
  <2>2. CycleMode(p) => latest'[p] = entry'[p].mode
    BY <2>1, <1>1
  <2>3. ~CycleMode(p) => latest'[p] = latest[p]
    BY <2>1, <1>1, <1>3
  <2>4. ASSUME p \in listed, entry'[p].mode = entry[p].mode,
               entry'[p].fwd \in {NoFwd, entry[p].fwd}
        PROVE  /\ entry'[p].mode = "off" => entry'[p].fwd = NoFwd
               /\ latest'[p] = "off" => entry'[p].mode = "off"
    BY <2>2, <2>3, <2>4 DEF OffInv, Up
  <2>5. ASSUME NEW e, NEW prev, Handled(p, e, prev)
        PROVE  /\ entry'[p].mode = "off" => entry'[p].fwd = NoFwd
               /\ latest'[p] = "off" => entry'[p].mode = "off"
    <3>1. /\ Known(p).mode = "off" => entry'[p].mode = "off" \/ CycleMode(p)
          /\ entry'[p].mode = "off" => entry'[p].fwd = NoFwd
      BY <2>5, HandledFields
    <3>2. latest[p] = "off" => Known(p).mode = "off"
      <4>1. CASE p \in listed
        BY <4>1 DEF OffInv, Known
      <4>2. CASE p \notin listed
        BY <4>2, <2>1, RestoredFields DEF OffInv, Known
      <4> QED  BY <4>1, <4>2
    <3> QED  BY <2>2, <2>3, <3>1, <3>2
  <2>6. CASE Untouched(p)
    BY <2>4, <2>6, <1>3 DEF Untouched
  <2>7. CASE Swept(p)
    <3>1. p \in listed /\ entry'[p] = [entry[p] EXCEPT !.missing = @ + 1]
      BY <2>7, <1>3 DEF Swept
    <3>2. entry'[p].mode = entry[p].mode /\ entry'[p].fwd = entry[p].fwd
      BY <3>1, <2>1, <1>0 DEF Entry
    <3> QED  BY <3>1, <3>2, <2>4
  <2>8. CASE Downed(p) \/ Exempted(p) \/ Restyled(p)
    BY <2>8, <2>4, <1>3 DEF Downed, Exempted, Restyled, SameUser
  <2> QED  BY <2>1, <2>5, <2>6, <2>7, <2>8 DEF PortStep
<1> QED  BY <1>2, <1>3 DEF OffInv, Up

\* The history variables only watch the manager.
LEMMA MemoryWatches == MSpec => Spec
<1>1. MInit => Init
  BY DEF MInit
<1>2. [MNext]_<<vars, chosen, latest>> => [Next]_vars
  BY DEF MNext
<1> QED  BY <1>1, <1>2, PTL DEF MSpec, Spec

LEMMA MemoryInvariance == MSpec => [](IInv /\ SchemesInv /\ OffInv)
<1>1. ASSUME IInv, SchemesInv, OffInv, [MNext]_<<vars, chosen, latest>>
      PROVE  SchemesInv' /\ OffInv'
  <2>1. CASE MNext
    BY <1>1, <2>1, SchemesStep, OffStep DEF MNext
  <2>2. CASE UNCHANGED <<vars, chosen, latest>>
    <3>1. SchemesInv'
      BY <1>1, <2>2 DEF SchemesInv, OnlyChosenSchemesAreRemembered, vars
    <3>2. OffInv'
      BY <1>1, <2>2 DEF OffInv, Up, vars
    <3> QED  BY <3>1, <3>2
  <2> QED  BY <1>1, <2>1, <2>2
<1> QED  BY <1>1, MInitInv, MemoryWatches, Invariance, PTL DEF MSpec

(***************************************************************************)
(* A scheme in the settings is one the user set: what was observed is      *)
(* never remembered as a decision, whatever scans, keys and stores         *)
(* interleave.                                                             *)
(***************************************************************************)
THEOREM SchemesAreChosen == MSpec => []OnlyChosenSchemesAreRemembered
<1>1. SchemesInv => OnlyChosenSchemesAreRemembered
  BY DEF SchemesInv
<1> QED  BY <1>1, MemoryInvariance, PTL

(***************************************************************************)
(* A port the user switched off has no tunnel until the user switches it   *)
(* again, even when its service goes away and comes back.                  *)
(***************************************************************************)
THEOREM OffStaysOff == MSpec => []OffIsFinal
<1>1. OffInv => OffIsFinal
  BY DEF OffInv, OffIsFinal
<1> QED  BY <1>1, MemoryInvariance, PTL

-----------------------------------------------------------------------------
(***************************************************************************)
(* Promises about the past (TunnelHistory).                                *)
(***************************************************************************)
\* Who drops the link, pauses, starts and ends a scan, and may move a tunnel.
LEMMA SessionStep ==
  ASSUME IInv, [Next]_vars
  PROVE  /\ Dropping => LinkDown
         /\ policy' = policy \/ TogglePause
         /\ job.kind # "sync" /\ job'.kind = "sync" => SyncStart
         /\ job.kind = "sync" => job' = job \/ SyncSweep \/ \E p \in Ports : SyncPort(p)
         /\ \A p \in moving' : p \in moving \/ Up(p)
<1>1. job \in Job
  BY DEF IInv, TypeOK, JobOK
<1>2. listed \subseteq Ports /\ ApplyAll.kind # "sync"
  BY DEF IInv, TypeOK, ApplyAll, Free
<1>3. CASE Sync
  <2>1. CASE SyncStart
    BY <2>1 DEF SyncStart, Unlocked, Free, Dropping, link
  <2>2. CASE SyncSweep
    BY <2>2 DEF SyncSweep, Dropping, link
  <2>3. ASSUME NEW p \in Ports, SyncPort(p)
        PROVE  /\ UNCHANGED <<dialer, policy, moving>>
               /\ job.kind = "sync"
    BY <2>3 DEF SyncPort, link
  <2> QED  BY <1>3, <2>1, <2>2, <2>3 DEF Sync, Dropping
<1>4. CASE \E p \in Ports : ApplyNext(p)
  <2>1. PICK p \in Ports : ApplyNext(p)
    BY <1>4
  <2>2. UNCHANGED <<dialer, policy, moving>> /\ job.kind = "apply" /\ job'.kind # "sync"
    BY <1>1, <2>1 DEF ApplyNext, Free, Job, link
  <2> QED  BY <2>2 DEF Dropping
<1>5. CASE Supervise
  <2>1. CASE LinkDown
    BY <2>1 DEF LinkDown, Unlocked, Free
  <2>2. CASE LinkUp
    BY <1>2, <2>2 DEF LinkUp, Unlocked, Free, Dropping
  <2>3. CASE Close
    BY <2>3 DEF Close, Dropping, link
  <2> QED  BY <1>5, <2>1, <2>2, <2>3 DEF Supervise
<1>6. CASE User
  <2>1. CASE TogglePause
    BY <1>2, <2>1 DEF TogglePause, Command, Unlocked, Free, Dropping, link
  <2>2. CASE CopyDecision \/ StoreDecision
    BY <2>2 DEF CopyDecision, StoreDecision, Dropping, link
  <2>3. CASE \E p \in Ports : \/ CycleMode(p)
                              \/ CycleScheme(p)
                              \/ \E s \in Schemes : SetScheme(p, s)
                              \/ \E q \in Pins \cup {0} : SetLocalPort(p, q)
                              \/ \E label \in Labels \cup {""} : SetLabel(p, label)
    BY <2>3 DEF CycleMode, CycleScheme, SetScheme, SetLocalPort, Relocate, SetLabel,
       Dropping, link
  <2> QED  BY <1>6, <2>1, <2>2, <2>3 DEF User
<1>7. CASE Bridge
  BY <1>7 DEF Bridge, ForwardNow, ProbeLocalPort, TryLocalPort, TryUnlisted,
     Relocate, Dropping, link
<1>8. CASE Environment
  BY <1>8 DEF Environment, OtherBinds, OtherFrees, ObserveScheme, Dropping, link
<1>9. CASE Ended \/ UNCHANGED vars
  BY <1>9 DEF Ended, vars, Dropping
<1> QED  BY <1>3, <1>4, <1>5, <1>6, <1>7, <1>8, <1>9 DEF Next

(***************************************************************************)
(* The manager's exemptions are the tunnels that were up when the pause    *)
(* began and that nobody touched since; and while the pause lasts, no      *)
(* other automatic port has a tunnel.                                      *)
(***************************************************************************)
PauseInv ==
  /\ current = {p \in listed : entry[p].pausedKeep}
  /\ policy.Paused => \A p \in listed : Up(p) /\ entry[p].mode = "auto" => entry[p].pausedKeep

LEMMA PauseStep ==
  ASSUME IInv, PauseInv, [Next]_vars, NextCurrent
  PROVE  PauseInv'
<1>1. /\ listed \subseteq Ports /\ listed' \subseteq Ports
      /\ \A p \in Ports : entry[p] \in Entry
      /\ policy \in PolicyOver(Ports)
  BY NextInv DEF IInv, TypeOK
<1>2. CASE TogglePause
  <2>1. \A p \in Ports : Exempted(p)
    BY <1>2, TogglePauseStep
  <2>2. listed' = listed /\ policy'.Paused = ~policy.Paused /\ policy.Paused \in BOOLEAN
    BY <1>1, <1>2 DEF TogglePause, scanned, PolicyOver
  <2>3. CASE policy.Paused
    <3>1. \A p \in Ports : ~entry'[p].pausedKeep
      BY <2>1, <2>3 DEF Exempted, Kept
    <3>2. current' = {}
      BY <2>2, <2>3 DEF NextCurrent, Pausing, Resuming
    <3> QED  BY <1>1, <2>2, <2>3, <3>1, <3>2 DEF PauseInv
  <2>4. CASE ~policy.Paused
    <3>1. \A p \in Ports : /\ entry'[p].pausedKeep <=> entry[p].mode = "auto" /\ Up(p)
                           /\ entry'[p].mode = entry[p].mode
                           /\ entry'[p].fwd = entry[p].fwd
      BY <2>1, <2>4 DEF Exempted, SameUser, Kept
    <3>2. current' = {p \in listed : Up(p) /\ entry[p].mode = "auto"}
      BY <2>2, <2>4 DEF NextCurrent, Pausing
    <3> QED  BY <1>1, <2>2, <3>1, <3>2 DEF PauseInv, Up
  <2> QED  BY <2>3, <2>4
<1>3. CASE policy' = policy
  <2>1. current' = {p \in current \cap listed' : ~Switched(p)}
    BY <1>3 DEF NextCurrent, Pausing, Resuming
  <2>2. ASSUME NEW p \in listed'
        PROVE  /\ entry'[p].pausedKeep <=> /\ p \in listed /\ entry[p].pausedKeep
                                           /\ entry'[p].mode = entry[p].mode
               /\ policy.Paused /\ entry'[p].fwd # NoFwd /\ entry'[p].mode = "auto"
                    => entry'[p].pausedKeep
    <3>1. p \in Ports /\ PortStep(p)
      BY <1>1, <2>2, NextPortStep
    <3>2. ASSUME NEW e, NEW prev, Handled(p, e, prev)
          PROVE  /\ entry'[p].pausedKeep <=> /\ p \in listed /\ entry[p].pausedKeep
                                             /\ entry'[p].mode = entry[p].mode
                 /\ policy.Paused /\ entry'[p].fwd # NoFwd /\ entry'[p].mode = "auto"
                      => entry'[p].pausedKeep
      <4>1. /\ entry'[p].pausedKeep
                 <=> Known(p).pausedKeep /\ entry'[p].mode = Known(p).mode
            /\ policy.Paused /\ entry'[p].mode = "auto" /\ entry'[p].fwd # NoFwd
                 => entry'[p].pausedKeep
        BY <3>2, HandledFields
      <4> QED  BY <4>1, RestoredFields DEF Known
    <3>3. ASSUME p \in listed, entry'[p].mode = entry[p].mode,
                 entry'[p].fwd \in {NoFwd, entry[p].fwd},
                 entry'[p].pausedKeep = entry[p].pausedKeep
          PROVE  /\ entry'[p].pausedKeep <=> /\ p \in listed /\ entry[p].pausedKeep
                                             /\ entry'[p].mode = entry[p].mode
                 /\ policy.Paused /\ entry'[p].fwd # NoFwd /\ entry'[p].mode = "auto"
                      => entry'[p].pausedKeep
      BY <3>3 DEF PauseInv, Up
    <3>4. CASE Untouched(p)
      BY <2>2, <3>3, <3>4 DEF Untouched
    <3>5. CASE Swept(p)
      <4>1. p \in listed /\ entry'[p] = [entry[p] EXCEPT !.missing = @ + 1]
        BY <2>2, <3>5 DEF Swept
      <4>2. /\ entry'[p].mode = entry[p].mode /\ entry'[p].fwd = entry[p].fwd
            /\ entry'[p].pausedKeep = entry[p].pausedKeep
        BY <4>1, <3>1, <1>1 DEF Entry
      <4> QED  BY <4>1, <4>2, <3>3
    <3>6. CASE Downed(p) \/ Restyled(p)
      BY <2>2, <3>3, <3>6 DEF Downed, Restyled, SameUser
    <3>7. ~Exempted(p)
      BY <1>1, <1>3 DEF Exempted, TogglePause, PolicyOver
    <3> QED  BY <3>1, <3>2, <3>4, <3>5, <3>6, <3>7 DEF PortStep
  <2>3. current' = {p \in listed' : entry'[p].pausedKeep}
    BY <2>1, <2>2 DEF PauseInv, Switched
  <2> QED  BY <1>3, <2>2, <2>3 DEF PauseInv, Up
<1> QED  BY <1>2, <1>3, SessionStep

(***************************************************************************)
(* The allocator keeps the local port of every tunnel; and, for as long as *)
(* nobody moves it, the one a tunnel had when the link was lost.  The      *)
(* bridge moves none then: a probe precedes its moves, and needs a tunnel. *)
(***************************************************************************)
HeldInv ==
  \A p \in Ports :
    /\ Up(p) => sticky[p] = entry[p].fwd.local
    /\ held[p] # 0 => ~Up(p) /\ sticky[p] = held[p] /\ p \notin moving

LEMMA HeldStep ==
  ASSUME IInv, HeldInv, [Next]_vars, NextHeld
  PROVE  HeldInv'
<1> SUFFICES ASSUME NEW p \in Ports
             PROVE  /\ entry'[p].fwd # NoFwd => sticky'[p] = entry'[p].fwd.local
                    /\ held'[p] # 0 => /\ entry'[p].fwd = NoFwd
                                       /\ sticky'[p] = held'[p] /\ p \notin moving'
  BY DEF HeldInv, Up
<1>1. /\ PortStep(p) /\ entry[p] \in Entry
      /\ p \notin listed => ~Up(p)
  BY NextPortStep, BlankType DEF IInv, TypeOK, Up
<1>2. held'[p] = IF Dropping /\ Up(p) THEN entry[p].fwd.local
                 ELSE IF Up(p)' \/ Forgets(p) THEN 0
                 ELSE held[p]
  BY DEF NextHeld
<1>3. ASSUME entry'[p].fwd \in {NoFwd, entry[p].fwd}, sticky'[p] = sticky[p]
      PROVE  entry'[p].fwd # NoFwd => sticky'[p] = entry'[p].fwd.local
  BY <1>3 DEF HeldInv, Up
<1>4. ASSUME NEW e, NEW prev, Handled(p, e, prev)
      PROVE  /\ entry'[p].fwd # NoFwd => sticky'[p] = entry'[p].fwd.local
             /\ entry'[p].fwd = NoFwd => sticky'[p] \in {0, sticky[p]}
  <2>1. /\ \/ entry'[p].fwd \in {NoFwd, e.fwd} /\ sticky'[p] = prev
           \/ entry'[p].fwd # NoFwd /\ sticky'[p] = entry'[p].fwd.local
        /\ \/ prev = sticky[p] /\ e.fwd = Known(p).fwd
           \/ prev = 0 /\ e.fwd = NoFwd
    BY <1>4 DEF Handled, Handed, Granted
  <2>2. Known(p).fwd = entry[p].fwd \/ Known(p).fwd = NoFwd
    BY RestoredFields DEF Known
  <2> QED  BY <2>1, <2>2, <1>3
<1>5. Swept(p) => entry'[p].fwd \in {NoFwd, entry[p].fwd}
  <2>1. Blank.fwd = NoFwd /\ [entry[p] EXCEPT !.missing = @ + 1].fwd = entry[p].fwd
    BY <1>1, BlankType DEF Entry
  <2> QED  BY <2>1 DEF Swept
<1>6. Untouched(p) \/ Swept(p) \/ Downed(p) \/ Exempted(p) \/ Restyled(p)
      => entry'[p].fwd \in {NoFwd, entry[p].fwd} /\ sticky'[p] = sticky[p]
  BY <1>5 DEF Untouched, Swept, Downed, Exempted, Restyled, SameUser
<1>7. /\ entry'[p].fwd # NoFwd => sticky'[p] = entry'[p].fwd.local
      /\ entry'[p].fwd = NoFwd => sticky'[p] \in {0, sticky[p]}
  <2>1. CASE Untouched(p) \/ Swept(p) \/ Downed(p) \/ Exempted(p) \/ Restyled(p)
    BY <1>3, <1>6, <2>1
  <2>2. CASE \E e, prev : Handled(p, e, prev)
    BY <1>4, <2>2
  <2> QED  BY <1>1, <2>1, <2>2 DEF PortStep
<1>8. ASSUME held'[p] # 0
      PROVE  entry'[p].fwd = NoFwd /\ sticky'[p] = held'[p] /\ p \notin moving'
  <2>1. CASE Dropping /\ Up(p)
    <3>1. LinkDown /\ Downed(p)
      BY <2>1, SessionStep, LinkDownStep
    <3>2. moving' = {} /\ sticky'[p] = sticky[p] /\ entry'[p].fwd = NoFwd
      BY <3>1 DEF LinkDown, Downed, SameUser
    <3> QED  BY <1>2, <2>1, <3>2 DEF HeldInv
  <2>2. CASE ~(Dropping /\ Up(p))
    <3>1. /\ entry'[p].fwd = NoFwd /\ ~Forgets(p) /\ held'[p] = held[p]
          /\ sticky[p] = held[p] /\ p \notin moving /\ ~Up(p)
      BY <1>2, <1>8, <2>2 DEF HeldInv, Up
    <3>2. sticky'[p] = sticky[p]
      BY <1>7, <1>8, <3>1 DEF Forgets
    <3>3. p \notin moving'
      BY <3>1, SessionStep
    <3> QED  BY <3>1, <3>2, <3>3
  <2> QED  BY <2>1, <2>2
<1> QED  BY <1>7, <1>8

\* The allocator grants the port it is asked for, or the one it remembers,
\* as long as that is free.
LEMMA AllocateRestores ==
  ASSUME NEW p, NEW preferred, NEW prev, prev # 0, prev \notin InUse(p),
         NEW a \in Allocate(p, preferred, prev)
  PROVE  a.err = 0 /\ a.local \in {preferred, prev}
<1> DEFINE open(q)  == q # 0 /\ q \notin InUse(p)
<1>1. CASE open(preferred)
  <2>1. a = [local |-> preferred, remapped |-> preferred # p, err |-> 0]
    BY <1>1 DEF Allocate
  <2> QED  BY <2>1
<1>2. CASE ~open(preferred) /\ prev # p
  <2>1. a = [local |-> prev, remapped |-> TRUE, err |-> 0]
    BY <1>2 DEF Allocate
  <2> QED  BY <2>1
<1>3. CASE ~open(preferred) /\ prev = p
  <2>1. a = [local |-> p, remapped |-> FALSE, err |-> 0]
    BY <1>3 DEF Allocate
  <2> QED  BY <1>3, <2>1
<1> QED  BY <1>1, <1>2, <1>3

LEMMA RestoresStep ==
  ASSUME IInv, HeldInv, [Next]_vars, NEW p \in Ports,
         held[p] # 0, ~Up(p), Up(p)', UNCHANGED ui, held[p] \notin InUse(p)
  PROVE  entry'[p].fwd.local \in {held[p], entry'[p].pin}
<1>1. /\ PortStep(p) /\ entry[p].fwd = NoFwd /\ entry'[p].fwd # NoFwd
      /\ sticky[p] = held[p] /\ p \notin moving /\ entry[p] \in Entry
  BY NextPortStep DEF HeldInv, IInv, TypeOK, Up
<1>2. ~Untouched(p) /\ ~Downed(p) /\ ~Exempted(p) /\ ~Restyled(p)
  BY <1>1 DEF Untouched, Downed, Exempted, Restyled
<1>3. ~Swept(p)
  <2>1. Blank.fwd = NoFwd /\ [entry[p] EXCEPT !.missing = @ + 1].fwd = NoFwd
    BY <1>1, BlankType DEF Entry
  <2> QED  BY <1>1, <2>1 DEF Swept
<1>4. ASSUME NEW e, NEW prev, Handled(p, e, prev)
      PROVE  entry'[p].fwd.local \in {held[p], entry'[p].pin}
  <2>1. Known(p).fwd = NoFwd
    BY <1>1, RestoredFields DEF Known
  <2>2. e.fwd = NoFwd /\ prev = sticky[p]
    BY <1>1, <1>4, <2>1 DEF Handled, Handed, Relocates
  <2>3. Granted(p, e, prev) /\ entry'[p].pin = e.pin
    BY <1>1, <1>4, <2>2 DEF Handled
  <2>4. PICK a \in Allocate(p, e.pin, prev) : a.err = 0 /\ a.local = entry'[p].fwd.local
    BY <2>3 DEF Granted
  <2>5. a.local \in {e.pin, prev}
    BY <1>1, <2>2, <2>4, AllocateRestores
  <2> QED  BY <1>1, <2>2, <2>3, <2>4, <2>5
<1> QED  BY <1>1, <1>2, <1>3, <1>4 DEF PortStep

(***************************************************************************)
(* The last m scans of r did not show p, and the one before them did.      *)
(***************************************************************************)
SinceSeen(p, r, m) ==
  /\ m <= Len(r)
  /\ \A i \in 1..Len(r) : i > Len(r) - m => p \notin r[i]
  /\ m < Len(r) => p \in r[Len(r) - m]

LEMMA SeenAppend ==
  ASSUME NEW S, NEW r \in Seq(S), NEW x \in S, NEW p, NEW m \in Nat,
         SinceSeen(p, r, m), p \notin x
  PROVE  SinceSeen(p, Append(r, x), m + 1)
<1> DEFINE all == Append(r, x)
<1>1. /\ Len(r) \in Nat /\ Len(all) = Len(r) + 1
      /\ \A i \in 1..Len(r) : all[i] = r[i]
      /\ all[Len(r) + 1] = x
  OBVIOUS
<1> HIDE DEF all
<1>2. m + 1 <= Len(all)
  BY <1>1 DEF SinceSeen
<1>3. ASSUME NEW i \in 1..Len(all), i > Len(all) - (m + 1) PROVE p \notin all[i]
  <2>1. CASE i = Len(r) + 1
    BY <1>1, <2>1
  <2>2. CASE i # Len(r) + 1
    <3>1. i \in 1..Len(r) /\ i > Len(r) - m
      BY <1>1, <1>3, <2>2
    <3> QED  BY <1>1, <3>1 DEF SinceSeen
  <2> QED  BY <2>1, <2>2
<1>4. ASSUME m + 1 < Len(all) PROVE p \in all[Len(all) - (m + 1)]
  <2>1. m < Len(r) /\ Len(all) - (m + 1) = Len(r) - m /\ Len(r) - m \in 1..Len(r)
    BY <1>1, <1>4
  <2> QED  BY <1>1, <2>1 DEF SinceSeen
<1> QED  BY <1>2, <1>3, <1>4 DEF SinceSeen, all

LEMMA SeenTail ==
  ASSUME NEW S, NEW r \in Seq(S), NEW p, NEW m \in Nat, SinceSeen(p, r, m), m < Len(r)
  PROVE  SinceSeen(p, Tail(r), m)
<1> DEFINE rest == Tail(r)
<1>1. /\ Len(r) \in Nat /\ Len(r) >= 1 /\ Len(rest) = Len(r) - 1
      /\ \A i \in 1..Len(rest) : rest[i] = r[i + 1]
  OBVIOUS
<1> HIDE DEF rest
<1>2. m <= Len(rest)
  BY <1>1
<1>3. ASSUME NEW i \in 1..Len(rest), i > Len(rest) - m PROVE p \notin rest[i]
  <2>1. i + 1 \in 1..Len(r) /\ i + 1 > Len(r) - m
    BY <1>1, <1>3
  <2> QED  BY <1>1, <2>1 DEF SinceSeen
<1>4. ASSUME m < Len(rest) PROVE p \in rest[Len(rest) - m]
  <2>1. /\ Len(rest) - m \in 1..Len(rest)
        /\ (Len(rest) - m) + 1 = Len(r) - m
    BY <1>1, <1>4
  <2>2. rest[Len(rest) - m] = r[Len(r) - m]
    BY <1>1, <2>1
  <2> QED  BY <2>2 DEF SinceSeen
<1> QED  BY <1>2, <1>3, <1>4 DEF SinceSeen, rest

(***************************************************************************)
(* The counter of an entry is the number of scans since its service was    *)
(* seen last.  While a scan is processed, it lags behind by that scan,     *)
(* except for the services already visited.                                *)
(***************************************************************************)
CountsOK(p, r, j) ==
  /\ entry[p].missing \in Nat /\ entry[p].missing < Grace
  /\ j.kind # "sync" => SinceSeen(p, r, entry[p].missing)
  /\ j.kind = "sync" /\ j.scan[p] = "absent" => SinceSeen(p, r, entry[p].missing + 1)
  /\ j.kind = "sync" /\ j.scan[p] # "absent" /\ p \notin j.todo => entry[p].missing = 0

ScanInv ==
  /\ recent \in Seq(SUBSET Ports) /\ Len(recent) <= Grace
  /\ job.kind = "sync" => /\ recent # << >>
                          /\ recent[Len(recent)] = Found(job.scan)
  /\ \A p \in listed : CountsOK(p, recent, job)

\* A scan is recorded.
LEMMA ScanStartStep ==
  ASSUME IInv, ScanInv, SyncStart, NextRecent
  PROVE  ScanInv'
<1>1. /\ job.kind = "free" /\ dialer # 0 /\ UNCHANGED <<listed, entry, dialer>>
      /\ listed \subseteq Ports
  BY DEF SyncStart, Unlocked, Free, link, IInv, TypeOK
<1>2. PICK scan \in Snaps : job' = [kind |-> "sync", todo |-> Found(scan), scan |-> scan]
  BY DEF SyncStart, Found
<1> DEFINE all == Append(recent, Found(scan))
<1>3. recent' = IF Len(all) > Grace THEN Tail(all) ELSE all
  BY <1>1, <1>2 DEF NextRecent, Dropping, Scanning
<1>4. /\ recent \in Seq(SUBSET Ports) /\ Found(scan) \in SUBSET Ports
      /\ Len(recent) \in Nat /\ Len(recent) <= Grace
  BY DEF ScanInv, Found
<1>5. /\ all \in Seq(SUBSET Ports) /\ Len(all) = Len(recent) + 1
      /\ all[Len(all)] = Found(scan)
  BY <1>4
<1> HIDE DEF all
<1>6. /\ recent' \in Seq(SUBSET Ports) /\ Len(recent') <= Grace
      /\ recent' # << >> /\ recent'[Len(recent')] = Found(scan)
  <2>1. CASE Len(all) > Grace
    <3>1. recent' = Tail(all) /\ Len(all) = Grace + 1 /\ Len(all) >= 2
      BY <1>3, <1>4, <1>5, <2>1
    <3>2. /\ recent' \in Seq(SUBSET Ports) /\ Len(recent') = Len(all) - 1
          /\ recent'[Len(all) - 1] = all[Len(all)]
      BY <1>5, <3>1
    <3> QED  BY <1>5, <3>1, <3>2
  <2>2. CASE ~(Len(all) > Grace)
    BY <1>3, <1>4, <1>5, <2>2
  <2> QED  BY <2>1, <2>2
<1>7. ASSUME NEW p \in listed PROVE CountsOK(p, recent, job)'
  <2>1. /\ entry[p].missing \in Nat /\ entry[p].missing < Grace
        /\ SinceSeen(p, recent, entry[p].missing)
        /\ entry'[p] = entry[p] /\ p \in Ports
    BY <1>1, <1>7 DEF ScanInv, CountsOK
  <2>2. job'.kind = "sync" /\ job'.scan = scan /\ job'.todo = Found(scan)
    BY <1>2
  <2>3. scan[p] # "absent" => p \in Found(scan)
    BY <2>1 DEF Found
  <2>4. ASSUME scan[p] = "absent" PROVE SinceSeen(p, recent', entry[p].missing + 1)
    <3>1. p \notin Found(scan)
      BY <2>4 DEF Found
    <3>2. SinceSeen(p, all, entry[p].missing + 1)
      BY <1>4, <2>1, <3>1, SeenAppend DEF all
    <3>3. CASE Len(all) > Grace
      <4>1. entry[p].missing + 1 \in Nat /\ entry[p].missing + 1 < Len(all)
        BY <1>4, <1>5, <2>1, <3>3
      <4>2. SinceSeen(p, Tail(all), entry[p].missing + 1)
        BY <1>5, <3>2, <4>1, SeenTail
      <4> QED  BY <1>3, <3>3, <4>2
    <3>4. CASE ~(Len(all) > Grace)
      BY <1>3, <3>2, <3>4
    <3> QED  BY <3>3, <3>4
  <2> QED  BY <2>1, <2>2, <2>3, <2>4 DEF CountsOK
<1> QED  BY <1>1, <1>2, <1>6, <1>7 DEF ScanInv

\* The scan has been processed.
LEMMA ScanSweepStep ==
  ASSUME IInv, ScanInv, SyncSweep, NextRecent
  PROVE  ScanInv'
<1> DEFINE missed == {p \in listed : job.scan[p] = "absent"}
           gone   == {p \in missed : Gone(p)}
<1>1. /\ job.kind = "sync" /\ job.todo = {} /\ job' = Free /\ dialer' = dialer
      /\ listed' = listed \ gone
      /\ entry' = [p \in Ports |->
                     IF p \in gone THEN Blank
                     ELSE IF p \in missed THEN [entry[p] EXCEPT !.missing = @ + 1]
                     ELSE entry[p]]
  BY DEF SyncSweep, link
<1>2. recent' = recent /\ job'.kind # "sync"
  BY <1>1 DEF NextRecent, Dropping, Scanning, Free
<1>3. ASSUME NEW p \in listed' PROVE CountsOK(p, recent, job)'
  <2>1. /\ p \in listed /\ p \notin gone /\ p \in Ports /\ entry[p] \in Entry
        /\ entry[p].missing \in Nat /\ entry[p].missing < Grace
    BY <1>1, <1>3 DEF IInv, TypeOK, ScanInv, CountsOK
  <2>2. CASE p \in missed
    <3>1. entry'[p] = [entry[p] EXCEPT !.missing = @ + 1]
      BY <1>1, <2>1, <2>2
    <3>2. entry'[p].missing = entry[p].missing + 1
      BY <2>1, <3>1 DEF Entry
    <3>3. entry[p].missing + 1 < Grace
      BY <2>1, <2>2 DEF Gone
    <3>4. SinceSeen(p, recent, entry[p].missing + 1)
      BY <1>1, <2>1, <2>2 DEF ScanInv, CountsOK
    <3> QED  BY <1>2, <2>1, <3>2, <3>3, <3>4 DEF CountsOK
  <2>3. CASE p \notin missed
    <3>1. entry'[p] = entry[p] /\ job.scan[p] # "absent"
      BY <1>1, <2>1, <2>3
    <3>2. entry[p].missing = 0
      BY <1>1, <2>1, <3>1 DEF ScanInv, CountsOK
    <3>3. SinceSeen(p, recent, 0)
      <4>1. p \in recent[Len(recent)] /\ Len(recent) \in Nat
        BY <1>1, <2>1, <3>1 DEF ScanInv, Found
      <4> QED  BY <4>1 DEF SinceSeen
    <3> QED  BY <1>2, <2>1, <3>1, <3>2, <3>3 DEF CountsOK
  <2> QED  BY <2>2, <2>3
<1> QED  BY <1>2, <1>3 DEF ScanInv

\* The other steps count nothing, but for the visit of a service that was
\* found.
LEMMA MissingStep ==
  ASSUME IInv, NEW p \in Ports, p \in listed', PortStep(p), ~SyncSweep, ~LinkDown
  PROVE  \/ p \in listed /\ entry'[p].missing = entry[p].missing
         \/ job.kind = "sync" /\ p \in job.todo /\ entry'[p].missing = 0
<1>1. ASSUME NEW e, NEW prev, Handled(p, e, prev)
      PROVE  \/ p \in listed /\ entry'[p].missing = entry[p].missing
             \/ job.kind = "sync" /\ p \in job.todo /\ entry'[p].missing = 0
  <2>1. entry'[p].missing = e.missing
    BY <1>1, HandledFields
  <2> QED  BY <1>1, <2>1 DEF Handled, Handed
<1> QED  BY <1>1 DEF PortStep, Untouched, Swept, Downed, Exempted, Restyled, SameUser

LEMMA ScanOtherStep ==
  ASSUME IInv, ScanInv, [Next]_vars, NextRecent, ~SyncStart, ~SyncSweep
  PROVE  ScanInv'
<1>1. /\ listed' \subseteq Ports /\ JobOK /\ JobOK'
  BY NextInv DEF IInv, TypeOK
<1>2. CASE LinkDown
  <2>1. recent' = << >>
    BY <1>2 DEF LinkDown, NextRecent, Dropping
  <2>2. \A p \in listed' : entry'[p].missing = 0
    BY <1>1, <1>2, LinkDownStep DEF Downed
  <2>3. job'.kind # "sync"
    BY <1>2 DEF LinkDown, Unlocked, Free
  <2>4. \A p : SinceSeen(p, << >>, 0)
    BY DEF SinceSeen
  <2>5. 0 \in Nat /\ 0 < Grace
    OBVIOUS
  <2>6. \A p \in listed' : CountsOK(p, recent, job)'
    BY <2>1, <2>2, <2>3, <2>4, <2>5 DEF CountsOK
  <2> QED  BY <2>1, <2>3, <2>6 DEF ScanInv
<1>3. CASE ~LinkDown
  <2>1. recent' = recent
    BY <1>3, SessionStep DEF NextRecent, Scanning
  <2>2. /\ job.kind = "sync" <=> job'.kind = "sync"
        /\ job.kind = "sync" => /\ job'.scan = job.scan
                                /\ \A p \in job.todo \ job'.todo : SyncPort(p)
    <3>1. job.kind # "sync" => job'.kind # "sync"
      BY SessionStep
    <3>2. ASSUME NEW q \in Ports, SyncPort(q)
          PROVE  /\ job'.kind = job.kind /\ job'.scan = job.scan
                 /\ job'.todo = job.todo \ {q}
      BY <1>1, <3>2 DEF SyncPort, JobOK, Job
    <3>3. job.kind = "sync" => job' = job \/ \E q \in Ports : SyncPort(q)
      BY SessionStep
    <3> QED  BY <3>1, <3>2, <3>3
  <2>3. ASSUME NEW p \in listed' PROVE CountsOK(p, recent, job)'
    <3>1. p \in Ports
      BY <1>1, <2>3
    <3>2. \/ p \in listed /\ entry'[p].missing = entry[p].missing
          \/ job.kind = "sync" /\ p \in job.todo /\ entry'[p].missing = 0
      BY <1>3, <2>3, <3>1, NextPortStep, MissingStep
    <3>3. SyncPort(p) => entry'[p].missing = 0
      BY <3>1, SyncPortStep
    <3>4. CASE p \in listed /\ entry'[p].missing = entry[p].missing
      <4>1. CountsOK(p, recent, job)
        BY <3>4 DEF ScanInv
      <4>2. CASE p \in job.todo \ job'.todo
        BY <2>1, <2>2, <3>3, <3>4, <4>1, <4>2 DEF CountsOK
      <4>3. CASE p \notin job.todo \ job'.todo
        BY <2>1, <2>2, <3>4, <4>1, <4>3 DEF CountsOK
      <4> QED  BY <4>2, <4>3
    <3>5. CASE job.kind = "sync" /\ p \in job.todo /\ entry'[p].missing = 0
      <4>1. job.scan[p] # "absent"
        BY <1>1, <3>5 DEF JobOK
      <4>2. 0 \in Nat /\ 0 < Grace
        OBVIOUS
      <4> QED  BY <2>2, <3>5, <4>1, <4>2 DEF CountsOK
    <3> QED  BY <3>2, <3>4, <3>5
  <2> QED  BY <2>1, <2>2, <2>3 DEF ScanInv
<1> QED  BY <1>2, <1>3

\* What a finished scan does to the entries.
LEMMA FollowStep ==
  ASSUME IInv, ScanInv, [Next]_vars, job.kind = "sync", job'.kind = "free", NEW p \in listed
  PROVE  p \in listed' <=> \/ Len(recent) < Grace
                           \/ \E i \in 1..Len(recent) : p \in recent[i]
<1>1. SyncSweep
  <2>1. ASSUME NEW q \in Ports, SyncPort(q) PROVE job'.kind = "sync"
    BY <2>1 DEF SyncPort, IInv, TypeOK, JobOK, Job
  <2> QED  BY <2>1, SessionStep
<1> DEFINE missed == {q \in listed : job.scan[q] = "absent"}
           gone   == {q \in missed : Gone(q)}
<1>2. listed' = listed \ gone
  BY <1>1 DEF SyncSweep
<1>3. /\ Len(recent) \in Nat /\ Len(recent) <= Grace /\ recent # << >>
      /\ recent[Len(recent)] = Found(job.scan) /\ p \in Ports
      /\ CountsOK(p, recent, job)
  BY DEF ScanInv, IInv, TypeOK
<1>4. CASE job.scan[p] # "absent"
  <2>1. p \in recent[Len(recent)] /\ Len(recent) \in 1..Len(recent)
    <3>1. Len(recent) # 0
      BY <1>3 DEF ScanInv
    <3> QED  BY <1>3, <1>4, <3>1 DEF Found
  <2> QED  BY <1>2, <1>4, <2>1
<1>5. CASE job.scan[p] = "absent"
  <2> DEFINE m == entry[p].missing + 1
  <2>1. SinceSeen(p, recent, m) /\ m \in Nat /\ m >= 1 /\ m <= Grace
    BY <1>3, <1>5 DEF CountsOK
  <2>2. p \in listed' <=> m < Grace
    BY <1>2, <1>3, <1>5 DEF Gone, CountsOK
  <2> HIDE DEF m
  <2>3. CASE m < Grace
    <3>1. Len(recent) = Grace => Len(recent) - m \in 1..Len(recent) /\ p \in recent[Len(recent) - m]
      BY <1>3, <2>1, <2>3 DEF SinceSeen
    <3> QED  BY <1>3, <2>2, <2>3, <3>1
  <2>4. CASE ~(m < Grace)
    <3>1. m = Grace /\ Len(recent) = Grace
      BY <1>3, <2>1, <2>4 DEF SinceSeen
    <3>2. \A i \in 1..Len(recent) : p \notin recent[i]
      BY <1>3, <2>1, <3>1 DEF SinceSeen
    <3> QED  BY <2>2, <3>1, <3>2
  <2> QED  BY <2>3, <2>4
<1> QED  BY <1>4, <1>5

-----------------------------------------------------------------------------
\* The history variables only watch the manager.
LEMMA HistoryWatches == HSpec => Spec
<1>1. HInit => Init
  BY DEF HInit
<1>2. [HNext]_<<vars, history>> => [Next]_vars
  BY DEF HNext
<1> QED  BY <1>1, <1>2, PTL DEF HSpec, Spec

HistoryInv == IInv /\ PauseInv /\ HeldInv /\ ScanInv

LEMMA HistoryInvariance == HSpec => []HistoryInv
<1>1. ASSUME HInit PROVE PauseInv /\ HeldInv /\ ScanInv
  <2>1. /\ listed = {} /\ current = {} /\ recent = << >> /\ job.kind = "free"
        /\ \A p \in Ports : entry[p] = Blank /\ held[p] = 0
    BY <1>1 DEF HInit, Init, Free
  <2>2. PauseInv
    BY <2>1 DEF PauseInv
  <2>3. HeldInv
    BY <2>1, BlankType DEF HeldInv, Up
  <2>4. ScanInv
    BY <2>1 DEF ScanInv
  <2> QED  BY <2>2, <2>3, <2>4
<1>2. ASSUME HistoryInv, [HNext]_<<vars, history>>
      PROVE  PauseInv' /\ HeldInv' /\ ScanInv'
  <2>1. CASE HNext
    <3>1. [Next]_vars /\ NextCurrent /\ NextHeld /\ NextRecent
      BY <2>1 DEF HNext
    <3> QED  BY <1>2, <3>1, PauseStep, HeldStep, ScanStartStep, ScanSweepStep,
             ScanOtherStep DEF HistoryInv
  <2>2. CASE UNCHANGED <<vars, history>>
    BY <1>2, <2>2 DEF HistoryInv, PauseInv, HeldInv, ScanInv, CountsOK, Up, vars, history
  <2> QED  BY <1>2, <2>1, <2>2
<1>3. HSpec => [](PauseInv /\ HeldInv /\ ScanInv)
  BY <1>1, <1>2, HistoryWatches, Invariance, PTL DEF HSpec, HistoryInv
<1> QED  BY <1>3, HistoryWatches, Invariance, PTL DEF HistoryInv

(***************************************************************************)
(* While forwarding is paused no automatic port has a tunnel that was not  *)
(* up when the pause began, whatever outages, scans, keys and requests     *)
(* there were since.                                                       *)
(***************************************************************************)
THEOREM PauseHolds == HSpec => []PauseHoldsNewTunnels
<1>1. HistoryInv => PauseHoldsNewTunnels
  BY DEF HistoryInv, PauseInv, PauseHoldsNewTunnels
<1> QED  BY <1>1, HistoryInvariance, PTL

(***************************************************************************)
(* A tunnel that was up when the pause began is up whenever the link is,   *)
(* unless the attempt to reopen it failed.                                 *)
(***************************************************************************)
THEOREM PauseKeeps == HSpec => []PauseKeepsCurrentTunnels
<1>1. ASSUME HistoryInv PROVE PauseKeepsCurrentTunnels
  <2> SUFFICES ASSUME policy.Paused, dialer # 0, ~closed, NEW p \in current, Visited(p)
               PROVE  Up(p) \/ entry[p].err # 0
    BY DEF PauseKeepsCurrentTunnels
  <2>1. p \in listed /\ entry[p].pausedKeep /\ p \in Ports /\ entry[p].mode = "auto"
    BY <1>1 DEF HistoryInv, PauseInv, IInv, TypeOK, ExemptionsEndWithThePause
  <2>2. Settled(p)
    BY <1>1, <2>1 DEF HistoryInv, IInv, EveryEntrySettled, Visited
  <2>3. Want(p, entry[p]) = "none"
    BY <2>1 DEF Want
  <2> QED  BY <2>2, <2>3 DEF Settled, Up
<1> QED  BY <1>1, HistoryInvariance, PTL

(***************************************************************************)
(* A tunnel that comes back by itself after an outage takes the local port *)
(* it had, if that is free, or the one pinned for it.                      *)
(***************************************************************************)
THEOREM Restoration == HSpec => ReconnectRestoresLocalPorts
<1>1. ASSUME HistoryInv, HNext
      PROVE  \A p \in Ports :
               /\ held[p] # 0
               /\ ~Up(p)
               /\ Up(p)'
               /\ UNCHANGED ui
               /\ held[p] \notin InUse(p)
               => entry'[p].fwd.local \in {held[p], entry'[p].pin}
  BY <1>1, RestoresStep DEF HistoryInv, HNext
<1> QED  BY <1>1, HistoryInvariance, PTL DEF HSpec, ReconnectRestoresLocalPorts

(***************************************************************************)
(* An entry goes with the scan that misses its service for the last time   *)
(* the grace allows, and with no other.                                    *)
(***************************************************************************)
THEOREM ScansDecide == HSpec => EntriesFollowTheScans
<1>1. ASSUME HistoryInv, HNext
      PROVE  job.kind = "sync" /\ job'.kind = "free" =>
               \A p \in listed :
                 p \in listed' <=> \/ Len(recent) < Grace
                                   \/ \E i \in 1..Len(recent) : p \in recent[i]
  BY <1>1, FollowStep DEF HistoryInv, HNext
<1> QED  BY <1>1, HistoryInvariance, PTL DEF HSpec, EntriesFollowTheScans
=============================================================================
