--------------------------- MODULE TunnelManager ----------------------------
(***************************************************************************)
(* The tunnel manager (internal/tunnel/manager.go) with its port allocator *)
(* (alloc.go) and the settings store it remembers decisions in.            *)
(*                                                                         *)
(* Every method of Manager takes one mutex.  A method that visits many     *)
(* entries (Sync, SetPolicy, SetDialer) asks the operating system for a    *)
(* local port once per entry, and other programs of the machine bind and   *)
(* free ports meanwhile: such a method is a sequence of steps that hold    *)
(* the mutex (variable job), one entry at a time.  A method that touches   *)
(* one entry is one step; the decision it remembers is copied and stored   *)
(* after it has released the mutex (variable ui).                          *)
(***************************************************************************)
EXTENDS Policy, FiniteSets

CONSTANTS
  Ports,         \* the remote ports services may listen on
  LocalPorts,    \* the local ports of this machine
  Ephemeral,     \* the local ports that listening on port 0 may return
  SamePort,      \* --same-port
  Grace,         \* Options.Grace
  Flags,         \* the policy autotun was started with
  Snaps,         \* the scans of the remote host considered
  Pins,          \* the local ports the user pins
  Labels,        \* the friendly names the user gives
  Saved,         \* what the settings file may hold for a port at the start
  Ops,           \* the operations of the user and of the browser bridge
  Talkative,     \* the ports whose replies reveal a scheme
  Volatile,      \* the local ports other programs bind and free
  MaxSessions    \* bound on the number of SSH connections

Modes   == {"auto", "on", "off"}
Schemes == {"unknown", "http", "https"}

\* What the settings store keeps per port (config.Port).
Decision ==
  [ label : Labels \cup {""}, mode : Modes, local : LocalPorts \cup {0}, scheme : Schemes ]

Forgotten == [label |-> "", mode |-> "auto", local |-> 0, scheme |-> "unknown"]

\* A scan maps every port to the bind class of its service, or to "absent".
Scans == [Ports -> Binds \cup {"absent"}]
NoScan == [p \in Ports |-> "absent"]

AllOps == { "mode", "pin", "label", "scheme", "pause", "forward", "try" }

ASSUME PortsAssumption ==
  /\ Ports \subseteq LocalPorts
  /\ LocalPorts \subseteq Nat \ {0}
  /\ Ephemeral \subseteq LocalPorts
  /\ Pins \subseteq LocalPorts
  /\ Volatile \subseteq LocalPorts
  /\ Talkative \subseteq Ports
  /\ IsFiniteSet(Ports)

ASSUME OptionsAssumption ==
  /\ SamePort \in BOOLEAN
  /\ Grace \in Nat \ {0}
  /\ MaxSessions \in Nat \ {0}
  /\ Flags \in PolicyOver(Ports)
  /\ Flags.Paused = FALSE
  /\ Snaps \subseteq Scans
  /\ Saved \subseteq Decision
  /\ Ops \subseteq AllOps

VARIABLES
  listed,    \* the ports that have an entry (Manager.entries)
  entry,     \* what the manager records per port; Blank when it has no entry
  baseline,  \* the ports the first scan saw
  haveBase,  \* a first scan happened
  policy,    \* the policy in force
  dialer,    \* the SSH connection in use, 0 when the link is down
  sessions,  \* connections made so far
  sticky,    \* Allocator.sticky: the local port last used per remote port, or 0
  taken,     \* the local ports other programs hold
  saved,     \* the settings store: the decision remembered per port
  served,    \* talkative ports a forwarder was opened for; it may still drain
  moving,    \* ports the browser bridge is about to move to their own number
  job,       \* what the mutex is held for, and the entries still to visit
  ui,        \* how far the user's last command is with remembering it
  closed     \* the manager was shut down

scanned == <<listed, baseline, haveBase>>
link    == <<dialer, sessions>>
memory  == <<sticky, served>>
vars == <<listed, entry, baseline, haveBase, policy, dialer, sessions, sticky,
          taken, saved, served, moving, job, ui, closed>>

-----------------------------------------------------------------------------
(***************************************************************************)
(* Entries and forwarders.                                                 *)
(***************************************************************************)

NoFwd == [local |-> 0, dialer |-> 0, addr |-> "", remapped |-> FALSE]

Forwarder ==
  [ local : LocalPorts, dialer : 1..MaxSessions, addr : Addrs, remapped : BOOLEAN ]

Blank ==
  [ bind |-> "absent", fwd |-> NoFwd, skip |-> "none", err |-> 0, mode |-> "auto",
    pin |-> 0, label |-> "", preexisting |-> FALSE, pausedKeep |-> FALSE,
    missing |-> 0, scheme |-> "unknown", pinned |-> FALSE ]

Entry ==
  [ bind : Binds \cup {"absent"}, fwd : Forwarder \cup {NoFwd}, skip : Skips,
    err : LocalPorts \cup {0}, mode : Modes, pin : LocalPorts \cup {0},
    label : Labels \cup {""}, preexisting : BOOLEAN, pausedKeep : BOOLEAN,
    missing : Nat, scheme : Schemes, pinned : BOOLEAN ]

Up(p) == entry[p].fwd # NoFwd

\* A new entry, with whatever the user decided about the port last time.
Restored(p) ==
  [ Blank EXCEPT !.preexisting = p \in baseline,
                 !.scheme = saved[p].scheme,
                 !.pinned = saved[p].scheme # "unknown",
                 !.mode   = saved[p].mode,
                 !.pin    = saved[p].local,
                 !.label  = saved[p].label ]

\* Mutant: the pause also stops the tunnels that were up.
WantPausedAll(p, e) ==
  IF e.mode = "auto" THEN Eval(policy, p, e.bind, e.preexisting)
  ELSE IF e.mode = "off" THEN "off" ELSE "none"

\* The standing decision of the user if there is one, otherwise the policy;
\* "none" means the port is wanted.
Want(p, e) ==
  IF e.mode = "on" THEN "none"
  ELSE IF e.mode = "off" THEN "off"
  ELSE IF policy.Paused /\ e.pausedKeep THEN "none"
  ELSE Eval(policy, p, e.bind, e.preexisting)

-----------------------------------------------------------------------------
(***************************************************************************)
(* Allocator.Allocate.  The result is a listener on a local port, or the   *)
(* port of the first conflict as the error.                                *)
(***************************************************************************)

InUse(p) == taken \cup {entry[q].fwd.local : q \in listed \ {p}}

Allocate(p, preferred, prev) ==
  LET open(q)  == q # 0 /\ q \notin InUse(p)
      spare    == Ephemeral \ InUse(p)
      conflict == IF preferred # 0 THEN preferred
                  ELSE IF prev # 0 THEN prev ELSE p
  IN  IF open(preferred)
        THEN {[local |-> preferred, remapped |-> preferred # p, err |-> 0]}
      ELSE IF prev # p /\ open(prev)
        THEN {[local |-> prev, remapped |-> TRUE, err |-> 0]}
      ELSE IF open(p)
        THEN {[local |-> p, remapped |-> FALSE, err |-> 0]}
      ELSE IF SamePort \/ spare = {}
        THEN {[local |-> 0, remapped |-> FALSE, err |-> conflict]}
      ELSE {[local |-> q, remapped |-> TRUE, err |-> 0] : q \in spare}

\* Mutant: the allocator does not remember where a service landed.
RecordNothing(p, q) == UNCHANGED sticky

Record(p, q) == sticky' = [sticky EXCEPT ![p] = q]

(***************************************************************************)
(* applyLocked: make the tunnel of p what the record e asks for, where     *)
(* prev is the local port the allocator remembers for p.  It decides the   *)
(* next entry of p, the allocator's memory and the served ports.  An error *)
(* stays on an entry that is no longer wanted.                             *)
(***************************************************************************)
Becomes(p, e) == entry' = [entry EXCEPT ![p] = e]

Skip(p, e, prev) ==
  /\ Want(p, e) # "none"
  /\ Becomes(p, [e EXCEPT !.skip = Want(p, e), !.fwd = NoFwd])
  /\ Record(p, prev)
  /\ UNCHANGED served

\* Mutant: a port whose allocation failed is not tried again.
RestsAfterError(e) == e.fwd # NoFwd \/ dialer = 0 \/ e.err # 0

\* Nothing to open: there is a tunnel already, or no link to open one over.
Rests(e) == e.fwd # NoFwd \/ dialer = 0

Leave(p, e, prev) ==
  /\ Want(p, e) = "none"
  /\ Rests(e)
  /\ Becomes(p, [e EXCEPT !.skip = "none"])
  /\ Record(p, prev)
  /\ UNCHANGED served

NewForwarder(e, a) ==
  [ local |-> a.local, dialer |-> dialer, addr |-> DialAddr(e.bind),
    remapped |-> a.remapped ]

Open(p, e, a) ==
  /\ a.err = 0
  /\ Becomes(p, [e EXCEPT !.skip = "none", !.err = 0, !.fwd = NewForwarder(e, a)])
  /\ Record(p, a.local)
  /\ served' = served \cup ({p} \cap Talkative)

Fail(p, e, prev, a) ==
  /\ a.err # 0
  /\ Becomes(p, [e EXCEPT !.skip = "none", !.err = a.err])
  /\ Record(p, prev)
  /\ UNCHANGED served

Apply(p, e, prev) ==
  \/ Skip(p, e, prev)
  \/ Leave(p, e, prev)
  \/ /\ Want(p, e) = "none"
     /\ ~Rests(e)
     /\ \E a \in Allocate(p, e.pin, prev) : Open(p, e, a) \/ Fail(p, e, prev, a)

-----------------------------------------------------------------------------
(***************************************************************************)
(* The mutex.                                                              *)
(***************************************************************************)

Free == [kind |-> "free", todo |-> {}, scan |-> NoScan]

Job ==
  [kind : {"free", "sync", "apply"}, todo : SUBSET Ports, scan : Scans]

Unlocked == job = Free /\ ~closed

\* Mutant: the change is noted but not carried out.
ApplyNone == Free

\* SetPolicy and SetDialer visit every entry in port order.
ApplyAll == IF listed = {} THEN Free
            ELSE [kind |-> "apply", todo |-> listed, scan |-> NoScan]

ApplyNext(p) ==
  /\ job.kind = "apply"
  /\ p \in job.todo
  /\ \A q \in job.todo : p <= q
  /\ Apply(p, entry[p], sticky[p])
  /\ job' = IF job.todo = {p} THEN Free ELSE [job EXCEPT !.todo = @ \ {p}]
  /\ UNCHANGED <<scanned, link, policy, taken, saved, moving, ui, closed>>

(***************************************************************************)
(* Sync, called by the monitor with each scan while the link is up.  The   *)
(* first scan also draws the baseline.  The services of the scan are       *)
(* visited in no particular order, then the entries it misses are swept.   *)
(***************************************************************************)
SyncStart ==
  /\ Unlocked
  /\ dialer # 0
  /\ \E scan \in Snaps :
       LET found == {p \in Ports : scan[p] # "absent"}
       IN  /\ job' = [kind |-> "sync", todo |-> found, scan |-> scan]
           /\ baseline' = IF haveBase THEN baseline ELSE found
  /\ haveBase' = TRUE
  /\ UNCHANGED <<link, memory, listed, entry, policy, taken, saved, moving,
                 ui, closed>>

SyncPort(p) ==
  LET known == IF p \in listed THEN entry[p] ELSE Restored(p)
  IN  /\ job.kind = "sync"
      /\ p \in job.todo
      /\ Apply(p, [known EXCEPT !.missing = 0, !.bind = job.scan[p]], sticky[p])
      /\ listed' = listed \cup {p}
      /\ job' = [job EXCEPT !.todo = @ \ {p}]
      /\ UNCHANGED <<link, baseline, haveBase, policy, taken, saved, moving,
                     ui, closed>>

\* Mutant: one scan too many before a service counts as gone.
GoneLate(p) == entry[p].missing >= Grace

Gone(p) == entry[p].missing + 1 >= Grace

SyncSweep ==
  LET missed == {p \in listed : job.scan[p] = "absent"}
      gone   == {p \in missed : Gone(p)}
  IN  /\ job.kind = "sync"
      /\ job.todo = {}
      /\ listed' = listed \ gone
      /\ entry' = [p \in Ports |->
                     IF p \in gone THEN Blank
                     ELSE IF p \in missed
                       THEN [entry[p] EXCEPT !.missing = @ + 1]
                     ELSE entry[p]]
      /\ job' = Free
      /\ UNCHANGED <<link, memory, baseline, haveBase, policy, taken, saved,
                     moving, ui, closed>>

(***************************************************************************)
(* SetDialer, called by the supervisor: nil when the link is lost, the new *)
(* connection when it is back.                                             *)
(***************************************************************************)
\* Mutant: tunnels of ports that are always on are not closed.
LinkDownKeepingOn ==
  /\ Unlocked
  /\ dialer # 0
  /\ moving = {}
  /\ dialer' = 0
  /\ entry' = [p \in Ports |->
                 IF entry[p].mode = "on" THEN entry[p]
                 ELSE [entry[p] EXCEPT !.fwd = NoFwd, !.missing = 0]]
  /\ UNCHANGED <<scanned, memory, policy, sessions, taken, saved, moving, job,
                 ui, closed>>

LinkDown ==
  /\ Unlocked
  /\ dialer # 0
  /\ moving = {}     \* the bridge is closed first, and waits for its requests
  /\ dialer' = 0
  /\ entry' = [p \in Ports |-> [entry[p] EXCEPT !.fwd = NoFwd, !.missing = 0]]
  /\ UNCHANGED <<scanned, memory, policy, sessions, taken, saved, moving, job,
                 ui, closed>>

NewDialer == sessions + 1

LinkUp ==
  /\ Unlocked
  /\ dialer = 0
  /\ sessions < MaxSessions
  /\ sessions' = sessions + 1
  /\ dialer' = NewDialer
  /\ job' = ApplyAll
  /\ UNCHANGED <<scanned, memory, entry, policy, taken, saved, moving, ui,
                 closed>>

-----------------------------------------------------------------------------
(***************************************************************************)
(* The user's commands, all on the one goroutine of the interface.  Those  *)
(* that are remembered go through persist, which copies the decision under *)
(* the mutex and stores it without.                                        *)
(***************************************************************************)

Idle == [at |-> "idle", port |-> 0, decision |-> Forgotten]

Remembering ==
  [at : {"idle", "copy", "store"}, port : Ports \cup {0}, decision : Decision]

Command(op) == op \in Ops /\ Unlocked /\ ui = Idle

Remember(p) == ui' = [at |-> "copy", port |-> p, decision |-> Forgotten]

\* Mutant: a scheme that was only observed is remembered too.
DecisionWithGuess(e) ==
  [label |-> e.label, mode |-> e.mode, local |-> e.pin, scheme |-> e.scheme]

DecisionOf(e) ==
  [ label |-> e.label, mode |-> e.mode, local |-> e.pin,
    scheme |-> IF e.pinned THEN e.scheme ELSE "unknown" ]

CopyDecision ==
  LET p == ui.port
  IN  /\ ui.at = "copy"
      /\ Unlocked
      /\ ui' = IF p \notin listed THEN Idle
               ELSE [at |-> "store", port |-> p, decision |-> DecisionOf(entry[p])]
      /\ UNCHANGED <<scanned, link, memory, entry, policy, taken, saved,
                     moving, job, closed>>

\* Store.SetPort.  A decision that says nothing is dropped: reading it back
\* gives Forgotten.
StoreDecision ==
  /\ ui.at = "store"
  /\ saved' = [saved EXCEPT ![ui.port] = ui.decision]
  /\ ui' = Idle
  /\ UNCHANGED <<scanned, link, memory, entry, policy, taken, moving, job,
                 closed>>

NextMode(m) == CASE m = "auto" -> "on" [] m = "on" -> "off" [] m = "off" -> "auto"

CycleMode(p) ==
  LET mode == NextMode(entry[p].mode)
      e    == [entry[p] EXCEPT
                 !.mode = mode,
                 !.pausedKeep = @ /\ mode = "auto",
                 !.err = IF mode = "off" THEN @ ELSE 0]
  IN  /\ Command("mode")
      /\ p \in listed
      /\ Apply(p, e, sticky[p])
      /\ Remember(p)
      /\ UNCHANGED <<scanned, link, policy, taken, saved, moving, job, closed>>

\* setLocalPort gives up the old local port before it asks for the new one.
Relocate(p, q) ==
  /\ p \in listed
  /\ Apply(p, [entry[p] EXCEPT !.pin = q, !.fwd = NoFwd, !.err = 0], 0)
  /\ UNCHANGED <<scanned, link, policy, taken, saved, job, closed>>

SetLocalPort(p, q) ==
  /\ Command("pin")
  /\ Relocate(p, q)
  /\ Remember(p)
  /\ UNCHANGED moving

NextScheme(s) ==
  CASE s = "unknown" -> "http" [] s = "http" -> "https" [] s = "https" -> "unknown"

\* SetScheme, and CycleScheme with the next scheme.
SetScheme(p, s) ==
  /\ Command("scheme")
  /\ p \in listed
  /\ Becomes(p, [entry[p] EXCEPT !.scheme = s, !.pinned = s # "unknown"])
  /\ Remember(p)
  /\ UNCHANGED <<scanned, link, memory, policy, taken, saved, moving, job,
                 closed>>

CycleScheme(p) == SetScheme(p, NextScheme(entry[p].scheme))

SetLabel(p, label) ==
  /\ Command("label")
  /\ p \in listed
  /\ Becomes(p, [entry[p] EXCEPT !.label = label])
  /\ Remember(p)
  /\ UNCHANGED <<scanned, link, memory, policy, taken, saved, moving, job,
                 closed>>

\* Mutant: a resume leaves the exemptions standing.
KeptAfterResume(p, pausing) ==
  IF pausing THEN entry[p].mode = "auto" /\ Up(p) ELSE entry[p].pausedKeep

\* Mutant: every automatic port is exempted, tunnel or not.
KeptWithoutTunnel(p, pausing) == pausing /\ p \in listed /\ entry[p].mode = "auto"

Kept(p, pausing) == pausing /\ entry[p].mode = "auto" /\ Up(p)

\* SetPolicy as the interface uses it, to pause and to resume.
TogglePause ==
  LET pausing == ~policy.Paused
  IN  /\ Command("pause")
      /\ policy' = [policy EXCEPT !.Paused = pausing]
      /\ entry' = [p \in Ports |->
                     [entry[p] EXCEPT !.pausedKeep = Kept(p, pausing)]]
      /\ job' = ApplyAll
      /\ UNCHANGED <<scanned, link, memory, taken, saved, moving, ui, closed>>

-----------------------------------------------------------------------------
(***************************************************************************)
(* The browser bridge, while the session it was installed over lasts.      *)
(***************************************************************************)

Request(op) == op \in Ops /\ Unlocked /\ dialer # 0

\* Mutant: a browser request overrides the user's decision too.
RefusesNobody(p) == FALSE

Refuses(p) == entry[p].mode = "off"

ForwardNow(p) ==
  /\ Request("forward")
  /\ p \in listed
  /\ ~Refuses(p)
  /\ Apply(p, [entry[p] EXCEPT !.mode = "on", !.pausedKeep = FALSE, !.err = 0],
           sticky[p])
  /\ UNCHANGED <<scanned, link, policy, taken, saved, moving, job, ui, closed>>

\* urlRouter.localize: the tunnel was remapped, and a probe of the local port
\* with the remote number succeeded.  The move follows without the mutex.
ProbeLocalPort(p) ==
  /\ Request("try")
  /\ p \in listed
  /\ Up(p)
  /\ entry[p].fwd.local # p
  /\ p \notin InUse(p)
  /\ moving' = moving \cup {p}
  /\ UNCHANGED <<scanned, link, memory, entry, policy, taken, saved, job, ui,
                 closed>>

TryLocalPort(p) ==
  /\ Request("try")
  /\ p \in moving
  /\ Relocate(p, p)
  /\ moving' = moving \ {p}
  /\ UNCHANGED ui

\* The entry vanished in between: TryLocalPort returns an error.
TryUnlisted(p) ==
  /\ Unlocked
  /\ p \in moving \ listed
  /\ moving' = moving \ {p}
  /\ UNCHANGED <<scanned, link, memory, entry, policy, taken, saved, job, ui,
                 closed>>

(***************************************************************************)
(* A reply that crossed a tunnel of p, or one closed since that still      *)
(* drains, showed what the service speaks.                                 *)
(***************************************************************************)
ObserveScheme(p, s) ==
  /\ Unlocked
  /\ p \in served \cap listed
  /\ s # "unknown"
  /\ ~entry[p].pinned
  /\ entry[p].scheme # s
  /\ Becomes(p, [entry[p] EXCEPT !.scheme = s])
  /\ UNCHANGED <<scanned, link, memory, policy, taken, saved, moving, job, ui,
                 closed>>

-----------------------------------------------------------------------------
\* Another program binds or frees a local port.
OtherBinds(q) ==
  /\ q \in Volatile \ taken
  /\ \A p \in listed : entry[p].fwd.local # q
  /\ taken' = taken \cup {q}
  /\ UNCHANGED <<scanned, link, memory, entry, policy, saved, moving, job, ui,
                 closed>>

OtherFrees(q) ==
  /\ q \in taken
  /\ taken' = taken \ {q}
  /\ UNCHANGED <<scanned, link, memory, entry, policy, saved, moving, job, ui,
                 closed>>

\* Close, when the program ends: the supervisor has stopped, so the link is
\* down, or it stopped before the first scan.
Close ==
  /\ Unlocked
  /\ ui = Idle
  /\ moving = {}
  /\ dialer = 0 \/ ~haveBase
  /\ entry' = [p \in Ports |-> [entry[p] EXCEPT !.fwd = NoFwd]]
  /\ closed' = TRUE
  /\ UNCHANGED <<scanned, link, memory, policy, taken, saved, moving, job, ui>>

\* The program has ended.
Ended == closed /\ UNCHANGED vars

Init ==
  /\ listed = {}
  /\ entry = [p \in Ports |-> Blank]
  /\ baseline = {}
  /\ haveBase = FALSE
  /\ policy = Flags
  /\ dialer = 1
  /\ sessions = 1
  /\ sticky = [p \in Ports |-> 0]
  /\ taken \in SUBSET Volatile
  /\ saved \in [Ports -> Saved]
  /\ served = {}
  /\ moving = {}
  /\ job = Free
  /\ ui = Idle
  /\ closed = FALSE

Supervise == LinkDown \/ LinkUp \/ Close

Sync == SyncStart \/ (\E p \in Ports : SyncPort(p)) \/ SyncSweep

User ==
  \/ TogglePause
  \/ CopyDecision
  \/ StoreDecision
  \/ \E p \in Ports :
       \/ CycleMode(p)
       \/ CycleScheme(p)
       \/ \E s \in Schemes : SetScheme(p, s)
       \/ \E q \in Pins \cup {0} : SetLocalPort(p, q)
       \/ \E label \in Labels \cup {""} : SetLabel(p, label)

Bridge ==
  \E p \in Ports :
    ForwardNow(p) \/ ProbeLocalPort(p) \/ TryLocalPort(p) \/ TryUnlisted(p)

Environment ==
  \/ \E q \in LocalPorts : OtherBinds(q) \/ OtherFrees(q)
  \/ \E p \in Ports, s \in Schemes : ObserveScheme(p, s)

Next ==
  \/ Sync
  \/ \E p \in Ports : ApplyNext(p)
  \/ Supervise
  \/ User
  \/ Bridge
  \/ Environment
  \/ Ended

Spec == Init /\ [][Next]_vars

(***************************************************************************)
(* The monitor keeps delivering scans while the link is up, and a goroutine *)
(* that waits for the mutex gets it in the end (sync.Mutex does not starve *)
(* a waiter); one that holds it goes on.                                   *)
(***************************************************************************)
Fairness ==
  /\ SF_vars(SyncStart)
  /\ WF_vars(\E p \in Ports : SyncPort(p))
  /\ WF_vars(SyncSweep)
  /\ WF_vars(\E p \in Ports : ApplyNext(p))

FairSpec == Spec /\ Fairness

-----------------------------------------------------------------------------
(***************************************************************************)
(* The mutex is held for a reason: SetPolicy and SetDialer still have      *)
(* entries to visit, and those exist; Sync visits only what the scan       *)
(* found; nothing holds it after Close.                                    *)
(***************************************************************************)
JobOK ==
  /\ job \in Job
  /\ job.kind = "free" => job = Free
  /\ job.kind = "apply" => job.todo # {} /\ job.todo \subseteq listed
  /\ job.kind = "sync" => \A p \in job.todo : job.scan[p] # "absent"
  /\ closed => job = Free

(***************************************************************************)
(* Every variable has the shape its declaration gives it, a port that has  *)
(* no entry carries no leftovers of an earlier one, and every entry        *)
(* describes a service some scan found.                                    *)
(***************************************************************************)
TypeOK ==
  /\ listed \subseteq Ports
  /\ entry \in [Ports -> Entry]
  /\ \A p \in Ports \ listed : entry[p] = Blank
  /\ \A p \in listed : entry[p].bind # "absent"
  /\ baseline \subseteq Ports
  /\ haveBase \in BOOLEAN
  /\ policy \in PolicyOver(Ports)
  /\ sessions \in 1..MaxSessions
  /\ dialer \in {0, sessions}
  /\ sticky \in [Ports -> LocalPorts \cup {0}]
  /\ taken \subseteq Volatile
  /\ saved \in [Ports -> Decision]
  /\ served \subseteq Talkative
  /\ moving \subseteq Ports
  /\ JobOK
  /\ ui \in Remembering
  /\ closed \in BOOLEAN

(***************************************************************************)
(* No tunnel outlives its SSH connection: while the link is down there is  *)
(* none, and after a reconnect every tunnel dials over the new connection. *)
(* The entries are closed and reopened one by one, by other goroutines     *)
(* than those that open tunnels meanwhile.                                 *)
(***************************************************************************)
TunnelsUseTheLiveLink ==
  \A p \in Ports : Up(p) => dialer # 0 /\ entry[p].fwd.dialer = dialer

(***************************************************************************)
(* The manager has done for p what the mode of p, the pause and the policy *)
(* ask for: the reason to skip it is the current one, a skipped port has   *)
(* no tunnel, and a wanted port has one unless the link is down or the     *)
(* attempt failed.                                                         *)
(***************************************************************************)
Settled(p) ==
  LET e == entry[p]
  IN  /\ e.skip = Want(p, e)
      /\ e.skip # "none" => e.fwd = NoFwd
      /\ e.skip = "none" /\ dialer # 0 => e.fwd # NoFwd \/ e.err # 0

(***************************************************************************)
(* Whatever sequence of scans, outages, pauses, keys and browser requests  *)
(* led here, every entry is settled, except those that SetPolicy or        *)
(* SetDialer, holding the mutex, has not reached yet.                      *)
(***************************************************************************)
EveryEntrySettled ==
  ~closed => \A p \in listed : Settled(p) \/ (job.kind = "apply" /\ p \in job.todo)

(***************************************************************************)
(* An exemption from the pause belongs to the pause in force and to an     *)
(* automatic port: none survives a resume, a switch of the mode, or the    *)
(* disappearance of the service, to exempt a tunnel from a later pause.    *)
(***************************************************************************)
ExemptionsEndWithThePause ==
  \A p \in Ports :
    entry[p].pausedKeep => policy.Paused /\ entry[p].mode = "auto" /\ p \in listed

(***************************************************************************)
(* A tunnel is flagged as remapped exactly when its local port differs     *)
(* from the remote one, through pins, remembered ports and fallbacks: "a   *)
(* silently different port is a debugging trap" (alloc.go:20).             *)
(***************************************************************************)
RemapsAreFlagged ==
  \A p \in listed : Up(p) => (entry[p].fwd.remapped <=> entry[p].fwd.local # p)

(***************************************************************************)
(* A failed attempt is retried with every scan ("already reported; don't   *)
(* spam the log each scan", manager.go:305): a port that stays wanted, on  *)
(* a link that stays up, gets its tunnel once its local port stays free,   *)
(* and keeps it.                                                           *)
(***************************************************************************)
Within(p) ==
  p \in listed /\ dialer # 0 /\ Want(p, entry[p]) = "none" /\ p \notin InUse(p)

WantedPortsRecover == \A p \in Ports : <>[]Within(p) => <>[]Up(p)
=============================================================================
