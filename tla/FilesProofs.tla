----------------------------- MODULE FilesProofs ------------------------------
(***************************************************************************)
(* Proofs about the two files autotun shares with other programs: the      *)
(* settings, for any number of programs, and known_hosts, for any types    *)
(* and versions of keys.                                                   *)
(***************************************************************************)
EXTENDS Settings, HostKeys, WellFoundedInduction, TLAPS

Readings == [prefs : Prefs, port : {"auto", "https"}]

-----------------------------------------------------------------------------
(***************************************************************************)
(* What the operators on a host return.                                    *)
(***************************************************************************)
LEMMA NoHostType == NoHost \in Host
BY DEF NoHost, Host

LEMMA ShownType ==
  ASSUME NEW h \in Host
  PROVE  Shown(h) \in Readings
BY DEF Shown, ViewPrefs, Scheme, Readings, Prefs, Host

\* Deleting a host that holds nothing loses nothing.
LEMMA StoredType ==
  ASSUME NEW h \in Host
  PROVE  Stored(h) = h
BY DEF Stored, IsZero

\* However they were spelled before, the choices read as they were made, and
\* the port reads as it did.
LEMMA PrefsReadBack ==
  ASSUME NEW h \in Host, NEW p \in Prefs
  PROVE  /\ WithPrefs(h, p) \in Host
         /\ Shown(WithPrefs(h, p)) = [Shown(h) EXCEPT !.prefs = p]
<1> DEFINE g == WithPrefs(h, p)
<1>1. /\ g \in Host
      /\ g.View = "" /\ g.ShowPreexisting = p.ShowPreexisting
      /\ g.InactiveLast = IF p.InactiveLast THEN "absent" ELSE "no"
      /\ g.port = h.port
  BY DEF WithPrefs, Host, Prefs
<1>2. ViewPrefs(g) = [ ShowPreexisting |-> p.ShowPreexisting,
                       InactiveLast    |-> p.InactiveLast ]
  <2>1. (g.ShowPreexisting \/ g.View = "everything") = p.ShowPreexisting
    BY <1>1 DEF Prefs
  <2>2. (g.InactiveLast # "no") = p.InactiveLast
    BY <1>1 DEF Prefs
  <2> QED  BY <2>1, <2>2 DEF ViewPrefs
<1>3. p = [ ShowPreexisting |-> p.ShowPreexisting,
            InactiveLast    |-> p.InactiveLast ]
  BY DEF Prefs
<1>4. Shown(g) = [prefs |-> p, port |-> Scheme(h)]
  BY <1>1, <1>2, <1>3 DEF Shown, Scheme
<1>5. [Shown(h) EXCEPT !.prefs = p] = [prefs |-> p, port |-> Scheme(h)]
  BY DEF Shown
<1> QED
  BY <1>1, <1>4, <1>5

LEMMA PortReadsBack ==
  ASSUME NEW h \in Host, NEW s \in {"auto", "https"}
  PROVE  /\ WithPort(h, s) \in Host
         /\ Shown(WithPort(h, s)) = [Shown(h) EXCEPT !.port = s]
<1> DEFINE g == WithPort(h, s)
<1>1. /\ g \in Host
      /\ g.View = h.View /\ g.ShowPreexisting = h.ShowPreexisting
      /\ g.InactiveLast = h.InactiveLast
      /\ g.port = IF s = "auto" THEN "absent" ELSE s
  BY DEF WithPort, Host
<1>2. ViewPrefs(g) = ViewPrefs(h)
  BY <1>1 DEF ViewPrefs
<1>3. Scheme(g) = s
  BY <1>1 DEF Scheme
<1> QED
  BY <1>1, <1>2, <1>3 DEF Shown

LEMMA LoadedType ==
  ASSUME SettingsTypeOK, NEW data \in Files
  PROVE  Loaded(data).host \in Host /\ Loaded(data).dirty \in BOOLEAN
<1>1. data.host \in Host
  BY NoHostType DEF Files, Whole, Broken
<1>2. [NoHost EXCEPT !.port = "https"] \in Host
  BY DEF NoHost, Host
<1> QED
  BY <1>1, <1>2, NoHostType DEF Loaded

LEMMA FilesHold ==
  /\ \A k \in {"missing", "malformed", "partial"} : Broken(k) \in Files
  /\ \A h \in Host : Whole(h) \in Files
BY DEF Files

-----------------------------------------------------------------------------
(***************************************************************************)
(* The inductive invariant.  What is shown stays what was chosen because a *)
(* copy only changes together with the choice; what is renamed over the    *)
(* file is whole because a program gets there only by writing all of it;   *)
(* and it was asked for because a copy is dirty only after that.           *)
(***************************************************************************)
WrittenIsWhole == \A p \in Programs : run[p] = "written" => temp[p] = Whole(store[p])

SavedWasAsked ==
  \A p \in Programs : dirty[p] \/ run[p] \in {"writing", "written"} => asked[p]

SettingsInv ==
  SettingsTypeOK /\ ChoicesReadBack /\ WrittenIsWhole /\ SavedWasAsked

LEMMA SettingsInitially == SettingsInit => SettingsInv
<1> SUFFICES ASSUME SettingsInit PROVE SettingsInv
  OBVIOUS
<1>1. Shown(NoHost) \in Readings
  BY NoHostType, ShownType
<1>2. SettingsTypeOK
  BY <1>1, NoHostType, FilesHold DEF SettingsInit, SettingsTypeOK, Readings
<1>3. ChoicesReadBack /\ WrittenIsWhole /\ SavedWasAsked
  BY DEF SettingsInit, ChoicesReadBack, WrittenIsWhole, SavedWasAsked
<1> QED
  BY <1>2, <1>3 DEF SettingsInv

\* No program touches the copy of another.
Leaves(f, g, p) == \A q \in Programs \ {p} : g[q] = f[q]

OnlyOf(p) ==
  /\ Leaves(run, run', p) /\ Leaves(store, store', p) /\ Leaves(dirty, dirty', p)
  /\ Leaves(temp, temp', p) /\ Leaves(chosen, chosen', p) /\ Leaves(asked, asked', p)

LEMMA OnlyItsOwn ==
  ASSUME SettingsTypeOK, NEW p \in Programs,
         \/ Open(p) \/ SetViewPrefs(p) \/ SetPort(p) \/ Save(p)
         \/ Write(p) \/ Rename(p) \/ Crash(p)
  PROVE  OnlyOf(p)
<1> USE DEF SettingsTypeOK, OnlyOf, Leaves
<1>1. CASE Open(p)
  BY <1>1 DEF Open
<1>2. CASE SetViewPrefs(p) \/ SetPort(p)
  BY <1>2 DEF SetViewPrefs, SetPort, Record
<1>3. ASSUME Ended(p)
      PROVE  OnlyOf(p)
  BY <1>3 DEF Ended
<1>4. CASE Save(p)
  BY <1>3, <1>4 DEF Save, Begin
<1>5. CASE Write(p)
  BY <1>3, <1>5 DEF Write
<1>6. CASE Rename(p) \/ Crash(p)
  BY <1>3, <1>6 DEF Rename, Crash
<1> QED
  BY <1>1, <1>2, <1>4, <1>5, <1>6

(***************************************************************************)
(* A step of p keeps the invariant if it keeps it for p and leaves the     *)
(* variables of the other programs alone.                                  *)
(***************************************************************************)
LEMMA StepOfOne ==
  ASSUME SettingsInv, NEW p \in Programs, SettingsTypeOK', OnlyOf(p),
         run'[p] # "off" => Shown(store'[p]) = chosen'[p],
         run'[p] = "written" => temp'[p] = Whole(store'[p]),
         dirty'[p] \/ run'[p] \in {"writing", "written"} => asked'[p]
  PROVE  SettingsInv'
<1>1. ChoicesReadBack'
  <2> SUFFICES ASSUME NEW q \in Programs, run'[q] # "off"
               PROVE  Shown(store'[q]) = chosen'[q]
    BY DEF ChoicesReadBack, Shown, ViewPrefs, Scheme
  <2>1. CASE q = p
    BY <2>1
  <2>2. CASE q # p
    <3>1. store'[q] = store[q] /\ chosen'[q] = chosen[q] /\ run[q] # "off"
      BY <2>2 DEF OnlyOf, Leaves
    <3> QED
      BY <3>1 DEF SettingsInv, ChoicesReadBack
  <2> QED
    BY <2>1, <2>2
<1>2. WrittenIsWhole'
  <2> SUFFICES ASSUME NEW q \in Programs, run'[q] = "written"
               PROVE  temp'[q] = Whole(store'[q])
    BY DEF WrittenIsWhole, Whole
  <2>1. CASE q = p
    BY <2>1
  <2>2. CASE q # p
    <3>1. store'[q] = store[q] /\ temp'[q] = temp[q] /\ run[q] = "written"
      BY <2>2 DEF OnlyOf, Leaves
    <3> QED
      BY <3>1 DEF SettingsInv, WrittenIsWhole
  <2> QED
    BY <2>1, <2>2
<1>3. SavedWasAsked'
  <2> SUFFICES ASSUME NEW q \in Programs,
                      dirty'[q] \/ run'[q] \in {"writing", "written"}
               PROVE  asked'[q]
    BY DEF SavedWasAsked
  <2>1. CASE q = p
    BY <2>1
  <2>2. CASE q # p
    BY <2>2 DEF OnlyOf, Leaves, SettingsInv, SavedWasAsked
  <2> QED
    BY <2>1, <2>2
<1> QED
  BY <1>1, <1>2, <1>3 DEF SettingsInv

-----------------------------------------------------------------------------
(***************************************************************************)
(* One lemma per action.                                                   *)
(***************************************************************************)
LEMMA OpenKeeps ==
  ASSUME SettingsInv, NEW p \in Programs, Open(p)
  PROVE  SettingsInv'
<1>0. SettingsTypeOK
  BY DEF SettingsInv
<1>1. PICK data \in {file, Broken("missing")} :
        /\ store' = [store EXCEPT ![p] = Loaded(data).host]
        /\ dirty' = [dirty EXCEPT ![p] = Loaded(data).dirty]
        /\ asked' = [asked EXCEPT ![p] = Loaded(data).dirty]
        /\ chosen' = [chosen EXCEPT ![p] = Shown(Loaded(data).host)]
  BY DEF Open
<1>2. Loaded(data).host \in Host /\ Loaded(data).dirty \in BOOLEAN
  BY <1>0, LoadedType, FilesHold DEF SettingsTypeOK
<1>3. Shown(Loaded(data).host) \in Readings
  BY <1>2, ShownType
<1>4. /\ run' = [run EXCEPT ![p] = "on"]
      /\ file' = file /\ legacy' = legacy /\ temp' = temp
  BY DEF Open
<1>5. SettingsTypeOK'
  BY <1>0, <1>1, <1>2, <1>3, <1>4 DEF SettingsTypeOK, Readings
<1>6. OnlyOf(p)
  BY <1>0, OnlyItsOwn
<1>7. run'[p] = "on" /\ Shown(store'[p]) = chosen'[p] /\ dirty'[p] = asked'[p]
  BY <1>0, <1>1, <1>2, <1>3, <1>4 DEF SettingsTypeOK, Readings
<1> QED
  BY <1>5, <1>6, <1>7, StepOfOne

\* A choice: SetViewPrefs and SetPort.
LEMMA RecordKeeps ==
  ASSUME SettingsInv, NEW p \in Programs, run[p] = "on",
         NEW next \in Host, Record(p, next), NEW now \in Readings,
         Shown(next) = now, chosen' = [chosen EXCEPT ![p] = now]
  PROVE  SettingsInv'
<1>0. SettingsTypeOK
  BY DEF SettingsInv
<1>1. /\ store' = [store EXCEPT ![p] = next]
      /\ dirty' = [dirty EXCEPT ![p] = @ \/ next # store[p]]
      /\ asked' = [asked EXCEPT ![p] = TRUE]
      /\ UNCHANGED <<file, legacy, run, temp>>
  BY StoredType DEF Record
<1>2. (dirty[p] \/ next # store[p]) \in BOOLEAN
  OBVIOUS
<1>3. SettingsTypeOK'
  BY <1>0, <1>1, <1>2 DEF SettingsTypeOK, Readings
<1>4. OnlyOf(p)
  BY <1>0, <1>1, <1>2 DEF SettingsTypeOK, OnlyOf, Leaves, Readings
<1>5. run'[p] = "on" /\ store'[p] = next /\ chosen'[p] = now /\ asked'[p] = TRUE
  BY <1>0, <1>1 DEF SettingsTypeOK, Readings
<1> QED
  BY <1>3, <1>4, <1>5, StepOfOne

LEMMA SetViewPrefsKeeps ==
  ASSUME SettingsInv, NEW p \in Programs, SetViewPrefs(p)
  PROVE  SettingsInv'
<1>1. PICK prefs \in Prefs :
        /\ run[p] = "on"
        /\ Record(p, WithPrefs(store[p], prefs))
        /\ chosen' = [chosen EXCEPT ![p].prefs = prefs]
  BY DEF SetViewPrefs
<1>2. store[p] \in Host /\ chosen \in [Programs -> Readings]
  BY DEF SettingsInv, SettingsTypeOK, Readings
<1>3. Shown(store[p]) = chosen[p]
  BY <1>1 DEF SettingsInv, ChoicesReadBack
<1> DEFINE now == [chosen[p] EXCEPT !.prefs = prefs]
<1>4. /\ WithPrefs(store[p], prefs) \in Host
      /\ Shown(WithPrefs(store[p], prefs)) = now
  BY <1>2, <1>3, PrefsReadBack
<1>5. now \in Readings
  BY <1>4, ShownType
<1>6. chosen' = [chosen EXCEPT ![p] = now]
  BY <1>1, <1>2
<1> QED
  BY <1>1, <1>4, <1>5, <1>6, RecordKeeps

LEMMA SetPortKeeps ==
  ASSUME SettingsInv, NEW p \in Programs, SetPort(p)
  PROVE  SettingsInv'
<1>1. PICK setting \in {"auto", "https"} :
        /\ run[p] = "on"
        /\ Record(p, WithPort(store[p], setting))
        /\ chosen' = [chosen EXCEPT ![p].port = setting]
  BY DEF SetPort
<1>2. store[p] \in Host /\ chosen \in [Programs -> Readings]
  BY DEF SettingsInv, SettingsTypeOK, Readings
<1>3. Shown(store[p]) = chosen[p]
  BY <1>1 DEF SettingsInv, ChoicesReadBack
<1> DEFINE now == [chosen[p] EXCEPT !.port = setting]
<1>4. /\ WithPort(store[p], setting) \in Host
      /\ Shown(WithPort(store[p], setting)) = now
  BY <1>2, <1>3, PortReadsBack
<1>5. now \in Readings
  BY <1>4, ShownType
<1>6. chosen' = [chosen EXCEPT ![p] = now]
  BY <1>1, <1>2
<1> QED
  BY <1>1, <1>4, <1>5, <1>6, RecordKeeps

\* However a program ends: what is left of it is as before it began.
LEMMA EndedKeeps ==
  ASSUME SettingsInv, NEW p \in Programs, Ended(p), file' \in Files
  PROVE  SettingsInv'
<1>0. SettingsTypeOK
  BY DEF SettingsInv
<1>1. /\ NoHost \in Host /\ Shown(NoHost) \in Readings
      /\ Broken("missing") \in Files
  BY NoHostType, ShownType, FilesHold
<1>2. SettingsTypeOK'
  BY <1>0, <1>1 DEF SettingsTypeOK, Readings, Ended
<1>3. OnlyOf(p)
  BY <1>0, <1>1 DEF SettingsTypeOK, OnlyOf, Leaves, Readings, Ended
<1>4. run'[p] = "off" /\ dirty'[p] = FALSE
  BY <1>0 DEF SettingsTypeOK, Ended
<1> QED
  BY <1>2, <1>3, <1>4, StepOfOne

LEMMA SaveKeeps ==
  ASSUME SettingsInv, NEW p \in Programs, Save(p)
  PROVE  SettingsInv'
<1>0. SettingsTypeOK
  BY DEF SettingsInv
<1>1. CASE Ended(p) /\ UNCHANGED file
  BY <1>0, <1>1, EndedKeeps DEF SettingsTypeOK
<1>2. CASE dirty[p] /\ Begin(p)
  <2>1. Broken("partial") \in Files
    BY FilesHold
  <2>2. SettingsTypeOK'
    BY <1>0, <1>2, <2>1 DEF SettingsTypeOK, Begin
  <2>3. OnlyOf(p)
    BY <1>0, OnlyItsOwn
  <2>4. /\ run'[p] = "writing" /\ asked'[p] = asked[p]
        /\ store'[p] = store[p] /\ chosen'[p] = chosen[p]
    BY <1>0, <1>2 DEF SettingsTypeOK, Begin
  <2>5. asked[p] /\ Shown(store[p]) = chosen[p]
    BY <1>2 DEF Save, SettingsInv, SavedWasAsked, ChoicesReadBack
  <2> QED
    BY <2>2, <2>3, <2>4, <2>5, StepOfOne
<1> QED
  BY <1>1, <1>2 DEF Save

LEMMA WriteKeeps ==
  ASSUME SettingsInv, NEW p \in Programs, Write(p)
  PROVE  SettingsInv'
<1>0. SettingsTypeOK
  BY DEF SettingsInv
<1>1. CASE Ended(p) /\ UNCHANGED file
  BY <1>0, <1>1, EndedKeeps DEF SettingsTypeOK
<1>2. CASE /\ run' = [run EXCEPT ![p] = "written"]
           /\ temp' = [temp EXCEPT ![p] = Whole(store[p])]
           /\ UNCHANGED <<file, legacy, store, dirty, chosen, asked>>
  <2>1. run[p] = "writing" /\ Whole(store[p]) \in Files
    BY <1>0, FilesHold DEF Write, SettingsTypeOK
  <2>2. SettingsTypeOK'
    BY <1>0, <1>2, <2>1 DEF SettingsTypeOK
  <2>3. OnlyOf(p)
    BY <1>0, OnlyItsOwn
  <2>4. temp'[p] = Whole(store[p]) /\ store'[p] = store[p]
    BY <1>0, <1>2 DEF SettingsTypeOK
  <2>5. asked'[p] /\ Shown(store'[p]) = chosen'[p]
    BY <1>2, <2>1 DEF SettingsInv, SavedWasAsked, ChoicesReadBack
  <2> QED
    BY <2>2, <2>3, <2>4, <2>5, StepOfOne
<1> QED
  BY <1>1, <1>2 DEF Write

LEMMA RenameOrCrashKeeps ==
  ASSUME SettingsInv, NEW p \in Programs, Rename(p) \/ Crash(p)
  PROVE  SettingsInv'
<1>1. file' \in Files
  BY DEF Rename, Crash, SettingsInv, SettingsTypeOK
<1> QED
  BY <1>1, EndedKeeps DEF Rename, Crash

LEMMA SettingsStep == SettingsInv /\ [SettingsNext]_settingsVars => SettingsInv'
<1> SUFFICES ASSUME SettingsInv, [SettingsNext]_settingsVars
             PROVE  SettingsInv'
  OBVIOUS
<1>1. ASSUME NEW p \in Programs,
             \/ Open(p) \/ SetViewPrefs(p) \/ SetPort(p) \/ Save(p)
             \/ Write(p) \/ Rename(p) \/ Crash(p)
      PROVE  SettingsInv'
  BY <1>1, OpenKeeps, SetViewPrefsKeeps, SetPortKeeps, SaveKeeps, WriteKeeps,
     RenameOrCrashKeeps
<1>2. CASE UNCHANGED settingsVars
  BY <1>2 DEF settingsVars, SettingsInv, SettingsTypeOK, ChoicesReadBack,
     WrittenIsWhole, SavedWasAsked
<1> QED
  BY <1>1, <1>2 DEF SettingsNext

-----------------------------------------------------------------------------
(***************************************************************************)
(* What is shown of the settings is what was read or chosen last, in every *)
(* program, whatever the others do to the file (ViewPrefs, SetViewPrefs,   *)
(* SetPort).                                                               *)
(***************************************************************************)
THEOREM ChoicesAreShown == SettingsSpec => [](SettingsTypeOK /\ ChoicesReadBack)
<1>1. SettingsInv => SettingsTypeOK /\ ChoicesReadBack
  BY DEF SettingsInv
<1> QED
  BY <1>1, SettingsInitially, SettingsStep, PTL DEF SettingsSpec

(***************************************************************************)
(* Only a program in which something was recorded replaces the file, with  *)
(* its own copy (the dirty flag of Save).                                  *)
(***************************************************************************)
LEMMA RenameSavesTheCopy ==
  ASSUME SettingsInv, NEW p \in Programs, Rename(p), file' # file
  PROVE  asked[p] /\ file' = Whole(store[p])
BY DEF Rename, SettingsInv, WrittenIsWhole, SavedWasAsked

LEMMA OthersLeaveTheFile ==
  ASSUME NEW p \in Programs,
         Open(p) \/ SetViewPrefs(p) \/ SetPort(p) \/ Save(p) \/ Write(p) \/ Crash(p)
  PROVE  file' = file
<1>1. CASE Open(p) \/ Crash(p)
  BY <1>1 DEF Open, Crash
<1>2. CASE SetViewPrefs(p) \/ SetPort(p)
  BY <1>2 DEF SetViewPrefs, SetPort, Record
<1>3. CASE Save(p) \/ Write(p)
  BY <1>3 DEF Save, Begin, Write
<1> QED
  BY <1>1, <1>2, <1>3

THEOREM UntouchedCopiesAreNotSaved == SettingsSpec => OnlyChoicesAreSaved
<1>1. SettingsInv /\ [SettingsNext]_settingsVars
        => [file' # file =>
              \E p \in Programs : asked[p] /\ file'.host = store[p]]_settingsVars
  <2> SUFFICES ASSUME SettingsInv, SettingsNext, file' # file
               PROVE  \E p \in Programs : asked[p] /\ file'.host = store[p]
    BY DEF settingsVars
  <2>1. PICK p \in Programs : Rename(p)
    BY OthersLeaveTheFile DEF SettingsNext
  <2>2. asked[p] /\ file' = Whole(store[p])
    BY <2>1, RenameSavesTheCopy
  <2> QED
    BY <2>2 DEF Whole
<1> QED
  BY <1>1, SettingsInitially, SettingsStep, PTL
  DEF SettingsSpec, OnlyChoicesAreSaved

-----------------------------------------------------------------------------
(***************************************************************************)
(* The refinement.  A program offers its copy from the moment it begins to *)
(* write until it has renamed, given up or been killed; only the rename    *)
(* replaces the file, and the other steps stutter.                         *)
(***************************************************************************)
NoOffer == Broken("missing")

Offered(r, s) == IF r \in {"writing", "written"} THEN Whole(s) ELSE NoOffer

offers == [p \in Programs |-> Offered(run[p], store[p])]

Documents == {Whole(h) : h \in Host}

\* The steps of AtomicFile, and what changes nothing in it.
OffersWhole(p) ==
  /\ offers[p] = NoOffer
  /\ \E d \in Documents : offers' = [offers EXCEPT ![p] = d]
  /\ file' = file

ReplacesFile(p) ==
  /\ offers[p] # NoOffer
  /\ file' = offers[p] /\ offers' = [offers EXCEPT ![p] = NoOffer]

WithdrawsOffer(p) ==
  /\ offers[p] # NoOffer
  /\ offers' = [offers EXCEPT ![p] = NoOffer]
  /\ file' = file

Stutters == file' = file /\ offers' = offers

AtomicStep(p) == OffersWhole(p) \/ ReplacesFile(p) \/ WithdrawsOffer(p) \/ Stutters

LEMMA WholeIsAnOffer ==
  ASSUME NEW h
  PROVE  Whole(h) # NoOffer
BY DEF Whole, NoOffer, Broken

\* The offers follow the one program that moves.
LEMMA OffersOfOne ==
  ASSUME SettingsTypeOK, SettingsTypeOK', NEW p \in Programs, OnlyOf(p)
  PROVE  offers' = [offers EXCEPT ![p] = Offered(run'[p], store'[p])]
<1>1. \A q \in Programs \ {p} : offers'[q] = offers[q]
  BY DEF OnlyOf, Leaves, offers, Offered, Whole, NoOffer
<1>2. offers'[p] = Offered(run'[p], store'[p])
  BY DEF offers, Offered, Whole, NoOffer
<1> QED
  BY <1>1, <1>2 DEF offers

\* A step that leaves the program's own offer leaves them all.
LEMMA OfferStays ==
  ASSUME SettingsTypeOK, SettingsTypeOK', NEW p \in Programs, OnlyOf(p),
         Offered(run'[p], store'[p]) = Offered(run[p], store[p])
  PROVE  offers' = offers
<1>1. offers' = [offers EXCEPT ![p] = offers[p]]
  BY OffersOfOne DEF offers
<1> QED
  BY <1>1 DEF offers

LEMMA EndedIsAtomic ==
  ASSUME SettingsTypeOK, SettingsTypeOK', NEW p \in Programs, OnlyOf(p), Ended(p)
  PROVE  /\ offers' = [offers EXCEPT ![p] = NoOffer]
         /\ offers[p] = NoOffer => offers' = offers
<1>1. run'[p] = "off"
  BY DEF Ended, SettingsTypeOK
<1>2. Offered(run'[p], store'[p]) = NoOffer
  BY <1>1 DEF Offered
<1>3. offers' = [offers EXCEPT ![p] = NoOffer]
  BY <1>2, OffersOfOne
<1> QED
  BY <1>3 DEF offers

LEMMA ActionIsAtomic ==
  ASSUME SettingsInv, SettingsTypeOK', NEW p \in Programs,
         \/ Open(p) \/ SetViewPrefs(p) \/ SetPort(p) \/ Save(p)
         \/ Write(p) \/ Rename(p) \/ Crash(p)
  PROVE  AtomicStep(p)
<1>0. SettingsTypeOK /\ OnlyOf(p)
  BY OnlyItsOwn DEF SettingsInv
<1>1. CASE Open(p) \/ SetViewPrefs(p) \/ SetPort(p)
  <2>1. run[p] \in {"off", "on"} /\ run'[p] = "on" /\ file' = file
    BY <1>0, <1>1 DEF SettingsTypeOK, Open, SetViewPrefs, SetPort, Record
  <2>2. Offered(run'[p], store'[p]) = Offered(run[p], store[p])
    BY <2>1 DEF Offered
  <2> QED
    BY <1>0, <2>1, <2>2, OfferStays DEF AtomicStep, Stutters
<1>2. CASE Save(p) /\ dirty[p] /\ Begin(p)
  <2>1. /\ run[p] = "on" /\ run'[p] = "writing" /\ file' = file
        /\ store[p] \in Host /\ store'[p] = store[p]
    BY <1>0, <1>2 DEF SettingsTypeOK, Save, Begin
  <2>2. offers[p] = NoOffer /\ Offered(run'[p], store'[p]) = Whole(store[p])
    BY <2>1 DEF offers, Offered
  <2>3. offers' = [offers EXCEPT ![p] = Whole(store[p])]
    BY <1>0, <2>2, OffersOfOne
  <2> QED
    BY <2>1, <2>2, <2>3 DEF AtomicStep, OffersWhole, Documents
<1>3. CASE Write(p) /\ run'[p] = "written" /\ UNCHANGED <<file, store>>
  <2>1. Offered(run'[p], store'[p]) = Offered(run[p], store[p])
    BY <1>3 DEF Write, Offered
  <2> QED
    BY <1>0, <1>3, <2>1, OfferStays DEF AtomicStep, Stutters
<1>4. CASE Ended(p) /\ UNCHANGED file
  BY <1>0, <1>4, EndedIsAtomic DEF AtomicStep, WithdrawsOffer, Stutters
<1>5. CASE Rename(p)
  <2>1. offers[p] = Whole(store[p]) /\ temp[p] = Whole(store[p])
    BY <1>5 DEF Rename, offers, Offered, SettingsInv, WrittenIsWhole
  <2>2. offers[p] # NoOffer
    BY <2>1, WholeIsAnOffer
  <2>3. offers' = [offers EXCEPT ![p] = NoOffer] /\ file' \in {file, offers[p]}
    BY <1>0, <1>5, <2>1, EndedIsAtomic DEF Rename
  <2> QED
    BY <2>2, <2>3 DEF AtomicStep, ReplacesFile, WithdrawsOffer
<1>6. CASE (Save(p) /\ ~(dirty[p] /\ Begin(p))) \/ Crash(p)
  BY <1>4, <1>6 DEF Save, Crash
<1>7. CASE Write(p)
  BY <1>0, <1>3, <1>4, <1>7 DEF Write, SettingsTypeOK
<1> QED
  BY <1>1, <1>2, <1>5, <1>6, <1>7

LEMMA AtomicInitially == SettingsInit => Atomic!Init
BY DEF SettingsInit, Atomic!Init

LEMMA AtomicSteps ==
  SettingsInv /\ SettingsInv' /\ [SettingsNext]_settingsVars
    => [Atomic!Next]_<<file, offers>>
<1> SUFFICES ASSUME SettingsInv, SettingsInv', [SettingsNext]_settingsVars
             PROVE  [Atomic!Next]_<<file, offers>>
  OBVIOUS
<1>1. ASSUME NEW p \in Programs, AtomicStep(p)
      PROVE  [Atomic!Next]_<<file, offers>>
  <2>1. OffersWhole(p) => Atomic!Offer(p)
    BY DEF OffersWhole, Atomic!Offer, offers, Offered, NoOffer, Documents
  <2>2. ReplacesFile(p) => Atomic!Replace(p)
    BY DEF ReplacesFile, Atomic!Replace, offers, Offered, NoOffer
  <2>3. WithdrawsOffer(p) => Atomic!Withdraw(p)
    BY DEF WithdrawsOffer, Atomic!Withdraw, offers, Offered, NoOffer
  <2> QED
    BY <1>1, <2>1, <2>2, <2>3 DEF AtomicStep, Stutters, Atomic!Next
<1>2. CASE SettingsNext
  <2>1. PICK p \in Programs :
          \/ Open(p) \/ SetViewPrefs(p) \/ SetPort(p) \/ Save(p)
          \/ Write(p) \/ Rename(p) \/ Crash(p)
    BY <1>2 DEF SettingsNext
  <2> QED
    BY <1>1, <2>1, ActionIsAtomic DEF SettingsInv
<1>3. CASE UNCHANGED settingsVars
  BY <1>3 DEF settingsVars, offers, Offered, Whole, NoOffer
<1> QED
  BY <1>2, <1>3

(***************************************************************************)
(* Saving implements AtomicFile: for any number of programs, a save that   *)
(* fails or is killed anywhere leaves a whole file, the one before or the  *)
(* one it was to become (Save).                                            *)
(***************************************************************************)
THEOREM SavesAreAtomic == SettingsSpec => SavingIsAtomic
<1> QED
  BY SettingsInitially, SettingsStep, AtomicInitially, AtomicSteps, PTL
  DEF SettingsSpec, SavingIsAtomic, Atomic!Spec, offers, Offered, NoOffer

-----------------------------------------------------------------------------
(***************************************************************************)
(* known_hosts.  Up to KnownHostsAreReached, nothing rests on how a key is *)
(* negotiated: whatever key the host identifies itself with, the verdict   *)
(* alone keeps the file sound.                                             *)
(***************************************************************************)

\* A text that consists of lines.
IsText(lines) == lines \in Seq(ToSet(lines))

LEMMA AppendText ==
  ASSUME NEW lines, IsText(lines), NEW key
  PROVE  /\ IsText(Append(lines, key))
         /\ ToSet(Append(lines, key)) = ToSet(lines) \cup {key}
         /\ DOMAIN Append(lines, key) = DOMAIN lines \cup {Len(lines) + 1}
         /\ Append(lines, key)[Len(lines) + 1] = key
         /\ \A i \in DOMAIN lines : Append(lines, key)[i] = lines[i]
         /\ Len(lines) + 1 \notin DOMAIN lines
<1> DEFINE S == ToSet(lines) \cup {key}
           more == Append(lines, key)
<1>1. lines \in Seq(S) /\ key \in S
  BY DEF IsText
<1> HIDE DEF S
<1>2. /\ more \in Seq(S) /\ Len(more) = Len(lines) + 1
      /\ more[Len(lines) + 1] = key
      /\ \A i \in 1..Len(lines) : more[i] = lines[i]
  BY <1>1
<1>3. /\ DOMAIN lines = 1..Len(lines) /\ DOMAIN more = 1..(Len(lines) + 1)
      /\ Len(lines) \in Nat
  BY <1>1, <1>2
<1>4. DOMAIN more = DOMAIN lines \cup {Len(lines) + 1}
  BY <1>3
<1>5. ToSet(more) = ToSet(lines) \cup {key}
  BY <1>2, <1>3, <1>4 DEF ToSet
<1>6. IsText(more)
  BY <1>2, <1>5 DEF IsText, S
<1> QED
  BY <1>2, <1>3, <1>4, <1>5, <1>6

-----------------------------------------------------------------------------
(***************************************************************************)
(* The inductive invariant.  The verdict is about the snapshot, and the    *)
(* key goes to what the file has become meanwhile: that is sound because   *)
(* between the two the file only ever loses lines.                         *)
(***************************************************************************)
Judging == stage \in {"preparing", "dialing", "ask", "record"}

SnapshotCovers == Judging => ToSet(known) \subseteq ToSet(snapshot)

RecordsNewTypes == stage \in {"ask", "record"} => ~Contradicts(snapshot, offered)

KeysInv == IsText(known) /\ OneKeyOfAType /\ SnapshotCovers /\ RecordsNewTypes

LEMMA EmptyText == IsText(<< >>) /\ ToSet(<< >>) = {} /\ DOMAIN << >> = {}
BY DEF IsText, ToSet

LEMMA KeysInitially == KeysInit => KeysInv
BY EmptyText DEF KeysInit, KeysInv, OneKeyOfAType, SnapshotCovers, Judging,
   RecordsNewTypes

\* A key is recorded, with the user's leave or without, only when it
\* contradicts none.
LEMMA VerdictIsSound ==
  ASSUME NEW policy, NEW terminal, NEW lines, NEW key,
         Verdict(policy, terminal, lines, key) \in {"record", "ask"}
  PROVE  ~Contradicts(lines, key)
BY DEF Verdict

LEMMA AppendKeeps ==
  ASSUME KeysInv, AppendKnownHost
  PROVE  KeysInv'
<1>1. CASE known' = known
  BY <1>1 DEF AppendKnownHost, Fails, Ready, KeysInv, IsText, OneKeyOfAType,
     SnapshotCovers, Judging, RecordsNewTypes
<1>2. CASE known' = Append(known, offered) /\ stage' = "up"
  <2> DEFINE last == Len(known) + 1
  <2>1. \A i \in DOMAIN known : known[i].type # offered.type
    BY DEF AppendKnownHost, KeysInv, SnapshotCovers, Judging, RecordsNewTypes,
       Contradicts, ToSet
  <2>2. /\ IsText(known')
        /\ DOMAIN known' = DOMAIN known \cup {last} /\ known'[last] = offered
        /\ \A i \in DOMAIN known : known'[i] = known[i]
    BY <1>2, AppendText DEF KeysInv
  <2>3. OneKeyOfAType'
    <3> SUFFICES ASSUME NEW i \in DOMAIN known', NEW j \in DOMAIN known',
                        known'[i].type = known'[j].type
                 PROVE  i = j
      BY DEF OneKeyOfAType
    <3> QED
      BY <2>1, <2>2 DEF KeysInv, OneKeyOfAType
  <2> QED
    BY <1>2, <2>2, <2>3 DEF KeysInv, IsText, SnapshotCovers, Judging, RecordsNewTypes
<1> QED
  BY <1>1, <1>2 DEF AppendKnownHost, Ready

LEMMA HandshakeKeeps ==
  ASSUME KeysInv, Handshake
  PROVE  KeysInv'
<1> DEFINE key == Negotiated(HostKeyAlgorithms(asks.policy, recorded))
           verdict == Verdict(asks.policy, asks.terminal, snapshot, key)
<1>1. /\ stage = "dialing" /\ offered' = key
      /\ known' = known /\ snapshot' = snapshot
      /\ stage' \in {"off", "idle", "up"} \/ verdict \in {"record", "ask"}
  BY DEF Handshake, Fails, Ready, Outside
<1> HIDE DEF key
<1>2. RecordsNewTypes'
  <2>1. CASE verdict \in {"record", "ask"}
    BY <1>1, <2>1, VerdictIsSound DEF RecordsNewTypes, Contradicts
  <2>2. CASE stage' \in {"off", "idle", "up"}
    BY <2>2 DEF RecordsNewTypes
  <2> QED
    BY <1>1, <2>1, <2>2
<1>3. SnapshotCovers'
  BY <1>1 DEF KeysInv, SnapshotCovers, Judging
<1> QED
  BY <1>1, <1>2, <1>3 DEF KeysInv, IsText, OneKeyOfAType

\* The steps that neither judge nor write.
LEMMA OthersKeep ==
  ASSUME KeysInv,
         \/ Start \/ HostKeyCallback \/ RecordedKeys \/ Confirm \/ Lose \/ Leave \/ Rekey
         \/ UNCHANGED keysVars
  PROVE  KeysInv'
<1> USE DEF KeysInv, IsText, OneKeyOfAType, SnapshotCovers, Judging, RecordsNewTypes
<1>1. CASE Start \/ Lose \/ Leave
  BY <1>1 DEF Start, Lose, Leave, Outside
<1>2. CASE HostKeyCallback
  <2>1. /\ known' = known /\ offered' = offered
        /\ \/ stage' = "preparing" /\ snapshot' = known
           \/ stage' \in {"off", "idle"}
    BY <1>2 DEF HostKeyCallback, Fails, Outside
  <2> QED
    BY <2>1
<1>3. CASE RecordedKeys
  BY <1>3 DEF RecordedKeys, Outside
<1>4. CASE Confirm
  BY <1>4 DEF Confirm, Fails, Outside, Contradicts
<1>5. CASE Rekey \/ UNCHANGED keysVars
  BY <1>5 DEF Rekey, keysVars, Contradicts
<1> QED
  BY <1>1, <1>2, <1>3, <1>4, <1>5

LEMMA ForgetKeeps ==
  ASSUME KeysInv, Forget
  PROVE  KeysInv'
BY EmptyText
DEF Forget, KeysInv, OneKeyOfAType, SnapshotCovers, Judging, RecordsNewTypes,
    Contradicts

LEMMA KeysStep == KeysInv /\ [KeysNext]_keysVars => KeysInv'
BY AppendKeeps, HandshakeKeeps, OthersKeep, ForgetKeeps DEF KeysNext, Program

-----------------------------------------------------------------------------
(***************************************************************************)
(* Whatever keys a host shows, in whatever order it changes them and the   *)
(* user takes lines out, the program never records two keys of one type    *)
(* (verify, appendKnownHost).                                              *)
(***************************************************************************)
THEOREM NoTwoKeysOfAType == KeysSpec => []OneKeyOfAType
<1>1. KeysInv => OneKeyOfAType
  BY DEF KeysInv
<1> QED
  BY <1>1, KeysInitially, KeysStep, PTL DEF KeysSpec

(***************************************************************************)
(* A checked connection comes up only on a key that is recorded: it was in *)
(* the snapshot, or has been added by then (verify).                       *)
(***************************************************************************)
LEMMA TrustStep ==
  ASSUME KeysInv, KeysNext,
         asks.policy # "no", trusted' # trusted, trusted' # NoKey
  PROVE  trusted' \in ToSet(known') \cup ToSet(snapshot)
<1>1. CASE Handshake
  <2> DEFINE key == Negotiated(HostKeyAlgorithms(asks.policy, recorded))
  <2>1. trusted' = key
        /\ Verdict(asks.policy, asks.terminal, snapshot, key) = "accept"
    BY <1>1 DEF Handshake, Fails, Ready
  <2> HIDE DEF key
  <2> QED
    BY <2>1 DEF Verdict
<1>2. CASE AppendKnownHost
  <2>1. known' = Append(known, offered) /\ trusted' = offered
    BY <1>2 DEF AppendKnownHost, Fails, Ready
  <2> QED
    BY <2>1, AppendText DEF KeysInv
<1>3. Handshake \/ AppendKnownHost
  BY DEF KeysNext, Program, Start, HostKeyCallback, RecordedKeys, Confirm, Fails,
     Lose, Leave, Rekey, Forget
<1> QED
  BY <1>1, <1>2, <1>3

THEOREM TrustedKeysAreRecorded == KeysSpec => TrustIsRecorded
<1>1. KeysInv /\ [KeysNext]_keysVars
        => [asks.policy # "no" /\ trusted' # trusted /\ trusted' # NoKey
              => trusted' \in ToSet(known') \cup ToSet(snapshot)]_keysVars
  BY TrustStep DEF keysVars
<1> QED
  BY <1>1, KeysInitially, KeysStep, PTL DEF KeysSpec, TrustIsRecorded

-----------------------------------------------------------------------------
(***************************************************************************)
(* Induction without a scheme: counting up from nothing reaches every      *)
(* number, and numbers have a least.                                       *)
(***************************************************************************)
Below == {pair \in Nat \X Nat : pair[1] < pair[2]}

LEMMA BelowIsWellFounded == IsWellFoundedOn(Below, Nat)
BY NatLessThanWellFounded DEF OpToRel, Below

\* Counting up from nothing reaches every number.
LEMMA Counting ==
  ASSUME NEW S \in SUBSET Nat, 0 \in S, \A n \in S : n + 1 \in S
  PROVE  S = Nat
<1> DEFINE T == Nat \ S
<1>1. SUFFICES ASSUME T # {} PROVE FALSE
  OBVIOUS
<1>2. PICK x \in T : \A y \in T : <<y, x>> \notin Below
  <2>1. T \subseteq Nat
    OBVIOUS
  <2> HIDE DEF T
  <2> QED  BY <1>1, <2>1, BelowIsWellFounded, WFMin
<1>3. x \in Nat /\ x \notin S
  OBVIOUS
<1>4. x # 0 
  BY <1>3
<1>5. x - 1 \in Nat /\ x - 1 < x /\ (x - 1) + 1 = x
  BY <1>3, <1>4
<1>6. <<x - 1, x>> \in Below
  BY <1>3, <1>5 DEF Below
<1>7. x - 1 \in S
  BY <1>2, <1>5, <1>6
<1> QED BY <1>3, <1>5, <1>7

\* The least of some numbers.
LEMMA Least ==
  ASSUME NEW T \in SUBSET Nat, T # {}
  PROVE  \E i \in T : \A j \in T : i <= j
<1>1. PICK i \in T : \A j \in T : <<j, i>> \notin Below
  BY BelowIsWellFounded, WFMin
<1>2. ASSUME NEW j \in T PROVE i <= j
  <2>1. i \in Nat /\ j \in Nat /\ ~(j < i)
    BY <1>1 DEF Below
  <2> QED  BY <2>1
<1> QED  BY <1>2

-----------------------------------------------------------------------------
(***************************************************************************)
(* Flattening a sequence of sequences: the recursive function that does it *)
(* exists, and the result holds the elements of all of them.               *)
(***************************************************************************)
Joins(f, n, seqs) == f = [i \in 1..n |-> IF i = 1 THEN seqs[i] ELSE f[i - 1] \o seqs[i]]

LEMMA JoinMore ==
  ASSUME NEW n \in Nat, NEW seqs, NEW f, Joins(f, n, seqs)
  PROVE  \E g : Joins(g, n + 1, seqs)
<1> DEFINE m == n + 1
           last == IF m = 1 THEN seqs[m] ELSE f[n] \o seqs[m]
           g == [i \in 1..m |-> IF i = m THEN last ELSE f[i]]
           h == [i \in 1..m |-> IF i = 1 THEN seqs[i] ELSE g[i - 1] \o seqs[i]]
<1>1. \A i \in 1..n : f[i] = IF i = 1 THEN seqs[i] ELSE f[i - 1] \o seqs[i]
  BY DEF Joins
<1>2. ASSUME NEW i \in 1..m
      PROVE  g[i] = h[i]
  <2>1. CASE i = m
    <3>1. CASE n = 0
      BY <2>1, <3>1
    <3>2. CASE n # 0
      <4>1. n \in 1..m /\ n # m /\ m - 1 = n /\ m # 1
        BY <3>2
      <4> QED  BY <2>1, <4>1
    <3> QED  BY <3>1, <3>2
  <2>2. CASE i # m /\ i # 1
    <3>1. i \in 1..n /\ i - 1 \in 1..m /\ i - 1 # m
      BY <2>2
    <3> QED  BY <1>1, <2>2, <3>1
  <2>3. CASE i # m /\ i = 1
    <3>1. i \in 1..n
      BY <2>3
    <3> QED  BY <1>1, <2>3, <3>1
  <2> QED  BY <2>1, <2>2, <2>3
<1>3. g = h
  <2>1. g = [i \in 1..m |-> g[i]] /\ h = [i \in 1..m |-> h[i]]
    OBVIOUS
  <2> HIDE DEF g, h
  <2> QED  BY <1>2, <2>1
<1> QED
  <2> HIDE DEF g
  <2>1. Joins(g, m, seqs)
    BY <1>3 DEF Joins
  <2> QED BY <2>1

LEMMA JoinExists ==
  ASSUME NEW n \in Nat, NEW seqs
  PROVE  \E f : Joins(f, n, seqs)
<1> DEFINE S == {k \in Nat : \E f : Joins(f, k, seqs)}
<1>1. 0 \in S
  <2>1. Joins([i \in 1..0 |-> i], 0, seqs)
    BY DEF Joins
  <2> QED  BY <2>1
<1>2. ASSUME NEW k \in S PROVE k + 1 \in S
  <2>1. PICK f : Joins(f, k, seqs)
    OBVIOUS
  <2> QED  BY <2>1, JoinMore
<1> QED
  <2> S \in SUBSET Nat
    OBVIOUS
  <2>1. S = Nat
    <3> HIDE DEF S
    <3> QED BY <1>1, <1>2, Counting
  <2> QED BY <2>1

\* The elements of two sequences on end.
LEMMA TwoOnEnd ==
  ASSUME NEW S, NEW s \in Seq(S), NEW t \in Seq(S)
  PROVE  /\ s \o t \in Seq(S)
         /\ ToSet(s \o t) = ToSet(s) \cup ToSet(t)
<1> DEFINE u == s \o t
<1>1. /\ u \in Seq(S) /\ Len(u) = Len(s) + Len(t)
      /\ Len(s) \in Nat /\ Len(t) \in Nat
      /\ DOMAIN u = 1..Len(u) /\ DOMAIN s = 1..Len(s) /\ DOMAIN t = 1..Len(t)
      /\ \A i \in 1..(Len(s) + Len(t)) : u[i] = IF i <= Len(s) THEN s[i] ELSE t[i - Len(s)]
  OBVIOUS
<1> HIDE DEF u
<1>2. ASSUME NEW x \in ToSet(u) PROVE x \in ToSet(s) \cup ToSet(t)
  <2>1. PICK i \in 1..Len(u) : u[i] = x
    BY <1>1, <1>2 DEF ToSet
  <2>2. CASE i <= Len(s)
    <3>1. i \in DOMAIN s /\ s[i] = x
      BY <1>1, <2>1, <2>2
    <3> QED  BY <3>1 DEF ToSet
  <2>3. CASE ~(i <= Len(s))
    <3>1. i - Len(s) \in DOMAIN t /\ t[i - Len(s)] = x
      BY <1>1, <2>1, <2>3
    <3> QED  BY <3>1 DEF ToSet
  <2> QED  BY <2>2, <2>3
<1>3. ASSUME NEW x \in ToSet(s) PROVE x \in ToSet(u)
  <2>1. PICK i \in 1..Len(s) : s[i] = x
    BY <1>1, <1>3 DEF ToSet
  <2>2. i \in DOMAIN u /\ u[i] = x
    BY <1>1, <2>1
  <2> QED  BY <2>2 DEF ToSet
<1>4. ASSUME NEW x \in ToSet(t) PROVE x \in ToSet(u)
  <2>1. PICK i \in 1..Len(t) : t[i] = x
    BY <1>1, <1>4 DEF ToSet
  <2> DEFINE j == i + Len(s)
  <2>2. j \in DOMAIN u /\ j - Len(s) = i /\ ~(j <= Len(s))
    BY <1>1, <2>1
  <2>3. u[j] = x
    BY <1>1, <2>1, <2>2
  <2> QED  BY <2>2, <2>3 DEF ToSet
<1> QED
  BY <1>1, <1>2, <1>3, <1>4 DEF u

\* What the first n of a sequence of sequences hold.
FirstHold(n, seqs) == UNION {ToSet(seqs[j]) : j \in 1..n}

LEMMA JoinHolds ==
  ASSUME NEW S, NEW seqs \in Seq(Seq(S)), NEW f, Joins(f, Len(seqs), seqs)
  PROVE  \A n \in 1..Len(seqs) :
           /\ f[n] \in Seq(S)
           /\ ToSet(f[n]) = FirstHold(n, seqs)
<1> DEFINE N == Len(seqs)
           Good(n) == /\ f[n] \in Seq(S)
                      /\ ToSet(f[n]) = FirstHold(n, seqs)
           T == {n \in Nat : n \in 1..N => Good(n)}
<1>1. N \in Nat /\ \A i \in 1..N : seqs[i] \in Seq(S)
  OBVIOUS
<1>2. \A i \in 1..N : f[i] = IF i = 1 THEN seqs[i] ELSE f[i - 1] \o seqs[i]
  BY DEF Joins
<1> HIDE DEF N
<1>3. 0 \in T
  BY <1>1
<1>4. ASSUME NEW n \in T PROVE n + 1 \in T
  <2> DEFINE m == n + 1
  <2>1. SUFFICES ASSUME m \in 1..N PROVE Good(m)
    OBVIOUS
  <2>2. CASE n = 0
    <3>1. f[m] = seqs[m] /\ 1..m = {m}
      BY <1>2, <2>1, <2>2
    <3> QED  BY <1>1, <2>1, <3>1 DEF FirstHold
  <2>3. CASE n # 0
    <3>1. n \in 1..N /\ m - 1 = n /\ m # 1 /\ 1..m = (1..n) \cup {m}
      BY <1>1, <2>1, <2>3
    <3>2. f[m] = f[n] \o seqs[m]
      BY <1>2, <2>1, <3>1
    <3>3. Good(n)
      BY <3>1
    <3>4. f[m] \in Seq(S) /\ ToSet(f[m]) = ToSet(f[n]) \cup ToSet(seqs[m])
      BY <1>1, <2>1, <3>2, <3>3, TwoOnEnd
    <3> HIDE DEF m
    <3> QED  BY <3>1, <3>3, <3>4 DEF FirstHold
  <2> QED  BY <2>2, <2>3
<1>5. T = Nat
  <2> T \in SUBSET Nat
    OBVIOUS
  <2> HIDE DEF T
  <2> QED  BY <1>3, <1>4, Counting
<1>6. \A n \in 1..N : Good(n)
  <2> SUFFICES ASSUME NEW n \in 1..N PROVE Good(n)
    OBVIOUS
  <2>1. n \in Nat
    BY <1>1
  <2> QED  BY <1>5, <2>1
<1> QED  BY <1>6 DEF N

LEMMA Flattened ==
  ASSUME NEW S, NEW seqs \in Seq(Seq(S)), seqs # << >>
  PROVE  /\ FlattenSeq(seqs) \in Seq(S)
         /\ ToSet(FlattenSeq(seqs)) = UNION {ToSet(seqs[j]) : j \in DOMAIN seqs}
<1> DEFINE n == Len(seqs)
           f == CHOOSE g : Joins(g, n, seqs)
<1>1. n \in Nat /\ n # 0 /\ n \in 1..n /\ DOMAIN seqs = 1..n
  OBVIOUS
<1>2. Joins(f, n, seqs)
  BY <1>1, JoinExists
<1>3. FlattenSeq(seqs) = f[n]
  BY <1>1 DEF FlattenSeq, Joins
<1> HIDE DEF f
<1>4. f[n] \in Seq(S) /\ ToSet(f[n]) = FirstHold(n, seqs)
  BY <1>1, <1>2, JoinHolds
<1> QED  BY <1>1, <1>3, <1>4 DEF FirstHold

-----------------------------------------------------------------------------
(***************************************************************************)
(* What is asked for, and what the server makes of it.                     *)
(***************************************************************************)
\* What the server answers with: the first algorithm on the list it serves.
LEMMA FirstServed ==
  ASSUME NEW algos, DOMAIN algos \subseteq Nat,
         NEW i \in DOMAIN algos, Serves(algos[i])
  PROVE  \E first \in DOMAIN algos :
           /\ first <= i /\ Serves(algos[first])
           /\ Negotiated(algos) = [ type    |-> TypeOf(algos[first]),
                                    version |-> server[TypeOf(algos[first])] ]
<1> DEFINE can == {k \in DOMAIN algos : Serves(algos[k])}
           first == CHOOSE k \in can : \A j \in can : k <= j
<1>1. can \in SUBSET Nat /\ i \in can
  OBVIOUS
<1>2. first \in can /\ \A j \in can : first <= j
  <2> HIDE DEF can
  <2> QED  BY <1>1, Least
<1>3. Negotiated(algos) = [ type    |-> TypeOf(algos[first]),
                            version |-> server[TypeOf(algos[first])] ]
  BY <1>1 DEF Negotiated
<1> HIDE DEF first
<1> QED  BY <1>1, <1>2, <1>3

\* An algorithm that carries a key of a type is of that type.
LEMMA CarriersType ==
  ASSUME NEW type \in KeyTypes, NEW algo \in ToSet(SignatureAlgos(type))
  PROVE  TypeOf(algo) = type
<1>1. type \notin {"rsa-sha2-256", "rsa-sha2-512"}
  BY HostKeysAssumption
<1>2. \/ algo = type
      \/ type = "ssh-rsa" /\ algo \in {"rsa-sha2-512", "rsa-sha2-256"}
  BY DEF SignatureAlgos, ToSet
<1>3. CASE algo = type
  BY <1>1, <1>3 DEF TypeOf
<1>4. CASE type = "ssh-rsa" /\ algo \in {"rsa-sha2-512", "rsa-sha2-256"}
  BY <1>4 DEF TypeOf
<1> QED  BY <1>2, <1>3, <1>4

\* A server that has a key of a type serves an algorithm that carries it.
LEMMA CarrierServed ==
  ASSUME NEW type \in KeyTypes, server[type] # 0
  PROVE  \E algo \in ToSet(SignatureAlgos(type)) : Serves(algo)
<1> DEFINE algo == IF type = "ssh-rsa" THEN "rsa-sha2-512" ELSE type
<1>1. algo \in ToSet(SignatureAlgos(type))
  <2>1. SignatureAlgos(type)[1] = algo /\ 1 \in DOMAIN SignatureAlgos(type)
    BY DEF SignatureAlgos
  <2> QED  BY <2>1 DEF ToSet
<1>2. algo # "ssh-rsa" /\ TypeOf(algo) = type
  BY <1>1, CarriersType
<1> QED  BY <1>1, <1>2 DEF Serves

Algos == KeyTypes \cup {"ssh-rsa", "rsa-sha2-512", "rsa-sha2-256", "ecdsa", "ed25519"}

\* The first n of some algorithms are those that carry the keys of some lines.
BeginsWith(algos, n, lines) ==
  /\ DOMAIN algos \subseteq Nat
  /\ \A i \in DOMAIN algos : i <= n =>
       \E k \in ToSet(lines) : algos[i] \in ToSet(SignatureAlgos(k.type))
  /\ \A k \in ToSet(lines) : \A algo \in ToSet(SignatureAlgos(k.type)) :
       \E i \in DOMAIN algos : i <= n /\ algos[i] = algo

\* What is asked for begins with what carries the recorded keys.
LEMMA RecordedFirst ==
  ASSUME NEW policy, policy # "no",
         NEW lines \in Seq(Key), lines # << >>
  PROVE  \E n \in Nat : BeginsWith(HostKeyAlgorithms(policy, lines), n, lines)
<1> DEFINE carry == [i \in DOMAIN lines |-> SignatureAlgos(lines[i].type)]
           flat  == FlattenSeq(carry)
           rest  == Supported \o Insecure
           algos == HostKeyAlgorithms(policy, lines)
           n     == Len(flat)
<1>1. /\ lines \in Seq(Key) /\ DOMAIN lines = 1..Len(lines) /\ Len(lines) \in Nat
      /\ \A i \in DOMAIN lines : lines[i] \in Key
  OBVIOUS
<1>2. ASSUME NEW k \in Key
      PROVE  SignatureAlgos(k.type) \in Seq(Algos)
  <2>1. k.type \in Algos /\ {"ssh-rsa", "rsa-sha2-512", "rsa-sha2-256"} \subseteq Algos
    BY DEF Key, Algos
  <2> HIDE DEF Algos
  <2>2. <<k.type>> \in Seq(Algos)
    BY <2>1
  <2>3. <<"rsa-sha2-512", "rsa-sha2-256", "ssh-rsa">> \in Seq(Algos)
    BY <2>1
  <2> QED  BY <2>2, <2>3 DEF SignatureAlgos
<1>3. /\ carry \in Seq(Seq(Algos)) /\ carry # << >> /\ DOMAIN carry = DOMAIN lines
      /\ \A i \in DOMAIN lines : carry[i] = SignatureAlgos(lines[i].type)
  BY <1>1, <1>2
<1>4. rest \in Seq(Algos)
  BY DEF Supported, Insecure, Algos
<1>5. algos = flat \o Supported \o Insecure
  BY DEF HostKeyAlgorithms
<1> HIDE DEF carry, algos
<1>6. /\ flat \in Seq(Algos)
      /\ ToSet(flat) = UNION {ToSet(carry[j]) : j \in DOMAIN carry}
  BY <1>3, Flattened
<1> HIDE DEF flat, rest
<1>7. /\ algos \in Seq(Algos) /\ DOMAIN algos = 1..Len(algos)
      /\ n \in Nat /\ DOMAIN flat = 1..n /\ n <= Len(algos) /\ Len(algos) \in Nat
      /\ \A i \in 1..n : algos[i] = flat[i]
  <2>1. Supported \in Seq(Algos) /\ Insecure \in Seq(Algos)
    BY DEF Supported, Insecure, Algos
  <2> QED  BY <1>5, <1>6, <2>1
<1>8. ASSUME NEW i \in DOMAIN algos, i <= n
      PROVE  \E k \in ToSet(lines) : algos[i] \in ToSet(SignatureAlgos(k.type))
  <2>1. algos[i] \in ToSet(flat)
    BY <1>7, <1>8 DEF ToSet
  <2>2. PICK j \in DOMAIN carry : algos[i] \in ToSet(carry[j])
    BY <1>6, <2>1
  <2>3. lines[j] \in ToSet(lines) /\ carry[j] = SignatureAlgos(lines[j].type)
    BY <1>3, <2>2 DEF ToSet
  <2> QED  BY <2>2, <2>3
<1>9. ASSUME NEW k \in ToSet(lines), NEW algo \in ToSet(SignatureAlgos(k.type))
      PROVE  \E i \in DOMAIN algos : i <= n /\ algos[i] = algo
  <2>1. PICK j \in DOMAIN lines : lines[j] = k
    BY DEF ToSet
  <2>2. algo \in ToSet(carry[j]) /\ j \in DOMAIN carry
    BY <1>3, <2>1
  <2>3. algo \in ToSet(flat)
    BY <1>6, <2>2
  <2>4. PICK i \in 1..n : flat[i] = algo
    BY <1>7, <2>3 DEF ToSet
  <2>5. i \in DOMAIN algos /\ i <= n /\ algos[i] = algo
    BY <1>7, <2>4
  <2> QED  BY <2>5
<1>10. BeginsWith(algos, n, lines)
  <2> HIDE DEF n
  <2>1. DOMAIN algos \subseteq Nat
    BY <1>7
  <2> QED  BY <2>1, <1>8, <1>9 DEF BeginsWith
<1> QED
  BY <1>7, <1>10 DEF algos

KeysTyped ==
  /\ known \in Seq(Key) /\ snapshot \in Seq(Key) /\ recorded \in Seq(Key)
  /\ server \in [KeyTypes -> Versions \cup {0}]
  /\ stage \in {"off", "idle", "preparing", "dialing", "ask", "record", "up"}
  /\ asks \in [policy : Policies, terminal : BOOLEAN]
  /\ offered \in Key \cup {NoKey} /\ trusted \in Key \cup {NoKey}
  /\ stage \in {"ask", "record"} => offered \in Key

\* No host answers with a key outside its types.
LEMMA NegotiatedType ==
  ASSUME NEW algos, DOMAIN algos \subseteq Nat,
         server \in [KeyTypes -> Versions \cup {0}]
  PROVE  Negotiated(algos) \in Key \cup {NoKey}
<1>1. CASE \E i \in DOMAIN algos : Serves(algos[i])
  <2>1. PICK first \in DOMAIN algos :
           /\ Serves(algos[first])
           /\ Negotiated(algos) = [ type    |-> TypeOf(algos[first]),
                                    version |-> server[TypeOf(algos[first])] ]
    BY <1>1, FirstServed
  <2> QED  BY <2>1 DEF Serves, Key
<1>2. CASE ~\E i \in DOMAIN algos : Serves(algos[i])
  BY <1>2 DEF Negotiated
<1> QED  BY <1>1, <1>2

(***************************************************************************)
(* The property itself, in any state whose keys have their types.          *)
(***************************************************************************)
LEMMA Reconnects ==
  ASSUME KeysTyped
  PROVE  KnownHostsReconnect
<1> DEFINE algos == HostKeyAlgorithms(asks.policy, known)
           key == Negotiated(algos)
<1>1. SUFFICES ASSUME snapshot = known, recorded = known,
                      NEW k \in ToSet(known), server[k.type] = k.version,
                      \A l \in ToSet(known) : server[l.type] \in {0, l.version}
               PROVE  Verdict(asks.policy, asks.terminal, snapshot, key) = "accept"
  BY DEF KnownHostsReconnect
<1>2. CASE asks.policy = "no"
  BY <1>2 DEF Verdict
<1>3. CASE asks.policy # "no"
  <2>1. known \in Seq(Key) /\ known # << >>
    BY <1>1 DEF KeysTyped, ToSet
  <2>2. PICK n \in Nat : BeginsWith(algos, n, known)
    BY <1>3, <2>1, RecordedFirst
  <2> HIDE DEF algos
  <2>3. ToSet(known) \subseteq Key
    BY <2>1 DEF ToSet
  <2>4. k \in Key /\ server[k.type] # 0
    BY <1>1, <2>3, HostKeysAssumption DEF Key
  <2>5. PICK i \in DOMAIN algos : i <= n /\ Serves(algos[i])
    BY <2>2, <2>4, CarrierServed DEF Key, BeginsWith
  <2>6. PICK first \in DOMAIN algos :
           /\ first <= i /\ Serves(algos[first])
           /\ key = [ type    |-> TypeOf(algos[first]),
                      version |-> server[TypeOf(algos[first])] ]
    BY <2>2, <2>5, FirstServed DEF BeginsWith
  <2>7. first <= n
    BY <2>2, <2>5, <2>6 DEF BeginsWith
  <2>8. PICK l \in ToSet(known) : algos[first] \in ToSet(SignatureAlgos(l.type))
    BY <2>2, <2>6, <2>7 DEF BeginsWith
  <2>9. l \in Key /\ TypeOf(algos[first]) = l.type
    BY <2>3, <2>8, CarriersType DEF Key
  <2>10. server[l.type] = l.version
    BY <1>1, <2>6, <2>8, <2>9 DEF Serves
  <2>11. key = l
    BY <2>6, <2>9, <2>10 DEF Key
  <2> QED  BY <1>1, <2>8, <2>11 DEF Verdict
<1> QED  BY <1>2, <1>3

LEMMA AskedForType ==
  ASSUME NEW policy, NEW lines \in Seq(Key)
  PROVE  DOMAIN HostKeyAlgorithms(policy, lines) \subseteq Nat
<1>1. CASE policy = "no" \/ lines = << >>
  BY <1>1 DEF HostKeyAlgorithms, Supported
<1>2. CASE policy # "no" /\ lines # << >>
  BY <1>2, RecordedFirst DEF BeginsWith
<1> QED  BY <1>1, <1>2

LEMMA TypedIsTypeOK ==
  ASSUME KeysTyped
  PROVE  KeysTypeOK
<1>1. known \o snapshot \in Seq(Key) /\ (known \o snapshot) \o recorded \in Seq(Key)
  BY DEF KeysTyped
<1>2. ToSet(known \o snapshot \o recorded) \subseteq Key
  BY <1>1 DEF ToSet
<1> QED
  BY <1>2 DEF KeysTyped, KeysTypeOK

LEMMA KeysTypedInitially == KeysInit => KeysTyped
BY DEF KeysInit, KeysTyped, Policies

LEMMA HandshakeTypes ==
  ASSUME KeysTyped, Handshake
  PROVE  KeysTyped'
<1> DEFINE key == Negotiated(HostKeyAlgorithms(asks.policy, recorded))
           verdict == Verdict(asks.policy, asks.terminal, snapshot, key)
<1>1. key \in Key \cup {NoKey}
  BY AskedForType, NegotiatedType DEF KeysTyped
<1>2. /\ offered' = key /\ Outside /\ UNCHANGED <<asks, snapshot, recorded>>
      /\ \/ Fails
         \/ Ready(key)
         \/ key # NoKey /\ verdict \in {"record", "ask"} /\ stage' = verdict /\ trusted' = trusted
  BY DEF Handshake
<1> HIDE DEF key, verdict
<1> QED
  BY <1>1, <1>2 DEF KeysTyped, Fails, Ready, Outside

LEMMA AppendTypes ==
  ASSUME KeysTyped, AppendKnownHost
  PROVE  KeysTyped'
<1>1. offered \in Key
  BY DEF KeysTyped, AppendKnownHost
<1>2. Append(known, offered) \in Seq(Key)
  BY <1>1 DEF KeysTyped
<1> QED
  BY <1>1, <1>2 DEF KeysTyped, AppendKnownHost, Fails, Ready

LEMMA OthersType ==
  ASSUME KeysTyped,
         \/ Start \/ HostKeyCallback \/ RecordedKeys \/ Confirm \/ Lose \/ Leave \/ Rekey
         \/ Forget \/ UNCHANGED keysVars
  PROVE  KeysTyped'
<1>1. CASE Start \/ Leave
  BY <1>1 DEF KeysTyped, Start, Leave, Outside
<1>7. CASE RecordedKeys
  <2>1. /\ Outside /\ UNCHANGED <<asks, snapshot, offered, trusted>>
        /\ stage' = "dialing" /\ recorded' \in {known, << >>}
    BY <1>7 DEF RecordedKeys
  <2>2. CASE recorded' = known
    BY <2>1, <2>2 DEF KeysTyped, Outside
  <2>3. CASE recorded' = << >>
    <3>1. << >> \in Seq(Key)
      OBVIOUS
    <3>2. recorded' \in Seq(Key)
      BY <2>3, <3>1, Zenon
    <3>3. UNCHANGED <<known, server, asks, snapshot, offered, trusted>> /\ stage' = "dialing"
      BY <2>1 DEF Outside
    <3> QED
      BY <3>2, <3>3 DEF KeysTyped
  <2> QED
    BY <2>1, <2>2, <2>3
<1>6. CASE HostKeyCallback
  <2>1. /\ Outside /\ UNCHANGED <<asks, recorded, offered>> /\ trusted' = trusted
        /\ stage' \in {"off", "idle", "preparing"} /\ snapshot' \in {snapshot, known}
    BY <1>6 DEF HostKeyCallback, Fails
  <2> QED
    BY <2>1 DEF KeysTyped, Outside
<1>2. CASE Confirm \/ Lose
  BY <1>2 DEF KeysTyped, Confirm, Lose, Fails, Outside
<1>3. CASE Rekey
  <2>1. server' \in [KeyTypes -> Versions \cup {0}]
    BY <1>3 DEF KeysTyped, Rekey
  <2> QED
    BY <1>3, <2>1 DEF KeysTyped, Rekey
<1>4. CASE Forget
  BY <1>4 DEF KeysTyped, Forget
<1>5. CASE UNCHANGED keysVars
  BY <1>5 DEF KeysTyped, keysVars
<1> QED
  BY <1>1, <1>2, <1>3, <1>4, <1>5, <1>6, <1>7

LEMMA KeysTypedStep == KeysTyped /\ [KeysNext]_keysVars => KeysTyped'
BY HandshakeTypes, AppendTypes, OthersType DEF KeysNext, Program

(***************************************************************************)
(* Whatever types of keys a host has and however many are recorded of it,  *)
(* no reconnect to it is refused while it keeps one of them and changes    *)
(* none: what is asked for begins with the algorithms that carry the       *)
(* recorded keys, so the first that the host serves is one of those        *)
(* (HostKeyAlgorithms, verify).                                            *)
(***************************************************************************)
THEOREM KnownHostsAreReached == KeysSpec => [](KeysTypeOK /\ KnownHostsReconnect)
<1>1. KeysTyped => KeysTypeOK /\ KnownHostsReconnect
  BY Reconnects, TypedIsTypeOK
<1> QED
  BY <1>1, KeysTypedInitially, KeysTypedStep, PTL DEF KeysSpec
=============================================================================
