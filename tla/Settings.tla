------------------------------ MODULE Settings --------------------------------
(***************************************************************************)
(* The settings file (internal/config/config.go): programs that run at the *)
(* same time each load it when they start, change their own copy, and save *)
(* the whole of it when they end. One host and one of its ports stand for  *)
(* all of them; of the presentation, ShowPreexisting stands for the        *)
(* choices whose absence is their zero and InactiveLast for the one whose  *)
(* absence is its default; of a port, the scheme stands for its settings.  *)
(***************************************************************************)
EXTENDS Integers

CONSTANTS Programs

VARIABLES
  file,    \* hosts.yml
  legacy,  \* whether the file of an earlier version is there
  run,     \* how far each program has come
  store,   \* each program's copy
  dirty,   \* whether the copy has anything to save
  temp,    \* what each program's temporary file holds
  chosen,  \* what its user has been shown or has chosen last (history)
  asked    \* whether anything was ever recorded in the copy (history)

settingsVars == <<file, legacy, run, store, dirty, temp, chosen, asked>>

Host == [View : {"", "everything"}, ShowPreexisting : BOOLEAN,
         InactiveLast : {"absent", "yes", "no"}, port : {"absent", "auto", "https"}]

NoHost == [View |-> "", ShowPreexisting |-> FALSE,
           InactiveLast |-> "absent", port |-> "absent"]

Prefs == [ShowPreexisting : BOOLEAN, InactiveLast : BOOLEAN]

Whole(h) == [kind |-> "whole", host |-> h]
Broken(kind) == [kind |-> kind, host |-> NoHost]

Files == {Whole(h) : h \in Host}
           \cup {Broken(k) : k \in {"missing", "malformed", "partial"}}

-----------------------------------------------------------------------------
IsZero(h) == h = NoHost

\* A host that holds nothing is deleted.
Stored(h) == IF IsZero(h) THEN NoHost ELSE h

ViewPrefs(h) ==
  [ShowPreexisting |-> h.ShowPreexisting \/ h.View = "everything",
   InactiveLast    |-> h.InactiveLast # "no"]

WithPrefs(h, p) ==
  [h EXCEPT !.View = "", !.ShowPreexisting = p.ShowPreexisting,
            !.InactiveLast = IF p.InactiveLast THEN "absent" ELSE "no"]

\* Nothing is worth keeping of a port that is automatic.
WithPort(h, setting) ==
  [h EXCEPT !.port = IF setting = "auto" THEN "absent" ELSE setting]

Scheme(h) == IF h.port = "https" THEN "https" ELSE "auto"

Shown(h) == [prefs |-> ViewPrefs(h), port |-> Scheme(h)]

-----------------------------------------------------------------------------
\* The copy of a program that reads this, and whether it has to be saved: the
\* old file counts only when there is no new one.
Loaded(data) ==
  IF data.kind = "whole" THEN [host |-> data.host, dirty |-> FALSE]
  ELSE IF data.kind = "missing" /\ legacy
  THEN [host |-> [NoHost EXCEPT !.port = "https"], dirty |-> TRUE]
  ELSE [host |-> NoHost, dirty |-> FALSE]

\* A file that cannot be read is as good as missing.
Open(p) ==
  /\ run[p] = "off"
  /\ \E data \in {file, Broken("missing")} :
       /\ store' = [store EXCEPT ![p] = Loaded(data).host]
       /\ dirty' = [dirty EXCEPT ![p] = Loaded(data).dirty]
       /\ asked' = [asked EXCEPT ![p] = Loaded(data).dirty]
       /\ chosen' = [chosen EXCEPT ![p] = Shown(Loaded(data).host)]
  /\ run' = [run EXCEPT ![p] = "on"]
  /\ UNCHANGED <<file, legacy, temp>>

\* A choice that leaves the copy as it is leaves it clean.
Record(p, next) ==
  /\ store' = [store EXCEPT ![p] = Stored(next)]
  /\ dirty' = [dirty EXCEPT ![p] = @ \/ next # store[p]]
  /\ asked' = [asked EXCEPT ![p] = TRUE]
  /\ UNCHANGED <<file, legacy, run, temp>>

SetViewPrefs(p) ==
  /\ run[p] = "on"
  /\ \E prefs \in Prefs :
       /\ Record(p, WithPrefs(store[p], prefs))
       /\ chosen' = [chosen EXCEPT ![p].prefs = prefs]

SetPort(p) ==
  /\ run[p] = "on"
  /\ \E setting \in {"auto", "https"} :
       /\ Record(p, WithPort(store[p], setting))
       /\ chosen' = [chosen EXCEPT ![p].port = setting]

\* A program ends, and what it has not saved is gone.
Ended(p) ==
  /\ run' = [run EXCEPT ![p] = "off"]
  /\ store' = [store EXCEPT ![p] = NoHost]
  /\ temp' = [temp EXCEPT ![p] = Broken("missing")]
  /\ dirty' = [dirty EXCEPT ![p] = FALSE]
  /\ asked' = [asked EXCEPT ![p] = FALSE]
  /\ chosen' = [chosen EXCEPT ![p] = Shown(NoHost)]
  /\ UNCHANGED legacy

\* The temporary file is made, or cannot be.
Begin(p) ==
  /\ run' = [run EXCEPT ![p] = "writing"]
  /\ dirty' = [dirty EXCEPT ![p] = FALSE]
  /\ temp' = [temp EXCEPT ![p] = Broken("partial")]
  /\ UNCHANGED <<file, legacy, store, chosen, asked>>

\* Mutant: the file is written whether or not there is anything to save.
SaveAlways(p) == run[p] = "on" /\ Begin(p)

\* Save, once, when the program ends.
Save(p) ==
  /\ run[p] = "on"
  /\ \/ dirty[p] /\ Begin(p)
     \/ Ended(p) /\ UNCHANGED file

\* Mutant: what a failed write has left is taken for the whole.
WriteUnchecked(p) ==
  /\ run[p] = "writing" /\ run' = [run EXCEPT ![p] = "written"]
  /\ \E data \in {Whole(store[p]), Broken("partial")} : temp' = [temp EXCEPT ![p] = data]
  /\ UNCHANGED <<file, legacy, store, dirty, chosen, asked>>

\* Write, Close and Chmod; when one fails the file stays as it was.
Write(p) ==
  /\ run[p] = "writing"
  /\ \/ /\ run' = [run EXCEPT ![p] = "written"]
        /\ temp' = [temp EXCEPT ![p] = Whole(store[p])]
        /\ UNCHANGED <<file, legacy, store, dirty, chosen, asked>>
     \/ Ended(p) /\ UNCHANGED file

Rename(p) ==
  /\ run[p] = "written" /\ Ended(p)
  /\ file' \in {file, temp[p]}

\* The program is killed, at any point.
Crash(p) == run[p] # "off" /\ Ended(p) /\ UNCHANGED file

SettingsNext ==
  \E p \in Programs : Open(p) \/ SetViewPrefs(p) \/ SetPort(p) \/ Save(p)
                        \/ Write(p) \/ Rename(p) \/ Crash(p)

SettingsInit ==
  /\ file \in Files \ {Broken("partial")} /\ legacy \in BOOLEAN
  /\ run = [p \in Programs |-> "off"] /\ store = [p \in Programs |-> NoHost]
  /\ dirty = [p \in Programs |-> FALSE] /\ asked = [p \in Programs |-> FALSE]
  /\ temp = [p \in Programs |-> Broken("missing")]
  /\ chosen = [p \in Programs |-> Shown(NoHost)]

SettingsSpec == SettingsInit /\ [][SettingsNext]_settingsVars

-----------------------------------------------------------------------------
SettingsTypeOK ==
  /\ file \in Files /\ legacy \in BOOLEAN
  /\ run \in [Programs -> {"off", "on", "writing", "written"}]
  /\ store \in [Programs -> Host] /\ temp \in [Programs -> Files]
  /\ dirty \in [Programs -> BOOLEAN] /\ asked \in [Programs -> BOOLEAN]
  /\ chosen \in [Programs -> [prefs : Prefs, port : {"auto", "https"}]]

(***************************************************************************)
(* What a program shows of its settings is what it has read until the user *)
(* chooses otherwise, and then what was chosen last, however the file      *)
(* spells it: with the older name for a view, with a default written out,  *)
(* or with a host that is deleted because nothing is left of it            *)
(* (config.go:141, 161, 352).                                              *)
(***************************************************************************)
ChoicesReadBack ==
  \A p \in Programs : run[p] # "off" => Shown(store[p]) = chosen[p]

(***************************************************************************)
(* A program in which nothing was recorded leaves the file alone, so that  *)
(* it cannot undo what another has saved meanwhile (config.go:397).        *)
(***************************************************************************)
OnlyChoicesAreSaved ==
  [][file' # file => \E p \in Programs : asked[p] /\ file'.host = store[p]]_settingsVars

Atomic == INSTANCE AtomicFile WITH
  Writers <- Programs, Documents <- {Whole(h) : h \in Host},
  NoOffer <- Broken("missing"),
  offers  <- [p \in Programs |-> IF run[p] \in {"writing", "written"}
                                 THEN Whole(store[p]) ELSE Broken("missing")]

(***************************************************************************)
(* Saving replaces the file as AtomicFile promises, whatever fails and     *)
(* wherever a program is killed: an interrupted save never truncates it    *)
(* (config.go:420).                                                        *)
(***************************************************************************)
SavingIsAtomic == Atomic!Spec
=============================================================================
