------------------------------- MODULE MCFiles --------------------------------
(***************************************************************************)
(* The two files autotun shares with other programs, for TLC. They have    *)
(* nothing in common, so a behaviour is about one of them and the other    *)
(* stays as it is: the states are the sum of the two and not the product.  *)
(***************************************************************************)
EXTENDS Settings, HostKeys, TLC

VARIABLE part

MCInit ==
  /\ SettingsInit /\ KeysInit
  /\ \/ part = "settings" /\ server = [t \in KeyTypes |-> 0]
     \/ part = "keys" /\ file = Broken("missing") /\ ~legacy

MCNext ==
  \/ part = "settings" /\ SettingsNext /\ UNCHANGED <<part, keysVars>>
  \/ part = "keys" /\ KeysNext /\ UNCHANGED <<part, settingsVars>>

\* Neither the programs nor the versions of a key differ in anything.
Symmetry == Permutations(Programs) \cup Permutations(Versions)

MCSpec == MCInit /\ [][MCNext]_<<part, settingsVars, keysVars>>
=============================================================================
