------------------------------ MODULE AtomicFile ------------------------------
(***************************************************************************)
(* What saving the settings promises (internal/config/config.go:420): the  *)
(* file only ever goes from one whole document to another that a program   *)
(* has offered, in one step, whatever fails or stops in between.           *)
(***************************************************************************)
CONSTANTS
  Writers, Documents,
  NoOffer   \* is no document

VARIABLES
  file,    \* what a reader finds
  offers   \* the document each writer is about to put in its place

Init == offers = [w \in Writers |-> NoOffer]

Offer(w) ==
  /\ offers[w] = NoOffer
  /\ \E d \in Documents : offers' = [offers EXCEPT ![w] = d]
  /\ UNCHANGED file

Replace(w) ==
  /\ offers[w] # NoOffer
  /\ file' = offers[w] /\ offers' = [offers EXCEPT ![w] = NoOffer]

Withdraw(w) ==
  /\ offers[w] # NoOffer
  /\ offers' = [offers EXCEPT ![w] = NoOffer]
  /\ UNCHANGED file

Next == \E w \in Writers : Offer(w) \/ Replace(w) \/ Withdraw(w)

Spec == Init /\ [][Next]_<<file, offers>>
=============================================================================
