---------------------------- MODULE HomebrewCard ----------------------------
(***************************************************************************)
(* What a move of roms/homebrew promises of the card: every file is in one *)
(* of the two directories and gets to the other one at once, unchanged, if *)
(* nothing has its name there.  It may miss that something has: that file  *)
(* is lost, the one that is moved never is.                                *)
(***************************************************************************)
CONSTANTS Files, Contents, None

VARIABLES
  legacy, modern,   \* what each directory holds under each name
  missed            \* names that were taken for free when they were not

Init ==
  /\ legacy \in [Files -> Contents \cup {None}]
  /\ modern \in [Files -> Contents \cup {None}]
  /\ missed = {}

Move(f) ==
  /\ legacy[f] # None /\ modern[f] = None
  /\ modern' = [modern EXCEPT ![f] = legacy[f]]
  /\ legacy' = [legacy EXCEPT ![f] = None]
  /\ UNCHANGED missed

\* Somebody else puts a file on the card, seen or not.
Arrive(f, c) ==
  \/ /\ modern[f] = None /\ modern' = [modern EXCEPT ![f] = c] /\ UNCHANGED legacy
     /\ missed' \in {missed, missed \cup {f}}
  \/ legacy[f] = None /\ legacy' = [legacy EXCEPT ![f] = c] /\ UNCHANGED <<modern, missed>>

\* A name in the destination is taken for free, ...
Miss(f) == missed' = missed \cup {f} /\ UNCHANGED <<legacy, modern>>

\* ... and what has it makes room for the file that is to be moved there.
Overwrite(f) ==
  /\ f \in missed /\ legacy[f] # None
  /\ modern' = [modern EXCEPT ![f] = None] /\ UNCHANGED <<legacy, missed>>

Next == \E f \in Files : Move(f) \/ Miss(f) \/ Overwrite(f) \/ \E c \in Contents : Arrive(f, c)

Spec == Init /\ [][Next]_<<legacy, modern, missed>>
=============================================================================
