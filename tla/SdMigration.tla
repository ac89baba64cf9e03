---------------------------- MODULE SdMigration ----------------------------
(***************************************************************************)
(* Moving the files of a card's roms/homebrew to the directory its firmware *)
(* reads (sdHomebrewMigration.ts, offered by RomManagementTab).  The File  *)
(* System Access API has no move: each file is copied, read back, compared *)
(* and only then removed, one await at a time, and the card may be pulled  *)
(* between any two of them.                                                *)
(*                                                                         *)
(* The content of a file is a value; Broken stands for the empty or wrong  *)
(* bytes a write leaves.  The order of a directory's entries is not fixed. *)
(***************************************************************************)
EXTENDS Integers

CONSTANTS
  Files,          \* names below the homebrew directories
  Contents, None, Broken,
  Layouts,        \* what the marker and the release tell: "modern", "unknown", "legacy"
  Faults,         \* of "pull", "read", "lookup", "write", "remove", "unreadable", "foreign"
  MAX_FAULTS,     \* bound: faults per behaviour
  MAX_CANCELS     \* bound: runs the user stops

ASSUME SdMigrationAssumption ==
  /\ None \notin Contents /\ Broken \notin Contents /\ None # Broken
  /\ Layouts \subseteq {"modern", "unknown", "legacy"}
  /\ Faults \subseteq {"pull", "read", "lookup", "write", "remove", "unreadable", "foreign"}
  /\ MAX_FAULTS \in Nat /\ MAX_CANCELS \in Nat

VARIABLES
  legacy, modern,   \* the two directories of the card
  legacyDir,        \* roms/homebrew exists
  layout,           \* cardHomebrewLayout
  declined,         \* rememberDeclinedMove
  pc,               \* where the offer, the run or the move of a file is
  file, bytes,      \* the file that is moved, and what was read of it
  plan,             \* movePlan: what is left of it
  left,             \* files the run could not act on
  aborted,          \* its signal
  faults, cancels,  \* so far
  missed            \* history: names moveOne took for free when a file had them

card == <<legacy, modern, legacyDir>>
runVars == <<file, bytes, plan, left, aborted>>
bounds == <<faults, cancels>>
vars == <<card, layout, declined, pc, runVars, bounds, missed>>

Steps == {"idle", "offered", "next", "read", "check", "create", "write", "readback",
          "discard", "remove", "sweep", "prune"}

\* The types of the variables.
TypeOK ==
  /\ legacy \in [Files -> Contents \cup {None}]
  /\ modern \in [Files -> Contents \cup {None, Broken}]
  /\ legacyDir \in BOOLEAN
  /\ layout \in Layouts
  /\ declined \in BOOLEAN
  /\ pc \in Steps
  /\ file \in Files \cup {None}
  /\ bytes \in Contents \cup {None}
  /\ plan \subseteq Files
  /\ left \in BOOLEAN /\ aborted \in BOOLEAN
  /\ faults \in 0..MAX_FAULTS /\ cancels \in 0..MAX_CANCELS
  /\ missed \subseteq Files

Init ==
  /\ legacy \in [Files -> Contents \cup {None}]
  /\ modern \in [Files -> Contents \cup {None}]
  /\ legacyDir = TRUE
  /\ layout \in Layouts
  /\ declined = FALSE
  /\ pc = "idle"
  /\ file = None /\ bytes = None /\ plan = {} /\ left = FALSE /\ aborted = FALSE
  /\ faults = 0 /\ cancels = 0 /\ missed = {}

Fault(f) == f \in Faults /\ faults < MAX_FAULTS /\ faults' = faults + 1 /\ UNCHANGED cancels
NoFault == UNCHANGED bounds

-----------------------------------------------------------------------------
(* The offer. *)

\* scanLegacyHomebrew: the files it can stat, the others are passed over in silence.
Seen(hidden) == {f \in Files : legacy[f] # None} \ hidden

\* Mutant: an original that an earlier run copied is not offered again.
PlanMovable(hidden, unread) == {f \in Seen(hidden) : modern[f] = None}
\* movePlan: what has no namesake, and what is there with the same bytes.  sameContents
\* claims nothing of files that it cannot read.
Plan(hidden, unread) ==
  {f \in Seen(hidden) : modern[f] = None \/ (f \notin unread /\ modern[f] = legacy[f])}

ReadyToMove(found) == layout # "legacy" /\ found # {} /\ ~declined

\* The scan and its verdict; conflicts count as left before the run starts.
Offer ==
  /\ pc = "idle" /\ legacyDir
  /\ \E hidden, unread \in SUBSET Files :
       /\ IF hidden \cup unread = {} THEN NoFault ELSE Fault("unreadable")
       /\ ReadyToMove(Plan(hidden, unread))
       /\ plan' = Plan(hidden, unread)
       /\ left' = (Seen(hidden) # Plan(hidden, unread))
  /\ pc' = "offered" /\ aborted' = FALSE
  /\ UNCHANGED <<card, layout, declined, file, bytes, missed>>

Confirm ==
  /\ pc = "offered" /\ pc' = "next"
  /\ UNCHANGED <<card, layout, declined, runVars, bounds, missed>>

Decline ==
  /\ pc = "offered" /\ pc' = "idle" /\ declined' = TRUE
  /\ UNCHANGED <<card, layout, runVars, bounds, missed>>

Cancel ==
  /\ pc \notin {"idle", "offered"} /\ ~aborted /\ cancels < MAX_CANCELS
  /\ aborted' = TRUE /\ cancels' = cancels + 1
  /\ UNCHANGED <<card, layout, declined, pc, file, bytes, plan, left, faults, missed>>

-----------------------------------------------------------------------------
(* moveLegacyHomebrew and moveOne. *)

NextFile ==
  /\ pc = "next" /\ plan # {} /\ ~aborted
  /\ file' \in plan
  /\ plan' = plan \ {file'}
  /\ pc' = "read"
  /\ UNCHANGED <<card, layout, declined, bytes, left, aborted, bounds, missed>>

\* A file that was moved, or reconciled.
Succeed == pc' = "next" /\ UNCHANGED left
\* A file that failed, or was skipped.
Fail == pc' = "next" /\ left' = TRUE

Read ==
  /\ pc = "read"
  /\ \/ /\ legacy[file] # None /\ NoFault
        /\ bytes' = legacy[file] /\ pc' = "check" /\ UNCHANGED left
     \/ /\ legacy[file] = None /\ NoFault /\ Fail /\ UNCHANGED bytes
     \/ Fault("read") /\ Fail /\ UNCHANGED bytes
  /\ UNCHANGED <<card, layout, declined, file, plan, aborted, missed>>

\* The destination holds identical bytes, read again: the original is a leftover.
Occupied == modern[file] = bytes

\* The destination that is there decides: absent, this file, or another one.  A lookup that
\* is rejected, for whatever reason, counts as absent.
Check ==
  /\ pc = "check"
  /\ \/ modern[file] = None /\ pc' = "create" /\ UNCHANGED <<left, missed>> /\ NoFault
     \/ Occupied /\ pc' = "remove" /\ UNCHANGED <<left, missed>> /\ NoFault
     \/ modern[file] # None /\ ~Occupied /\ Fail /\ UNCHANGED missed /\ NoFault
     \/ Fault("read") /\ Fail /\ UNCHANGED missed
     \/ /\ Fault("lookup") /\ pc' = "create" /\ UNCHANGED left
        /\ missed' = missed \cup {f \in {file} : modern[f] # None}
  /\ UNCHANGED <<card, layout, declined, file, bytes, plan, aborted>>

\* getFileHandle with create: an empty file where there is none, the file that is there else.
Create ==
  /\ pc = "create"
  /\ \/ /\ modern' = [modern EXCEPT ![file] = IF @ = None THEN Broken ELSE @]
        /\ pc' = "write" /\ UNCHANGED left /\ NoFault
     \/ Fault("write") /\ Fail /\ UNCHANGED modern
  /\ UNCHANGED <<legacy, legacyDir, layout, declined, file, bytes, plan, aborted, missed>>

\* createWritable, write, close: it works, or it resolves, or throws, with what was there
\* before or with wrong bytes in its place.
Write ==
  /\ pc = "write"
  /\ \/ modern' = [modern EXCEPT ![file] = bytes] /\ pc' = "readback" /\ UNCHANGED left /\ NoFault
     \/ /\ Fault("write")
        /\ modern' \in {modern, [modern EXCEPT ![file] = Broken]}
        /\ (pc' = "readback" /\ UNCHANGED left) \/ Fail
  /\ UNCHANGED <<legacy, legacyDir, layout, declined, file, bytes, plan, aborted, missed>>

\* Mutant: a resolved promise is proof enough.
VerifiedTrusting == TRUE
Verified == modern[file] = bytes

ReadBack ==
  /\ pc = "readback"
  /\ \/ Verified /\ pc' = "remove" /\ UNCHANGED left /\ NoFault
     \/ ~Verified /\ pc' = "discard" /\ UNCHANGED left /\ NoFault
     \/ Fault("read") /\ Fail
  /\ UNCHANGED <<card, layout, declined, file, bytes, plan, aborted, missed>>

Discard ==
  /\ pc = "discard"
  /\ Fail
  /\ \/ modern' = [modern EXCEPT ![file] = None] /\ NoFault
     \/ Fault("remove") /\ UNCHANGED modern
  /\ UNCHANGED <<legacy, legacyDir, layout, declined, file, bytes, plan, aborted, missed>>

\* Mutant: the original is emptied in place of removed.
RemoveSourceEmptying ==
  /\ pc = "remove"
  /\ \/ legacy' = [legacy EXCEPT ![file] = Broken] /\ Succeed /\ NoFault
     \/ Fault("remove") /\ Fail /\ UNCHANGED legacy
  /\ UNCHANGED <<modern, legacyDir, layout, declined, file, bytes, plan, aborted, missed>>
RemoveSource ==
  /\ pc = "remove"
  /\ \/ legacy' = [legacy EXCEPT ![file] = None] /\ Succeed /\ NoFault
     \/ Fault("remove") /\ Fail /\ UNCHANGED legacy
  /\ UNCHANGED <<modern, legacyDir, layout, declined, file, bytes, plan, aborted, missed>>

-----------------------------------------------------------------------------
(* removeLegacyDirIfEmpty, and what the card goes through. *)

LoopOver ==
  /\ pc = "next" /\ (plan = {} \/ aborted)
  /\ pc' = IF left THEN "idle" ELSE "sweep"
  /\ UNCHANGED <<card, layout, declined, runVars, bounds, missed>>

HoldsNoFile == \A f \in Files : legacy[f] = None

Sweep ==
  /\ pc = "sweep"
  /\ pc' = IF HoldsNoFile THEN "prune" ELSE "idle"
  /\ UNCHANGED <<card, layout, declined, runVars, bounds, missed>>

\* The removal is refused of a directory that something has arrived in since the walk.
Removable == HoldsNoFile

Prune ==
  /\ pc = "prune" /\ pc' = "idle"
  /\ \/ legacyDir' = ~Removable /\ NoFault
     \/ Fault("remove") /\ UNCHANGED legacyDir
  /\ UNCHANGED <<legacy, modern, layout, declined, runVars, missed>>

\* The card is pulled, or the tab closed: only the card and the decline are left.
Pull ==
  /\ pc # "idle" /\ Fault("pull")
  /\ pc' = "idle"
  /\ UNCHANGED <<card, layout, declined, runVars, missed>>

\* Somebody else puts a file on the card, between the lookup of moveOne and its create too.
\* In the old directory it is not the copy of one that was moved.
Foreign ==
  /\ Fault("foreign")
  /\ \E f \in Files, c \in Contents :
       \/ /\ modern[f] = None /\ modern' = [modern EXCEPT ![f] = c] /\ UNCHANGED legacy
          /\ missed' = IF pc = "create" /\ f = file THEN missed \cup {f} ELSE missed
       \/ /\ legacyDir /\ legacy[f] = None /\ modern[f] # c
          /\ legacy' = [legacy EXCEPT ![f] = c] /\ UNCHANGED <<modern, missed>>
  /\ UNCHANGED <<legacyDir, layout, declined, pc, runVars>>

Run ==
  \/ NextFile \/ Read \/ Check \/ Create \/ Write \/ ReadBack \/ Discard
  \/ RemoveSource \/ LoopOver \/ Sweep \/ Prune

Next == Offer \/ Confirm \/ Decline \/ Cancel \/ Run \/ Pull \/ Foreign

Spec == Init /\ [][Next]_vars

\* The run goes on by itself.  The card is opened again and the move confirmed for
\* ever: what a user who wants the migration does, and no code's obligation.
FairSpec == Spec /\ WF_vars(Run) /\ WF_vars(Offer) /\ SF_vars(Confirm)
-----------------------------------------------------------------------------
\* What goes with the directory is gone; a copy that has not been verified, or whose
\* original is still there, does not count.
oldDir == [f \in Files |-> IF legacyDir THEN legacy[f] ELSE None]
newDir == [f \in Files |-> IF legacy[f] # None /\ modern[f] \in {Broken, legacy[f]}
                           THEN None ELSE modern[f]]

Abstract == INSTANCE HomebrewCard WITH legacy <- oldDir, modern <- newDir, missed <- missed

\* "There is no instant at which a file exists in neither place": through every failed read,
\* lookup, write, comparison and removal, a card pulled at any await and a file of somebody
\* else at any moment, moveOne moves an original whole or not at all, and
\* removeLegacyDirIfEmpty takes none with it.  What had the name in the destination directory
\* is overwritten in the two cases only that the header does not know: its lookup was
\* rejected, or it came between the lookup and the create.
MovesWhole == Abstract!Spec

\* A complete file in the destination directory is overwritten or discarded by moveOne only
\* while it moves a file of that name whose lookup did not see it.
OverwritesOnlyMissed ==
  [][\A f \in Files : modern[f] \notin {None, Broken} /\ modern'[f] # modern[f]
                       => f = file /\ f \in missed]_vars

Settled(f) == legacy[f] = None \/ modern[f] \notin {None, legacy[f]}

\* However often it is interrupted, a migration that is offered and confirmed again comes to
\* an end: every file is in its place or has a namesake that is not it.
Finishes == <>[](declined \/ layout = "legacy" \/ \A f \in Files : Settled(f))

\* What the header promises of a card pulled halfway: running again finishes the job, rather
\* than report a collision where nothing was there before.
InterruptedRunResumes ==
  (\A f \in Files : modern[f] = None)
    => <>[](declined \/ layout = "legacy" \/ \A f \in Files : legacy[f] = None)
=============================================================================
