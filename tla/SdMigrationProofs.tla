------------------------- MODULE SdMigrationProofs -------------------------
(***************************************************************************)
(* Proofs about SdMigration, for every card, every set of faults and every *)
(* bound: the types, which complete files can be overwritten, that no      *)
(* original is lost, and that the run implements HomebrewCard.  The        *)
(* argument: from the comparison to the removal, what was read is what the *)
(* original still holds, and each step knows what its destination holds,   *)
(* unless its lookup missed a file there.                                  *)
(***************************************************************************)
EXTENDS SdMigration, TLAPS

\* The parts of TypeOK: what is a flag, and what is not.
Flags == legacyDir \in BOOLEAN /\ declined \in BOOLEAN /\ left \in BOOLEAN /\ aborted \in BOOLEAN

Values ==
  /\ legacy \in [Files -> Contents \cup {None}]
  /\ modern \in [Files -> Contents \cup {None, Broken}]
  /\ layout \in Layouts
  /\ pc \in Steps
  /\ file \in Files \cup {None}
  /\ bytes \in Contents \cup {None}
  /\ plan \subseteq Files
  /\ faults \in 0..MAX_FAULTS /\ cancels \in 0..MAX_CANCELS
  /\ missed \subseteq Files

\* The file that is moved is one.
Named == pc \in Steps \ {"idle", "offered", "next", "sweep", "prune"} => file \in Files

LEMMA TypeParts == TypeOK <=> Flags /\ Values
BY DEF TypeOK, Flags, Values

\* The types hold initially and under every step.
LEMMA TypeInit == Init => TypeOK /\ Named
<1> SUFFICES ASSUME Init PROVE Flags /\ Values /\ Named
  BY TypeParts
<1>1. Flags
  BY Zenon DEF Init, Flags
<1>2. modern \in [Files -> Contents \cup {None, Broken}]
  BY DEF Init
<1>3. Values
  BY <1>2, SdMigrationAssumption DEF Init, Values, Steps
<1>4. Named
  BY DEF Init, Named, Steps
<1> QED
  BY <1>1, <1>3, <1>4

LEMMA FlagsStep == Flags /\ [Next]_vars => Flags'
<1> SUFFICES ASSUME Flags, [Next]_vars PROVE Flags'
  OBVIOUS
<1> USE DEF Flags
<1>1. CASE Offer
  BY <1>1, Zenon DEF Offer, card, runVars, Succeed, Fail
<1>2. CASE Confirm
  BY <1>2, Zenon DEF Confirm, card, runVars, Succeed, Fail
<1>3. CASE Decline
  BY <1>3, Zenon DEF Decline, card, runVars, Succeed, Fail
<1>4. CASE Cancel
  BY <1>4, Zenon DEF Cancel, card, runVars, Succeed, Fail
<1>5. CASE NextFile
  BY <1>5, Zenon DEF NextFile, card, runVars, Succeed, Fail
<1>6. CASE Read
  BY <1>6, Zenon DEF Read, card, runVars, Succeed, Fail
<1>7. CASE Check
  BY <1>7, Zenon DEF Check, card, runVars, Succeed, Fail
<1>8. CASE Create
  BY <1>8, Zenon DEF Create, card, runVars, Succeed, Fail
<1>9. CASE Write
  BY <1>9, Zenon DEF Write, card, runVars, Succeed, Fail
<1>10. CASE ReadBack
  BY <1>10, Zenon DEF ReadBack, card, runVars, Succeed, Fail
<1>11. CASE Discard
  BY <1>11, Zenon DEF Discard, card, runVars, Succeed, Fail
<1>12. CASE RemoveSource
  BY <1>12, Zenon DEF RemoveSource, card, runVars, Succeed, Fail
<1>13. CASE LoopOver
  BY <1>13, Zenon DEF LoopOver, card, runVars, Succeed, Fail
<1>14. CASE Sweep
  BY <1>14, Zenon DEF Sweep, card, runVars, Succeed, Fail
<1>15. CASE Prune
  BY <1>15, Zenon DEF Prune, card, runVars
<1>16. CASE Pull
  BY <1>16, Zenon DEF Pull, card, runVars, Succeed, Fail
<1>17. CASE Foreign
  BY <1>17, Zenon DEF Foreign, card, runVars, Succeed, Fail
<1>18. CASE UNCHANGED vars
  BY <1>18, Zenon DEF vars, card, runVars, bounds
<1> QED
  BY <1>1, <1>2, <1>3, <1>4, <1>5, <1>6, <1>7, <1>8, <1>9, <1>10, <1>11, <1>12, <1>13,
     <1>14, <1>15, <1>16, <1>17, <1>18 DEF Next, Run

LEMMA ValuesStep == Values /\ Named /\ [Next]_vars => Values'
<1> SUFFICES ASSUME Values, Named, [Next]_vars PROVE Values'
  OBVIOUS
<1> USE SdMigrationAssumption DEF Values, Named, Steps, Fault, NoFault, Succeed, Fail
<1>1. CASE Offer
  BY <1>1 DEF Offer, Seen, Plan, card, bounds
<1>2. CASE Confirm
  BY <1>2 DEF Confirm, card, runVars, bounds
<1>3. CASE Decline
  BY <1>3 DEF Decline, card, runVars, bounds
<1>4. CASE Cancel
  BY <1>4 DEF Cancel, card, runVars, bounds
<1>5. CASE NextFile
  BY <1>5 DEF NextFile, card, runVars, bounds
<1>6. CASE Read
  BY <1>6 DEF Read, card, runVars, bounds
<1>7. CASE Check
  BY <1>7 DEF Check, card, runVars, bounds
<1>8. CASE Create
  BY <1>8 DEF Create, card, runVars, bounds
<1>9. CASE Write
  BY <1>9 DEF Write, card, runVars, bounds
<1>10. CASE ReadBack
  BY <1>10 DEF ReadBack, card, runVars, bounds
<1>11. CASE Discard
  BY <1>11 DEF Discard, card, runVars, bounds
<1>12. CASE RemoveSource
  BY <1>12 DEF RemoveSource, card, runVars, bounds
<1>13. CASE LoopOver
  BY <1>13 DEF LoopOver, card, runVars, bounds
<1>14. CASE Sweep
  BY <1>14 DEF Sweep, card, runVars, bounds
<1>15. CASE Prune
  BY <1>15 DEF Prune, card, runVars, bounds
<1>16. CASE Pull
  BY <1>16 DEF Pull, card, runVars, bounds
<1>17. CASE Foreign
  BY <1>17 DEF Foreign, card, runVars, bounds
<1>18. CASE UNCHANGED vars
  BY <1>18 DEF vars, card, runVars, bounds
<1> QED
  BY <1>1, <1>2, <1>3, <1>4, <1>5, <1>6, <1>7, <1>8, <1>9, <1>10, <1>11, <1>12, <1>13,
     <1>14, <1>15, <1>16, <1>17, <1>18 DEF Next, Run

LEMMA NamedStep == Values /\ Named /\ [Next]_vars => Named'
BY DEF Named, Values, Steps, Next, Run, Offer, Confirm, Decline, Cancel, NextFile, Read, Check, Create,
       Write, ReadBack, Discard, RemoveSource, LoopOver, Sweep, Prune, Pull, Foreign, vars, card,
       runVars, Succeed, Fail

LEMMA TypeStep == TypeOK /\ Named /\ [Next]_vars => (TypeOK /\ Named)'
<1>1. (Flags /\ Values)' => TypeOK'
  BY TypeParts, PTL
<1> QED
  BY <1>1, TypeParts, FlagsStep, ValuesStep, NamedStep

\* The type invariant of SdMigration: the offer, moveOne and the clean-up keep the
\* variables in their types.
THEOREM TypeCorrect == Spec => []TypeOK
BY TypeInit, TypeStep, PTL DEF Spec

-----------------------------------------------------------------------------
\* moveOne between the comparison and the removal.
Moving == {"check", "create", "write", "readback", "discard", "remove"}

\* What was read is what the original holds.
SourceInv == pc \in Moving => file \in Files /\ bytes = legacy[file] /\ bytes # None

\* What each step knows of its destination.
DestInv ==
  /\ pc = "create" => modern[file] = None \/ file \in missed
  /\ pc \in {"write", "discard"} =>
       modern[file] = Broken \/ (modern[file] # None /\ file \in missed)
  /\ pc = "readback" =>
       modern[file] \in {Broken, bytes} \/ (modern[file] # None /\ file \in missed)
  /\ pc = "remove" => modern[file] = bytes

\* What was left unverified, or half written, has its original.
HalfInv == \A f \in Files : modern[f] = Broken => legacy[f] # None

\* The directory goes last, and a run has one.
DirInv ==
  /\ pc # "idle" => legacyDir
  /\ ~legacyDir => \A f \in Files : legacy[f] = None

MoveInv == SourceInv /\ DestInv /\ HalfInv /\ DirInv

\* What the parts of MoveInv rest on holds initially.
LEMMA MoveInit == Init => MoveInv
BY SdMigrationAssumption DEF Init, MoveInv, SourceInv, DestInv, HalfInv, DirInv, Moving

\* Every step keeps them.
LEMMA MoveStep == TypeOK /\ Named /\ MoveInv /\ [Next]_vars => MoveInv'
<1> SUFFICES ASSUME TypeOK, Named, MoveInv, [Next]_vars PROVE MoveInv'
  OBVIOUS
<1> USE SdMigrationAssumption
    DEF TypeOK, Named, MoveInv, SourceInv, DestInv, HalfInv, DirInv, Moving, Fault, NoFault,
        Succeed, Fail
<1>1. CASE Offer
  BY <1>1 DEF Offer, card
<1>2. CASE Confirm
  BY <1>2 DEF Confirm, card, runVars
<1>3. CASE Decline
  BY <1>3 DEF Decline, card, runVars
<1>4. CASE Cancel
  BY <1>4 DEF Cancel, card
<1>5. CASE NextFile
  BY <1>5 DEF NextFile, card
<1>6. CASE Read
  BY <1>6 DEF Read, card
<1>7. CASE Check
  BY <1>7 DEF Check, card, Occupied
<1>8. CASE Create
  BY <1>8 DEF Create
<1>9. CASE Write
  <2>1. /\ file \in Files /\ bytes = legacy[file] /\ bytes # None
        /\ UNCHANGED <<legacy, legacyDir, file, bytes, missed>> /\ pc' \in {"readback", "next"}
        /\ modern' = modern \/ modern' = [modern EXCEPT ![file] = bytes]
             \/ modern' = [modern EXCEPT ![file] = Broken]
    BY <1>9 DEF Write
  <2>2. modern[file] = Broken \/ (modern[file] # None /\ file \in missed)
    BY <1>9 DEF Write
  <2>3. DestInv'
    BY <2>1, <2>2
  <2>4. HalfInv'
    BY <2>1
  <2>5. SourceInv' /\ DirInv'
    BY <1>9, <2>1 DEF Write
  <2> QED
    BY <2>3, <2>4, <2>5
<1>10. CASE ReadBack
  BY <1>10 DEF ReadBack, card, Verified
<1>11. CASE Discard
  BY <1>11 DEF Discard
<1>12. CASE RemoveSource
  BY <1>12 DEF RemoveSource
<1>13. CASE LoopOver
  BY <1>13 DEF LoopOver, card, runVars
<1>14. CASE Sweep
  BY <1>14 DEF Sweep, card, runVars
<1>15. CASE Prune
  BY <1>15 DEF Prune, runVars, Removable, HoldsNoFile
<1>16. CASE Pull
  BY <1>16 DEF Pull, card, runVars
<1>17. CASE Foreign
  BY <1>17 DEF Foreign, runVars
<1>18. CASE UNCHANGED vars
  BY <1>18 DEF vars, card, runVars
<1> QED
  BY <1>1, <1>2, <1>3, <1>4, <1>5, <1>6, <1>7, <1>8, <1>9, <1>10, <1>11, <1>12, <1>13,
     <1>14, <1>15, <1>16, <1>17, <1>18 DEF Next, Run

\* They hold in every state.
LEMMA MoveInvariant == Spec => [](TypeOK /\ MoveInv)
BY TypeInit, TypeStep, MoveInit, MoveStep, PTL DEF Spec

-----------------------------------------------------------------------------
\* A complete file of the destination directory goes in one way only: under the move of a
\* file of its name whose lookup was rejected, or that it overtook after the lookup.  The
\* write and the discard of every other move find what that move created.
THEOREM KeepsWhatIsSeen == Spec => OverwritesOnlyMissed
<1> DEFINE Kept == \A f \in Files : modern[f] \notin {None, Broken} /\ modern'[f] # modern[f]
                                     => f = file /\ f \in missed
<1>1. ASSUME TypeOK, MoveInv, [Next]_vars PROVE Kept
  <2> USE <1>1 DEF TypeOK, MoveInv, SourceInv, DestInv, Moving
  <2>1. CASE Create
    BY <2>1 DEF Create
  <2>2. CASE Write
    BY <2>2 DEF Write
  <2>3. CASE Discard
    BY <2>3 DEF Discard
  <2>4. CASE Foreign
    BY <2>4 DEF Foreign
  <2>5. CASE UNCHANGED modern
    BY <2>5
  <2> QED
    BY <2>1, <2>2, <2>3, <2>4, <2>5
    DEF Next, Run, Offer, Confirm, Decline, Cancel, NextFile, Read, Check, ReadBack,
        RemoveSource, LoopOver, Sweep, Prune, Pull, vars, card
<1>2. TypeOK /\ MoveInv /\ [Next]_vars => [Kept]_vars
  BY <1>1
<1> QED
  BY <1>2, MoveInvariant, PTL DEF Spec, OverwritesOnlyMissed, Kept

-----------------------------------------------------------------------------
\* Some complete copy of content c is on the card under the name f.
Copy(f, c) == legacy[f] = c \/ modern[f] = c

\* No step takes the last copy but the move of a file that missed it: RemoveSource takes an
\* original only after it was read back.
LEMMA CopyStep ==
  ASSUME NEW f \in Files, NEW c \in Contents, TypeOK, MoveInv, [Next]_vars,
         Copy(f, c) \/ f \in missed
  PROVE  Copy(f, c)' \/ f \in missed'
<1> USE SdMigrationAssumption DEF Copy, TypeOK, MoveInv, SourceInv, DestInv, Moving
<1>1. missed \subseteq missed'
  BY DEF Next, Run, Offer, Confirm, Decline, Cancel, NextFile, Read, Check, Create, Write, ReadBack,
         Discard, RemoveSource, LoopOver, Sweep, Prune, Pull, Foreign, vars
<1>2. CASE Create
  BY <1>1, <1>2 DEF Create
<1>3. CASE Write
  BY <1>1, <1>3 DEF Write
<1>4. CASE Discard
  BY <1>1, <1>4 DEF Discard
<1>5. CASE RemoveSource
  BY <1>1, <1>5 DEF RemoveSource
<1>6. CASE Foreign
  BY <1>1, <1>6 DEF Foreign
<1>7. CASE UNCHANGED <<legacy, modern>>
  BY <1>1, <1>7
<1> QED
  BY <1>2, <1>3, <1>4, <1>5, <1>6, <1>7
  DEF Next, Run, Offer, Confirm, Decline, Cancel, NextFile, Read, Check, ReadBack,
      LoopOver, Sweep, Prune, Pull, vars, card

\* "NOTHING IS DELETED BEFORE ITS COPY EXISTS": a content that was ever complete on the card
\* under a name stays on it under that name, in one directory or the other, whatever fails,
\* whoever writes and whenever the card is pulled, until a lookup misses a file of the name.
THEOREM NothingLost ==
  ASSUME NEW f \in Files, NEW c \in Contents
  PROVE  Spec => [](Copy(f, c) => [](Copy(f, c) \/ f \in missed))
<1> DEFINE Kept == Copy(f, c) \/ f \in missed
<1>1. TypeOK /\ MoveInv /\ [Next]_vars /\ Kept => Kept'
  BY CopyStep
<1>2. Copy(f, c) => Kept
  OBVIOUS
<1> QED
  BY <1>1, <1>2, MoveInvariant, PTL DEF Spec

-----------------------------------------------------------------------------
\* An original goes only when its content is complete under its name in the destination.
Handed == \A f \in Files : legacy[f] # None /\ legacy'[f] # legacy[f] => modern'[f] = legacy[f]

\* "A failure at any step leaves the source in place": an original is removed only behind a
\* complete copy of it, with no exception for a file that was missed.
THEOREM OriginalsAreHandedOver == Spec => [][Handed]_vars
<1>1. ASSUME TypeOK, MoveInv, [Next]_vars PROVE Handed
  <2> USE <1>1, SdMigrationAssumption DEF TypeOK, MoveInv, SourceInv, DestInv, Moving, Handed
  <2>1. CASE RemoveSource
    BY <2>1 DEF RemoveSource
  <2>2. CASE Foreign
    BY <2>2 DEF Foreign
  <2>3. CASE UNCHANGED legacy
    BY <2>3
  <2> QED
    BY <2>1, <2>2, <2>3
    DEF Next, Run, Offer, Confirm, Decline, Cancel, NextFile, Read, Check, Create, Write, ReadBack,
        Discard, LoopOver, Sweep, Prune, Pull, vars, card
<1>2. TypeOK /\ MoveInv /\ [Next]_vars => [Handed]_vars
  BY <1>1
<1> QED
  BY <1>2, MoveInvariant, PTL DEF Spec

-----------------------------------------------------------------------------
\* The initial card is one of HomebrewCard.
LEMMA AbstractInit == Init => Abstract!Init
BY SdMigrationAssumption DEF Init, Abstract!Init, oldDir, newDir

\* A removal is the move of the file, the arrival of somebody's file one of HomebrewCard, a
\* write over a file that was missed makes room, and nothing else changes what counts.
LEMMA AbstractStep ==
  TypeOK /\ MoveInv /\ MoveInv' /\ [Next]_vars => [Abstract!Next]_<<oldDir, newDir, missed>>
<1> SUFFICES ASSUME TypeOK, MoveInv, MoveInv', [Next]_vars
             PROVE  Abstract!Next \/ UNCHANGED <<oldDir, newDir, missed>>
  OBVIOUS
<1> USE SdMigrationAssumption
    DEF TypeOK, MoveInv, SourceInv, DestInv, HalfInv, DirInv, Moving
<1>1. ASSUME Create \/ Write \/ Discard
      PROVE  Abstract!Next \/ UNCHANGED <<oldDir, newDir, missed>>
  <2>1. /\ file \in Files /\ legacy[file] \notin {None, Broken}
        /\ UNCHANGED <<legacy, legacyDir, missed>>
        /\ \A f \in Files \ {file} : modern'[f] = modern[f]
        /\ modern' \in [Files -> Contents \cup {None, Broken}]
    BY <1>1 DEF Create, Write, Discard
  <2>2. UNCHANGED oldDir /\ \A f \in Files \ {file} : newDir'[f] = newDir[f]
    BY <2>1 DEF oldDir, newDir
  <2>3. newDir'[file] \in {newDir[file], None}
    BY <1>1, <2>1 DEF Create, Write, Discard, newDir
  <2>4. newDir'[file] # newDir[file] => file \in missed
    BY <1>1, <2>1 DEF Create, Write, Discard, newDir
  <2>5. oldDir[file] # None
    BY <1>1, <2>1 DEF Create, Write, Discard, oldDir
  <2>6. newDir = [f \in Files |-> newDir[f]] /\ newDir' = [f \in Files |-> newDir'[f]]
    BY DEF newDir
  <2>7. CASE newDir'[file] = newDir[file]
    <3>1. \A f \in Files : newDir'[f] = newDir[f]
      BY <2>2, <2>7
    <3>2. UNCHANGED newDir
      BY <2>6, <3>1
    <3> QED
      BY <2>1, <2>2, <3>2
  <2>8. CASE newDir'[file] # newDir[file]
    <3>1. newDir' = [newDir EXCEPT ![file] = None]
      BY <2>1, <2>2, <2>3, <2>6, <2>8
    <3>2. Abstract!Overwrite(file)
      BY <2>1, <2>2, <2>4, <2>5, <2>8, <3>1 DEF Abstract!Overwrite
    <3> QED
      BY <2>1, <3>2 DEF Abstract!Next
  <2> QED
    BY <2>7, <2>8
<1>2. CASE Check
  <2>1. UNCHANGED <<oldDir, newDir>> /\ file \in Files
    BY <1>2 DEF Check, card, oldDir, newDir
  <2>2. missed' = missed \/ missed' = missed \cup {file}
    BY <1>2 DEF Check
  <2>3. Abstract!Miss(file) \/ UNCHANGED <<oldDir, newDir, missed>>
    BY <2>1, <2>2 DEF Abstract!Miss
  <2> QED
    BY <2>1, <2>3 DEF Abstract!Next
<1>4. CASE RemoveSource
  <2>1. CASE UNCHANGED legacy
    BY <1>4, <2>1 DEF RemoveSource, oldDir, newDir
  <2>2. CASE legacy' = [legacy EXCEPT ![file] = None]
    <3>1. Abstract!Move(file)
      BY <1>4, <2>2 DEF RemoveSource, oldDir, newDir, Abstract!Move
    <3> QED
      BY <3>1, <1>4 DEF RemoveSource, Abstract!Next
  <2> QED
    BY <1>4, <2>1, <2>2 DEF RemoveSource
<1>5. CASE Prune
  BY <1>5 DEF Prune, oldDir, newDir, Removable, HoldsNoFile
<1>6. CASE Foreign
  <2> PICK f \in Files, c \in Contents :
        \/ /\ modern[f] = None /\ modern' = [modern EXCEPT ![f] = c] /\ UNCHANGED legacy
           /\ missed' = IF pc = "create" /\ f = file THEN missed \cup {f} ELSE missed
        \/ /\ legacyDir /\ legacy[f] = None /\ modern[f] # c
           /\ legacy' = [legacy EXCEPT ![f] = c] /\ UNCHANGED <<modern, missed>>
    BY <1>6 DEF Foreign
  <2> UNCHANGED legacyDir
    BY <1>6 DEF Foreign
  <2>1. CASE /\ modern[f] = None /\ legacy[f] = c /\ modern' = [modern EXCEPT ![f] = c]
             /\ UNCHANGED legacy /\ missed' \in {missed, missed \cup {f}}
    <3>1. UNCHANGED <<oldDir, newDir>>
      BY <2>1 DEF oldDir, newDir
    <3>2. Abstract!Miss(f) \/ UNCHANGED <<oldDir, newDir, missed>>
      BY <2>1, <3>1 DEF Abstract!Miss
    <3> QED
      BY <3>2 DEF Abstract!Next
  <2>2. CASE /\ modern[f] = None /\ legacy[f] # c /\ modern' = [modern EXCEPT ![f] = c]
             /\ UNCHANGED legacy /\ missed' \in {missed, missed \cup {f}}
    <3>1. Abstract!Arrive(f, c)
      BY <2>2 DEF oldDir, newDir, Abstract!Arrive
    <3> QED
      BY <3>1 DEF Abstract!Next
  <2>3. CASE /\ legacyDir /\ legacy[f] = None /\ modern[f] # c
             /\ legacy' = [legacy EXCEPT ![f] = c] /\ UNCHANGED <<modern, missed>>
    <3>1. Abstract!Arrive(f, c)
      BY <2>3 DEF oldDir, newDir, Abstract!Arrive
    <3> QED
      BY <3>1 DEF Abstract!Next
  <2> QED
    BY <2>1, <2>2, <2>3
<1>7. CASE UNCHANGED <<card, missed>>
  BY <1>7 DEF card, oldDir, newDir
<1> QED
  BY <1>1, <1>2, <1>4, <1>5, <1>6, <1>7
  DEF Next, Run, Offer, Confirm, Decline, Cancel, NextFile, Read, ReadBack,
      LoopOver, Sweep, Pull, vars

\* "There is no instant at which a file exists in neither place": the run of
\* moveLegacyHomebrew and removeLegacyDirIfEmpty implements HomebrewCard.
THEOREM NeverInNeitherPlace == Spec => MovesWhole
<1>1. Spec => [](TypeOK /\ MoveInv)
  BY MoveInvariant
<1> QED
  BY <1>1, AbstractInit, AbstractStep, PTL DEF Spec, MovesWhole, Abstract!Spec
=============================================================================
