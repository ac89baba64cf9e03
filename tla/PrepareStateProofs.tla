------------------------- MODULE PrepareStateProofs -------------------------
(***************************************************************************)
(* What TLAPS proves of PrepareState, for any titles, files, calls and      *)
(* operations.  Whatever overlaps: its type invariant, that a title is never *)
(* prepared by halves, that "extracting..." has a run behind it.  As long as *)
(* the code orders its operations: that the pointers are honest, and, by one *)
(* invariant of the shelf and the calls in flight (SessionInv), everything   *)
(* the runs check of an ordered session.                                    *)
(***************************************************************************)
EXTENDS PrepareState, TLAPS

\* What a call in flight holds.
Shaped(r) == r.at \in RunStages \cup {"core", "ship", "discover"} => r.title \in Titles

TypeInv == TypeOK /\ \A c \in Calls : Shaped(calls[c])

\* A step changes one call, or none.
Becomes(c, r) == calls' = [calls EXCEPT ![c] = r]

LEMMA CallChanges ==
  ASSUME TypeInv, NEW c \in Calls, NEW r \in CallType, Shaped(r), Becomes(c, r)
  PROVE  calls' \in [Calls -> CallType] /\ \A d \in Calls : Shaped(calls'[d])
  BY DEF TypeInv, TypeOK, Becomes

LEMMA IdleShaped == Idle \in CallType /\ Shaped(Idle)
  BY PrepareAssumption DEF Idle, CallType, Stages, RunStages, Shaped, Pointer

LEMMA KeyFacts ==
  ASSUME NEW t \in Titles, NEW S \in SUBSET Files
  PROVE  /\ Outputs(t, S) \subseteq Keys
         /\ Outputs(t, {Art}) \subseteq Keys
         /\ Outputs(t, S \cup {Art}) \subseteq Keys
  BY DEF Outputs, Keys

LEMMA MarkedType ==
  ASSUME TypeOK, NEW K, NEW s \in {None, "artifact", "converted"}
  PROVE  Marked(K, s) \in [Keys -> {None, "artifact", "converted"}]
  BY DEF TypeOK, Marked

LEMMA TypeInit == Init => TypeInv
  <1> SUFFICES ASSUME Init PROVE TypeInv
    OBVIOUS
  <1>1. calls \in [Calls -> CallType] /\ \A c \in Calls : Shaped(calls[c])
    BY IdleShaped DEF Init
  <1>2. /\ kind \in [Keys -> {None, "artifact", "converted"}]
        /\ produced \in [Titles -> SUBSET Keys]
        /\ supplied \in [Titles -> (SUBSET Files) \cup {None}]
        /\ discovered \in [Titles -> SUBSET Files] /\ busy \in [Titles -> SUBSET Files]
    BY DEF Init
  <1>3. index \in [Titles -> Pointer \cup {None}]
    BY DEF Init
  <1> QED
    BY <1>1, <1>2, <1>3 DEF Init, TypeInv, TypeOK

\* The end of a run, whatever it leaves behind.
LEMMA SettleType ==
  ASSUME TypeInv, NEW c \in Calls, calls[c].at \in RunStages, Settle(c)
  PROVE  /\ extracting' \subseteq Titles /\ busy' \in [Titles -> SUBSET Files]
         /\ calls' \in [Calls -> CallType] /\ \A d \in Calls : Shaped(calls'[d])
  <1>1. calls' \in [Calls -> CallType] /\ \A d \in Calls : Shaped(calls'[d])
    <2>1. Becomes(c, Idle)
      BY DEF Settle, End, Becomes
    <2> QED
      BY <2>1, CallChanges, IdleShaped
  <1>2. extracting' \subseteq Titles /\ busy' \in [Titles -> SUBSET Files]
    <2>1. calls[c].title \in Titles
      BY DEF TypeInv, Shaped
    <2> QED
      BY <2>1 DEF TypeInv, TypeOK, Settle, LeftOver
  <1> QED
    BY <1>1, <1>2

LEMMA DeliverType ==
  ASSUME TypeInv, NEW c \in Calls, calls[c].at \in RunStages, NEW out \in SUBSET Files,
         Deliver(c, out), kind' \in [Keys -> {None, "artifact", "converted"}],
         mapped' \subseteq Keys, index' \in [Titles -> Pointer \cup {None}],
         cache' \subseteq Keys, lossy' \in BOOLEAN, disturbed' \in BOOLEAN
  PROVE  TypeInv'
  <1> DEFINE t == calls[c].title
             files == calls[c].files
             keys == Outputs(t, out \cup {Art})
  <1>1. t \in Titles /\ files \in SUBSET Files
    BY DEF TypeInv, TypeOK, CallType, Shaped
  <1>2. keys \subseteq Keys
    BY <1>1, KeyFacts
  <1>3. assets' \subseteq Keys /\ produced' \in [Titles -> SUBSET Keys]
    BY <1>1, <1>2 DEF TypeInv, TypeOK, Deliver, Contributed
  <1>4. supplied' \in [Titles -> (SUBSET Files) \cup {None}]
    BY <1>1 DEF TypeInv, TypeOK, Deliver
  <1>5. removed' \subseteq Titles \X (Files \cup {Whole})
    BY DEF TypeInv, TypeOK, Deliver
  <1>6. /\ extracting' \subseteq Titles /\ busy' \in [Titles -> SUBSET Files]
        /\ calls' \in [Calls -> CallType] /\ \A d \in Calls : Shaped(calls'[d])
    BY SettleType DEF Deliver
  <1> QED
    BY <1>3, <1>4, <1>5, <1>6 DEF TypeInv, TypeOK, Deliver, session

LEMMA DropType ==
  ASSUME TypeOK, NEW K, Drop(K)
  PROVE  /\ assets' \subseteq Keys /\ mapped' \subseteq Keys
         /\ kind' \in [Keys -> {None, "artifact", "converted"}]
  BY MarkedType DEF Drop, TypeOK

\* A call that is begun, or goes on to its next stage, keeps its shape.
LEMMA BeginType ==
  ASSUME TypeInv, NEW c \in Calls, NEW r \in CallType, Shaped(r), Begin(c, r)
  PROVE  calls' \in [Calls -> CallType] /\ \A d \in Calls : Shaped(calls'[d])
  BY CallChanges DEF Begin, Becomes

LEMMA GotoType ==
  ASSUME TypeInv, NEW c \in Calls, calls[c].at \in RunStages, NEW s \in RunStages, Goto(c, s)
  PROVE  calls' \in [Calls -> CallType] /\ \A d \in Calls : Shaped(calls'[d])
  <1> DEFINE r == [calls[c] EXCEPT !.at = s]
  <1>1. r \in CallType /\ Shaped(r)
    <2>1. calls[c] \in CallType /\ Shaped(calls[c])
      BY DEF TypeInv, TypeOK
    <2> QED
      BY <2>1 DEF CallType, Shaped, Stages, RunStages
  <1>2. Becomes(c, r)
    BY DEF Goto, Becomes
  <1> QED
    BY <1>1, <1>2, CallChanges

LEMMA EndType ==
  ASSUME TypeInv, NEW c \in Calls, End(c)
  PROVE  calls' \in [Calls -> CallType] /\ \A d \in Calls : Shaped(calls'[d])
  BY CallChanges, IdleShaped DEF End, Becomes

LEMMA RunType ==
  ASSUME TypeInv, NEW c \in Calls, RunSteps(c)
  PROVE  TypeInv'
  <1>1. ASSUME NEW t \in Titles, NEW offer \in SUBSET Files, RunStart(c, t, offer)
        PROVE  TypeInv'
    <2> DEFINE files == IF offer = {} THEN discovered[t] ELSE offer
               r == [Idle EXCEPT !.at = "fetch", !.title = t, !.files = files]
    <2>1. files \in SUBSET Files
      BY DEF TypeInv, TypeOK
    <2>2. r \in CallType /\ Shaped(r)
      BY <2>1, IdleShaped DEF CallType, Shaped, Stages, RunStages
    <2>3. calls' \in [Calls -> CallType] /\ \A d \in Calls : Shaped(calls'[d])
      BY <1>1, <2>2, BeginType DEF RunStart
    <2>4. busy' \in [Titles -> SUBSET Files]
      BY <1>1, <2>1 DEF RunStart, TypeInv, TypeOK
    <2> QED
      BY <1>1, <2>3, <2>4 DEF RunStart, TypeInv, TypeOK, Disturbs, session, shelf, inputs, disk
  <1>2. CASE RunFetched(c)
    <2> DEFINE art == Outputs(calls[c].title, {Art})
    <2>1. calls[c].at \in RunStages /\ calls[c].title \in Titles
      BY <1>2 DEF RunFetched, RunStages, TypeInv, Shaped
    <2>2. art \subseteq Keys
      BY <2>1, KeyFacts
    <2>3. /\ kind' \in [Keys -> {None, "artifact", "converted"}]
          /\ mapped' \subseteq Keys /\ cache' \subseteq Keys
          /\ index' \in [Titles -> Pointer \cup {None}]
          /\ lossy' \in BOOLEAN /\ disturbed' \in BOOLEAN
      BY <1>2, <2>2, MarkedType DEF RunFetched, TypeInv, TypeOK, history
    <2>4. CASE calls[c].files = {}
      BY <1>2, <2>1, <2>3, <2>4, DeliverType DEF RunFetched
    <2>5. CASE calls[c].files # {}
      <3>1. calls' \in [Calls -> CallType] /\ \A d \in Calls : Shaped(calls'[d])
        BY <1>2, <2>1, <2>5, GotoType DEF RunFetched, RunStages
      <3> QED
        BY <1>2, <2>3, <2>5, <3>1
        DEF RunFetched, TypeInv, TypeOK, session, inputs, spinner
    <2> QED
      BY <2>4, <2>5
  <1>3. CASE RunLookup(c)
    <2> DEFINE entry == index[calls[c].title]
               r == [calls[c] EXCEPT !.at = "read", !.got = entry.files]
    <2>1. calls[c].at \in RunStages /\ calls[c] \in CallType /\ Shaped(calls[c])
      BY <1>3 DEF RunLookup, RunStages, TypeInv, TypeOK
    <2>2. calls' \in [Calls -> CallType] /\ \A d \in Calls : Shaped(calls'[d])
      <3>1. CASE entry # None /\ entry.sig = calls[c].files
        <4>1. entry \in Pointer
          BY <2>1, <3>1 DEF TypeInv, TypeOK, Shaped
        <4>2. r \in CallType /\ Shaped(r)
          BY <2>1, <4>1 DEF CallType, Shaped, Stages, RunStages, Pointer
        <4>3. Becomes(c, r)
          BY <1>3, <3>1 DEF RunLookup, Becomes, TypeInv, TypeOK
        <4> QED
          BY <4>2, <4>3, CallChanges
      <3>2. CASE ~(entry # None /\ entry.sig = calls[c].files)
        BY <1>3, <2>1, <3>2, GotoType DEF RunLookup, RunStages
      <3> QED
        BY <3>1, <3>2
    <2> QED
      BY <1>3, <2>2
      DEF RunLookup, TypeInv, TypeOK, session, shelf, inputs, spinner, disk, history
  <1>4. CASE RunHit(c)
    <2>1. calls[c].at \in RunStages /\ calls[c].got \in SUBSET Files
      BY <1>4 DEF RunHit, RunStages, TypeInv, TypeOK, CallType
    <2> QED
      BY <1>4, <2>1, MarkedType, DeliverType DEF RunHit, TypeInv, TypeOK, disk, history
  <1>5. CASE RunMiss(c)
    <2> DEFINE r == [calls[c] EXCEPT !.at = "exec", !.got = {}]
    <2>1. r \in CallType /\ Shaped(r)
      <3>1. calls[c] \in CallType /\ Shaped(calls[c]) /\ calls[c].at \in RunStages
        BY <1>5 DEF RunMiss, RunStages, TypeInv, TypeOK
      <3> QED
        BY <3>1 DEF CallType, Shaped, Stages, RunStages
    <2>2. Becomes(c, r)
      BY <1>5 DEF RunMiss, Becomes, TypeInv, TypeOK
    <2>3. calls' \in [Calls -> CallType] /\ \A d \in Calls : Shaped(calls'[d])
      BY <2>1, <2>2, CallChanges
    <2> QED
      BY <1>5, <2>3 DEF RunMiss, TypeInv, TypeOK, session, shelf, inputs, spinner, disk, history
  <1>6. CASE RunStore(c)
    <2>1. calls[c].at \in RunStages /\ Outputs(calls[c].title, calls[c].files) \subseteq Keys
      BY <1>6, KeyFacts DEF RunStore, RunStages, TypeInv, TypeOK, CallType, Shaped
    <2>2. calls' \in [Calls -> CallType] /\ \A d \in Calls : Shaped(calls'[d])
      BY <1>6, <2>1, GotoType DEF RunStore, RunStages
    <2> QED
      BY <1>6, <2>1, <2>2
      DEF RunStore, TypeInv, TypeOK, session, shelf, inputs, spinner, history
  <1>7. CASE RunRefused(c)
    <2>1. /\ calls[c].at \in RunStages /\ calls[c].title \in Titles
          /\ calls[c].files \in SUBSET Files
      BY <1>7 DEF RunRefused, RunStages, TypeInv, TypeOK, CallType, Shaped
    <2>2. cache' \subseteq Keys
      BY <1>7, <2>1, KeyFacts DEF RunRefused, TypeInv, TypeOK
    <2> QED
      BY <1>7, <2>1, <2>2, MarkedType, DeliverType DEF RunRefused, TypeInv, TypeOK, Disturbs
  <1>8. CASE RunPoint(c)
    <2>1. /\ calls[c].at \in RunStages /\ calls[c].title \in Titles
          /\ calls[c].files \in SUBSET Files
      BY <1>8 DEF RunPoint, RunStages, TypeInv, TypeOK, CallType, Shaped
    <2>2. Merged(calls[c].title, calls[c].files) \in Pointer
      BY <2>1 DEF Merged, Pointer, TypeInv, TypeOK
    <2>3. index' \in [Titles -> Pointer \cup {None}]
      BY <1>8, <2>1, <2>2 DEF RunPoint, TypeInv, TypeOK
    <2> QED
      BY <1>8, <2>1, <2>3, MarkedType, DeliverType DEF RunPoint, TypeInv, TypeOK, history
  <1>9. CASE RunThrows(c)
    <2>1. calls[c].at \in RunStages
      BY <1>9 DEF RunThrows, RunStages
    <2> QED
      BY <1>9, <2>1, SettleType
      DEF RunThrows, TypeInv, TypeOK, session, shelf, inputs, disk, history
  <1> QED
    BY <1>1, <1>2, <1>3, <1>4, <1>5, <1>6, <1>7, <1>8, <1>9 DEF RunSteps

LEMMA RestoredType ==
  ASSUME TypeInv, NEW c \in Calls, Restored(c)
  PROVE  TypeInv'
  <1> DEFINE found == calls[c].found
             kept(t) == Outputs(t, found[t].files \cup {Art})
             back == {t \in Titles : found[t] # None /\ Recoverable(t, kept(t))}
             keys == UNION {kept(t) : t \in back}
  <1>1. \A t \in back : kept(t) \subseteq Keys
    <2> TAKE t \in back
    <2>1. found[t] \in Pointer
      BY DEF TypeInv, TypeOK, CallType
    <2>2. found[t].files \in SUBSET Files
      BY <2>1 DEF Pointer
    <2> QED
      BY <2>2, KeyFacts
  <1>2. keys \subseteq Keys /\ back \X {Art} \subseteq Keys
    BY <1>1 DEF Keys
  <1>3. assets' \subseteq Keys /\ mapped' \subseteq Keys
    BY <1>2 DEF Restored, TypeInv, TypeOK, Remapped
  <1>4. kind' \in [Keys -> {None, "artifact", "converted"}]
    BY DEF Restored, TypeInv, TypeOK
  <1>5. produced' \in [Titles -> SUBSET Keys]
    BY <1>1 DEF Restored, TypeInv, TypeOK
  <1>6. supplied' \in [Titles -> (SUBSET Files) \cup {None}]
    BY DEF Restored, TypeInv, TypeOK
  <1>7. calls' \in [Calls -> CallType] /\ \A d \in Calls : Shaped(calls'[d])
    BY EndType DEF Restored
  <1> QED
    BY <1>3, <1>4, <1>5, <1>6, <1>7
    DEF Restored, TypeInv, TypeOK, session, spinner, disk, history

LEMMA ShipNextType ==
  ASSUME TypeInv, NEW c \in Calls, NEW t \in Titles, NEW todo \in SUBSET Files,
         ShipNext(c, t, todo)
  PROVE  calls' \in [Calls -> CallType] /\ \A d \in Calls : Shaped(calls'[d])
  <1> DEFINE missing == {f \in todo : <<t, f>> \notin assets'}
  <1>1. CASE missing = {}
    BY <1>1, EndType DEF ShipNext
  <1>2. CASE missing # {}
    <2>1. PICK f \in missing :
            calls' = [calls EXCEPT ![c] = [Idle EXCEPT !.at = "ship", !.title = t,
                                                       !.files = todo \ {f}, !.got = {f}]]
      BY <1>2 DEF ShipNext
    <2> DEFINE r == [Idle EXCEPT !.at = "ship", !.title = t, !.files = todo \ {f}, !.got = {f}]
    <2>2. r \in CallType /\ Shaped(r)
      BY IdleShaped DEF CallType, Shaped, Stages, RunStages
    <2>3. Becomes(c, r)
      BY <2>1 DEF Becomes
    <2> QED
      BY <2>2, <2>3, CallChanges
  <1> QED
    BY <1>1, <1>2

LEMMA OtherType ==
  ASSUME TypeInv, NEW c \in Calls, OtherSteps(c)
  PROVE  TypeInv'
  <1>1. CASE Restore(c)
    <2> DEFINE r == [Idle EXCEPT !.at = "restore",
                       !.found = [t \in Titles |-> IF t \in known THEN index[t] ELSE None]]
    <2>1. [t \in Titles |-> IF t \in known THEN index[t] ELSE None]
            \in [Titles -> Pointer \cup {None}]
      BY DEF TypeInv, TypeOK
    <2>2. r \in CallType /\ Shaped(r)
      BY <2>1, IdleShaped DEF CallType, Shaped, Stages, RunStages
    <2>3. calls' \in [Calls -> CallType] /\ \A d \in Calls : Shaped(calls'[d])
      BY <1>1, <2>2, BeginType DEF Restore
    <2> QED
      BY <1>1, <2>3
      DEF Restore, Disturbs, TypeInv, TypeOK, shelf, inputs, spinner, disk
  <1>2. CASE Restored(c)
    BY <1>2, RestoredType
  <1>3. ASSUME NEW t \in Titles, Core(c, t)
        PROVE  TypeInv'
    <2> DEFINE r == [Idle EXCEPT !.at = "core", !.title = t]
    <2>1. r \in CallType /\ Shaped(r)
      BY IdleShaped DEF CallType, Shaped, Stages, RunStages
    <2>2. calls' \in [Calls -> CallType] /\ \A d \in Calls : Shaped(calls'[d])
      BY <1>3, <2>1, BeginType DEF Core
    <2> QED
      BY <1>3, <2>2
      DEF Core, Disturbs, TypeInv, TypeOK, session, shelf, inputs, spinner, disk
  <1>4. ASSUME NEW t \in Titles, Ship(c, t)
        PROVE  TypeInv'
    <2>1. calls' \in [Calls -> CallType] /\ \A d \in Calls : Shaped(calls'[d])
      BY <1>4, ShipNextType, PrepareAssumption DEF Ship
    <2> QED
      BY <1>4, <2>1
      DEF Ship, Disturbs, TypeInv, TypeOK, session, shelf, inputs, spinner, disk
  <1>5. ASSUME NEW t \in Titles, Discover(c, t)
        PROVE  TypeInv'
    <2> DEFINE r == [Idle EXCEPT !.at = "discover", !.title = t]
    <2>1. r \in CallType /\ Shaped(r)
      BY IdleShaped DEF CallType, Shaped, Stages, RunStages
    <2>2. calls' \in [Calls -> CallType] /\ \A d \in Calls : Shaped(calls'[d])
      BY <1>5, <2>1, BeginType DEF Discover
    <2> QED
      BY <1>5, <2>2
      DEF Discover, TypeInv, TypeOK, session, shelf, inputs, spinner, disk, history
  <1>6. CASE CoreFetched(c)
    <2> DEFINE art == Outputs(calls[c].title, {Art})
    <2>1. calls[c].title \in Titles /\ art \subseteq Keys
      BY <1>6, KeyFacts DEF CoreFetched, TypeInv, Shaped
    <2>2. produced' \in [Titles -> SUBSET Keys]
      BY <1>6, <2>1 DEF CoreFetched, TypeInv, TypeOK
    <2>3. kind' \in [Keys -> {None, "artifact", "converted"}]
      BY <1>6, MarkedType DEF CoreFetched, TypeInv
    <2>4. calls' \in [Calls -> CallType] /\ \A d \in Calls : Shaped(calls'[d])
      BY <1>6, EndType DEF CoreFetched
    <2> QED
      BY <1>6, <2>1, <2>2, <2>3, <2>4
      DEF CoreFetched, TypeInv, TypeOK, session, inputs, spinner, history
  <1>7. CASE ShipFetched(c)
    <2>1. /\ calls[c].title \in Titles /\ calls[c].files \in SUBSET Files
          /\ calls[c].got \in SUBSET Files
      BY <1>7 DEF ShipFetched, TypeInv, TypeOK, CallType, Shaped
    <2>2. Outputs(calls[c].title, calls[c].got) \subseteq Keys
      BY <2>1, KeyFacts
    <2>3. kind' \in [Keys -> {None, "artifact", "converted"}]
      BY <1>7, MarkedType DEF ShipFetched, TypeInv
    <2>4. calls' \in [Calls -> CallType] /\ \A d \in Calls : Shaped(calls'[d])
      BY <1>7, <2>1, ShipNextType DEF ShipFetched
    <2> QED
      BY <1>7, <2>2, <2>3, <2>4
      DEF ShipFetched, Disturbs, TypeInv, TypeOK, session, inputs, spinner, disk
  <1>8. CASE Discovered(c)
    <2> DEFINE t == calls[c].title
    <2>1. PICK found \in SUBSET Files :
            discovered' = IF <<t, Whole>> \in removed /\ found # {} THEN discovered
                          ELSE [discovered EXCEPT ![t] = {f \in found : <<t, f>> \notin removed}]
      BY <1>8 DEF Discovered
    <2>2. {f \in found : <<t, f>> \notin removed} \in SUBSET Files
      OBVIOUS
    <2>3. discovered' \in [Titles -> SUBSET Files]
      BY <2>1, <2>2 DEF TypeInv, TypeOK
    <2>4. calls' \in [Calls -> CallType] /\ \A d \in Calls : Shaped(calls'[d])
      BY <1>8, EndType DEF Discovered
    <2> QED
      BY <1>8, <2>3, <2>4
      DEF Discovered, TypeInv, TypeOK, session, shelf, spinner, disk, history
  <1>9. CASE CallFails(c)
    <2>1. calls' \in [Calls -> CallType] /\ \A d \in Calls : Shaped(calls'[d])
      BY <1>9, EndType DEF CallFails
    <2> QED
      BY <1>9, <2>1
      DEF CallFails, TypeInv, TypeOK, session, shelf, inputs, spinner, disk, history
  <1>10. ASSUME NEW scope \in {"artifact", "converted", "all"}, Clear(c, scope)
         PROVE  TypeInv'
    <2> DEFINE r == [Idle EXCEPT !.at = "clear", !.scope = scope]
    <2>1. r \in CallType /\ Shaped(r)
      BY IdleShaped DEF CallType, Stages, Shaped, RunStages
    <2>2. calls' \in [Calls -> CallType] /\ \A d \in Calls : Shaped(calls'[d])
      BY <1>10, <2>1, BeginType DEF Clear
    <2> QED
      BY <1>10, <2>2
      DEF Clear, Disturbs, TypeInv, TypeOK, session, shelf, inputs, spinner
  <1>11. CASE Cleared(c)
    <2>1. /\ assets' \subseteq Keys /\ mapped' \subseteq Keys
          /\ kind' \in [Keys -> {None, "artifact", "converted"}]
      BY <1>11, DropType DEF Cleared, TypeInv
    <2>2. produced' \in [Titles -> SUBSET Keys]
      BY <1>11 DEF Cleared, TypeInv, TypeOK
    <2>3. index' \in [Titles -> Pointer \cup {None}]
      BY <1>11 DEF Cleared, Pruned, TypeInv, TypeOK
    <2>4. calls' \in [Calls -> CallType] /\ \A d \in Calls : Shaped(calls'[d])
      BY <1>11, EndType DEF Cleared
    <2> QED
      BY <1>11, <2>1, <2>2, <2>3, <2>4
      DEF Cleared, TypeInv, TypeOK, session, inputs, spinner, history
  <1> QED
    BY <1>1, <1>2, <1>3, <1>4, <1>5, <1>6, <1>7, <1>8, <1>9, <1>10, <1>11 DEF OtherSteps

LEMMA UnsupplyType ==
  ASSUME TypeInv, NEW t \in Titles, Unsupply(t)
  PROVE  /\ assets' \subseteq Keys /\ mapped' \subseteq Keys
         /\ kind' \in [Keys -> {None, "artifact", "converted"}]
         /\ produced' \in [Titles -> SUBSET Keys]
         /\ supplied' \in [Titles -> (SUBSET Files) \cup {None}]
         /\ discovered' \in [Titles -> SUBSET Files]
         /\ removed' \subseteq Titles \X (Files \cup {Whole})
  <1>1. /\ assets' \subseteq Keys /\ mapped' \subseteq Keys
        /\ kind' \in [Keys -> {None, "artifact", "converted"}]
    BY DropType DEF Unsupply, TypeInv
  <1> QED
    BY <1>1 DEF Unsupply, Unsupplied, TypeInv, TypeOK

LEMMA TypeStep == TypeInv /\ [Next]_vars => TypeInv'
  <1> SUFFICES ASSUME TypeInv, [Next]_vars PROVE TypeInv'
    OBVIOUS
  <1>1. ASSUME NEW c \in Calls, RunSteps(c) \/ OtherSteps(c)
        PROVE  TypeInv'
    BY <1>1, RunType, OtherType
  <1>2. ASSUME NEW t \in Titles, NEW f \in Files, UnsupplyFile(t, f)
        PROVE  TypeInv'
    <2>1. /\ assets' \subseteq Keys /\ mapped' \subseteq Keys
          /\ kind' \in [Keys -> {None, "artifact", "converted"}]
          /\ produced' \in [Titles -> SUBSET Keys]
          /\ supplied' \in [Titles -> (SUBSET Files) \cup {None}]
          /\ discovered' \in [Titles -> SUBSET Files]
          /\ removed' \subseteq Titles \X (Files \cup {Whole})
      <3>1. CASE IsLast(t, f)
        BY <1>2, <3>1, UnsupplyType DEF UnsupplyFile
      <3>2. CASE ~IsLast(t, f)
        BY <1>2, <3>2 DEF UnsupplyFile, UnsupplyOne, TypeInv, TypeOK, shelf
      <3> QED
        BY <3>1, <3>2
    <2> QED
      BY <1>2, <2>1
      DEF UnsupplyFile, Disturbs, TypeInv, TypeOK, session, spinner, disk
  <1>3. ASSUME NEW t \in Titles, UnsupplyRestored(t)
        PROVE  TypeInv'
    BY <1>3, UnsupplyType
    DEF UnsupplyRestored, Disturbs, TypeInv, TypeOK, session, spinner, disk
  <1>4. ASSUME NEW t \in Titles, RemoveSource(t)
        PROVE  TypeInv'
    <2>1. /\ assets' \subseteq Keys /\ mapped' \subseteq Keys
          /\ kind' \in [Keys -> {None, "artifact", "converted"}]
      BY <1>4, DropType DEF RemoveSource, TypeInv
    <2>2. /\ produced' \in [Titles -> SUBSET Keys]
          /\ supplied' \in [Titles -> (SUBSET Files) \cup {None}]
          /\ discovered' \in [Titles -> SUBSET Files]
          /\ busy' \in [Titles -> SUBSET Files]
      BY <1>4 DEF RemoveSource, TypeInv, TypeOK
    <2>3. index' \in [Titles -> Pointer \cup {None}]
      BY <1>4 DEF RemoveSource, Forgot, TypeInv, TypeOK
    <2> QED
      BY <1>4, <2>1, <2>2, <2>3 DEF RemoveSource, RowGone, Disturbs, TypeInv, TypeOK
  <1>5. ASSUME NEW t \in Titles, AddSource(t) \/ ManifestArrives(t)
        PROVE  TypeInv'
    BY <1>5 DEF AddSource, ManifestArrives, TypeInv, TypeOK, shelf, inputs, spinner, disk, history
  <1>6. CASE Reload
    <2>1. /\ kind' \in [Keys -> {None, "artifact", "converted"}]
          /\ produced' \in [Titles -> SUBSET Keys]
          /\ supplied' \in [Titles -> (SUBSET Files) \cup {None}]
          /\ discovered' \in [Titles -> SUBSET Files] /\ busy' \in [Titles -> SUBSET Files]
      BY <1>6 DEF Reload
    <2>2. calls' \in [Calls -> CallType] /\ \A d \in Calls : Shaped(calls'[d])
      BY <1>6, IdleShaped DEF Reload
    <2> QED
      BY <1>6, <2>1, <2>2 DEF Reload, Disturbs, TypeInv, TypeOK, disk
  <1>7. ASSUME NEW k \in Keys, Evict(k)
        PROVE  TypeInv'
    BY <1>7 DEF Evict, TypeInv, TypeOK, session, shelf, inputs, spinner
  <1>8. CASE UNCHANGED vars
    BY <1>8 DEF vars, TypeInv, TypeOK, session, shelf, inputs, spinner, disk, history
  <1> QED
    BY <1>1, <1>2, <1>3, <1>4, <1>5, <1>6, <1>7, <1>8 DEF Next

\* The type invariant, with what each call in flight holds.
THEOREM TypeCorrect == Spec => []TypeOK
  <1>1. TypeInv => TypeOK
    BY DEF TypeInv
  <1> QED
    BY TypeInit, TypeStep, <1>1, PTL DEF Spec

-----------------------------------------------------------------------------
\* The files of a title are under its own keys, and on the shelf.
Prepared(t) == produced[t] \subseteq assets \cap Outputs(t, Files \cup {Art})
HalfInv == \A t \in Titles : Prepared(t)

\* To add to one title's contribution, or to take a title's contribution down, leaves every
\* other title as it was.
LEMMA Adds ==
  ASSUME TypeOK, HalfInv, NEW t \in Titles, NEW K \in SUBSET Outputs(t, Files \cup {Art}),
         assets' = assets \cup K, produced' = [produced EXCEPT ![t] = @ \cup K]
  PROVE  HalfInv'
  BY DEF TypeOK, HalfInv, Prepared

LEMMA TakesDown ==
  ASSUME TypeOK, HalfInv, NEW t \in Titles, Drop(produced[t]),
         produced' = [produced EXCEPT ![t] = {}]
  PROVE  HalfInv'
  <1> SUFFICES ASSUME NEW u \in Titles PROVE Prepared(u)'
    BY DEF HalfInv
  <1>1. CASE u = t
    BY <1>1 DEF TypeOK, Prepared
  <1>2. CASE u # t
    <2>1. produced'[u] = produced[u]
      BY <1>2 DEF TypeOK
    <2>2. produced[u] \cap produced[t] = {}
      BY <1>2 DEF HalfInv, Prepared, Outputs
    <2> QED
      BY <2>1, <2>2 DEF HalfInv, Prepared, Drop
  <1> QED
    BY <1>1, <1>2

LEMMA DeliverHalf ==
  ASSUME TypeInv, HalfInv, NEW c \in Calls, calls[c].at \in RunStages, NEW out \in SUBSET Files,
         Deliver(c, out)
  PROVE  HalfInv'
  <1>1. calls[c].title \in Titles
    BY DEF TypeInv, Shaped
  <1>2. Outputs(calls[c].title, out \cup {Art}) \in SUBSET Outputs(calls[c].title, Files \cup {Art})
    BY DEF Outputs
  <1> QED
    BY <1>1, <1>2, Adds DEF Deliver, Contributed, TypeInv

LEMMA HalfStep == TypeInv /\ HalfInv /\ [Next]_vars => HalfInv'
  <1> SUFFICES ASSUME TypeInv, HalfInv, [Next]_vars PROVE HalfInv'
    OBVIOUS
  <1> USE DEF RunStages
  <1>1. ASSUME NEW c \in Calls, RunSteps(c)
        PROVE  HalfInv'
    <2>0. calls[c].files \in SUBSET Files /\ calls[c].got \in SUBSET Files
      BY DEF TypeInv, TypeOK, CallType
    <2>1. CASE RunFetched(c)
      <3>1. CASE calls[c].files = {}
        BY <2>1, <3>1, DeliverHalf DEF RunFetched
      <3>2. CASE calls[c].files # {}
        BY <2>1, <3>2 DEF RunFetched, HalfInv, Prepared
      <3> QED
        BY <3>1, <3>2
    <2>2. CASE RunHit(c)
      BY <2>0, <2>2, DeliverHalf DEF RunHit
    <2>3. CASE RunRefused(c)
      BY <2>0, <2>3, DeliverHalf DEF RunRefused
    <2>4. CASE RunPoint(c)
      BY <2>0, <2>4, DeliverHalf DEF RunPoint
    <2>5. CASE \/ \E t \in Titles, offer \in SUBSET Files : RunStart(c, t, offer)
               \/ RunLookup(c) \/ RunMiss(c) \/ RunStore(c) \/ RunThrows(c)
      <3>1. UNCHANGED <<assets, produced>>
        BY <2>5 DEF RunStart, RunLookup, RunMiss, RunStore, RunThrows, shelf
      <3> QED
        BY <3>1 DEF HalfInv, Prepared
    <2> QED
      BY <1>1, <2>1, <2>2, <2>3, <2>4, <2>5 DEF RunSteps
  <1>2. ASSUME NEW c \in Calls, Restored(c)
        PROVE  HalfInv'
    <2> DEFINE found == calls[c].found
               kept(t) == Outputs(t, found[t].files \cup {Art})
               back == {t \in Titles : found[t] # None /\ Recoverable(t, kept(t))}
    <2> SUFFICES ASSUME NEW t \in Titles PROVE Prepared(t)'
      BY DEF HalfInv
    <2>1. CASE t \in back
      <3>1. found[t].files \in SUBSET Files
        BY <2>1 DEF TypeInv, TypeOK, CallType, Pointer
      <3>2. produced'[t] = kept(t) /\ kept(t) \subseteq assets'
        BY <1>2, <2>1 DEF Restored
      <3> QED
        BY <3>1, <3>2 DEF Prepared, Outputs
    <2>2. CASE t \notin back
      BY <1>2, <2>2 DEF Restored, HalfInv, Prepared
    <2> QED
      BY <2>1, <2>2
  <1>3. ASSUME NEW c \in Calls, CoreFetched(c)
        PROVE  HalfInv'
    <2>1. calls[c].title \in Titles
      BY <1>3 DEF CoreFetched, TypeInv, Shaped
    <2>2. Outputs(calls[c].title, {Art}) \in SUBSET Outputs(calls[c].title, Files \cup {Art})
      BY DEF Outputs
    <2> QED
      BY <1>3, <2>1, <2>2, Adds DEF CoreFetched, TypeInv
  <1>4. ASSUME NEW c \in Calls, Cleared(c)
        PROVE  HalfInv'
    <2> DEFINE hit == Backing(calls[c].scope)
               doomed == {t \in Titles : \E k \in produced[t] : kind[k] \in hit
                                           \/ (kind[k] = None /\ "converted" \in hit)}
               gone == (UNION {produced[t] : t \in doomed}) \cup {k \in Keys : kind[k] \in hit}
    <2> SUFFICES ASSUME NEW u \in Titles PROVE Prepared(u)'
      BY DEF HalfInv
    <2>1. assets' = assets \ gone
      BY <1>4 DEF Cleared, Drop
    <2>2. produced'[u] = IF u \in doomed THEN {} ELSE produced[u]
      BY <1>4 DEF Cleared
    <2>3. CASE u \in doomed
      BY <2>2, <2>3 DEF Prepared
    <2>4. CASE u \notin doomed
      <3>1. \A t \in doomed : produced[u] \cap produced[t] = {}
        BY <2>4 DEF HalfInv, Prepared, Outputs
      <3>2. \A k \in produced[u] : kind[k] \notin hit
        BY <2>4
      <3>3. produced[u] \cap gone = {}
        BY <3>1, <3>2
      <3> QED
        BY <2>1, <2>2, <2>4, <3>3 DEF HalfInv, Prepared
    <2> QED
      BY <2>3, <2>4
  <1>5. ASSUME assets \subseteq assets', UNCHANGED produced
        PROVE  HalfInv'
    BY <1>5 DEF HalfInv, Prepared
  <1>6. ASSUME NEW t \in Titles, NEW f \in Files, UnsupplyFile(t, f)
        PROVE  HalfInv'
    <2>1. CASE Unsupply(t)
      BY <2>1, TakesDown DEF Unsupply, Unsupplied, TypeInv
    <2>2. CASE UnsupplyOne(t, f)
      BY <1>5, <2>2 DEF UnsupplyOne, shelf
    <2> QED
      BY <1>6, <2>1, <2>2 DEF UnsupplyFile
  <1>7. ASSUME NEW t \in Titles, UnsupplyRestored(t)
        PROVE  HalfInv'
    BY <1>7, TakesDown DEF UnsupplyRestored, Unsupply, Unsupplied, TypeInv
  <1>8. ASSUME NEW t \in Titles, RemoveSource(t)
        PROVE  HalfInv'
    BY <1>8, TakesDown DEF RemoveSource, TypeInv
  <1>9. CASE Reload
    BY <1>9 DEF Reload, HalfInv, Prepared
  <1>10. ASSUME NEW c \in Calls,
                \/ Restore(c) \/ ShipFetched(c) \/ Discovered(c) \/ CallFails(c)
                \/ \E t \in Titles : Core(c, t) \/ Ship(c, t) \/ Discover(c, t)
                \/ \E scope \in {"artifact", "converted", "all"} : Clear(c, scope)
         PROVE  HalfInv'
    <2>1. assets \subseteq assets' /\ produced' = produced
      BY <1>10
      DEF Restore, Core, Ship, Discover, ShipFetched, Discovered, CallFails, Clear, shelf
    <2> QED
      BY <1>5, <2>1
  <1>11. ASSUME \/ \E t \in Titles : AddSource(t) \/ ManifestArrives(t)
                \/ \E k \in Keys : Evict(k)
                \/ UNCHANGED vars
         PROVE  HalfInv'
    BY <1>5, <1>11 DEF AddSource, ManifestArrives, Evict, vars, shelf
  <1>12. ASSUME NEW c \in Calls, OtherSteps(c)
         PROVE  HalfInv'
    BY <1>2, <1>3, <1>4, <1>10, <1>12 DEF OtherSteps
  <1> QED
    BY <1>1, <1>6, <1>7, <1>8, <1>9, <1>11, <1>12 DEF Next

\* A title with a contribution has all of it on the shelf, whatever runs, restores, removals and
\* clears overlap (forgetCleared, prepareState.svelte.ts:690).
THEOREM NothingByHalves == Spec => []NeverHalf
  <1>1. Init => HalfInv
    BY DEF Init, HalfInv, Prepared
  <1>2. HalfInv => NeverHalf
    BY DEF HalfInv, Prepared, NeverHalf
  <1> QED
    BY TypeInit, TypeStep, HalfStep, <1>1, <1>2, PTL DEF Spec

-----------------------------------------------------------------------------
\* The files a title is busy with are offered by its runs in flight.
Spinning(t) ==
  /\ \A f \in busy[t] : \E c \in Runs(t) : f \in calls[c].files
  /\ t \in extracting => Runs(t) # {}
SpinInv == \A t \in Titles : Spinning(t)

\* What counts of a call here.
IsRun(r, t) == r.at \in RunStages /\ r.title = t

\* A step that leaves the spinner alone, and every run of a title in flight with its files.
LEMMA KeepsSpinning ==
  ASSUME SpinInv, UNCHANGED spinner,
         \A t \in Titles : \A c \in Runs(t) : c \in Runs(t)' /\ calls'[c].files = calls[c].files
  PROVE  SpinInv'
  BY DEF SpinInv, Spinning, spinner

\* The same of one call that goes on, or of a call that is no run.
LEMMA Advances ==
  ASSUME TypeOK, SpinInv, UNCHANGED spinner, NEW c \in Calls, NEW r,
         calls' = [calls EXCEPT ![c] = r],
         \/ calls[c].at \notin RunStages
         \/ r.at \in RunStages /\ r.title = calls[c].title /\ r.files = calls[c].files
  PROVE  SpinInv'
  <1>1. ASSUME NEW t \in Titles, NEW d \in Runs(t)
        PROVE  d \in Runs(t)' /\ calls'[d].files = calls[d].files
    <2>1. d \in Calls /\ calls[d].at \in RunStages /\ calls[d].title = t
      BY DEF Runs
    <2>2. CASE d = c
      <3>1. calls'[d] = r
        BY <2>1, <2>2 DEF TypeOK
      <3>2. r.at \in RunStages /\ r.title = t /\ r.files = calls[d].files
        BY <2>1, <2>2
      <3> QED
        BY <2>1, <3>1, <3>2 DEF Runs
    <2>3. CASE d # c
      <3>1. calls'[d] = calls[d]
        BY <2>1, <2>3 DEF TypeOK
      <3> QED
        BY <2>1, <3>1 DEF Runs
    <2> QED
      BY <2>2, <2>3
  <1> QED
    BY <1>1, KeepsSpinning

LEMMA SettleSpin ==
  ASSUME TypeInv, SpinInv, NEW c \in Calls, calls[c].at \in RunStages, Settle(c)
  PROVE  SpinInv'
  <1>1. PICK t \in Titles : t = calls[c].title
    BY DEF TypeInv, Shaped
  <1> DEFINE left == busy[t] \ calls[c].files
  <1>2. \A d \in Calls : d # c => calls'[d] = calls[d]
    BY DEF Settle, End, TypeInv, TypeOK
  <1>3. \A u \in Titles : \A d \in Runs(u) \ {c} : d \in Runs(u)' /\ calls'[d].files = calls[d].files
    BY <1>2 DEF Runs
  <1> SUFFICES ASSUME NEW u \in Titles PROVE Spinning(u)'
    BY DEF SpinInv
  <1>4. CASE u = t
    <2>1. \A f \in left : \E d \in Runs(t) \ {c} : f \in calls[d].files
      BY <1>1 DEF SpinInv, Spinning
    <2>2. \A f \in left : \E d \in Runs(t)' : f \in calls'[d].files
      BY <1>1, <1>3, <2>1
    <2>3. busy'[t] = left
      BY <1>1 DEF Settle, LeftOver, TypeInv, TypeOK
    <2>4. t \in extracting' => left # {}
      BY <1>1 DEF Settle, LeftOver
    <2>5. left # {} => Runs(t)' # {}
      BY <2>2
    <2> QED
      BY <1>4, <2>2, <2>3, <2>4, <2>5 DEF Spinning
  <1>5. CASE u # t
    <2>1. c \notin Runs(u)
      BY <1>1, <1>5 DEF Runs
    <2>2. busy'[u] = busy[u] /\ (u \in extracting' => u \in extracting)
      BY <1>1, <1>5 DEF Settle, TypeInv, TypeOK
    <2> QED
      BY <1>3, <2>1, <2>2 DEF SpinInv, Spinning
  <1> QED
    BY <1>4, <1>5

LEMMA SpinStep == TypeInv /\ SpinInv /\ [Next]_vars => SpinInv'
  <1> SUFFICES ASSUME TypeInv, SpinInv, [Next]_vars PROVE SpinInv'
    OBVIOUS
  <1>0. TypeOK
    BY DEF TypeInv
  <1>1. ASSUME NEW c \in Calls, NEW t \in Titles, NEW offer \in SUBSET Files,
               RunStart(c, t, offer)
        PROVE  SpinInv'
    <2> DEFINE files == IF offer = {} THEN discovered[t] ELSE offer
               r == [Idle EXCEPT !.at = "fetch", !.title = t, !.files = files]
    <2>1. r.at = "fetch" /\ r.title = t /\ r.files = files
      BY DEF Idle
    <2>2. calls'[c] = r /\ calls[c].at = "idle" /\ \A d \in Calls : d # c => calls'[d] = calls[d]
      BY <1>0, <1>1 DEF RunStart, Begin, TypeOK
    <2>3. c \in Runs(t)'
      BY <2>1, <2>2 DEF Runs, RunStages
    <2>4. \A u \in Titles : \A d \in Runs(u) : d \in Runs(u)' /\ calls'[d].files = calls[d].files
      BY <2>2 DEF Runs, RunStages
    <2> SUFFICES ASSUME NEW u \in Titles PROVE Spinning(u)'
      BY DEF SpinInv
    <2>5. CASE u = t
      <3>1. busy'[t] = busy[t] \cup files
        BY <1>0, <1>1 DEF RunStart, TypeOK
      <3>2. \A f \in files : \E d \in Runs(t)' : f \in calls'[d].files
        <4>1. calls'[c].files = files
          BY <2>1, <2>2
        <4> HIDE DEF files
        <4> QED
          BY <2>3, <4>1
      <3>3. \A f \in busy[t] : \E d \in Runs(t)' : f \in calls'[d].files
        BY <2>4 DEF SpinInv, Spinning
      <3> QED
        BY <2>3, <2>5, <3>1, <3>2, <3>3 DEF Spinning
    <2>6. CASE u # t
      <3>1. busy'[u] = busy[u] /\ (u \in extracting' => u \in extracting)
        BY <1>0, <1>1, <2>6 DEF RunStart, TypeOK
      <3> QED
        BY <2>4, <3>1 DEF SpinInv, Spinning
    <2> QED
      BY <2>5, <2>6
  <1>2. ASSUME NEW c \in Calls,
               \/ RunFetched(c) /\ calls[c].files = {}
               \/ RunHit(c) \/ RunRefused(c) \/ RunPoint(c) \/ RunThrows(c)
        PROVE  SpinInv'
    <2>1. calls[c].at \in RunStages /\ Settle(c)
      BY <1>2 DEF RunFetched, RunHit, RunRefused, RunPoint, RunThrows, Deliver, RunStages
    <2> QED
      BY <2>1, SettleSpin
  <1>3. ASSUME NEW c \in Calls,
               \/ RunFetched(c) /\ calls[c].files # {}
               \/ RunLookup(c) \/ RunMiss(c) \/ RunStore(c)
        PROVE  SpinInv'
    <2>1. calls[c].at \in RunStages /\ calls[c] \in CallType
      BY <1>0, <1>3 DEF RunFetched, RunLookup, RunMiss, RunStore, RunStages, TypeOK
    <2>2. UNCHANGED spinner
      BY <1>3 DEF RunFetched, RunLookup, RunMiss, RunStore
    <2>3. /\ calls' = [calls EXCEPT ![c] = calls'[c]]
          /\ calls'[c].at \in RunStages
          /\ calls'[c].title = calls[c].title /\ calls'[c].files = calls[c].files
      BY <1>0, <1>3, <2>1
      DEF RunFetched, RunLookup, RunMiss, RunStore, Goto, RunStages, TypeOK, CallType
    <2> QED
      BY <1>0, <2>2, <2>3, Advances
  <1>4. ASSUME NEW c \in Calls, OtherSteps(c)
        PROVE  SpinInv'
    <2>1. calls[c].at \notin RunStages /\ UNCHANGED spinner
      BY <1>4 DEF OtherSteps, Restore, Restored, Core, Ship, Discover, CoreFetched, ShipFetched,
                  Discovered, CallFails, Clear, Cleared, Begin, RunStages
    <2>2. \E r : calls' = [calls EXCEPT ![c] = r]
      BY <1>4 DEF OtherSteps, Restore, Restored, Core, Ship, Discover, CoreFetched, ShipFetched,
                  Discovered, CallFails, Clear, Cleared, Begin, End, ShipNext
    <2> QED
      BY <1>0, <2>1, <2>2, Advances
  <1>5. ASSUME NEW t \in Titles, RemoveSource(t)
        PROVE  SpinInv'
    <2>1. Runs(t)' = Runs(t) /\ \A u \in Titles : Runs(u)' = Runs(u)
      BY <1>5 DEF RemoveSource, Runs
    <2>2. \A u \in Titles : busy'[u] \subseteq busy[u] /\ (u \in extracting' => u \in extracting)
      BY <1>0, <1>5 DEF RemoveSource, TypeOK
    <2> QED
      BY <1>5, <2>1, <2>2 DEF RemoveSource, SpinInv, Spinning
  <1>6. CASE Reload
    BY <1>6 DEF Reload, SpinInv, Spinning
  <1>7. ASSUME UNCHANGED <<spinner, calls>>
        PROVE  SpinInv'
    BY <1>7, KeepsSpinning DEF Runs
  <1>8. ASSUME \/ \E t \in Titles, f \in Files : UnsupplyFile(t, f)
               \/ \E t \in Titles : UnsupplyRestored(t) \/ AddSource(t) \/ ManifestArrives(t)
               \/ \E k \in Keys : Evict(k)
               \/ UNCHANGED vars
        PROVE  SpinInv'
    BY <1>7, <1>8
    DEF UnsupplyFile, UnsupplyRestored, AddSource, ManifestArrives, Evict, vars
  <1>9. ASSUME NEW c \in Calls, RunSteps(c)
        PROVE  SpinInv'
    BY <1>1, <1>2, <1>3, <1>9 DEF RunSteps
  <1> QED
    BY <1>4, <1>5, <1>6, <1>8, <1>9 DEF Next

\* A title that reads "extracting..." has a run in flight that will settle it, however its runs
\* overlap and whatever becomes of its source (the finally block, prepareState.svelte.ts:1319).
THEOREM SpinnersEnd == Spec => []BusyMeansRunning
  <1>1. Init => SpinInv
    BY DEF Init, SpinInv, Spinning
  <1>2. TypeInv /\ SpinInv => BusyMeansRunning
    BY DEF TypeInv, TypeOK, SpinInv, Spinning, BusyMeansRunning
  <1> QED
    BY TypeInit, TypeStep, SpinStep, <1>1, <1>2, PTL DEF Spec

-----------------------------------------------------------------------------
\* As long as nothing is disturbed a clear or a restore is alone with discoveries, ...
Sweeps(r) == r.at \in {"clear", "restore"}
Alone == \A c, d \in Calls : Sweeps(calls[c]) /\ d # c => calls[d].at \in {"idle", "discover"}
\* ... what a run is about to point at is in OPFS, ...
Stored == \A c \in Calls : calls[c].at = "point" =>
            Outputs(calls[c].title, calls[c].files) \subseteq cache
\* ... and so is what the pointers name, except while a clear has yet to announce itself.
Clearing == \E c \in Calls : calls[c].at = "clear" /\ "converted" \in Backing(calls[c].scope)
Honest == \A t \in Titles : index[t] # None => Outputs(t, index[t].files) \subseteq cache

AloneInv == ~disturbed => Alone
HonestInv == ~disturbed /\ ~lossy => Stored /\ (~Clearing => Honest)

LEMMA AloneStep == TypeInv /\ AloneInv /\ [Next]_vars => AloneInv'
  <1> SUFFICES ASSUME TypeInv, AloneInv, [Next]_vars, ~disturbed' PROVE Alone'
    BY DEF AloneInv
  <1> USE DEF Sweeps
  <1>0. calls \in [Calls -> CallType] /\ disturbed \in BOOLEAN
    BY DEF TypeInv, TypeOK
  \* A call that is not alone leaves nobody who sweeps.
  <1>1. ASSUME NEW c \in Calls, ~disturbed, calls[c].at \notin {"idle", "discover"},
               ~Sweeps(calls[c]), ~Sweeps(calls'[c]), NEW r, calls' = [calls EXCEPT ![c] = r]
        PROVE  Alone'
    BY <1>0, <1>1 DEF AloneInv, Alone
  <1>2. ASSUME NEW c \in Calls, RunSteps(c) \/ CoreFetched(c) \/ ShipFetched(c) \/ CallFails(c),
               calls[c].at \notin {"idle", "discover"}
        PROVE  Alone'
    <2>1. ~disturbed
      <3>1. UNCHANGED disturbed \/ \E p : Disturbs(p)
        BY <1>2 DEF RunSteps, RunStart, RunFetched, RunLookup, RunHit, RunMiss, RunStore,
           RunRefused, RunPoint, RunThrows, CoreFetched, ShipFetched, CallFails, history
      <3> QED
        BY <1>0, <3>1 DEF Disturbs
    <2>2. ~Sweeps(calls[c])
      BY <1>2 DEF RunSteps, RunStart, RunFetched, RunLookup, RunHit, RunMiss, RunStore,
         RunRefused, RunPoint, RunThrows, CoreFetched, ShipFetched, CallFails, Begin
    <2>3. /\ calls' = [calls EXCEPT ![c] = calls'[c]]
          /\ ~Sweeps(calls'[c])
      <3>1. Idle.at = "idle"
        BY DEF Idle
      <3>2. ASSUME NEW t, NEW todo, ShipNext(c, t, todo)
            PROVE  calls' = [calls EXCEPT ![c] = calls'[c]] /\ ~Sweeps(calls'[c])
        <4>1. CASE End(c)
          BY <1>0, <3>1, <4>1 DEF End
        <4>2. CASE \E f : calls' = [calls EXCEPT ![c] = [Idle EXCEPT !.at = "ship", !.title = t,
                                       !.files = todo \ {f}, !.got = {f}]]
          BY <1>0, <4>2 DEF Idle
        <4> QED
          BY <3>2, <4>1, <4>2 DEF ShipNext
      <3>3. CASE RunFetched(c) \/ RunLookup(c) \/ RunMiss(c) \/ RunStore(c)
        BY <1>0, <3>1, <3>3 DEF RunFetched, RunLookup, RunMiss, RunStore, Goto, Deliver, Settle,
                                End, CallType
      <3>4. CASE RunHit(c) \/ RunRefused(c) \/ RunPoint(c) \/ RunThrows(c)
        BY <1>0, <3>1, <3>4 DEF RunHit, RunRefused, RunPoint, RunThrows, Deliver, Settle, End
      <3>5. CASE CoreFetched(c) \/ CallFails(c)
        BY <1>0, <3>1, <3>5 DEF CoreFetched, CallFails, End
      <3>6. CASE ShipFetched(c)
        BY <3>2, <3>6 DEF ShipFetched
      <3> QED
        BY <1>2, <3>3, <3>4, <3>5, <3>6 DEF RunSteps, RunStart, Begin
    <2> QED
      BY <1>1, <1>2, <2>1, <2>2, <2>3
  \* Nobody sweeps when a call begins undisturbed.
  <1>3. ASSUME NEW c \in Calls, NEW t \in Titles, NEW offer \in SUBSET Files,
               RunStart(c, t, offer) \/ Core(c, t) \/ Ship(c, t)
        PROVE  Alone'
    <2>1. ~Sweeping
      BY <1>3 DEF RunStart, Core, Ship, Disturbs
    <2>2. calls' = [calls EXCEPT ![c] = calls'[c]] /\ ~Sweeps(calls'[c])
      <3>1. CASE RunStart(c, t, offer) \/ Core(c, t)
        BY <1>0, <3>1 DEF RunStart, Core, Begin, Idle
      <3>2. CASE End(c)
        BY <1>0, <3>2 DEF End, Idle
      <3>3. CASE \E f : calls' = [calls EXCEPT ![c] = [Idle EXCEPT !.at = "ship", !.title = t,
                                     !.files = Shipped \ {f}, !.got = {f}]]
        BY <1>0, <3>3 DEF Idle
      <3> QED
        BY <1>3, <3>1, <3>2, <3>3 DEF Ship, ShipNext
    <2> QED
      BY <1>0, <2>1, <2>2 DEF Sweeping, Alone
  <1>4. ASSUME NEW c \in Calls, NEW t \in Titles, Discover(c, t)
        PROVE  Alone'
    <2>1. ~disturbed /\ calls[c].at = "idle"
      BY <1>4 DEF Discover, Begin, history
    <2>2. calls' = [calls EXCEPT ![c] = calls'[c]] /\ calls'[c].at = "discover"
      BY <1>0, <1>4 DEF Discover, Begin, Idle
    <2> QED
      BY <1>0, <2>1, <2>2 DEF AloneInv, Alone
  <1>5. ASSUME NEW c \in Calls, NEW scope \in {"artifact", "converted", "all"},
               Restore(c) \/ Clear(c, scope)
        PROVE  Alone'
    <2>1. ~Filling /\ \A d \in Calls : d # c => calls'[d] = calls[d]
      BY <1>0, <1>5 DEF Restore, Clear, Disturbs, Begin
    <2> QED
      BY <2>1 DEF Filling, Alone
  <1>6. ASSUME NEW c \in Calls, Restored(c) \/ Cleared(c)
        PROVE  Alone'
    <2>1. ~disturbed /\ calls' = [calls EXCEPT ![c] = Idle] /\ Idle.at = "idle"
      BY <1>6 DEF Restored, Cleared, End, history, Idle
    <2> QED
      BY <1>0, <2>1 DEF AloneInv, Alone
  <1>7. ASSUME UNCHANGED calls, ~disturbed
        PROVE  Alone'
    BY <1>7 DEF AloneInv, Alone
  <1>8. CASE Reload
    BY <1>8 DEF Reload, Alone, Idle
  <1>9. ASSUME \/ \E t \in Titles, f \in Files : UnsupplyFile(t, f)
               \/ \E t \in Titles : \/ UnsupplyRestored(t) \/ RemoveSource(t)
                                    \/ AddSource(t) \/ ManifestArrives(t)
               \/ \E k \in Keys : Evict(k)
               \/ UNCHANGED vars
        PROVE  Alone'
    <2>1. UNCHANGED calls /\ ~disturbed
      BY <1>0, <1>9 DEF UnsupplyFile, UnsupplyRestored, RemoveSource, AddSource, ManifestArrives,
                        Evict, vars, Disturbs, history
    <2> QED
      BY <1>7, <2>1
  <1>10. ASSUME NEW c \in Calls, RunSteps(c) \/ OtherSteps(c)
         PROVE  Alone'
    <2>1. CASE calls[c].at \in {"idle", "discover"} /\ RunSteps(c)
      BY <1>3, <2>1 DEF RunSteps, RunFetched, RunLookup, RunHit, RunMiss, RunStore, RunRefused,
                        RunPoint, RunThrows
    <2>2. CASE calls[c].at = "discover" /\ CallFails(c)
      <3>1. ~disturbed /\ calls' = [calls EXCEPT ![c] = Idle] /\ Idle.at = "idle"
        BY <2>2 DEF CallFails, End, history, Idle
      <3> QED
        BY <1>0, <2>2, <3>1 DEF AloneInv, Alone
    <2>3. CASE Discovered(c)
      <3>1. ~disturbed /\ calls' = [calls EXCEPT ![c] = Idle] /\ Idle.at = "idle"
        BY <2>3 DEF Discovered, End, history, Idle
      <3> QED
        BY <1>0, <2>3, <3>1 DEF AloneInv, Alone
    <2>4. CASE OtherSteps(c) /\ ~(calls[c].at = "discover" /\ CallFails(c)) /\ ~Discovered(c)
      <3>1. CASE CoreFetched(c) \/ ShipFetched(c) \/ CallFails(c)
        BY <1>2, <2>4, <3>1 DEF CoreFetched, ShipFetched, CallFails
      <3>2. CASE \E t \in Titles : Core(c, t) \/ Ship(c, t) \/ Discover(c, t)
        BY <1>3, <1>4, <3>2
      <3>3. CASE Restore(c) \/ \E scope \in {"artifact", "converted", "all"} : Clear(c, scope)
        BY <1>5, <3>3
      <3> QED
        BY <1>6, <2>4, <3>1, <3>2, <3>3 DEF OtherSteps
    <2> QED
      BY <1>2, <1>10, <2>1, <2>2, <2>3, <2>4
  <1> QED
    BY <1>8, <1>9, <1>10 DEF Next

\* Nothing is lost by a step that keeps the blobs and the pointers, and brings no call to "point".
LEMMA KeepsHonest ==
  ASSUME TypeOK, Stored /\ (~Clearing => Honest), cache \subseteq cache', UNCHANGED index,
         \A c \in Calls : calls'[c].at = "point" => calls'[c] = calls[c],
         ~Clearing' => ~Clearing
  PROVE  (Stored /\ (~Clearing => Honest))'
  BY DEF Stored, Honest

LEMMA HonestStep == TypeInv /\ AloneInv /\ HonestInv /\ [Next]_vars => HonestInv'
  <1> SUFFICES ASSUME TypeInv, AloneInv, HonestInv, [Next]_vars, ~disturbed', ~lossy'
               PROVE  (Stored /\ (~Clearing => Honest))'
    BY DEF HonestInv
  <1>0. calls \in [Calls -> CallType] /\ disturbed \in BOOLEAN /\ lossy \in BOOLEAN /\ TypeOK
    BY DEF TypeInv, TypeOK
  <1>1. Idle.at = "idle"
    BY DEF Idle
  <1>2. ASSUME ~disturbed, ~lossy PROVE Stored /\ (~Clearing => Honest)
    BY <1>2 DEF HonestInv
  \* One call moves, and clears nothing.
  <1>3. ASSUME NEW c \in Calls, ~disturbed, ~lossy, cache \subseteq cache', UNCHANGED index,
               calls' = [calls EXCEPT ![c] = calls'[c]], calls'[c].at # "point",
               calls[c].at # "clear" \/ "converted" \notin Backing(calls[c].scope)
        PROVE  (Stored /\ (~Clearing => Honest))'
    <2>1. \A d \in Calls : d # c => calls'[d] = calls[d]
      BY <1>0, <1>3
    <2>2. ~Clearing' => ~Clearing
      BY <1>3, <2>1 DEF Clearing
    <2> QED
      BY <1>0, <1>2, <1>3, <2>1, <2>2, KeepsHonest
  <1>4. ASSUME NEW c \in Calls, RunSteps(c)
        PROVE  (Stored /\ (~Clearing => Honest))'
    <2>1. ~disturbed
      <3>1. UNCHANGED disturbed \/ \E p : Disturbs(p)
        BY <1>4 DEF RunSteps, RunStart, RunFetched, RunLookup, RunHit, RunMiss, RunStore,
           RunRefused, RunPoint, RunThrows, history
      <3> QED
        BY <1>0, <3>1 DEF Disturbs
    <2>2. ~lossy
      BY <1>4 DEF RunSteps, RunStart, RunFetched, RunLookup, RunHit, RunMiss, RunStore,
         RunRefused, RunPoint, RunThrows, history, Disturbs
    <2>3. calls[c].at # "clear"
      BY <1>4 DEF RunSteps, RunStart, RunFetched, RunLookup, RunHit, RunMiss, RunStore,
         RunRefused, RunPoint, RunThrows, Begin
    <2>4. CASE \/ \E t \in Titles, offer \in SUBSET Files : RunStart(c, t, offer)
               \/ RunLookup(c) \/ RunMiss(c)
      <3>1. UNCHANGED <<cache, index>>
        BY <2>4 DEF RunStart, RunLookup, RunMiss, disk
      <3>2. calls' = [calls EXCEPT ![c] = calls'[c]] /\ calls'[c].at # "point"
        <4>1. CASE \E t \in Titles, offer \in SUBSET Files : RunStart(c, t, offer)
          BY <1>0, <4>1 DEF RunStart, Begin, Idle
        <4>2. CASE RunLookup(c) \/ RunMiss(c)
          BY <1>0, <4>2 DEF RunLookup, RunMiss, Goto, CallType
        <4> QED
          BY <2>4, <4>1, <4>2
      <3> QED
        BY <1>3, <2>1, <2>2, <2>3, <3>1, <3>2
    <2>5. CASE RunFetched(c)
      <3>1. calls' = [calls EXCEPT ![c] = calls'[c]] /\ calls'[c].at # "point"
        BY <1>0, <1>1, <2>5 DEF RunFetched, Deliver, Settle, End, Goto, CallType
      <3> QED
        BY <1>3, <2>1, <2>2, <2>3, <2>5, <3>1 DEF RunFetched
    <2>6. CASE RunHit(c) \/ RunThrows(c)
      <3>1. UNCHANGED <<cache, index>>
        BY <2>6 DEF RunHit, RunThrows, disk
      <3>2. calls' = [calls EXCEPT ![c] = calls'[c]] /\ calls'[c].at # "point"
        BY <1>0, <1>1, <2>6 DEF RunHit, RunThrows, Deliver, Settle, End
      <3> QED
        BY <1>3, <2>1, <2>2, <2>3, <3>1, <3>2
    <2>7. CASE RunRefused(c)
      BY <2>7 DEF RunRefused, Disturbs
    <2>8. CASE RunStore(c)
      <3>1. /\ calls'[c].title = calls[c].title /\ calls'[c].files = calls[c].files
            /\ calls'[c].at = "point" /\ \A d \in Calls : d # c => calls'[d] = calls[d]
        BY <1>0, <2>8 DEF RunStore, Goto, CallType
      <3>2. cache' = cache \cup Outputs(calls[c].title, calls[c].files) /\ UNCHANGED index
        BY <2>8 DEF RunStore
      <3>3. Stored'
        BY <1>2, <2>1, <2>2, <3>1, <3>2 DEF Stored
      <3>4. ~Clearing' => ~Clearing
        BY <2>3, <3>1 DEF Clearing
      <3> QED
        BY <1>2, <2>1, <2>2, <3>2, <3>3, <3>4 DEF Honest
    <2>9. CASE RunPoint(c)
      <3> DEFINE t == calls[c].title
                 files == calls[c].files
      <3>1. t \in Titles /\ calls[c].at = "point" /\ index' = [index EXCEPT ![t] = Merged(t, files)]
        BY <2>9 DEF RunPoint, RunStages, TypeInv, Shaped
      <3>2. calls'[c].at = "idle" /\ \A d \in Calls : d # c => calls'[d] = calls[d]
        BY <1>0, <1>1, <2>9 DEF RunPoint, Deliver, Settle, End
      <3>3. UNCHANGED cache
        BY <2>9 DEF RunPoint
      <3>4. Outputs(t, files) \subseteq cache
        BY <1>2, <2>1, <2>2, <3>1 DEF Stored
      <3>5. ASSUME Honest PROVE Honest'
        <4>1. Outputs(t, Merged(t, files).files) \subseteq cache
          <5>1. CASE index[t] = None
            BY <3>4, <5>1 DEF Merged
          <5>2. CASE index[t] # None
            <6>1. Merged(t, files).files = files \cup index[t].files
              BY <5>2 DEF Merged
            <6>2. Outputs(t, index[t].files) \subseteq cache
              BY <3>1, <3>5, <5>2 DEF Honest
            <6> QED
              BY <3>4, <6>1, <6>2 DEF Outputs
          <5> QED
            BY <5>1, <5>2
        <4> HIDE DEF t, files
        <4>2. ASSUME NEW u \in Titles, index'[u] # None
              PROVE  Outputs(u, index'[u].files) \subseteq cache
          <5>1. CASE u = t
            BY <1>0, <3>1, <4>1, <5>1 DEF TypeOK
          <5>2. CASE u # t
            BY <1>0, <3>1, <3>5, <4>2, <5>2 DEF TypeOK, Honest
          <5> QED
            BY <5>1, <5>2
        <4> QED
          BY <3>3, <4>2 DEF Honest
      <3>6. Stored'
        BY <1>2, <2>1, <2>2, <3>2, <3>3 DEF Stored
      <3>7. ~Clearing' => ~Clearing
        BY <2>3, <3>2 DEF Clearing
      <3> QED
        BY <1>2, <2>1, <2>2, <3>5, <3>6, <3>7
    <2> QED
      BY <1>4, <2>4, <2>5, <2>6, <2>7, <2>8, <2>9 DEF RunSteps
  <1>5. ASSUME NEW c \in Calls, Restore(c) \/ Restored(c) \/ CoreFetched(c) \/ Discovered(c)
                                \/ CallFails(c)
        PROVE  (Stored /\ (~Clearing => Honest))'
    <2>1. ~disturbed /\ ~lossy /\ cache \subseteq cache' /\ UNCHANGED index /\ calls[c].at # "clear"
      BY <1>0, <1>5 DEF Restore, Restored, CoreFetched, Discovered, CallFails, Disturbs, disk,
                        history, Begin
    <2>2. calls' = [calls EXCEPT ![c] = calls'[c]] /\ calls'[c].at # "point"
      BY <1>0, <1>1, <1>5 DEF Restore, Restored, CoreFetched, Discovered, CallFails, End, Begin, Idle
    <2> QED
      BY <1>3, <2>1, <2>2
  <1>6. ASSUME NEW c \in Calls, NEW t \in Titles, Core(c, t) \/ Discover(c, t)
        PROVE  (Stored /\ (~Clearing => Honest))'
    <2>1. ~disturbed /\ ~lossy /\ cache \subseteq cache' /\ UNCHANGED index /\ calls[c].at # "clear"
      BY <1>0, <1>6 DEF Core, Discover, Disturbs, disk, history, Begin
    <2>2. calls' = [calls EXCEPT ![c] = calls'[c]] /\ calls'[c].at # "point"
      BY <1>0, <1>6 DEF Core, Discover, Begin, Idle
    <2> QED
      BY <1>3, <2>1, <2>2
  <1>7. ASSUME NEW c \in Calls, (\E t \in Titles : Ship(c, t)) \/ ShipFetched(c)
        PROVE  (Stored /\ (~Clearing => Honest))'
    <2>1. ~disturbed /\ ~lossy /\ cache \subseteq cache' /\ UNCHANGED index /\ calls[c].at # "clear"
      BY <1>0, <1>7 DEF Ship, ShipFetched, Disturbs, disk
    <2>2. calls' = [calls EXCEPT ![c] = calls'[c]] /\ calls'[c].at # "point"
      <3>1. PICK t, todo : ShipNext(c, t, todo)
        BY <1>7 DEF Ship, ShipFetched
      <3>2. CASE End(c)
        BY <1>0, <1>1, <3>2 DEF End
      <3>3. CASE \E f : calls' = [calls EXCEPT ![c] = [Idle EXCEPT !.at = "ship", !.title = t,
                                     !.files = todo \ {f}, !.got = {f}]]
        BY <1>0, <3>3 DEF Idle
      <3> QED
        BY <3>1, <3>2, <3>3 DEF ShipNext
    <2> QED
      BY <1>3, <2>1, <2>2
  <1>8. ASSUME NEW c \in Calls, NEW scope \in {"artifact", "converted", "all"}, Clear(c, scope)
        PROVE  (Stored /\ (~Clearing => Honest))'
    <2> DEFINE r == [Idle EXCEPT !.at = "clear", !.scope = scope]
    <2>1. ~disturbed /\ ~lossy /\ ~Filling /\ UNCHANGED index
      BY <1>0, <1>8 DEF Clear, Disturbs
    <2>2. calls'[c].at = "clear" /\ calls'[c].scope = scope
          /\ \A d \in Calls : d # c => calls'[d] = calls[d]
      BY <1>0, <1>8 DEF Clear, Begin, Idle
    <2>3. Stored'
      BY <2>1, <2>2 DEF Filling, Stored
    <2>4. CASE "converted" \in Backing(scope)
      BY <2>2, <2>3, <2>4 DEF Clearing
    <2>5. CASE "converted" \notin Backing(scope)
      <3>1. ~Clearing
        BY <2>1 DEF Clearing, Filling
      <3>2. cache \ (Titles \X {Art}) \subseteq cache'
        BY <1>8, <2>5 DEF Clear
      <3>3. ASSUME NEW u \in Titles, index[u] # None
            PROVE  Outputs(u, index[u].files) \subseteq cache'
        <4>1. index[u].files \subseteq Files
          BY <1>0, <3>3 DEF TypeOK, Pointer
        <4>2. Outputs(u, index[u].files) \subseteq cache
          BY <1>2, <2>1, <3>1, <3>3 DEF Honest
        <4>3. Outputs(u, index[u].files) \cap (Titles \X {Art}) = {}
          BY <4>1, PrepareAssumption DEF Outputs
        <4> QED
          BY <3>2, <4>2, <4>3
      <3> QED
        BY <2>1, <2>3, <3>3 DEF Honest
    <2> QED
      BY <2>4, <2>5
  <1>9. ASSUME NEW c \in Calls, Cleared(c)
        PROVE  (Stored /\ (~Clearing => Honest))'
    <2>1. ~disturbed /\ ~lossy /\ UNCHANGED cache /\ calls[c].at = "clear"
      BY <1>9 DEF Cleared, history
    <2>2. calls' = [calls EXCEPT ![c] = calls'[c]] /\ calls'[c].at # "point"
      BY <1>0, <1>1, <1>9 DEF Cleared, End
    <2>3. CASE "converted" \in Backing(calls[c].scope)
      <3>1. index' = [t \in Titles |-> None]
        BY <1>9, <2>3 DEF Cleared, Pruned
      <3>2. Stored'
        BY <1>0, <1>2, <2>1, <2>2 DEF Stored
      <3> QED
        BY <3>1, <3>2 DEF Honest
    <2>4. CASE "converted" \notin Backing(calls[c].scope)
      <3>1. UNCHANGED index
        BY <1>9, <2>4 DEF Cleared, Pruned
      <3> QED
        BY <1>3, <2>1, <2>2, <2>4, <3>1
    <2> QED
      BY <2>3, <2>4
  <1>10. ASSUME NEW t \in Titles, RemoveSource(t)
         PROVE  (Stored /\ (~Clearing => Honest))'
    <2>1. ~disturbed /\ ~lossy /\ UNCHANGED <<cache, calls>>
      BY <1>0, <1>10 DEF RemoveSource, Disturbs
    <2>2. \A u \in Titles : index'[u] = None \/ index'[u] = index[u]
      BY <1>0, <1>10 DEF RemoveSource, Forgot, TypeOK
    <2> QED
      BY <1>2, <2>1, <2>2 DEF Stored, Clearing, Honest
  <1>11. CASE Reload
    <2>1. ~disturbed /\ ~lossy /\ ~Sweeping /\ UNCHANGED <<index, cache>>
      BY <1>0, <1>11 DEF Reload, Disturbs, disk
    <2>2. ~Clearing
      BY <2>1 DEF Sweeping, Clearing
    <2>3. Stored'
      BY <1>1, <1>11 DEF Reload, Stored
    <2> QED
      BY <1>2, <2>1, <2>2, <2>3 DEF Honest
  <1>12. ASSUME \/ \E t \in Titles, f \in Files : UnsupplyFile(t, f)
                \/ \E t \in Titles : UnsupplyRestored(t) \/ AddSource(t) \/ ManifestArrives(t)
                \/ \E k \in Keys : Evict(k)
                \/ UNCHANGED vars
         PROVE  (Stored /\ (~Clearing => Honest))'
    <2>1. ~disturbed /\ ~lossy /\ UNCHANGED <<index, cache, calls>>
      BY <1>0, <1>12 DEF UnsupplyFile, UnsupplyRestored, AddSource, ManifestArrives, Evict, vars,
                         Disturbs, disk, history
    <2> QED
      BY <1>2, <2>1 DEF Stored, Clearing, Honest
  <1> QED
    BY <1>4, <1>5, <1>6, <1>7, <1>8, <1>9, <1>10, <1>11, <1>12 DEF Next, OtherSteps

\* As long as the code orders its operations and the browser keeps its blobs, no pointer names
\* bytes that are gone: a cleared category takes its pointers with it, and a run points at what it
\* has stored (forgetConvertedIndex, convertedCache.ts:167).
THEOREM PointersStayHonest == Spec => []PointersHonest
  <1>1. Init => AloneInv /\ HonestInv
    BY DEF Init, AloneInv, Alone, HonestInv, Stored, Honest, Idle, Sweeps
  <1>2. HonestInv => PointersHonest
    BY DEF HonestInv, PointersHonest, Ordered, Sweeping, Clearing, Honest
  <1> QED
    BY TypeInit, TypeStep, AloneStep, HonestStep, <1>1, <1>2, PTL DEF Spec

-----------------------------------------------------------------------------
\* What a call in flight relies on, as long as nothing is disturbed: that its source is listed,
\* that the artifact it fetched is mapped, that the pointer it read still names what it read.
Fits(r) ==
  /\ r.at \in {"look", "read", "exec", "point"} => r.files # {} /\ <<r.title, Art>> \in mapped
  /\ r.at = "read" => index[r.title] # None /\ r.got \subseteq index[r.title].files
  /\ r.at = "ship" => r.got \cup r.files \subseteq Shipped
  /\ r.at \in RunStages \cup {"core", "ship", "discover"} => r.title \in rows
  /\ r.at = "restore" => \A t \in Titles : r.found[t] # None => t \in rows /\ r.found[t] = index[t]
FitsInv == ~disturbed => \A c \in Calls : Fits(calls[c])

\* An undisturbed step starts undisturbed, ...
LEMMA WasOrdered ==
  ASSUME TypeInv, [Next]_vars, ~disturbed'
  PROVE  ~disturbed
  <1>1. UNCHANGED disturbed \/ \E p : Disturbs(p)
    BY DEF Next, RunSteps, OtherSteps, RunStart, RunFetched, RunLookup, RunHit, RunMiss, RunStore,
           RunRefused, RunPoint, RunThrows, Restore, Restored, Core, Ship, Discover, CoreFetched,
           ShipFetched, Discovered, CallFails, Clear, Cleared, UnsupplyFile, UnsupplyRestored,
           RemoveSource, AddSource, ManifestArrives, Reload, Evict, vars, history
  <1> QED
    BY <1>1 DEF Disturbs, TypeInv, TypeOK

\* ... and moves one call, or all of them to "idle", or none.
LEMMA OneMoves ==
  ASSUME TypeInv, NEW c \in Calls, RunSteps(c) \/ OtherSteps(c)
  PROVE  \A d \in Calls \ {c} : calls'[d] = calls[d]
  <1>1. \E r : calls' = [calls EXCEPT ![c] = r]
    BY DEF RunSteps, OtherSteps, RunStart, RunFetched, RunLookup, RunHit, RunMiss, RunStore,
           RunRefused, RunPoint, RunThrows, Restore, Restored, Core, Ship, Discover, CoreFetched,
           ShipFetched, Discovered, CallFails, Clear, Cleared, Begin, Goto, End, Deliver, Settle,
           ShipNext
  <1> QED
    BY <1>1 DEF TypeInv, TypeOK

\* What shipping leaves of its call.
LEMMA ShipNextCall ==
  ASSUME TypeInv, NEW c \in Calls, NEW t, NEW todo, ShipNext(c, t, todo)
  PROVE  \/ calls'[c].at = "idle"
         \/ /\ calls'[c].at = "ship" /\ calls'[c].title = t
            /\ calls'[c].got \cup calls'[c].files \subseteq todo
  <1>1. CASE End(c)
    BY <1>1 DEF End, Idle, TypeInv, TypeOK
  <1>2. CASE \E f \in todo :
               calls' = [calls EXCEPT ![c] = [Idle EXCEPT !.at = "ship", !.title = t,
                                                          !.files = todo \ {f}, !.got = {f}]]
    BY <1>2 DEF Idle, TypeInv, TypeOK
  <1> QED
    BY <1>1, <1>2 DEF ShipNext

\* A step of one call, that takes nothing from the others.
LEMMA OthersFit ==
  ASSUME TypeInv, \A d \in Calls : Fits(calls[d]), NEW c \in Calls,
         \A d \in Calls \ {c} : calls'[d] = calls[d],
         rows \subseteq rows', mapped \subseteq mapped', UNCHANGED index, Fits(calls[c])'
  PROVE  \A d \in Calls : Fits(calls[d])'
  BY DEF Fits

\* Where no call but a discovery is in flight, the rows alone matter.
LEMMA OnlyDiscoveries ==
  ASSUME \A c \in Calls : Fits(calls[c]),
         \A c \in Calls : \/ calls'[c].at = "idle"
                          \/ calls'[c].at = "discover" /\ calls'[c] = calls[c],
         rows \subseteq rows'
  PROVE  \A c \in Calls : Fits(calls[c])'
  BY DEF Fits, RunStages

LEMMA FitsStep == TypeInv /\ AloneInv /\ FitsInv /\ [Next]_vars => FitsInv'
  <1> SUFFICES ASSUME TypeInv, AloneInv, FitsInv, [Next]_vars, ~disturbed'
               PROVE  \A c \in Calls : Fits(calls[c])'
    BY DEF FitsInv
  <1>0. /\ ~disturbed /\ Alone /\ calls \in [Calls -> CallType] /\ TypeOK
        /\ \A c \in Calls : Fits(calls[c])
    BY WasOrdered DEF FitsInv, AloneInv, TypeInv, TypeOK
  <1>1. ASSUME NEW c \in Calls, calls'[c].at = "idle"
        PROVE  Fits(calls[c])'
    BY <1>1 DEF Fits, RunStages
  <1>2. ASSUME NEW c \in Calls, RunSteps(c)
        PROVE  \A d \in Calls : Fits(calls[d])'
    <2>0. /\ \A d \in Calls \ {c} : calls'[d] = calls[d]
          /\ calls[c] \in CallType /\ Shaped(calls[c]) /\ Fits(calls[c])
      BY <1>0, <1>2, OneMoves DEF TypeInv
    <2>1. ASSUME NEW t \in Titles, NEW offer \in SUBSET Files, RunStart(c, t, offer)
          PROVE  \A d \in Calls : Fits(calls[d])'
      <3>1. calls'[c].at = "fetch" /\ calls'[c].title = t
        BY <1>0, <2>1 DEF RunStart, Begin, Idle
      <3>2. t \in rows /\ UNCHANGED <<rows, mapped, index>>
        BY <1>0, <2>1 DEF RunStart, TypeOK, session, shelf, disk
      <3>3. Fits(calls[c])'
        BY <3>1, <3>2 DEF Fits
      <3> QED
        BY <1>0, <2>0, <3>2, <3>3, OthersFit
    <2>2. CASE RunFetched(c)
      <3>1. rows' = rows /\ mapped \subseteq mapped' /\ UNCHANGED index
        BY <2>2 DEF RunFetched, Deliver, session
      <3>2. Fits(calls[c])'
        <4>1. CASE calls[c].files = {}
          BY <1>0, <1>1, <2>2, <4>1 DEF RunFetched, Deliver, Settle, End, Idle
        <4>2. CASE calls[c].files # {}
          <5>1. /\ calls'[c].at = "look" /\ calls'[c].title = calls[c].title
                /\ calls'[c].files = calls[c].files
            BY <1>0, <2>0, <2>2, <4>2 DEF RunFetched, Goto, CallType
          <5>2. <<calls[c].title, Art>> \in mapped'
            BY <2>2 DEF RunFetched, Outputs
          <5>3. calls[c].title \in rows
            BY <2>0, <2>2 DEF RunFetched, Fits, RunStages
          <5> QED
            BY <3>1, <4>2, <5>1, <5>2, <5>3 DEF Fits
        <4> QED
          BY <4>1, <4>2
      <3> QED
        BY <1>0, <2>0, <3>1, <3>2, OthersFit
    <2>3. CASE RunLookup(c) \/ RunMiss(c) \/ RunStore(c)
      <3>1. UNCHANGED <<rows, mapped, index>>
        BY <2>3 DEF RunLookup, RunMiss, RunStore, session, shelf, disk
      <3>2. /\ calls'[c].title = calls[c].title /\ calls'[c].files = calls[c].files
            /\ calls'[c].at \in {"read", "exec", "point"}
            /\ calls[c].at \in {"look", "read", "exec", "point"}
        BY <1>0, <2>0, <2>3 DEF RunLookup, RunMiss, RunStore, Goto, CallType
      <3>3. ASSUME calls'[c].at = "read"
            PROVE  index[calls[c].title] # None /\ calls'[c].got = index[calls[c].title].files
        BY <1>0, <2>0, <2>3, <3>3 DEF RunLookup, RunMiss, RunStore, Goto, CallType
      <3>4. Fits(calls[c])'
        BY <2>0, <3>1, <3>2, <3>3 DEF Fits, RunStages
      <3> QED
        BY <1>0, <2>0, <3>1, <3>4, OthersFit
    <2>4. CASE RunHit(c) \/ RunThrows(c)
      <3>1. UNCHANGED <<rows, mapped, index>> /\ calls'[c].at = "idle"
        BY <1>0, <2>4 DEF RunHit, RunThrows, Deliver, Settle, End, Idle, session, shelf, disk
      <3> QED
        BY <1>0, <1>1, <2>0, <3>1, OthersFit
    <2>5. CASE RunPoint(c)
      <3> DEFINE t == calls[c].title
      <3>1. t \in Titles /\ calls[c].at = "point"
        BY <2>0, <2>5 DEF RunPoint, RunStages, Shaped
      <3>2. UNCHANGED <<rows, mapped>> /\ index' = [index EXCEPT ![t] = Merged(t, calls[c].files)]
        BY <2>5 DEF RunPoint, Deliver, session
      <3>3. calls'[c].at = "idle"
        BY <1>0, <2>5 DEF RunPoint, Deliver, Settle, End, Idle
      <3>4. ASSUME NEW u \in Titles, index[u] # None
            PROVE  index'[u] # None /\ index[u].files \subseteq index'[u].files
        <4>1. CASE u = t
          <5>1. Merged(t, calls[c].files) \in Pointer
            BY <1>0, <2>0, <3>1 DEF Merged, Pointer, TypeOK, CallType
          <5>2. index[t].files \subseteq Merged(t, calls[c].files).files
            BY <3>4, <4>1 DEF Merged
          <5>3. index'[t] = Merged(t, calls[c].files)
            BY <1>0, <3>1, <3>2 DEF TypeOK
          <5> QED
            BY <4>1, <5>1, <5>2, <5>3, PrepareAssumption
        <4>2. CASE u # t
          BY <1>0, <3>2, <3>4, <4>2 DEF TypeOK
        <4> QED
          BY <4>1, <4>2
      <3>5. ASSUME NEW d \in Calls, d # c
            PROVE  Fits(calls[d])'
        <4>1. calls'[d] = calls[d] /\ Fits(calls[d]) /\ calls[d].at # "restore"
          BY <1>0, <2>0, <3>1, <3>5 DEF Alone, Sweeps
        <4>2. calls[d].at = "read" => calls[d].title \in Titles
          BY DEF TypeInv, Shaped, RunStages
        <4> QED
          BY <3>2, <3>4, <4>1, <4>2 DEF Fits
      <3> QED
        BY <1>1, <3>3, <3>5
    <2>6. CASE RunRefused(c)
      BY <2>6 DEF RunRefused, Disturbs
    <2> QED
      BY <1>2, <2>1, <2>2, <2>3, <2>4, <2>5, <2>6 DEF RunSteps
  <1>3. ASSUME NEW c \in Calls, OtherSteps(c)
        PROVE  \A d \in Calls : Fits(calls[d])'
    <2>0. /\ \A d \in Calls \ {c} : calls'[d] = calls[d]
          /\ calls[c] \in CallType /\ Shaped(calls[c]) /\ Fits(calls[c])
      BY <1>0, <1>3, OneMoves DEF TypeInv
    <2>1. CASE Restore(c)
      <3>1. UNCHANGED <<rows, known, mapped, index>>
        BY <2>1 DEF Restore, shelf, disk
      <3>2. /\ calls'[c].at = "restore"
            /\ calls'[c].found = [t \in Titles |-> IF t \in known THEN index[t] ELSE None]
        BY <1>0, <2>1 DEF Restore, Begin, Idle
      <3>3. Fits(calls[c])'
        BY <1>0, <3>1, <3>2 DEF Fits, RunStages, TypeOK
      <3> QED
        BY <1>0, <2>0, <3>1, <3>3, OthersFit
    <2>2. CASE Restored(c) \/ CoreFetched(c) \/ Discovered(c) \/ CallFails(c)
      <3>1. UNCHANGED <<rows, index>> /\ mapped \subseteq mapped'
        BY <2>2 DEF Restored, Remapped, CoreFetched, Discovered, CallFails, session, shelf, disk
      <3>2. calls'[c].at = "idle"
        BY <1>0, <2>2 DEF Restored, CoreFetched, Discovered, CallFails, End, Idle
      <3> QED
        BY <1>0, <1>1, <2>0, <3>1, <3>2, OthersFit
    <2>3. ASSUME NEW t \in Titles, Core(c, t) \/ Discover(c, t)
          PROVE  \A d \in Calls : Fits(calls[d])'
      <3>1. UNCHANGED <<rows, mapped, index>> /\ t \in rows
        BY <1>0, <2>3 DEF Core, Discover, session, shelf, disk, TypeOK
      <3>2. calls'[c].at \in {"core", "discover"} /\ calls'[c].title = t
        BY <1>0, <2>3 DEF Core, Discover, Begin, Idle
      <3>3. Fits(calls[c])'
        BY <3>1, <3>2 DEF Fits, RunStages
      <3> QED
        BY <1>0, <2>0, <3>1, <3>3, OthersFit
    <2>4. CASE (\E t \in Titles : Ship(c, t)) \/ ShipFetched(c)
      <3>1. UNCHANGED <<rows, mapped, index>>
        BY <2>4 DEF Ship, ShipFetched, session, shelf, disk
      <3>2. \/ calls'[c].at = "idle"
            \/ /\ calls'[c].at = "ship" /\ calls'[c].title \in rows
               /\ calls'[c].got \cup calls'[c].files \subseteq Shipped
        <4>1. ASSUME NEW t \in Titles, Ship(c, t)
              PROVE  \/ calls'[c].at = "idle"
                     \/ /\ calls'[c].at = "ship" /\ calls'[c].title \in rows
                        /\ calls'[c].got \cup calls'[c].files \subseteq Shipped
          <5>1. t \in rows
            BY <1>0, <4>1 DEF Ship, TypeOK
          <5> QED
            BY <4>1, <5>1, ShipNextCall DEF Ship
        <4>2. CASE ShipFetched(c)
          <5>1. calls[c].title \in rows /\ calls[c].files \subseteq Shipped
            BY <2>0, <4>2 DEF ShipFetched, Fits
          <5> QED
            BY <4>2, <5>1, ShipNextCall DEF ShipFetched
        <4> QED
          BY <2>4, <4>1, <4>2
      <3>3. Fits(calls[c])'
        BY <3>1, <3>2 DEF Fits, RunStages
      <3> QED
        BY <1>0, <2>0, <3>1, <3>3, OthersFit
    <2>5. ASSUME NEW scope \in {"artifact", "converted", "all"}, Clear(c, scope)
          PROVE  \A d \in Calls : Fits(calls[d])'
      <3>1. UNCHANGED <<rows, mapped, index>>
        BY <2>5 DEF Clear, session, shelf
      <3>2. calls'[c].at = "clear"
        BY <1>0, <2>5 DEF Clear, Begin, Idle
      <3>3. Fits(calls[c])'
        BY <3>2 DEF Fits, RunStages
      <3> QED
        BY <1>0, <2>0, <3>1, <3>3, OthersFit
    <2>6. CASE Cleared(c)
      <3>1. calls[c].at = "clear" /\ calls'[c].at = "idle" /\ UNCHANGED rows
        BY <1>0, <2>6 DEF Cleared, End, Idle, session
      <3>2. \A d \in Calls \ {c} : calls[d].at \in {"idle", "discover"}
        BY <1>0, <3>1 DEF Alone, Sweeps
      <3> QED
        BY <1>0, <2>0, <3>1, <3>2, OnlyDiscoveries
    <2> QED
      BY <1>3, <2>1, <2>2, <2>3, <2>4, <2>5, <2>6 DEF OtherSteps
  <1>4. ASSUME \/ \E t \in Titles, f \in Files : UnsupplyFile(t, f)
               \/ \E t \in Titles : UnsupplyRestored(t)
        PROVE  \A d \in Calls : Fits(calls[d])'
    <2>1. ~Filling /\ UNCHANGED <<calls, rows>>
      BY <1>4 DEF UnsupplyFile, UnsupplyRestored, Disturbs, session
    <2> QED
      BY <1>0, <2>1, OnlyDiscoveries DEF Filling
  <1>5. ASSUME NEW t \in Titles, RemoveSource(t)
        PROVE  \A d \in Calls : Fits(calls[d])'
    <2>1. ~Busy /\ UNCHANGED calls
      BY <1>5 DEF RemoveSource, Disturbs
    <2> QED
      BY <1>1, <2>1 DEF Busy
  <1>6. CASE Reload
    BY <1>1, <1>6 DEF Reload, Idle
  <1>7. ASSUME \/ \E t \in Titles : AddSource(t) \/ ManifestArrives(t)
               \/ \E k \in Keys : Evict(k)
               \/ UNCHANGED vars
        PROVE  \A d \in Calls : Fits(calls[d])'
    <2>1. UNCHANGED <<calls, mapped, index>> /\ rows \subseteq rows'
      BY <1>7 DEF AddSource, ManifestArrives, Evict, vars, session, shelf, disk
    <2> QED
      BY <1>0, <2>1 DEF Fits
  <1> QED
    BY <1>2, <1>3, <1>4, <1>5, <1>6, <1>7 DEF Next

-----------------------------------------------------------------------------
\* What an undisturbed step does to the shelf and to what outlives it.  A run delivers: its
\* title's artifact, mapped, and the outputs of the offer, if there is one, which the pointer
\* names.
Delivers(c, out) ==
  LET t == calls[c].title IN
  /\ t \in rows /\ out \in SUBSET Files
  /\ Deliver(c, out)
  /\ calls[c].files = {} => out = {}
  /\ mapped \cup {<<t, Art>>} \subseteq mapped'
  /\ \A u \in Titles, f \in Files :
       kind'[<<u, f>>] = IF u = t /\ f \in out THEN "converted" ELSE kind[<<u, f>>]
  /\ \A u \in Titles \ {t} : index'[u] = index[u]
  /\ \A f \in out : index'[t] # None /\ f \in index'[t].files
  /\ index[t] # None => index'[t] # None /\ index[t].files \subseteq index'[t].files

\* The user takes out an input that has something, all of it or a file, while nothing is filled.
Has(t) == supplied[t] # None \/ discovered[t] # {}
Takes(t) == Has(t) /\ Unsupply(t) /\ UNCHANGED <<rows, extracting, index>>
TakesOne(t, f) == Has(t) /\ UnsupplyOne(t, f) /\ UNCHANGED <<rows, extracting, index>>

\* Everything else leaves the shelf, the inputs and the pointers alone.
Rests ==
  /\ UNCHANGED <<assets, produced, supplied, discovered, removed, index>>
  /\ rows \subseteq rows' /\ mapped \subseteq mapped' /\ extracting' \subseteq extracting \cup rows
  /\ \A u \in Titles, f \in Files : kind'[<<u, f>>] = kind[<<u, f>>]

LEMMA InOutputs ==
  ASSUME NEW t, NEW u, NEW x, NEW S
  PROVE  <<u, x>> \in Outputs(t, S) <=> u = t /\ x \in S
  BY DEF Outputs

LEMMA ArtMarks ==
  ASSUME NEW t, NEW u \in Titles, NEW f \in Files, NEW source
  PROVE  Marked(Outputs(t, {Art}), source)[<<u, f>>] = kind[<<u, f>>]
  <1>1. <<u, f>> \in Keys /\ f # Art
    BY PrepareAssumption DEF Keys
  <1> QED
    BY <1>1 DEF Marked, Outputs

LEMMA FileMarks ==
  ASSUME NEW t, NEW S, NEW u \in Titles, NEW f \in Files, NEW source
  PROVE  Marked(Outputs(t, S), source)[<<u, f>>]
           = IF u = t /\ f \in S THEN source ELSE kind[<<u, f>>]
  <1>1. <<u, f>> \in Keys
    BY DEF Keys
  <1>2. <<u, f>> \in Outputs(t, S) <=> u = t /\ f \in S
    BY InOutputs
  <1> QED
    BY <1>1, <1>2 DEF Marked

LEMMA RunKinds ==
  ASSUME TypeInv, ~disturbed', NEW c \in Calls, Fits(calls[c]), RunSteps(c)
  PROVE  Rests \/ \E out \in SUBSET Files : Delivers(c, out)
  <1> DEFINE t == calls[c].title
  <1>0. /\ TypeOK /\ calls[c].files \in SUBSET Files /\ calls[c].got \in SUBSET Files
        /\ calls[c].at \in RunStages => t \in Titles /\ t \in rows
    BY DEF TypeInv, TypeOK, CallType, Shaped, Fits
  <1> USE DEF RunStages
  <1>1. ASSUME NEW u \in Titles, NEW offer \in SUBSET Files, RunStart(c, u, offer)
        PROVE  Rests
    BY <1>0, <1>1 DEF RunStart, Rests, TypeOK, session, shelf, inputs, disk
  <1>2. CASE RunFetched(c)
    <2>1. t \in Titles /\ t \in rows /\ mapped \cup {<<t, Art>>} \subseteq mapped' /\ UNCHANGED index
      BY <1>0, <1>2 DEF RunFetched, Outputs
    <2>2. \A u \in Titles, f \in Files : kind'[<<u, f>>] = kind[<<u, f>>]
      BY <1>2, ArtMarks DEF RunFetched
    <2>3. CASE calls[c].files = {}
      BY <1>2, <2>1, <2>2, <2>3 DEF RunFetched, Delivers
    <2>4. CASE calls[c].files # {}
      BY <1>2, <2>1, <2>2, <2>4 DEF RunFetched, Rests, session, inputs, spinner
    <2> QED
      BY <2>3, <2>4
  <1>3. CASE RunHit(c)
    <2>1. t \in Titles /\ t \in rows /\ calls[c].at = "read" /\ UNCHANGED <<mapped, index>>
      BY <1>0, <1>3 DEF RunHit, disk
    <2>2. /\ calls[c].files # {} /\ <<t, Art>> \in mapped
          /\ index[t] # None /\ calls[c].got \subseteq index[t].files
      BY <2>1 DEF Fits
    <2>3. \A u \in Titles, f \in Files :
            kind'[<<u, f>>] = IF u = t /\ f \in calls[c].got THEN "converted" ELSE kind[<<u, f>>]
      BY <1>0, <1>3, <2>1, FileMarks DEF RunHit
    <2>4. Delivers(c, calls[c].got)
      BY <1>0, <1>3, <2>1, <2>2, <2>3 DEF RunHit, Delivers
    <2> QED
      BY <1>0, <2>4
  <1>4. CASE RunPoint(c)
    <2>1. t \in Titles /\ t \in rows /\ calls[c].at = "point" /\ UNCHANGED mapped
      BY <1>0, <1>4 DEF RunPoint
    <2>2. calls[c].files # {} /\ <<t, Art>> \in mapped
      BY <2>1 DEF Fits
    <2>3. \A u \in Titles, f \in Files :
            kind'[<<u, f>>] = IF u = t /\ f \in calls[c].files THEN "converted" ELSE kind[<<u, f>>]
      BY <1>0, <1>4, <2>1, FileMarks DEF RunPoint
    <2>4. index'[t] = Merged(t, calls[c].files) /\ \A u \in Titles \ {t} : index'[u] = index[u]
      BY <1>0, <1>4, <2>1 DEF RunPoint, TypeOK
    <2>5. Merged(t, calls[c].files) \in Pointer
      BY <1>0, <2>1 DEF Merged, Pointer, TypeOK
    <2>6. /\ calls[c].files \subseteq Merged(t, calls[c].files).files
          /\ index[t] # None => index[t].files \subseteq Merged(t, calls[c].files).files
      BY DEF Merged
    <2>7. index'[t] # None
      BY <2>4, <2>5, PrepareAssumption
    <2>8. Delivers(c, calls[c].files)
      BY <1>0, <1>4, <2>1, <2>2, <2>3, <2>4, <2>6, <2>7 DEF RunPoint, Delivers
    <2> QED
      BY <1>0, <2>8
  <1>5. CASE RunLookup(c) \/ RunMiss(c) \/ RunStore(c)
    BY <1>5 DEF RunLookup, RunMiss, RunStore, Rests, session, shelf, inputs, spinner, disk
  <1>6. CASE RunThrows(c)
    BY <1>6 DEF RunThrows, Settle, Rests, session, shelf, inputs, disk
  <1>7. CASE RunRefused(c)
    BY <1>7 DEF RunRefused, Disturbs
  <1> QED
    BY <1>1, <1>2, <1>3, <1>4, <1>5, <1>6, <1>7 DEF RunSteps

\* Where there is something to take, there is an entry.
LEMMA HeldHas ==
  ASSUME TypeOK, NEW t \in Titles, NEW f \in Files,
         \/ f \in (IF supplied[t] \in {None, {}} THEN discovered[t] ELSE supplied[t])
         \/ supplied[t] = {}
  PROVE  Has(t)
  <1>1. {} # None
    BY PrepareAssumption
  <1> QED
    BY <1>1 DEF Has, TypeOK

LEMMA OtherKinds ==
  ASSUME TypeInv, [Next]_vars, ~disturbed', ~ \E c \in Calls : RunSteps(c)
  PROVE  \/ Rests \/ Reload
         \/ \E c \in Calls : Restored(c) \/ CoreFetched(c) \/ ShipFetched(c) \/ Discovered(c)
                             \/ Cleared(c)
         \/ \E t \in Titles : Takes(t) \/ RemoveSource(t) \/ \E f \in Files : TakesOne(t, f)
  <1>0. TypeOK
    BY DEF TypeInv
  <1>1. ASSUME NEW c \in Calls,
               \/ Restore(c) \/ CallFails(c)
               \/ \E t \in Titles : Core(c, t) \/ Ship(c, t) \/ Discover(c, t)
               \/ \E scope \in {"artifact", "converted", "all"} : Clear(c, scope)
        PROVE  Rests
    BY <1>1 DEF Restore, CallFails, Core, Ship, Discover, Clear, Rests, session, shelf, inputs,
                spinner, disk
  <1>2. ASSUME NEW t \in Titles, NEW f \in Files, UnsupplyFile(t, f)
        PROVE  Takes(t) \/ TakesOne(t, f)
    BY <1>0, <1>2, HeldHas
    DEF UnsupplyFile, Takes, TakesOne, session, spinner, disk
  <1>3. ASSUME NEW t \in Titles, UnsupplyRestored(t)
        PROVE  Takes(t)
    <2>1. {} # None
      BY PrepareAssumption
    <2> QED
      BY <1>3, <2>1 DEF UnsupplyRestored, Has, Takes, session, spinner, disk
  <1>4. ASSUME \/ \E t \in Titles : AddSource(t) \/ ManifestArrives(t)
               \/ \E k \in Keys : Evict(k)
               \/ UNCHANGED vars
        PROVE  Rests
    BY <1>4 DEF AddSource, ManifestArrives, Evict, vars, Rests, session, shelf, inputs, spinner,
                disk
  <1> QED
    BY <1>1, <1>2, <1>3, <1>4 DEF Next, OtherSteps

-----------------------------------------------------------------------------
\* What is on the shelf, as long as nothing is disturbed: every artifact is mapped, ...
Relocated == \A t \in Titles : <<t, Art>> \in assets => <<t, Art>> \in mapped
\* ... a title's files carry the category of converted outputs, by which a clear finds them, ...
Converted ==
  \A t \in Titles, f \in Files : <<t, f>> \in produced[t] => kind[<<t, f>>] = "converted"
\* ... and are named by its pointer, ...
Named == \A t \in Titles : \A f \in Files :
           <<t, f>> \in produced[t] => index[t] # None /\ f \in index[t].files
\* ... everything but the games is some title's, ...
Owned == assets \ Games \subseteq UNION {produced[t] : t \in Titles}
\* ... and where the source is gone, or the input was emptied, there is nothing.
GoneFor(t) ==
  /\ Outputs(t, Files \cup {Art}) \cap assets \subseteq Games
  /\ produced[t] = {} /\ supplied[t] = None /\ discovered[t] = {} /\ index[t] = None
  /\ t \notin extracting /\ ~ \E r \in removed : r[1] = t
Gone == \A t \in Titles \ rows : GoneFor(t)
EmptyFor(t) ==
  supplied[t] = None /\ discovered[t] = {} /\ Outputs(t, Files) \cap assets \subseteq Games
Emptied == \A t \in Titles : <<t, Whole>> \in removed => EmptyFor(t)

Orderly == Relocated /\ Converted /\ Named /\ Owned /\ Gone /\ Emptied
OrderInv == ~disturbed => Orderly

\* A run that delivers.
LEMMA DeliversOrder ==
  ASSUME TypeInv, Orderly,
         NEW c \in Calls, NEW out \in SUBSET Files, Delivers(c, out)
  PROVE  Orderly'
  <1> USE DEF Orderly
  <1> DEFINE t == calls[c].title
             keys == Outputs(t, out \cup {Art})
  <1>0. TypeOK /\ t \in Titles /\ t \in rows /\ rows' = rows /\ Art \notin Files /\ Whole \notin Files
    BY PrepareAssumption DEF TypeInv, TypeOK, Delivers, Deliver, session
  <1>1. assets' = assets \cup keys /\ produced' = [produced EXCEPT ![t] = @ \cup keys]
    BY DEF Delivers, Deliver, Contributed
  <1>2. /\ \A u \in Titles \ {t} : produced'[u] = produced[u]
        /\ produced'[t] = produced[t] \cup keys
    BY <1>0, <1>1 DEF TypeOK
  <1>3. \A u \in Titles, f \in Files \cup {Art} : <<u, f>> \in keys <=> u = t /\ f \in out \cup {Art}
    BY DEF Outputs
  <1>4. Relocated'
    BY <1>0, <1>1, <1>3 DEF Relocated, Delivers
  <1>5. Converted'
    <2> SUFFICES ASSUME NEW u \in Titles, NEW f \in Files, <<u, f>> \in produced'[u]
                 PROVE  kind'[<<u, f>>] = "converted"
      BY DEF Converted
    <2>1. kind'[<<u, f>>] = IF u = t /\ f \in out THEN "converted" ELSE kind[<<u, f>>]
      BY DEF Delivers
    <2>2. CASE <<u, f>> \in produced[u]
      BY <2>1, <2>2 DEF Converted
    <2>3. CASE <<u, f>> \notin produced[u]
      BY <1>0, <1>2, <1>3, <2>1, <2>3
    <2> QED
      BY <2>2, <2>3
  <1>6. Named'
    <2> SUFFICES ASSUME NEW u \in Titles, NEW f \in Files, <<u, f>> \in produced'[u]
                 PROVE  index'[u] # None /\ f \in index'[u].files
      BY DEF Named
    <2>1. CASE <<u, f>> \in produced[u]
      BY <2>1 DEF Named, Delivers
    <2>2. CASE <<u, f>> \notin produced[u]
      BY <1>0, <1>2, <1>3, <2>2 DEF Delivers
    <2> QED
      BY <2>1, <2>2
  <1>7. Owned'
    <2> SUFFICES ASSUME NEW k \in assets', k \notin Games
                 PROVE  \E u \in Titles : k \in produced'[u]
      BY DEF Owned
    <2>1. CASE k \in keys
      BY <1>0, <1>2, <2>1
    <2>2. CASE k \notin keys
      <3>1. PICK u \in Titles : k \in produced[u]
        BY <1>1, <2>2 DEF Owned
      <3> QED
        BY <1>2, <3>1
    <2> QED
      BY <2>1, <2>2
  <1>8. Gone'
    <2> SUFFICES ASSUME NEW u \in Titles \ rows PROVE GoneFor(u)'
      BY <1>0 DEF Gone
    <2>1. u # t /\ GoneFor(u)
      BY <1>0 DEF Gone
    <2>2. Outputs(u, Files \cup {Art}) \cap keys = {}
      BY <2>1 DEF Outputs
    <2>3. Outputs(u, Files \cup {Art}) \cap assets' \subseteq Games
      BY <1>1, <2>1, <2>2 DEF GoneFor
    <2>4. produced'[u] = {} /\ index'[u] = None
      BY <1>2, <2>1 DEF GoneFor, Delivers
    <2>5. supplied'[u] = supplied[u] /\ discovered'[u] = discovered[u] /\ removed' \subseteq removed
      BY <1>0, <2>1 DEF Delivers, Deliver, TypeOK
    <2>6. u \notin extracting'
      BY <2>1 DEF GoneFor, Delivers, Deliver, Settle
    <2> QED
      BY <2>1, <2>3, <2>4, <2>5, <2>6 DEF GoneFor
  <1>9. Emptied'
    <2> SUFFICES ASSUME NEW u \in Titles, <<u, Whole>> \in removed' PROVE EmptyFor(u)'
      BY DEF Emptied
    <2>1. <<u, Whole>> \in removed /\ EmptyFor(u)
      BY DEF Emptied, Delivers, Deliver
    <2>2. supplied'[u] = supplied[u] /\ discovered'[u] = discovered[u]
          /\ Outputs(u, Files) \cap keys = {}
      <3>1. CASE u = t
        <4>1. calls[c].files = {}
          BY <3>1 DEF Delivers, Deliver
        <4>2. out = {}
          BY <4>1 DEF Delivers
        <4> QED
          BY <1>0, <4>1, <4>2 DEF Delivers, Deliver, Outputs
      <3>2. CASE u # t
        BY <1>0, <3>2 DEF Delivers, Deliver, TypeOK, Outputs
      <3> QED
        BY <3>1, <3>2
    <2> QED
      BY <1>1, <2>1, <2>2 DEF EmptyFor
  <1> QED
    BY <1>4, <1>5, <1>6, <1>7, <1>8, <1>9

\* Titles that come back whole, as their pointers name them.
LEMMA RestoredOrder ==
  ASSUME TypeInv, HalfInv, Orderly,
         NEW c \in Calls, Fits(calls[c]), Restored(c)
  PROVE  Orderly'
  <1> USE DEF Orderly
  <1> DEFINE found == calls[c].found
             kept(t) == Outputs(t, found[t].files \cup {Art})
             back == {t \in Titles : found[t] # None /\ Recoverable(t, kept(t))}
             keys == UNION {kept(t) : t \in back}
             arts == back \X {Art}
  <1>0. TypeOK /\ Art \notin Files /\ UNCHANGED <<rows, index, removed, discovered, extracting>>
    BY PrepareAssumption DEF TypeInv, Restored, session, spinner, disk
  <1>1. \A t \in back : t \in rows /\ index[t] # None /\ found[t] = index[t]
                        /\ index[t].files \subseteq Files /\ <<t, Whole>> \notin removed
    BY <1>0 DEF Fits, Restored, Recoverable, TypeOK, Pointer
  <1>2. \A t \in Titles, f \in Files \cup {Art} :
          <<t, f>> \in keys <=> t \in back /\ f \in found[t].files \cup {Art}
    <2> TAKE t \in Titles, f \in Files \cup {Art}
    <2>1. <<t, f>> \in keys <=> \E u \in back : <<t, f>> \in kept(u)
      OBVIOUS
    <2>2. \A u \in back : <<t, f>> \in kept(u) <=> t = u /\ f \in found[u].files \cup {Art}
      BY InOutputs
    <2> HIDE DEF keys, kept, back
    <2> QED
      BY <2>1, <2>2
  <1>3. assets' = assets \cup keys /\ mapped' = mapped \cup arts
    BY DEF Restored, Remapped
  <1>4. \A t \in Titles : produced'[t] = IF t \in back THEN kept(t) ELSE produced[t]
    BY DEF Restored
  <1>5. \A t \in Titles : t \notin back => supplied'[t] = supplied[t]
    BY DEF Restored
  <1>6. \A k \in Keys : kind'[k] = IF k \in arts THEN "artifact"
                                   ELSE IF k \in keys THEN "converted" ELSE kind[k]
    BY DEF Restored
  <1>7. \A t \in back : kept(t) = Outputs(t, index[t].files \cup {Art})
    BY <1>1
  <1>8. arts = back \X {Art}
    OBVIOUS
  <1> HIDE DEF back, keys, arts
  <1>9. back \subseteq Titles
    BY DEF back
  <1>10. Relocated'
    <2> SUFFICES ASSUME NEW t \in Titles, <<t, Art>> \in assets' PROVE <<t, Art>> \in mapped'
      BY DEF Relocated
    <2> QED
      BY <1>2, <1>3, <1>8 DEF Relocated
  <1>11. Converted'
    <2> SUFFICES ASSUME NEW t \in Titles, NEW f \in Files, <<t, f>> \in produced'[t]
                 PROVE  kind'[<<t, f>>] = "converted"
      BY DEF Converted
    <2>1. <<t, f>> \in Keys /\ <<t, f>> \notin arts
      BY <1>0, <1>8 DEF Keys
    <2>2. CASE t \in back
      <3>0. <<t, f>> \in kept(t)
        BY <1>4, <2>2
      <3>1. f \in found[t].files \cup {Art}
        BY <3>0, InOutputs
      <3>2. <<t, f>> \in keys
        BY <1>2, <2>2, <3>1
      <3> QED
        BY <1>6, <2>1, <3>2
    <2>3. CASE t \notin back
      BY <1>2, <1>4, <1>6, <2>1, <2>3 DEF Converted
    <2> QED
      BY <2>2, <2>3
  <1>12. Named'
    <2> SUFFICES ASSUME NEW t \in Titles, NEW f \in Files, <<t, f>> \in produced'[t]
                 PROVE  index[t] # None /\ f \in index[t].files
      BY <1>0 DEF Named
    <2>1. CASE t \in back
      <3>1. <<t, f>> \in Outputs(t, index[t].files \cup {Art})
        BY <1>4, <1>7, <2>1
      <3>2. f \in index[t].files \cup {Art}
        BY <3>1, InOutputs
      <3> QED
        BY <1>0, <1>1, <2>1, <3>2
    <2>2. CASE t \notin back
      BY <1>4, <2>2 DEF Named
    <2> QED
      BY <2>1, <2>2
  <1>13. Owned'
    <2> SUFFICES ASSUME NEW k \in assets', k \notin Games
                 PROVE  \E t \in Titles : k \in produced'[t]
      BY DEF Owned
    <2>1. CASE k \in keys
      <3>1. PICK t \in back : k \in kept(t)
        BY <2>1 DEF keys
      <3> QED
        BY <1>4, <1>9, <3>1
    <2>2. CASE k \in assets
      <3>1. PICK t \in Titles : k \in produced[t]
        BY <2>2 DEF Owned
      <3>2. CASE t \in back
        <4>1. PICK f \in Files \cup {Art} : k = <<t, f>>
          BY <3>1 DEF HalfInv, Prepared, Outputs
        <4>2. f \in index[t].files \cup {Art}
          BY <3>1, <4>1 DEF Named
        <4>3. k \in kept(t)
          BY <1>7, <3>2, <4>1, <4>2 DEF Outputs
        <4> QED
          BY <1>4, <3>2, <4>3
      <3>3. CASE t \notin back
        BY <1>4, <3>1, <3>3
      <3> QED
        BY <3>2, <3>3
    <2> QED
      BY <1>3, <2>1, <2>2
  <1>14. Gone'
    <2> SUFFICES ASSUME NEW u \in Titles \ rows PROVE GoneFor(u)'
      BY <1>0 DEF Gone
    <2>1. u \notin back /\ GoneFor(u)
      BY <1>1 DEF Gone
    <2>2. Outputs(u, Files \cup {Art}) \cap keys = {}
      BY <1>2, <2>1 DEF Outputs
    <2> QED
      BY <1>0, <1>3, <1>4, <1>5, <2>1, <2>2 DEF GoneFor
  <1>15. Emptied'
    <2> SUFFICES ASSUME NEW u \in Titles, <<u, Whole>> \in removed PROVE EmptyFor(u)'
      BY <1>0 DEF Emptied
    <2>1. u \notin back /\ EmptyFor(u)
      BY <1>1 DEF Emptied
    <2>2. Outputs(u, Files) \cap keys = {}
      BY <1>2, <2>1 DEF Outputs
    <2> QED
      BY <1>0, <1>3, <1>5, <2>1, <2>2 DEF EmptyFor
  <1> QED
    BY <1>10, <1>11, <1>12, <1>13, <1>14, <1>15

\* The artifact of a core, or a game it ships.
LEMMA CoreOrder ==
  ASSUME TypeInv, Orderly, NEW c \in Calls, Fits(calls[c]), CoreFetched(c)
  PROVE  Orderly'
  <1> USE DEF Orderly
  <1> DEFINE t == calls[c].title
             art == Outputs(t, {Art})
  <1>0. /\ TypeOK /\ t \in Titles /\ t \in rows /\ Art \notin Files
        /\ UNCHANGED <<rows, supplied, discovered, removed, index, extracting>>
    BY PrepareAssumption
    DEF TypeInv, Shaped, CoreFetched, Fits, session, inputs, spinner
  <1>1. assets' = assets \cup art /\ mapped' = mapped \cup art
    BY DEF CoreFetched
  <1>2. /\ \A u \in Titles \ {t} : produced'[u] = produced[u]
        /\ produced'[t] = produced[t] \cup art
    BY <1>0 DEF CoreFetched, TypeOK
  <1>3. \A u \in Titles, f \in Files : kind'[<<u, f>>] = kind[<<u, f>>]
    BY ArtMarks DEF CoreFetched
  <1>4. \A u \in Titles, f \in Files : <<u, f>> \in produced'[u] => <<u, f>> \in produced[u]
    <2> TAKE u \in Titles, f \in Files
    <2>1. <<u, f>> \notin art
      BY <1>0, InOutputs
    <2> QED
      BY <1>0, <1>2, <2>1
  <1>5. Relocated'
    BY <1>1 DEF Relocated
  <1>6. Converted'
    BY <1>3, <1>4 DEF Converted
  <1>7. Named'
    BY <1>0, <1>4 DEF Named
  <1>8. Owned'
    <2> SUFFICES ASSUME NEW k \in assets', k \notin Games
                 PROVE  \E u \in Titles : k \in produced'[u]
      BY DEF Owned
    <2>1. CASE k \in art
      BY <1>0, <1>2, <2>1
    <2>2. CASE k \notin art
      <3>1. PICK u \in Titles : k \in produced[u]
        BY <1>1, <2>2 DEF Owned
      <3> QED
        BY <1>2, <3>1
    <2> QED
      BY <2>1, <2>2
  <1>9. Gone'
    <2> SUFFICES ASSUME NEW u \in Titles \ rows PROVE GoneFor(u)'
      BY <1>0 DEF Gone
    <2>1. u # t /\ GoneFor(u)
      BY <1>0 DEF Gone
    <2>2. Outputs(u, Files \cup {Art}) \cap art = {}
      BY <2>1 DEF Outputs
    <2> QED
      BY <1>0, <1>1, <1>2, <2>1, <2>2 DEF GoneFor
  <1>10. Emptied'
    <2> SUFFICES ASSUME NEW u \in Titles, <<u, Whole>> \in removed PROVE EmptyFor(u)'
      BY <1>0 DEF Emptied
    <2>1. Outputs(u, Files) \cap art = {}
      BY <1>0 DEF Outputs
    <2> QED
      BY <1>0, <1>1, <2>1 DEF Emptied, EmptyFor
  <1> QED
    BY <1>5, <1>6, <1>7, <1>8, <1>9, <1>10

LEMMA ShipOrder ==
  ASSUME TypeInv, HalfInv, Orderly, ~disturbed', NEW c \in Calls, Fits(calls[c]), ShipFetched(c)
  PROVE  Orderly'
  <1> USE DEF Orderly
  <1> DEFINE t == calls[c].title
             games == Outputs(t, calls[c].got)
  <1>0. /\ TypeOK /\ t \in Titles /\ t \in rows /\ Art \notin Files
        /\ calls[c].got \in SUBSET Files /\ calls[c].got \subseteq Shipped
        /\ UNCHANGED <<rows, mapped, produced, supplied, discovered, removed, index, extracting>>
    BY PrepareAssumption
    DEF TypeInv, TypeOK, CallType, Shaped, ShipFetched, Fits, session, inputs, spinner, disk
  <1>1. assets' = assets \cup games /\ games \cap assets = {} /\ games \subseteq Games
    BY <1>0 DEF ShipFetched, Disturbs, Outputs, Games
  <1>2. \A u \in Titles, f \in Files : kind'[<<u, f>>] =
          IF u = t /\ f \in calls[c].got THEN "artifact" ELSE kind[<<u, f>>]
    BY <1>0, FileMarks DEF ShipFetched
  <1>3. Relocated'
    <2>1. \A u \in Titles : <<u, Art>> \notin games
      BY <1>0, InOutputs
    <2> QED
      BY <1>0, <1>1, <2>1 DEF Relocated
  <1>4. Converted'
    <2> SUFFICES ASSUME NEW u \in Titles, NEW f \in Files, <<u, f>> \in produced[u]
                 PROVE  kind'[<<u, f>>] = "converted"
      BY <1>0 DEF Converted
    <2>1. <<u, f>> \notin games
      BY <1>1 DEF HalfInv, Prepared
    <2>2. ~(u = t /\ f \in calls[c].got)
      BY <2>1, InOutputs
    <2> QED
      BY <1>2, <2>2 DEF Converted
  <1>5. Named' /\ Owned'
    BY <1>0, <1>1 DEF Named, Owned
  <1>6. Gone' /\ Emptied'
    BY <1>0, <1>1 DEF Gone, GoneFor, Emptied, EmptyFor
  <1> QED
    BY <1>3, <1>4, <1>5, <1>6

\* What a folder holds does not come back against a removal.
LEMMA DiscoveredOrder ==
  ASSUME TypeInv, Orderly, NEW c \in Calls, Fits(calls[c]), Discovered(c)
  PROVE  Orderly'
  <1> USE DEF Orderly
  <1> DEFINE t == calls[c].title
  <1>0. /\ TypeOK /\ t \in Titles /\ t \in rows
        /\ UNCHANGED <<rows, assets, kind, mapped, produced, supplied, removed, index, extracting>>
    BY DEF TypeInv, Shaped, Discovered, Fits, session, shelf, spinner, disk
  <1>1. PICK found \in SUBSET Files :
          discovered' = IF <<t, Whole>> \in removed /\ found # {} THEN discovered
                        ELSE [discovered EXCEPT ![t] = {f \in found : <<t, f>> \notin removed}]
    BY DEF Discovered
  <1>2. \A u \in Titles : u # t => discovered'[u] = discovered[u]
    BY <1>0, <1>1 DEF TypeOK
  <1>3. <<t, Whole>> \in removed => discovered'[t] \in {discovered[t], {}}
    BY <1>0, <1>1 DEF TypeOK
  <1>4. Relocated' /\ Converted' /\ Named' /\ Owned'
    BY <1>0 DEF Relocated, Converted, Named, Owned
  <1>5. Gone'
    BY <1>0, <1>2 DEF Gone, GoneFor
  <1>6. Emptied'
    BY <1>0, <1>2, <1>3 DEF Emptied, EmptyFor
  <1> QED
    BY <1>4, <1>5, <1>6

\* What a title contributed comes down, and nothing of it is left but games.
LEMMA DownOrder ==
  ASSUME TypeInv, HalfInv, Orderly, NEW t \in Titles, Drop(produced[t]),
         produced' = [produced EXCEPT ![t] = {}]
  PROVE  /\ Relocated' /\ Converted' /\ Owned'
         /\ produced'[t] = {} /\ \A u \in Titles \ {t} : produced'[u] = produced[u]
         /\ assets' \subseteq assets /\ Outputs(t, Files \cup {Art}) \cap assets' \subseteq Games
  <1> USE DEF Orderly
  <1>0. TypeOK
    BY DEF TypeInv
  <1>1. assets' = assets \ produced[t] /\ mapped' = mapped \ produced[t]
    BY DEF Drop
  <1>2. produced'[t] = {} /\ \A u \in Titles \ {t} : produced'[u] = produced[u]
    BY <1>0 DEF TypeOK
  <1>3. \A u \in Titles \ {t} : produced[u] \cap produced[t] = {}
    BY DEF HalfInv, Prepared, Outputs
  <1>4. Relocated'
    BY <1>1 DEF Relocated
  <1>5. Converted'
    <2> SUFFICES ASSUME NEW u \in Titles, NEW f \in Files, <<u, f>> \in produced'[u]
                 PROVE  kind'[<<u, f>>] = "converted"
      BY DEF Converted
    <2>1. <<u, f>> \in produced[u] /\ <<u, f>> \notin produced[t] /\ <<u, f>> \in Keys
      BY <1>2, <1>3 DEF Keys
    <2> QED
      BY <2>1 DEF Converted, Drop, Marked
  <1>6. Owned'
    BY <1>1, <1>2 DEF Owned
  <1>7. Outputs(t, Files \cup {Art}) \cap assets' \subseteq Games
    <2> SUFFICES ASSUME NEW k \in assets', k \in Outputs(t, Files \cup {Art}), k \notin Games
                 PROVE  FALSE
      OBVIOUS
    <2>1. PICK u \in Titles : k \in produced[u]
      BY <1>1 DEF Owned
    <2>2. u = t
      BY <2>1 DEF HalfInv, Prepared, Outputs
    <2> QED
      BY <1>1, <2>1, <2>2
  <1> QED
    BY <1>1, <1>2, <1>4, <1>5, <1>6, <1>7

LEMMA TakesOrder ==
  ASSUME TypeInv, HalfInv, Orderly, NEW t \in Titles, Takes(t)
  PROVE  Orderly'
  <1> USE DEF Orderly
  <1>0. TypeOK /\ UNCHANGED <<rows, extracting, index>> /\ removed' = removed \cup {<<t, Whole>>}
    BY DEF TypeInv, Takes, Unsupply
  <1>1. /\ Relocated' /\ Converted' /\ Owned'
        /\ produced'[t] = {} /\ \A u \in Titles \ {t} : produced'[u] = produced[u]
        /\ assets' \subseteq assets /\ Outputs(t, Files \cup {Art}) \cap assets' \subseteq Games
    BY DownOrder DEF Takes, Unsupply, Unsupplied
  <1>2. /\ supplied'[t] = None /\ discovered'[t] = {}
        /\ \A u \in Titles \ {t} : supplied'[u] = supplied[u] /\ discovered'[u] = discovered[u]
    BY <1>0 DEF Takes, Unsupply, TypeOK
  <1>3. Named'
    BY <1>0, <1>1 DEF Named
  <1>4. Gone'
    <2>1. t \in rows
      BY DEF Takes, Has, Gone, GoneFor
    <2> SUFFICES ASSUME NEW u \in Titles \ rows PROVE GoneFor(u)'
      BY <1>0 DEF Gone
    <2>2. u # t /\ GoneFor(u)
      BY <2>1 DEF Gone
    <2>3. ~ \E r \in removed' : r[1] = u
      BY <1>0, <2>2 DEF GoneFor
    <2>4. UNCHANGED extracting /\ index'[u] = index[u] /\ produced'[u] = produced[u]
      BY <1>0, <1>1, <2>2
    <2> QED
      BY <1>1, <1>2, <2>2, <2>3, <2>4 DEF GoneFor
  <1>5. Emptied'
    <2> SUFFICES ASSUME NEW u \in Titles, <<u, Whole>> \in removed' PROVE EmptyFor(u)'
      BY DEF Emptied
    <2>1. CASE u = t
      <3>1. Outputs(t, Files) \subseteq Outputs(t, Files \cup {Art})
        BY DEF Outputs
      <3> QED
        BY <1>1, <1>2, <2>1, <3>1 DEF EmptyFor
    <2>2. CASE u # t
      <3>1. EmptyFor(u)
        BY <1>0, <2>2 DEF Emptied
      <3> QED
        BY <1>1, <1>2, <2>2, <3>1 DEF EmptyFor
    <2> QED
      BY <2>1, <2>2
  <1> QED
    BY <1>1, <1>3, <1>4, <1>5

LEMMA TakesOneOrder ==
  ASSUME TypeInv, Orderly, NEW t \in Titles, NEW f \in Files, TakesOne(t, f)
  PROVE  Orderly'
  <1> USE DEF Orderly
  <1>0. /\ TypeOK /\ removed' = removed \cup {<<t, f>>} /\ f # Whole
        /\ UNCHANGED <<rows, extracting, index, assets, kind, mapped, produced>>
    BY PrepareAssumption DEF TypeInv, TakesOne, UnsupplyOne, shelf
  <1>1. \A u \in Titles : /\ supplied[u] = None => supplied'[u] = None
                          /\ discovered[u] = {} => discovered'[u] = {}
    BY <1>0 DEF TakesOne, UnsupplyOne, TypeOK
  <1>2. Relocated' /\ Converted' /\ Named' /\ Owned'
    BY <1>0 DEF Relocated, Converted, Named, Owned
  <1>3. Gone'
    <2>1. t \in rows
      BY DEF TakesOne, Has, Gone, GoneFor
    <2> SUFFICES ASSUME NEW u \in Titles \ rows PROVE GoneFor(u)'
      BY <1>0 DEF Gone
    <2>2. u # t /\ GoneFor(u)
      BY <2>1 DEF Gone
    <2>3. ~ \E r \in removed' : r[1] = u
      BY <1>0, <2>2 DEF GoneFor
    <2> QED
      BY <1>0, <1>1, <2>2, <2>3 DEF GoneFor
  <1>4. Emptied'
    BY <1>0, <1>1 DEF Emptied, EmptyFor
  <1> QED
    BY <1>2, <1>3, <1>4

LEMMA RemoveOrder ==
  ASSUME TypeInv, HalfInv, Orderly, NEW t \in Titles, RemoveSource(t)
  PROVE  Orderly'
  <1> USE DEF Orderly
  <1>0. TypeOK /\ rows' = rows \ {t} /\ removed' = {r \in removed : r[1] # t}
    BY DEF TypeInv, RemoveSource, RowGone
  <1>1. /\ Relocated' /\ Converted' /\ Owned'
        /\ produced'[t] = {} /\ \A u \in Titles \ {t} : produced'[u] = produced[u]
        /\ assets' \subseteq assets /\ Outputs(t, Files \cup {Art}) \cap assets' \subseteq Games
    BY DownOrder DEF RemoveSource
  <1>2. /\ supplied'[t] = None /\ discovered'[t] = {} /\ index'[t] = None
        /\ \A u \in Titles \ {t} : /\ supplied'[u] = supplied[u]
                                   /\ discovered'[u] = discovered[u]
                                   /\ index'[u] = index[u]
        /\ extracting' = extracting \ {t}
    BY <1>0 DEF RemoveSource, Forgot, TypeOK
  <1>3. Named'
    BY <1>1, <1>2 DEF Named
  <1>4. Gone'
    <2> SUFFICES ASSUME NEW u \in Titles \ rows' PROVE GoneFor(u)'
      BY DEF Gone
    <2>1. CASE u = t
      BY <1>0, <1>1, <1>2, <2>1 DEF GoneFor
    <2>2. CASE u # t
      <3>1. GoneFor(u)
        BY <1>0, <2>2 DEF Gone
      <3> QED
        BY <1>0, <1>1, <1>2, <2>2, <3>1 DEF GoneFor
    <2> QED
      BY <2>1, <2>2
  <1>5. Emptied'
    <2> SUFFICES ASSUME NEW u \in Titles, <<u, Whole>> \in removed' PROVE EmptyFor(u)'
      BY DEF Emptied
    <2>1. u # t /\ EmptyFor(u)
      BY <1>0 DEF Emptied
    <2> QED
      BY <1>1, <1>2, <2>1 DEF EmptyFor
  <1> QED
    BY <1>1, <1>3, <1>4, <1>5

\* A cleared category: a title that had a converted file in it is doomed, and so is its pointer.
LEMMA ClearedOrder ==
  ASSUME TypeInv, HalfInv, Orderly, NEW c \in Calls, Cleared(c)
  PROVE  Orderly'
  <1> USE DEF Orderly
  <1> DEFINE hit == Backing(calls[c].scope)
             doomed == {t \in Titles : \E k \in produced[t] : kind[k] \in hit
                                         \/ (kind[k] = None /\ "converted" \in hit)}
             gone == (UNION {produced[t] : t \in doomed}) \cup {k \in Keys : kind[k] \in hit}
  <1>0. TypeOK /\ UNCHANGED <<rows, supplied, discovered, removed, extracting>>
    BY DEF TypeInv, Cleared, session, inputs, spinner
  <1>1. assets' = assets \ gone /\ mapped' = mapped \ gone /\ kind' = Marked(gone, None)
    BY DEF Cleared, Drop
  <1>2. \A u \in Titles : produced'[u] = IF u \in doomed THEN {} ELSE produced[u]
    BY DEF Cleared
  <1>3. ASSUME NEW u \in Titles, u \notin doomed
        PROVE  produced[u] \cap gone = {}
    <2>1. \A t \in doomed : produced[u] \cap produced[t] = {}
      BY <1>3 DEF HalfInv, Prepared, Outputs
    <2>2. \A k \in produced[u] : kind[k] \notin hit
      BY <1>3
    <2> QED
      BY <2>1, <2>2
  <1>4. \A u \in Titles : index'[u] = IF "converted" \in hit THEN None ELSE index[u]
    BY DEF Cleared, Pruned
  <1>5. ASSUME NEW u \in Titles, NEW f \in Files, <<u, f>> \in produced'[u]
        PROVE  <<u, f>> \in produced[u] /\ u \notin doomed /\ "converted" \notin hit
    <2>1. <<u, f>> \in produced[u] /\ u \notin doomed
      BY <1>2, <1>5
    <2>2. kind[<<u, f>>] = "converted"
      BY <2>1 DEF Converted
    <2> QED
      BY <2>1, <2>2
  <1> HIDE DEF hit, doomed, gone
  <1>6. Relocated'
    BY <1>1 DEF Relocated
  <1>7. Converted'
    <2> SUFFICES ASSUME NEW u \in Titles, NEW f \in Files, <<u, f>> \in produced'[u]
                 PROVE  kind'[<<u, f>>] = "converted"
      BY DEF Converted
    <2>1. <<u, f>> \in produced[u] /\ <<u, f>> \notin gone /\ <<u, f>> \in Keys
      BY <1>3, <1>5 DEF Keys
    <2> QED
      BY <1>1, <2>1 DEF Converted, Marked
  <1>8. Named'
    BY <1>4, <1>5 DEF Named
  <1>9. Owned'
    <2> SUFFICES ASSUME NEW k \in assets', k \notin Games
                 PROVE  \E u \in Titles : k \in produced'[u]
      BY DEF Owned
    <2>1. PICK u \in Titles : k \in produced[u]
      BY <1>1 DEF Owned
    <2>2. u \notin doomed
      BY <1>1, <2>1 DEF doomed, gone
    <2> QED
      BY <1>2, <2>1, <2>2
  <1>10. Gone'
    BY <1>0, <1>1, <1>2, <1>4 DEF Gone, GoneFor
  <1>11. Emptied'
    BY <1>0, <1>1 DEF Emptied, EmptyFor
  <1> QED
    BY <1>6, <1>7, <1>8, <1>9, <1>10, <1>11

LEMMA OrderStep == TypeInv /\ HalfInv /\ FitsInv /\ OrderInv /\ [Next]_vars => OrderInv'
  <1> SUFFICES ASSUME TypeInv, HalfInv, FitsInv, OrderInv, [Next]_vars, ~disturbed'
               PROVE  Orderly'
    BY DEF OrderInv
  <1>0. TypeOK /\ Orderly /\ \A c \in Calls : Fits(calls[c])
    BY WasOrdered DEF OrderInv, FitsInv, TypeInv
  <1>1. CASE Rests
    <2>1. Relocated' /\ Converted' /\ Named' /\ Owned'
      BY <1>0, <1>1 DEF Orderly, Rests, Relocated, Converted, Named, Owned
    <2>2. Gone' /\ Emptied'
      BY <1>0, <1>1 DEF Orderly, Rests, Gone, GoneFor, Emptied, EmptyFor
    <2> QED
      BY <2>1, <2>2 DEF Orderly
  <1>2. CASE Reload
    <2>1. Relocated' /\ Converted' /\ Named' /\ Owned'
      BY <1>2 DEF Reload, Relocated, Converted, Named, Owned
    <2>2. Gone' /\ Emptied'
      BY <1>0, <1>2 DEF Orderly, Reload, disk, Gone, GoneFor, Emptied, EmptyFor
    <2> QED
      BY <2>1, <2>2 DEF Orderly
  <1>3. ASSUME NEW c \in Calls, RunSteps(c)
        PROVE  Orderly'
    BY <1>0, <1>1, <1>3, RunKinds, DeliversOrder
  <1>4. ASSUME NEW c \in Calls,
               Restored(c) \/ CoreFetched(c) \/ ShipFetched(c) \/ Discovered(c) \/ Cleared(c)
        PROVE  Orderly'
    BY <1>0, <1>4, RestoredOrder, CoreOrder, ShipOrder, DiscoveredOrder, ClearedOrder
  <1>5. ASSUME NEW t \in Titles, Takes(t) \/ RemoveSource(t) \/ \E f \in Files : TakesOne(t, f)
        PROVE  Orderly'
    BY <1>0, <1>5, TakesOrder, RemoveOrder, TakesOneOrder
  <1> QED
    BY <1>1, <1>2, <1>3, <1>4, <1>5, OtherKinds

\* All that is claimed of an undisturbed session, with the calls in flight that keep it so.
SessionInv == AloneInv /\ HalfInv /\ FitsInv /\ OrderInv

LEMMA SessionInit == Init => SessionInv
  <1> SUFFICES ASSUME Init PROVE SessionInv
    OBVIOUS
  <1>1. Alone /\ \A c \in Calls : Fits(calls[c])
    BY DEF Init, Idle, Alone, Sweeps, Fits, RunStages
  <1>2. HalfInv /\ Orderly
    BY DEF Init, HalfInv, Prepared, Orderly, Relocated, Converted, Named, Owned, Gone, Emptied
  <1> QED
    BY <1>1, <1>2 DEF SessionInv, AloneInv, FitsInv, OrderInv

LEMMA SessionStep == TypeInv /\ SessionInv /\ [Next]_vars => SessionInv'
  BY AloneStep, HalfStep, FitsStep, OrderStep DEF SessionInv

\* Every artifact an install would write has its relocation facts, whichever of a run, a restore
\* or a core download put it there (restore, prepareState.svelte.ts:974).
THEOREM ArtifactsRelocate == Spec => []Relocatable
  <1>1. SessionInv => Relocatable
    BY DEF SessionInv, OrderInv, Orderly, Relocated, Relocatable, Ordered
  <1> QED
    BY TypeInit, TypeStep, SessionInit, SessionStep, <1>1, PTL DEF Spec

\* Of a removed source nothing is left in memory or in the pointers, and nothing in flight brings
\* it back, as long as none was in flight when it was removed
\* (forgetSource, prepareState.svelte.ts:755).
THEOREM GoneForGood == Spec => []NothingOfAGoneSource
  <1>1. SessionInv => NothingOfAGoneSource
    BY DEF SessionInv, OrderInv, Orderly, Gone, GoneFor, NothingOfAGoneSource, Ordered
  <1> QED
    BY TypeInit, TypeStep, SessionInit, SessionStep, <1>1, PTL DEF Spec

\* No bytes an install carries are accounted for by no title, though a restore replaces what a
\* title had (run, prepareState.svelte.ts:1228).
THEOREM EverythingAccounted == Spec => []Accounted
  <1>1. SessionInv => Accounted
    BY DEF SessionInv, OrderInv, Orderly, Owned, Accounted, Ordered
  <1> QED
    BY TypeInit, TypeStep, SessionInit, SessionStep, <1>1, PTL DEF Spec

\* An input the user emptied stays empty through scans, restores and reloads, and so do the
\* outputs made from it (unsupply, prepareState.svelte.ts:618).
THEOREM RemovalsHold == Spec => []RemovalHolds
  <1>1. SessionInv => RemovalHolds
    BY DEF SessionInv, OrderInv, Orderly, Emptied, EmptyFor, RemovalHolds, Ordered
  <1> QED
    BY TypeInit, TypeStep, SessionInit, SessionStep, <1>1, PTL DEF Spec

\* Whatever is prepared, file by file, is named by the pointer that a reload starts from, through
\* partial offers, hits, restores and cleared categories (convertCached, convertedCache.ts:319).
THEOREM ReloadsSurvived == Spec => []SurvivesReload
  <1>1. SessionInv => SurvivesReload
    BY DEF SessionInv, OrderInv, Orderly, Named, SurvivesReload, Ordered
  <1> QED
    BY TypeInit, TypeStep, SessionInit, SessionStep, <1>1, PTL DEF Spec

=============================================================================
