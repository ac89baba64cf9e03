------------------------ MODULE KeyedBlobStoreProofs ------------------------
(***************************************************************************)
(* What TLAPS proves of KeyedBlobStore, for any keys, contents, calls and   *)
(* faults: its type invariant, that a store whose pointers stick serves     *)
(* every key at every instant of a drain and that its calls carry no stale  *)
(* value, and that no blob is left behind while nothing fails.  Good says   *)
(* what a call knows of its key; the last part adds, for every blob, who    *)
(* leads to it.                                                             *)
(***************************************************************************)
EXTENDS KeyedBlobStore, TLAPS

\* What a call may look like at each of its stages.
Shaped(r) ==
  /\ r.op = "idle" <=> r.at = "idle"
  /\ r.at \in {"idle", "next"} => r.key = None
  /\ r.at \notin {"idle", "next"} => r.key \in Keys
  /\ r.at = "next" => r.op = "drain"
  /\ r.op = "get" => r.at \in {"cache", "legacy", "write", "verify", "point", "unlink"}
  /\ r.op = "drain" => r.at \in {"next", "legacy", "write", "verify", "point", "unlink"}
  /\ r.op = "put" => r.at \in {"write", "point", "drop", "unlink", "fallback"}
  /\ r.op = "delete" => r.at \in {"drop", "forget", "unlink"}
  /\ r.at \in {"cache", "write", "verify", "point", "drop", "fallback"} => r.bytes \in Contents
  /\ r.op = "drain" /\ r.at # "next" => r.moved < BUDGET

TypeInv == TypeOK /\ \A w \in Workers : Shaped(call[w])

\* A step changes one call, or none.
Becomes(w, r) == call' = [call EXCEPT ![w] = r]

LEMMA CallChanges ==
  ASSUME TypeInv, NEW w \in Workers, NEW r \in CallType, Shaped(r), Becomes(w, r)
  PROVE  /\ call' \in [Workers -> CallType]
         /\ \A v \in Workers : Shaped(call'[v])
  BY DEF TypeInv, TypeOK, Becomes

LEMMA IdleShaped == Idle \in CallType /\ Shaped(Idle)
  BY StoreAssumption DEF Idle, CallType, Stages, Shaped

LEMMA TypeInit == Init => TypeInv
  <1> SUFFICES ASSUME Init PROVE TypeInv
    OBVIOUS
  <1>1. call \in [Workers -> CallType] /\ \A w \in Workers : Shaped(call[w])
    BY IdleShaped DEF Init
  <1>2. /\ index \in [Keys -> Contents \cup {None}]
        /\ latest \in [Keys -> Contents \cup {None}]
        /\ legacy \in [Keys -> Contents \cup {None}]
    BY DEF Init
  <1>3. /\ cache \subseteq Contents /\ drained \in BOOLEAN
        /\ excused \subseteq Keys /\ stranded \subseteq Keys
    BY DEF Init
  <1>4. faults \in 0 .. MAX_FAULTS
    BY StoreAssumption DEF Init
  <1>5. TypeOK
    BY <1>1, <1>2, <1>3, <1>4 DEF TypeOK
  <1> QED BY <1>1, <1>5 DEF TypeInv

\* The helpers that end or move a call keep its shape.
LEMMA ReturnShaped ==
  ASSUME TypeInv, NEW w \in Workers, NEW stuck \in BOOLEAN, Return(w, stuck),
         call[w].at \notin {"idle", "next"}
  PROVE  \E r \in CallType : Shaped(r) /\ Becomes(w, r) /\ r.key = None
  <1>1. call[w] \in CallType /\ Shaped(call[w])
    BY DEF TypeInv, TypeOK
  <1>2. CASE call[w].op = "drain"
    <2> DEFINE r == [call[w] EXCEPT !.at = "next", !.key = None, !.bytes = None,
                       !.moved = IF stuck THEN call[w].moved + 1 ELSE call[w].moved,
                       !.failed = call[w].failed \/ ~stuck]
    <2>1. call[w].moved \in 0 .. BUDGET /\ call[w].moved < BUDGET
      BY <1>1, <1>2 DEF CallType, Shaped
    <2>2. (IF stuck THEN call[w].moved + 1 ELSE call[w].moved) \in 0 .. BUDGET
      BY <2>1, StoreAssumption
    <2>3. r \in CallType
      BY <1>1, <2>2 DEF CallType, Stages
    <2>4. r.op = "drain" /\ r.at = "next" /\ r.key = None
      BY <1>1, <1>2 DEF CallType
    <2>5. Shaped(r)
      BY <2>4 DEF Shaped
    <2>6. Becomes(w, r)
      BY <1>2 DEF Return, Becomes
    <2> QED BY <2>3, <2>4, <2>5, <2>6
  <1>3. CASE call[w].op # "drain"
    <2>1. Becomes(w, Idle)
      BY <1>3 DEF Return, Becomes
    <2> QED BY <2>1, IdleShaped DEF Idle
  <1> QED BY <1>2, <1>3

LEMMA GotoShaped ==
  ASSUME TypeInv, NEW w \in Workers, NEW stage \in Stages, Goto(w, stage)
  PROVE  /\ Becomes(w, [call[w] EXCEPT !.at = stage])
         /\ [call[w] EXCEPT !.at = stage] \in CallType
  BY DEF TypeInv, TypeOK, Goto, Becomes, CallType

LEMMA CarryShaped ==
  ASSUME TypeInv, NEW w \in Workers, NEW stage \in Stages, NEW c \in Contents \cup {None},
         Carry(w, stage, c)
  PROVE  /\ Becomes(w, [call[w] EXCEPT !.at = stage, !.bytes = c])
         /\ [call[w] EXCEPT !.at = stage, !.bytes = c] \in CallType
  BY DEF TypeInv, TypeOK, Carry, Becomes, CallType

\* A fault is counted up to its bound.
LEMMA FaultCounted ==
  ASSUME TypeInv, NEW f, Fault(f) \/ Sound
  PROVE  faults' \in 0 .. MAX_FAULTS
  BY StoreAssumption DEF TypeInv, TypeOK, Fault, Sound

LEMMA RemoveTyped ==
  ASSUME TypeInv, NEW c, NEW spared, Remove(c, spared)
  PROVE  cache' \subseteq cache /\ cache \subseteq Contents /\ excused' \subseteq Keys
  BY DEF TypeInv, TypeOK, Remove, Losers

LEMMA OverlapTyped ==
  ASSUME TypeInv, NEW k \in Keys, NEW writes, Overlap(k, writes)
  PROVE  excused' \subseteq Keys
  BY DEF TypeInv, TypeOK, Overlap

\* What a worker's step does to its call.
Moves(w) == \E r \in CallType : Shaped(r) /\ Becomes(w, r)

LEMMA MovesTyped ==
  ASSUME TypeInv, NEW w \in Workers, Moves(w)
  PROVE  call' \in [Workers -> CallType] /\ \A v \in Workers : Shaped(call'[v])
  BY CallChanges DEF Moves

LEMMA Stored ==
  ASSUME TypeInv, NEW w \in Workers
  PROVE  call[w] \in CallType /\ Shaped(call[w])
  BY DEF TypeInv, TypeOK

LEMMA StartTyped ==
  ASSUME TypeInv, NEW w \in Callers, NEW k \in Keys, NEW op, NEW stage, NEW c,
         Start(w, op, k, stage, c), c \in Contents \cup {None},
         \/ op = "get" /\ stage = "legacy"
         \/ op = "get" /\ stage = "cache" /\ c \in Contents
         \/ op = "put" /\ stage = "write" /\ c \in Contents
         \/ op = "delete" /\ stage = "unlink"
         \/ op = "delete" /\ stage = "drop" /\ c \in Contents
  PROVE  Moves(w) /\ excused' \subseteq Keys
  <1> DEFINE r == [Idle EXCEPT !.op = op, !.at = stage, !.key = k, !.bytes = c]
  <1>1. op \in Calls /\ Becomes(w, r)
    BY DEF Start, Becomes
  <1>2. r \in CallType
    BY <1>1, IdleShaped DEF CallType, Stages
  <1>3. r.op = op /\ r.at = stage /\ r.key = k /\ r.bytes = c
    BY IdleShaped DEF CallType
  <1>4. Shaped(r)
    BY <1>3 DEF Shaped
  <1>5. excused' \subseteq Keys
    BY OverlapTyped DEF Start
  <1> HIDE DEF r
  <1> QED BY <1>1, <1>2, <1>4, <1>5 DEF Moves

LEMMA StepMoves ==
  ASSUME TypeInv, NEW w \in Workers, Step(w)
  PROVE  Moves(w)
  <1>0. call[w] \in CallType /\ Shaped(call[w])
    BY Stored
  <1>1. CASE ReadCache(w)
    <2>1. CASE Return(w, TRUE)
      BY <1>1, <2>1, ReturnShaped DEF ReadCache, At, Moves
    <2>2. CASE Carry(w, "legacy", None)
      <3> DEFINE r == [call[w] EXCEPT !.at = "legacy", !.bytes = None]
      <3>1. r \in CallType /\ Becomes(w, r)
        BY <2>2, CarryShaped DEF Stages
      <3>2. Shaped(r)
        BY <1>0, <1>1 DEF ReadCache, At, Shaped, CallType
      <3> QED BY <3>1, <3>2 DEF Moves
    <2> QED BY <1>1, <2>1, <2>2 DEF ReadCache
  <1>2. CASE ReadLegacy(w)
    <2> DEFINE old == legacy[call[w].key]
    <2>1. call[w].key \in Keys /\ call[w].at = "legacy"
      BY <1>0, <1>2 DEF ReadLegacy, At, Shaped
    <2>2. CASE old # None /\ Carry(w, "write", old)
      <3> DEFINE r == [call[w] EXCEPT !.at = "write", !.bytes = old]
      <3>0. old \in Contents
        BY <2>1, <2>2 DEF TypeInv, TypeOK
      <3>1. r \in CallType /\ Becomes(w, r)
        BY <2>2, <3>0, CarryShaped DEF Stages
      <3>2. Shaped(r)
        BY <1>0, <2>1, <3>0 DEF Shaped, CallType
      <3> QED BY <3>1, <3>2 DEF Moves
    <2>3. CASE call[w].op = "drain" /\ Becomes(w, [call[w] EXCEPT !.at = "next", !.key = None])
      <3> DEFINE r == [call[w] EXCEPT !.at = "next", !.key = None]
      <3>1. r \in CallType
        BY <1>0 DEF CallType, Stages
      <3>2. Shaped(r)
        BY <1>0, <2>3 DEF Shaped, CallType
      <3> QED BY <2>3, <3>1, <3>2 DEF Moves
    <2>4. CASE Becomes(w, Idle)
      BY <2>4, IdleShaped DEF Moves
    <2> QED BY <1>2, <2>2, <2>3, <2>4 DEF ReadLegacy, Becomes
  <1>3. CASE Write(w)
    <2> DEFINE stage == IF call[w].op = "put" THEN "point" ELSE "verify"
               r == [call[w] EXCEPT !.at = stage]
    <2>1. r \in CallType /\ Becomes(w, r)
      BY <1>3, GotoShaped DEF Write, Stages
    <2>2. Shaped(r)
      BY <1>0, <1>3 DEF Write, At, Shaped, CallType
    <2> QED BY <2>1, <2>2 DEF Moves
  <1>4. CASE Refuse(w)
    <2>1. CASE Return(w, FALSE)
      BY <1>4, <2>1, ReturnShaped DEF Refuse, At, Moves
    <2>2. CASE call[w].op = "put" /\ Goto(w, "fallback")
      <3> DEFINE r == [call[w] EXCEPT !.at = "fallback"]
      <3>1. r \in CallType /\ Becomes(w, r)
        BY <2>2, GotoShaped DEF Stages
      <3>2. Shaped(r)
        BY <1>0, <1>4, <2>2 DEF Refuse, At, Shaped, CallType
      <3> QED BY <3>1, <3>2 DEF Moves
    <2> QED BY <1>4, <2>1, <2>2 DEF Refuse
  <1>5. CASE Verify(w)
    <2>1. CASE Return(w, FALSE)
      BY <1>5, <2>1, ReturnShaped DEF Verify, At, Moves
    <2>2. CASE Goto(w, "point")
      <3> DEFINE r == [call[w] EXCEPT !.at = "point"]
      <3>1. r \in CallType /\ Becomes(w, r)
        BY <2>2, GotoShaped DEF Stages
      <3>2. Shaped(r)
        BY <1>0, <1>5, <2>2 DEF Verify, At, Shaped, CallType
      <3> QED BY <3>1, <3>2 DEF Moves
    <2> QED BY <1>5, <2>1, <2>2 DEF Verify
  <1>6. CASE Point(w) \/ Drop(w) \/ Forget(w)
    <2>1. PICK stage \in {"unlink", "forget"} :
            Goto(w, stage) /\ (stage = "forget" => call[w].op # "put" /\ At(w, "drop"))
      BY <1>6 DEF Point, Drop, Forget
    <2> DEFINE r == [call[w] EXCEPT !.at = stage]
    <2>2. r \in CallType /\ Becomes(w, r)
      BY <2>1, GotoShaped DEF Stages
    <2>3. r.op = call[w].op /\ r.at = stage /\ r.key = call[w].key /\ r.moved = call[w].moved
      BY <1>0 DEF CallType
    <2>4. call[w].at \in {"point", "drop", "forget"}
      BY <1>6 DEF Point, Drop, Forget, At
    <2>5. Shaped(r)
      <3> HIDE DEF r
      <3> QED BY <1>0, <2>1, <2>3, <2>4 DEF At, Shaped
    <2> QED BY <2>2, <2>5 DEF Moves
  <1>7. CASE PutPoint(w)
    <2> DEFINE prev == index[call[w].key]
    <2>0. call[w].key \in Keys
      BY <1>0, <1>7 DEF PutPoint, At, Shaped
    <2>1. CASE Goto(w, "unlink")
      <3> DEFINE r == [call[w] EXCEPT !.at = "unlink"]
      <3>1. r \in CallType /\ Becomes(w, r)
        BY <2>1, GotoShaped DEF Stages
      <3>2. Shaped(r)
        BY <1>0, <1>7 DEF PutPoint, At, Shaped, CallType
      <3> QED BY <3>1, <3>2 DEF Moves
    <2>2. CASE prev # None /\ Carry(w, "drop", prev)
      <3> DEFINE r == [call[w] EXCEPT !.at = "drop", !.bytes = prev]
      <3>0. prev \in Contents
        BY <2>0, <2>2 DEF TypeInv, TypeOK
      <3>1. r \in CallType /\ Becomes(w, r)
        BY <2>2, <3>0, CarryShaped DEF Stages
      <3>2. Shaped(r)
        BY <1>0, <1>7, <3>0 DEF PutPoint, At, Shaped, CallType
      <3> QED BY <3>1, <3>2 DEF Moves
    <2> QED BY <1>7, <2>1, <2>2 DEF PutPoint
  <1>8. CASE Unlink(w)
    BY <1>8, ReturnShaped DEF Unlink, At, Moves
  <1>9. CASE Fallback(w) \/ EndVisit(w)
    BY <1>9, IdleShaped DEF Fallback, EndVisit, Moves, Becomes
  <1>10. CASE NextEntry(w)
    <2>1. PICK k \in call[w].todo :
            call' = [call EXCEPT ![w].at = "legacy", ![w].key = k, ![w].todo = @ \ {k}]
      BY <1>10 DEF NextEntry
    <2> DEFINE r == [call[w] EXCEPT !.at = "legacy", !.key = k, !.todo = call[w].todo \ {k}]
    <2>2. k \in Keys /\ call[w].todo \subseteq Keys
      BY <1>0, <2>1 DEF CallType
    <2>3. r \in CallType
      BY <1>0, <2>2 DEF CallType, Stages
    <2>4. Shaped(r)
      BY <1>0, <1>10, <2>2 DEF NextEntry, At, Shaped, CallType
    <2>5. Becomes(w, r)
      BY <1>0, <2>1 DEF Becomes, CallType, TypeInv, TypeOK
    <2> QED BY <2>3, <2>4, <2>5 DEF Moves
  <1> QED
    BY <1>1, <1>2, <1>3, <1>4, <1>5, <1>6, <1>7, <1>8, <1>9, <1>10 DEF Step

LEMMA StepTyped ==
  ASSUME TypeInv, NEW w \in Workers, Step(w)
  PROVE  TypeInv'
  <1>1. call' \in [Workers -> CallType] /\ \A v \in Workers : Shaped(call'[v])
    BY StepMoves, MovesTyped
  <1>2. call[w] \in CallType /\ Shaped(call[w])
    BY Stored
  <1>3. /\ index' \in [Keys -> Contents \cup {None}]
        /\ cache' \subseteq Contents
        /\ legacy' \in [Keys -> Contents \cup {None}]
        /\ drained' \in BOOLEAN
        /\ faults' \in 0 .. MAX_FAULTS
        /\ latest' \in [Keys -> Contents \cup {None}]
        /\ excused' \subseteq Keys
        /\ stranded' \subseteq Keys
    <2> USE DEF stores
    <2>1. CASE ReadCache(w) \/ ReadLegacy(w) \/ Verify(w)
      <3>1. faults' \in 0 .. MAX_FAULTS
        BY <2>1, FaultCounted DEF ReadCache, ReadLegacy, Verify, Sound
      <3> QED BY <2>1, <3>1 DEF ReadCache, ReadLegacy, Verify, TypeInv, TypeOK
    <2>2. CASE Write(w)
      <3>1. faults' \in 0 .. MAX_FAULTS
        BY <2>2, FaultCounted DEF Write
      <3>2. call[w].bytes \in Contents
        BY <1>2, <2>2 DEF Write, At, Shaped
      <3> QED BY <2>2, <3>1, <3>2 DEF Write, TypeInv, TypeOK
    <2>3. CASE Refuse(w)
      <3>1. faults' \in 0 .. MAX_FAULTS
        BY <2>3, FaultCounted DEF Refuse
      <3>2. Remove(call[w].bytes, {})
        BY <2>3 DEF Refuse
      <3>3. cache' \subseteq Contents /\ excused' \subseteq Keys
        BY <3>2, RemoveTyped
      <3> QED BY <2>3, <3>1, <3>3 DEF Refuse, TypeInv, TypeOK
    <2>4. CASE Point(w)
      <3>1. faults' \in 0 .. MAX_FAULTS
        BY <2>4, FaultCounted DEF Point, SetPointer
      <3> QED BY <1>2, <2>4, <3>1 DEF Point, SetPointer, TypeInv, TypeOK, CallType
    <2>5. CASE PutPoint(w)
      <3>1. faults' \in 0 .. MAX_FAULTS
        BY <2>5, FaultCounted DEF PutPoint, SetPointer
      <3>2. call[w].bytes \in Contents /\ call[w].key \in Keys
        BY <1>2, <2>5 DEF PutPoint, At, Shaped
      <3> QED BY <2>5, <3>1, <3>2 DEF PutPoint, SetPointer, TypeInv, TypeOK
    <2>6. CASE Drop(w)
      <3>1. cache' \subseteq Contents /\ excused' \subseteq Keys
        BY <2>6, RemoveTyped DEF Drop
      <3> QED BY <2>6, <3>1 DEF Drop, TypeInv, TypeOK
    <2>7. CASE Forget(w)
      BY <2>7 DEF Forget, TypeInv, TypeOK
    <2>8. CASE Unlink(w)
      <3>1. faults' \in 0 .. MAX_FAULTS
        BY <2>8, FaultCounted DEF Unlink
      <3>2. call[w].key \in Keys
        BY <1>2, <2>8 DEF Unlink, At, Shaped
      <3> QED BY <2>8, <3>1, <3>2 DEF Unlink, TypeInv, TypeOK
    <2>9. CASE Fallback(w)
      <3>1. faults' \in 0 .. MAX_FAULTS
        BY <2>9, FaultCounted DEF Fallback
      <3>2. call[w].bytes \in Contents /\ call[w].key \in Keys
        BY <1>2, <2>9 DEF Fallback, At, Shaped
      <3> QED BY <2>9, <3>1, <3>2 DEF Fallback, TypeInv, TypeOK
    <2>10. CASE NextEntry(w)
      <3>1. PICK k \in call[w].todo : Overlap(k, FALSE)
        BY <2>10 DEF NextEntry
      <3>2. k \in Keys
        BY <1>2, <3>1 DEF CallType
      <3>3. excused' \subseteq Keys
        BY <3>1, <3>2, OverlapTyped
      <3> QED BY <2>10, <3>3 DEF NextEntry, TypeInv, TypeOK
    <2>11. CASE EndVisit(w)
      <3>1. faults' \in 0 .. MAX_FAULTS
        BY <2>11, FaultCounted DEF EndVisit, Listed
      <3> QED BY <2>11, <3>1 DEF EndVisit, Held, TypeInv, TypeOK
    <2> QED BY <2>1, <2>2, <2>3, <2>4, <2>5, <2>6, <2>7, <2>8, <2>9, <2>10, <2>11 DEF Step
  <1> QED BY <1>1, <1>3 DEF TypeInv, TypeOK

LEMMA StartsTyped ==
  ASSUME TypeInv, NEW w \in Callers, NEW k \in Keys,
         Get(w, k) \/ Delete(w, k) \/ \E c \in Puts : Put(w, k, c)
  PROVE  TypeInv'
  <1>0. w \in Workers /\ index[k] \in Contents \cup {None}
    BY DEF Workers, TypeInv, TypeOK
  <1>1. Moves(w) /\ excused' \subseteq Keys
    <2>1. CASE Get(w, k)
      BY <1>0, <2>1, StartTyped DEF Get
    <2>2. CASE Delete(w, k)
      BY <1>0, <2>2, StartTyped DEF Delete
    <2>3. CASE \E c \in Puts : Put(w, k, c)
      BY <1>0, <2>3, StartTyped, StoreAssumption DEF Put
    <2> QED BY <2>1, <2>2, <2>3
  <1>2. call' \in [Workers -> CallType] /\ \A v \in Workers : Shaped(call'[v])
    BY <1>0, <1>1, MovesTyped
  <1>3. UNCHANGED <<index, cache, legacy, drained, faults, stranded>>
    BY DEF Get, Put, Delete, stores
  <1>4. latest' \in [Keys -> Contents \cup {None}]
    BY DEF Get, Put, Delete, TypeInv, TypeOK
  <1> QED BY <1>1, <1>2, <1>3, <1>4 DEF TypeInv, TypeOK

LEMMA VisitTyped ==
  ASSUME TypeInv, NEW w \in Drains, Visit(w)
  PROVE  TypeInv'
  <1>0. PICK keys \in SUBSET Keys :
          /\ Listed(keys)
          /\ Becomes(w, [Idle EXCEPT !.op = "drain", !.at = "next", !.todo = keys])
    BY DEF Visit, Becomes
  <1> DEFINE r == [Idle EXCEPT !.op = "drain", !.at = "next", !.todo = keys]
  <1>1. r \in CallType /\ Becomes(w, r)
    BY <1>0, IdleShaped DEF CallType, Stages
  <1>2. Shaped(r)
    BY DEF Idle, Shaped
  <1>3. call' \in [Workers -> CallType] /\ \A v \in Workers : Shaped(call'[v])
    BY <1>1, <1>2, CallChanges DEF Workers
  <1>4. faults' \in 0 .. MAX_FAULTS
    BY <1>0, FaultCounted DEF Listed
  <1> QED BY <1>3, <1>4 DEF Visit, stores, TypeInv, TypeOK

LEMMA BrowserTyped ==
  ASSUME TypeInv, Evict \/ \E w \in Workers : Cut(w)
  PROVE  TypeInv'
  <1>1. CASE Evict
    <2>1. faults' \in 0 .. MAX_FAULTS
      BY <1>1, FaultCounted DEF Evict
    <2>2. cache' \subseteq Contents /\ excused' \subseteq Keys
      BY <1>1, RemoveTyped DEF Evict
    <2> QED BY <1>1, <2>1, <2>2 DEF Evict, TypeInv, TypeOK
  <1>2. ASSUME NEW w \in Workers, Cut(w) PROVE TypeInv'
    <2>1. faults' \in 0 .. MAX_FAULTS
      BY <1>2, FaultCounted DEF Cut
    <2>2. call' \in [Workers -> CallType] /\ \A v \in Workers : Shaped(call'[v])
      BY <1>2, IdleShaped, CallChanges DEF Cut, Becomes
    <2>3. excused' \subseteq Keys
      <3>1. w \in Writers(call[w].key) => call[w].key \in Keys
        BY <1>2, Stored DEF Cut, At, Writers, On, Shaped
      <3> QED BY <1>2, <3>1 DEF Cut, TypeInv, TypeOK
    <2> QED BY <1>2, <2>1, <2>2, <2>3 DEF Cut, stores, TypeInv, TypeOK
  <1> QED BY <1>1, <1>2

LEMMA NextTyped ==
  ASSUME TypeInv, [Next]_vars
  PROVE  TypeInv'
  <1>1. CASE UNCHANGED vars
    BY <1>1 DEF vars, stores, TypeInv, TypeOK
  <1>2. CASE Next
    BY <1>2, StartsTyped, VisitTyped, StepTyped, BrowserTyped DEF Next
  <1> QED BY <1>1, <1>2

\* Every variable keeps its range, and a pass never moves more than its budget (migrate()).
THEOREM TypeCorrect == Spec => []TypeOK
  <1>1. TypeInv => TypeOK
    BY DEF TypeInv
  <1> QED BY TypeInit, NextTyped, <1>1, PTL DEF Spec

-----------------------------------------------------------------------------
(* Serves: what a call knows of its key, and what it may change             *)

Writes(r) == r.op \in {"put", "delete"}
Promotes(r) == r.op \in {"get", "drain"} /\ r.at \in {"write", "verify", "point", "unlink"}

\* A write that has touched neither pointer nor old store yet.
Fresh(r) ==
  \/ r.op = "put" /\ r.at \in {"write", "point", "fallback"}
  \/ r.op = "delete" /\ r.at = "drop"

\* The value is behind the pointer or in the old store, and no other value is.
Settled(k) ==
  /\ index[k] \in {None, latest[k]} /\ legacy[k] \in {None, latest[k]}
  /\ index[k] # None => index[k] \in cache
  /\ latest[k] # None => latest[k] \in {index[k], legacy[k]}

\* What a call has established so far of its key's pointer p and value v, and of the blobs held.
Agrees(r, p, v, held) ==
  /\ r.op = "put" /\ r.at \in {"drop", "unlink"} => p = v /\ p \in held
  /\ r.op = "put" /\ r.at = "drop" => r.bytes # p
  /\ r.op = "delete" /\ r.at = "unlink" => p = None /\ v = None
  /\ Promotes(r) \/ (r.op = "get" /\ r.at = "cache") => r.bytes = v
  /\ Promotes(r) /\ r.at \in {"point", "unlink"} => r.bytes \in held
  /\ Promotes(r) /\ r.at = "unlink" => p = r.bytes

\* A writer of k is alone on k.
Alone(k) ==
  \A v, u \in Workers :
    call[v].key = k /\ call[u].key = k /\ Writes(call[v]) => u = v

Good(k) ==
  /\ Alone(k)
  /\ \A v \in Workers : call[v].key = k => Agrees(call[v], index[k], latest[k], cache)
  /\ (\A v \in Workers : call[v].key = k /\ Writes(call[v]) => Fresh(call[v])) => Settled(k)

ServeInv == TypeInv /\ \A k \in Keys \ excused : Good(k)

\* The invariant is what the property says between writes.
LEMMA ServeInvServes == ServeInv => Serves
  <1> SUFFICES ASSUME ServeInv, NEW k \in Keys \ excused, Writers(k) = {}
               PROVE  Served(k) = latest[k]
    BY DEF Serves
  <1>1. Settled(k)
    <2>1. \A v \in Workers : ~(call[v].key = k /\ Writes(call[v]))
      BY DEF Writers, On, Writes
    <2> QED BY <2>1 DEF ServeInv, Good
  <1>2. None \notin cache
    BY StoreAssumption DEF ServeInv, TypeInv, TypeOK
  <1> QED BY <1>1, <1>2 DEF Settled, Served

\* Past its read, a get or a pass carries what Agrees says.
LEMMA ServeInvCurrent == ServeInv => NothingStale
  <1> SUFFICES ASSUME ServeInv, NEW w \in Workers, call[w].op \in {"get", "drain"},
                      call[w].at \notin {"next", "legacy"}, call[w].key \notin excused
               PROVE  call[w].bytes = latest[call[w].key]
    BY DEF NothingStale
  <1>1. Shaped(call[w])
    BY Stored DEF ServeInv
  <1>2. call[w].key \in Keys \ excused
    BY <1>1 DEF Shaped
  <1>3. Agrees(call[w], index[call[w].key], latest[call[w].key], cache)
    BY <1>2 DEF ServeInv, Good
  <1> QED BY <1>1, <1>3 DEF Agrees, Promotes, Shaped

LEMMA ServeInit == Init => ServeInv
  <1> SUFFICES ASSUME Init, NEW k \in Keys PROVE Good(k)
    BY TypeInit DEF ServeInv
  <1>1. \A v \in Workers : call[v].key # k
    BY StoreAssumption DEF Init, Idle
  <1>2. Settled(k)
    BY DEF Init, Settled
  <1> QED BY <1>1, <1>2 DEF Good, Alone

\* The three values of a key stay as they are.
Same(k) == index'[k] = index[k] /\ legacy'[k] = legacy[k] /\ latest'[k] = latest[k]

\* No call that relies on a blob for k, nor k's pointer, loses it.
Kept(k) ==
  /\ index[k] \in cache => index[k] \in cache'
  /\ \A v \in Workers :
       call[v].key = k /\ Promotes(call[v]) /\ call[v].at \in {"point", "unlink"}
         /\ call[v].bytes \in cache => call[v].bytes \in cache'

LEMMA RemoveKeeps ==
  ASSUME TypeInv, NEW c, NEW spared, Remove(c, spared), NEW k \in Keys \ spared, k \notin excused'
  PROVE  Kept(k)
  BY DEF Remove, Losers, Trusts, On, Kept, Promotes

LEMMA CacheKeeps ==
  ASSUME cache \subseteq cache', NEW k
  PROVE  Kept(k)
  BY DEF Kept

\* A step of w on a key whose values it leaves alone: another key, a read, a write that has not
\* come to them, the start of a call.
LEMMA GoodStays ==
  ASSUME TypeInv, NEW k \in Keys, Good(k), Same(k), Kept(k),
         NEW w \in Workers, NEW r, Becomes(w, r),
         r.key = k =>
           /\ Agrees(r, index'[k], latest'[k], cache')
           /\ \/ call[w].key = k /\ r.op = call[w].op
              \/ \A u \in Workers \ {w} : call[u].key = k => ~Writes(r) /\ ~Writes(call[u]),
         call[w].key = k /\ Writes(call[w]) /\ ~Fresh(call[w]) => r.key = k /\ Writes(r) /\ ~Fresh(r)
  PROVE  Good(k)'
  <1>1. call'[w] = r /\ \A v \in Workers \ {w} : call'[v] = call[v]
    BY DEF Becomes, TypeInv, TypeOK
  <1>2. Alone(k)'
    BY <1>1 DEF Good, Alone, Writes
  <1>3. ASSUME NEW v \in Workers, call'[v].key = k 
        PROVE  Agrees(call'[v], index'[k], latest'[k], cache')
    <2>1. CASE v = w
      BY <1>1, <1>3, <2>1
    <2>2. CASE v # w
      <3>1. Agrees(call[v], index[k], latest[k], cache) /\ call[v].key = k /\ call'[v] = call[v]
        BY <1>1, <1>3, <2>2 DEF Good
      <3> QED BY <3>1 DEF Agrees, Same, Kept
    <2> QED BY <2>1, <2>2
  <1>4. ASSUME \A v \in Workers : call'[v].key = k /\ Writes(call'[v]) => Fresh(call'[v])
        PROVE  Settled(k)'
    <2>1. \A v \in Workers : call[v].key = k /\ Writes(call[v]) => Fresh(call[v])
      BY <1>1, <1>4
    <2> QED BY <2>1 DEF Good, Settled, Same, Kept
  <1> QED BY <1>2, <1>3, <1>4 DEF Good

\* A step of the only call on k.
LEMMA GoodAlone ==
  ASSUME TypeInv, NEW k \in Keys, Good(k),
         NEW w \in Workers, NEW r, Becomes(w, r), \A u \in Workers \ {w} : call[u].key # k,
         r.key = k => Agrees(r, index'[k], latest'[k], cache'),
         (r.key = k /\ Writes(r) => Fresh(r)) => Settled(k)'
  PROVE  Good(k)'
  <1>1. call'[w] = r /\ \A v \in Workers \ {w} : call'[v] = call[v]
    BY DEF Becomes, TypeInv, TypeOK
  <1>2. Alone(k)'
    BY <1>1 DEF Alone
  <1>3. \A v \in Workers : call'[v].key = k => v = w
    BY <1>1
  <1> QED BY <1>1, <1>2, <1>3 DEF Good

-----------------------------------------------------------------------------
(* Serves: every step keeps it                                              *)

LEMMA Kinds ==
  ASSUME TypeInv, NEW w \in Workers
  PROVE  call[w].op \in {"idle", "drain", "get", "put", "delete"}
  BY Stored, StoreAssumption DEF CallType

LEMMA GotoFacts ==
  ASSUME TypeInv, NEW w \in Workers, NEW stage \in Stages, Goto(w, stage)
  PROVE  \E r : /\ Becomes(w, r)
                /\ r.op = call[w].op /\ r.at = stage
                /\ r.key = call[w].key /\ r.bytes = call[w].bytes
  <1>1. Becomes(w, [call[w] EXCEPT !.at = stage]) /\ call[w] \in CallType
    BY GotoShaped, Stored
  <1> QED BY <1>1 DEF CallType

LEMMA CarryFacts ==
  ASSUME TypeInv, NEW w \in Workers, NEW stage \in Stages, NEW c \in Contents \cup {None},
         Carry(w, stage, c)
  PROVE  \E r : /\ Becomes(w, r)
                /\ r.op = call[w].op /\ r.at = stage /\ r.key = call[w].key /\ r.bytes = c
  <1> DEFINE r == [call[w] EXCEPT !.at = stage, !.bytes = c]
  <1>1. Becomes(w, r) /\ call[w] \in CallType
    BY CarryShaped, Stored
  <1>2. r.op = call[w].op /\ r.at = stage /\ r.key = call[w].key /\ r.bytes = c
    BY <1>1 DEF CallType
  <1> HIDE DEF r
  <1> QED BY <1>1, <1>2

LEMMA StartFacts ==
  ASSUME NEW w \in Workers, NEW op, NEW k, NEW stage, NEW c, Start(w, op, k, stage, c)
  PROVE  \E r : /\ Becomes(w, r) /\ r.op = op /\ r.at = stage /\ r.key = k /\ r.bytes = c
  <1> DEFINE r == [Idle EXCEPT !.op = op, !.at = stage, !.key = k, !.bytes = c]
  <1>1. Becomes(w, r)
    BY DEF Start, Becomes
  <1>2. r.op = op /\ r.at = stage /\ r.key = k /\ r.bytes = c
    BY IdleShaped DEF CallType
  <1> HIDE DEF r
  <1> QED BY <1>1, <1>2

\* A call that leaves a key behind, without having changed its values or before it did.
LEMMA GoodLeft ==
  ASSUME TypeInv, NEW k \in Keys, Good(k), Same(k), Kept(k),
         NEW w \in Workers, NEW r, Becomes(w, r), r.key = None,
         call[w].key = k => ~Writes(call[w]) \/ Fresh(call[w])
  PROVE  Good(k)'
  <1>1. r.key # k
    BY StoreAssumption
  <1> QED BY <1>1, GoodStays

\* A step of w that changes values of other keys than k at most.
LEMMA GoodElsewhere ==
  ASSUME TypeInv, NEW k \in Keys, Good(k), Same(k), Kept(k),
         NEW w \in Workers, NEW r, Becomes(w, r), r.key \in {None, call[w].key}, call[w].key # k
  PROVE  Good(k)'
  <1>1. r.key # k
    BY StoreAssumption
  <1> QED BY <1>1, GoodStays

\* A call that has read its value, or goes on without one.
LEMMA ReadGood ==
  ASSUME TypeInv, NEW k \in Keys, Good(k), NEW w \in Workers, ReadCache(w) \/ ReadLegacy(w)
  PROVE  Good(k)'
  <1>0. Same(k) /\ Kept(k) /\ ~Writes(call[w]) /\ Shaped(call[w])
    BY Stored, CacheKeeps DEF ReadCache, ReadLegacy, At, stores, Same, Shaped, Writes
  <1>1. CASE \E r : Becomes(w, r) /\ r.key = None
    BY <1>0, <1>1, GoodLeft
  <1>2. CASE ReadCache(w) /\ Carry(w, "legacy", None)
    <2>1. PICK r : /\ Becomes(w, r)
                   /\ r.op = call[w].op /\ r.at = "legacy" /\ r.key = call[w].key
      BY <1>2, CarryFacts DEF Stages
    <2>2. Agrees(r, index'[k], latest'[k], cache')
      BY <1>0, <2>1 DEF Agrees, Promotes, Writes
    <2> QED BY <1>0, <2>1, <2>2, GoodStays
  <1>3. CASE ReadLegacy(w) /\ legacy[call[w].key] # None /\ Carry(w, "write", legacy[call[w].key])
    <2>0. call[w].key \in Keys
      BY <1>0, <1>3 DEF ReadLegacy, At, Shaped
    <2>1. PICK r : /\ Becomes(w, r) /\ r.op = call[w].op /\ r.at = "write"
                   /\ r.key = call[w].key /\ r.bytes = legacy[call[w].key]
      BY <1>3, <2>0, CarryFacts DEF Stages, TypeInv, TypeOK
    <2>2. CASE call[w].key = k
      <3>1. \A v \in Workers : call[v].key = k => ~Writes(call[v])
        BY <1>0, <2>2 DEF Good, Alone
      <3>2. legacy[k] = latest[k]
        BY <1>3, <2>2, <3>1 DEF Good, Settled
      <3>3. Agrees(r, index'[k], latest'[k], cache')
        BY <1>0, <2>1, <2>2, <3>2 DEF Agrees, Promotes, Writes, Same
      <3> QED BY <1>0, <2>1, <2>2, <3>3, GoodStays
    <2>3. CASE call[w].key # k
      BY <1>0, <2>1, <2>3, GoodElsewhere
    <2> QED BY <2>2, <2>3
  <1>4. CASE ReadCache(w) /\ Return(w, TRUE)
    BY <1>1, <1>4, ReturnShaped DEF ReadCache, At
  <1>5. CASE /\ ReadLegacy(w)
             /\ Becomes(w, IF call[w].op = "drain"
                            THEN [call[w] EXCEPT !.at = "next", !.key = None] ELSE Idle)
    <2>1. CASE Becomes(w, Idle)
      BY <1>1, <2>1 DEF Idle
    <2>2. CASE Becomes(w, [call[w] EXCEPT !.at = "next", !.key = None])
      <3>1. [call[w] EXCEPT !.at = "next", !.key = None].key = None
        BY Stored DEF CallType
      <3> QED BY <1>1, <2>2, <3>1
    <2> QED BY <1>5, <2>1, <2>2
  <1> QED BY <1>2, <1>3, <1>4, <1>5 DEF ReadCache, ReadLegacy, Becomes

LEMMA WriteGood ==
  ASSUME TypeInv, NEW k \in Keys, Good(k), NEW w \in Workers, Write(w)
  PROVE  Good(k)'
  <1>0. Same(k) /\ Kept(k) /\ Shaped(call[w]) /\ call[w].at = "write"
    BY Stored, CacheKeeps DEF Write, At, Same
  <1>1. PICK r : /\ Becomes(w, r) /\ r.op = call[w].op
                 /\ r.at = (IF call[w].op = "put" THEN "point" ELSE "verify")
                 /\ r.key = call[w].key /\ r.bytes = call[w].bytes
    BY GotoFacts DEF Write, Stages
  <1>2. CASE call[w].key = k
    <2>1. Agrees(call[w], index[k], latest[k], cache)
      BY <1>2 DEF Good
    <2>2. Agrees(r, index'[k], latest'[k], cache')
      BY <1>0, <1>1, <2>1 DEF Agrees, Promotes, Shaped, Same
    <2>3. Fresh(call[w]) \/ ~Writes(call[w])
      BY <1>0 DEF Fresh, Writes, Shaped
    <2> QED BY <1>0, <1>1, <1>2, <2>2, <2>3, GoodStays
  <1>3. CASE call[w].key # k
    BY <1>0, <1>1, <1>3, GoodElsewhere
  <1> QED BY <1>2, <1>3

LEMMA RefuseGood ==
  ASSUME TypeInv, NEW k \in Keys, Good(k), NEW w \in Workers, Refuse(w), k \notin excused'
  PROVE  Good(k)'
  <1>0. Same(k) /\ Shaped(call[w]) /\ call[w].at = "write"
    BY Stored DEF Refuse, At, Same
  <1>1. Kept(k)
    BY RemoveKeeps DEF Refuse
  <1>2. Fresh(call[w]) \/ ~Writes(call[w])
    BY <1>0 DEF Fresh, Writes, Shaped
  <1>3. CASE Return(w, FALSE)
    <2>1. PICK r : Becomes(w, r) /\ r.key = None
      BY <1>0, <1>3, ReturnShaped
    <2> QED BY <1>0, <1>1, <1>2, <2>1, GoodLeft
  <1>4. CASE call[w].op = "put" /\ Goto(w, "fallback")
    <2>1. PICK r : /\ Becomes(w, r) /\ r.op = "put" /\ r.at = "fallback" /\ r.key = call[w].key
      BY <1>4, GotoFacts DEF Stages
    <2>2. Agrees(r, index'[k], latest'[k], cache')
      BY <2>1 DEF Agrees, Promotes
    <2> QED BY <1>0, <1>1, <1>2, <1>4, <2>1, <2>2, GoodStays
  <1> QED BY <1>3, <1>4 DEF Refuse

LEMMA VerifyGood ==
  ASSUME TypeInv, NEW k \in Keys, Good(k), NEW w \in Workers, Verify(w)
  PROVE  Good(k)'
  <1>0. Same(k) /\ Kept(k) /\ Shaped(call[w]) /\ call[w].at = "verify" /\ ~Writes(call[w])
    BY Stored, CacheKeeps DEF Verify, At, Same, stores, Shaped, Writes
  <1>1. CASE Return(w, FALSE)
    <2>1. PICK r : Becomes(w, r) /\ r.key = None
      BY <1>0, <1>1, ReturnShaped
    <2> QED BY <1>0, <2>1, GoodLeft
  <1>2. CASE call[w].bytes \in cache /\ Goto(w, "point")
    <2>1. PICK r : /\ Becomes(w, r) /\ r.op = call[w].op /\ r.at = "point"
                   /\ r.key = call[w].key /\ r.bytes = call[w].bytes
      BY <1>2, GotoFacts DEF Stages
    <2>2. CASE call[w].key = k
      <3>1. Agrees(call[w], index[k], latest[k], cache)
        BY <2>2 DEF Good
      <3>2. cache' = cache
        BY DEF Verify, stores
      <3>3. Agrees(r, index'[k], latest'[k], cache')
        BY <1>0, <1>2, <2>1, <3>1, <3>2 DEF Agrees, Promotes, Writes, Shaped, Same
      <3> QED BY <1>0, <2>1, <2>2, <3>3, GoodStays
    <2>3. CASE call[w].key # k
      BY <1>0, <2>1, <2>3, GoodElsewhere
    <2> QED BY <2>2, <2>3
  <1> QED BY <1>1, <1>2 DEF Verify

\* Whoever promotes k has company of its own kind only.
LEMMA NoWriters ==
  ASSUME TypeInv, NEW k \in Keys, Good(k), NEW w \in Workers, call[w].key = k, ~Writes(call[w])
  PROVE  \A v \in Workers : call[v].key = k => ~Writes(call[v])
  BY DEF Good, Alone

LEMMA Lone ==
  ASSUME TypeInv, NEW k \in Keys, Good(k), NEW w \in Workers, call[w].key = k, Writes(call[w])
  PROVE  \A u \in Workers \ {w} : call[u].key # k
  BY DEF Good, Alone

\* The calls on k promote the value that k's pointer leads to.
LEMMA PromotedGood ==
  ASSUME TypeInv, NEW k \in Keys, Good(k), NEW w \in Workers, NEW r, Becomes(w, r),
         call[w].key = k, ~Writes(call[w]), r.key = k => r.op = call[w].op /\ Promotes(r),
         index'[k] = latest[k], latest[k] \in cache,
         r.key = k => r.bytes = latest[k],
         latest'[k] = latest[k], legacy'[k] \in {legacy[k], None}, cache' = cache
  PROVE  Good(k)'
  <1>1. call'[w] = r /\ \A v \in Workers \ {w} : call'[v] = call[v]
    BY DEF Becomes, TypeInv, TypeOK
  <1>2. \A v \in Workers : call[v].key = k => ~Writes(call[v])
    BY NoWriters
  <1>3. \A v \in Workers : call'[v].key = k => ~Writes(call'[v])
    BY <1>1, <1>2 DEF Writes
  <1>4. ASSUME NEW v \in Workers, call'[v].key = k
        PROVE  Agrees(call'[v], index'[k], latest'[k], cache')
    <2>1. CASE v = w
      BY <1>1, <1>3, <1>4, <2>1 DEF Agrees, Promotes, Writes
    <2>2. CASE v # w
      <3>1. Agrees(call[v], index[k], latest[k], cache) /\ ~Writes(call[v]) /\ call'[v] = call[v]
        BY <1>1, <1>2, <1>4, <2>2 DEF Good
      <3> QED BY <3>1 DEF Agrees, Promotes, Writes
    <2> QED BY <2>1, <2>2
  <1>5. Settled(k)'
    <2>1. Settled(k)
      BY <1>2 DEF Good
    <2> QED BY <2>1 DEF Settled
  <1>6. Alone(k)'
    BY <1>3 DEF Alone
  <1> QED BY <1>4, <1>5, <1>6 DEF Good

\* A pointer that is set sticks.
Sticks == "pointer" \notin Faults \/ UNCHANGED faults

LEMMA PointerSet ==
  ASSUME TypeInv, Sticks, NEW w \in Workers, SetPointer(w)
  PROVE  index' = [index EXCEPT ![call[w].key] = call[w].bytes]
  BY DEF SetPointer, Fault, Sticks, TypeInv, TypeOK

LEMMA PointGood ==
  ASSUME Sticks, TypeInv, NEW k \in Keys, Good(k), NEW w \in Workers, Point(w)
  PROVE  Good(k)'
  <1>0. Shaped(call[w]) /\ call[w].at = "point" /\ ~Writes(call[w]) /\ Promotes(call[w])
    BY Stored, Kinds DEF Point, At, Shaped, Writes, Promotes
  <1>1. PICK r : /\ Becomes(w, r) /\ r.op = call[w].op /\ r.at = "unlink"
                 /\ r.key = call[w].key /\ r.bytes = call[w].bytes
    BY GotoFacts DEF Point, Stages
  <1>2. index' = [index EXCEPT ![call[w].key] = call[w].bytes] /\ UNCHANGED <<cache, legacy, latest>>
    BY PointerSet DEF Point
  <1>3. CASE call[w].key = k
    <2>1. Agrees(call[w], index[k], latest[k], cache)
      BY <1>3 DEF Good
    <2>2. index'[k] = latest[k] /\ latest[k] \in cache /\ r.bytes = latest[k]
      BY <1>0, <1>1, <1>2, <1>3, <2>1 DEF Agrees, TypeInv, TypeOK
    <2>3. Promotes(r)
      BY <1>0, <1>1 DEF Promotes
    <2> QED BY <1>0, <1>1, <1>2, <1>3, <2>2, <2>3, PromotedGood
  <1>4. CASE call[w].key # k
    <2>1. Same(k) /\ Kept(k)
      BY <1>2, <1>4, CacheKeeps DEF Same, TypeInv, TypeOK
    <2> QED BY <1>1, <1>4, <2>1, GoodElsewhere
  <1> QED BY <1>3, <1>4

LEMMA PutPointGood ==
  ASSUME Sticks, TypeInv, NEW k \in Keys, Good(k), NEW w \in Workers, PutPoint(w),
         k \notin excused'
  PROVE  Good(k)'
  <1> DEFINE c == call[w].bytes
             prev == index[call[w].key]
  <1>0. call[w].key \in Keys /\ c \in Contents /\ call[w].op = "put" /\ call[w].at = "point"
    BY Stored DEF PutPoint, At, Shaped
  <1>1. index' = [index EXCEPT ![call[w].key] = c] /\ latest' = [latest EXCEPT ![call[w].key] = c]
        /\ UNCHANGED <<cache, legacy>>
    BY PointerSet DEF PutPoint
  <1>2. PICK r : /\ Becomes(w, r) /\ r.op = "put" /\ r.key = call[w].key
                 /\ r.at = "unlink" \/ (r.at = "drop" /\ r.bytes # c)
    <2>1. CASE prev \in {None, c}
      BY <1>0, <2>1, GotoFacts DEF PutPoint, Stages
    <2>2. CASE prev \notin {None, c}
      BY <1>0, <2>2, CarryFacts DEF PutPoint, Stages, TypeInv, TypeOK
    <2> QED BY <2>1, <2>2
  <1>3. CASE call[w].key = k
    <2>1. \A u \in Workers \ {w} : call[u].key # k
      BY <1>0, <1>3, Lone DEF Writes
    <2>2. index'[k] = c /\ latest'[k] = c
      BY <1>1, <1>3 DEF TypeInv, TypeOK
    <2>3. c \in cache'
      BY <1>1, <1>3 DEF PutPoint
    <2>4. Agrees(r, index'[k], latest'[k], cache')
      BY <1>2, <2>2, <2>3 DEF Agrees, Promotes
    <2>5. Writes(r) /\ ~Fresh(r)
      BY <1>2 DEF Writes, Fresh
    <2> QED BY <1>2, <1>3, <2>1, <2>4, <2>5, GoodAlone
  <1>4. CASE call[w].key # k
    <2>1. Same(k) /\ Kept(k)
      BY <1>1, <1>4, CacheKeeps DEF Same, TypeInv, TypeOK
    <2> QED BY <1>2, <1>4, <2>1, GoodElsewhere
  <1> QED BY <1>3, <1>4

LEMMA DropGood ==
  ASSUME TypeInv, NEW k \in Keys, Good(k), NEW w \in Workers, Drop(w), k \notin excused'
  PROVE  Good(k)'
  <1>0. Shaped(call[w]) /\ call[w].at = "drop" /\ Same(k)
    BY Stored DEF Drop, At, Same
  <1>1. PICK r : /\ Becomes(w, r) /\ r.op = call[w].op /\ r.key = call[w].key
                 /\ r.at = (IF call[w].op = "put" THEN "unlink" ELSE "forget")
    BY GotoFacts DEF Drop, Stages
  <1>2. Writes(call[w]) /\ (call[w].op = "put" \/ call[w].op = "delete")
    BY <1>0, Kinds DEF Writes, Shaped
  <1>3. CASE call[w].key = k
    <2>1. \A u \in Workers \ {w} : call[u].key # k
      BY <1>2, <1>3, Lone
    <2>2. Agrees(call[w], index[k], latest[k], cache)
      BY <1>3 DEF Good
    <2>3. cache' = cache \ {call[w].bytes}
      BY DEF Drop, Remove
    <2>4. Agrees(r, index'[k], latest'[k], cache')
      BY <1>0, <1>1, <1>2, <2>2, <2>3 DEF Agrees, Promotes, Same
    <2>5. Writes(r) /\ ~Fresh(r)
      BY <1>1, <1>2 DEF Writes, Fresh
    <2> QED BY <1>1, <1>3, <2>1, <2>4, <2>5, GoodAlone
  <1>4. CASE call[w].key # k
    <2>1. Kept(k)
      BY <1>4, RemoveKeeps DEF Drop
    <2> QED BY <1>0, <1>1, <1>4, <2>1, GoodElsewhere
  <1> QED BY <1>3, <1>4

LEMMA ForgetGood ==
  ASSUME TypeInv, NEW k \in Keys, Good(k), NEW w \in Workers, Forget(w)
  PROVE  Good(k)'
  <1>0. call[w].op = "delete" /\ call[w].key \in Keys
    BY Stored, Kinds DEF Forget, At, Shaped
  <1>1. PICK r : /\ Becomes(w, r) /\ r.op = "delete" /\ r.at = "unlink" /\ r.key = call[w].key
    BY <1>0, GotoFacts DEF Forget, Stages
  <1>2. CASE call[w].key = k
    <2>1. \A u \in Workers \ {w} : call[u].key # k
      BY <1>0, <1>2, Lone DEF Writes
    <2>2. index'[k] = None /\ latest'[k] = None
      BY <1>2 DEF Forget, TypeInv, TypeOK
    <2>3. Agrees(r, index'[k], latest'[k], cache') /\ Writes(r) /\ ~Fresh(r)
      BY <1>1, <2>2 DEF Agrees, Promotes, Writes, Fresh
    <2> QED BY <1>1, <1>2, <2>1, <2>3, GoodAlone
  <1>3. CASE call[w].key # k
    <2>1. Same(k) /\ Kept(k)
      BY <1>3, CacheKeeps DEF Forget, Same, TypeInv, TypeOK
    <2> QED BY <1>1, <1>3, <2>1, GoodElsewhere
  <1> QED BY <1>2, <1>3

LEMMA UnlinkGood ==
  ASSUME TypeInv, NEW k \in Keys, Good(k), NEW w \in Workers, Unlink(w), k \notin excused'
  PROVE  Good(k)'
  <1>0. Shaped(call[w]) /\ call[w].at = "unlink" /\ call[w].key \in Keys
    BY Stored DEF Unlink, At, Shaped
  <1>1. PICK r : Becomes(w, r) /\ r.key = None
    BY <1>0, ReturnShaped DEF Unlink
  <1>2. UNCHANGED <<index, cache, latest>> /\ r.key # k
    BY <1>1, StoreAssumption DEF Unlink
  <1>3. CASE call[w].key = k /\ Writes(call[w])
    <2>1. \A u \in Workers \ {w} : call[u].key # k
      BY <1>3, Lone
    <2>2. legacy' = [legacy EXCEPT ![k] = None]
      BY <1>3 DEF Unlink, Writers, On, Writes
    <2>3. Agrees(call[w], index[k], latest[k], cache)
      BY <1>3 DEF Good
    <2>4. Settled(k)'
      BY <1>0, <1>2, <1>3, <2>2, <2>3 DEF Agrees, Settled, Writes, Shaped, TypeInv, TypeOK
    <2> QED BY <1>1, <1>2, <2>1, <2>4, GoodAlone
  <1>4. CASE call[w].key = k /\ ~Writes(call[w])
    <2>1. Promotes(call[w])
      BY <1>0, <1>4, Kinds DEF Promotes, Writes, Shaped
    <2>2. Agrees(call[w], index[k], latest[k], cache)
      BY <1>4 DEF Good
    <2>3. index'[k] = latest[k] /\ latest[k] \in cache
      BY <1>0, <1>2, <2>1, <2>2 DEF Agrees
    <2>4. legacy'[k] \in {legacy[k], None}
      BY <1>0, <1>4 DEF Unlink, TypeInv, TypeOK
    <2> QED BY <1>1, <1>2, <1>4, <2>3, <2>4, PromotedGood
  <1>5. CASE call[w].key # k
    <2>1. Same(k) /\ Kept(k)
      BY <1>2, <1>5, CacheKeeps DEF Unlink, Same, TypeInv, TypeOK
    <2> QED BY <1>1, <1>5, <2>1, GoodElsewhere
  <1> QED BY <1>3, <1>4, <1>5

LEMMA FallbackGood ==
  ASSUME TypeInv, NEW k \in Keys, Good(k), NEW w \in Workers, Fallback(w), k \notin excused'
  PROVE  Good(k)'
  <1>0. /\ call[w].op = "put" /\ call[w].at = "fallback"
        /\ call[w].key \in Keys /\ call[w].bytes \in Contents
    BY Stored, Kinds DEF Fallback, At, Shaped
  <1>1. Becomes(w, Idle) /\ Idle.key = None /\ UNCHANGED <<index, cache>>
    BY DEF Fallback, Becomes, Idle
  <1>2. Fresh(call[w]) /\ Writes(call[w])
    BY <1>0 DEF Fresh, Writes
  <1>3. CASE Same(k)
    BY <1>1, <1>2, <1>3, CacheKeeps, GoodLeft
  <1>4. CASE ~Same(k)
    <2>1. call[w].key = k /\ legacy'[k] = call[w].bytes /\ latest'[k] = call[w].bytes /\ index[k] = None
      BY <1>0, <1>1, <1>4 DEF Fallback, Same, TypeInv, TypeOK
    <2>2. \A u \in Workers \ {w} : call[u].key # k
      BY <1>2, <2>1, Lone
    <2>3. Settled(k)'
      BY <1>1, <2>1 DEF Settled
    <2>4. Idle.key # k
      BY <1>1, StoreAssumption
    <2> QED BY <1>1, <2>2, <2>3, <2>4, GoodAlone
  <1> QED BY <1>3, <1>4

LEMMA PassGood ==
  ASSUME TypeInv, NEW k \in Keys, Good(k), NEW w \in Workers, NextEntry(w) \/ EndVisit(w),
         k \notin excused'
  PROVE  Good(k)'
  <1>0. Shaped(call[w]) /\ call[w].at = "next" /\ Same(k) /\ Kept(k)
    BY Stored, CacheKeeps DEF NextEntry, EndVisit, At, stores, Same
  <1>1. call[w].key = None /\ call[w].op = "drain" /\ call[w].key # k /\ ~Writes(call[w])
    BY <1>0, StoreAssumption DEF Shaped, Writes
  <1>2. CASE EndVisit(w)
    <2>1. Becomes(w, Idle) /\ Idle.key = None
      BY <1>2 DEF EndVisit, Becomes, Idle
    <2> QED BY <1>0, <1>1, <2>1, GoodElsewhere
  <1>3. CASE NextEntry(w)
    <2>1. PICK e \in call[w].todo :
            /\ call' = [call EXCEPT ![w].at = "legacy", ![w].key = e, ![w].todo = @ \ {e}]
            /\ Overlap(e, FALSE)
      BY <1>3 DEF NextEntry
    <2> DEFINE r == [call[w] EXCEPT !.at = "legacy", !.key = e, !.todo = call[w].todo \ {e}]
    <2>2. Becomes(w, r)
      BY <2>1, Stored DEF Becomes, CallType, TypeInv, TypeOK
    <2>3. r.op = "drain" /\ r.at = "legacy" /\ r.key = e
      BY <1>1, Stored DEF CallType
    <2> HIDE DEF r
    <2>4. Agrees(r, index'[k], latest'[k], cache') /\ ~Writes(r)
      BY <2>3 DEF Agrees, Promotes, Writes
    <2>5. e = k => \A u \in Workers : call[u].key = k => ~Writes(call[u])
      BY <2>1 DEF Overlap, Writers, On, Writes
    <2> QED BY <1>0, <1>1, <2>2, <2>3, <2>4, <2>5, GoodStays
  <1> QED BY <1>2, <1>3

LEMMA StartGood ==
  ASSUME TypeInv, NEW k \in Keys, Good(k), NEW w \in Callers, NEW key \in Keys,
         Get(w, key) \/ Delete(w, key) \/ \E c \in Puts : Put(w, key, c),
         k \notin excused'
  PROVE  Good(k)'
  <1>0. w \in Workers /\ call[w].key = None /\ ~Writes(call[w]) /\ call[w].key # k
    BY Stored, StoreAssumption DEF Workers, Get, Delete, Put, Start, At, Shaped, Writes
  <1>1. Kept(k) /\ UNCHANGED <<index, legacy, cache>>
    BY CacheKeeps DEF Get, Delete, Put, stores
  <1>2. PICK r : /\ Becomes(w, r) /\ r.key = key
                 /\ \/ r.op = "get" /\ r.at \in {"legacy", "cache"}
                    \/ r.op = "put" /\ r.at = "write"
                    \/ r.op = "delete" /\ r.at \in {"drop", "unlink"}
                 /\ r.op = "delete" => Delete(w, key)
                 /\ r.at = "unlink" => index[key] = None
                 /\ r.op = "delete" /\ r.at = "drop" => index[key] # None
                 /\ r.op # "delete" => latest' = latest
                 /\ r.at = "cache" => r.bytes = index[key] /\ index[key] # None
    <2>1. CASE Get(w, key)
      <3>1. PICK r : /\ Becomes(w, r) /\ r.op = "get" /\ r.key = key /\ r.bytes = index[key]
                     /\ r.at = (IF index[key] = None THEN "legacy" ELSE "cache")
        BY <1>0, <2>1, StartFacts DEF Get
      <3> QED BY <2>1, <3>1 DEF Get
    <2>2. CASE Delete(w, key)
      <3>1. PICK r : Becomes(w, r) /\ r.op = "delete" /\ r.key = key
                     /\ r.at = (IF index[key] = None THEN "unlink" ELSE "drop")
        BY <1>0, <2>2, StartFacts DEF Delete
      <3> QED BY <2>2, <3>1
    <2>3. CASE \E c \in Puts : Put(w, key, c)
      <3>1. PICK r : Becomes(w, r) /\ r.op = "put" /\ r.key = key /\ r.at = "write"
        BY <1>0, <2>3, StartFacts, StoreAssumption DEF Put
      <3> QED BY <2>3, <3>1 DEF Put
    <2> QED BY <2>1, <2>2, <2>3
  <1>3. CASE key # k
    <2>1. Same(k)
      BY <1>1, <1>2, <1>3 DEF Same, Delete, TypeInv, TypeOK
    <2>2. r.key # k
      BY <1>2, <1>3
    <2> QED BY <1>0, <1>1, <1>2, <2>1, <2>2, GoodStays
  <1>4. CASE key = k /\ r.op # "get"
    <2>1. \A u \in Workers \ {w} : call[u].key # k
      <3>1. ~Get(w, key)
        <4>1. CASE Get(w, key)
          <5>1. PICK q : Becomes(w, q) /\ q.op = "get"
            BY <1>0, <4>1, StartFacts DEF Get
          <5>2. q = r
            BY <1>0, <1>2, <5>1 DEF Becomes, TypeInv, TypeOK
          <5> QED BY <1>4, <5>1, <5>2
        <4> QED BY <4>1
      <3>2. Overlap(key, TRUE)
        BY <3>1 DEF Delete, Put, Start
      <3>3. On(k) = {}
        BY <1>4, <3>2 DEF Overlap
      <3> QED BY <3>3 DEF On
    <2>2. CASE r.at = "unlink"
      <3>1. latest'[k] = None /\ index'[k] = None /\ r.op = "delete"
        BY <1>1, <1>2, <1>4, <2>2 DEF Delete, TypeInv, TypeOK
      <3>2. Agrees(r, index'[k], latest'[k], cache') /\ Writes(r) /\ ~Fresh(r)
        BY <2>2, <3>1 DEF Agrees, Promotes, Writes, Fresh
      <3> QED BY <1>0, <1>2, <1>4, <2>1, <3>2, GoodAlone
    <2>3. CASE r.at # "unlink"
      <3>1. Same(k)
        BY <1>1, <1>2, <1>4, <2>3 DEF Same, Delete
      <3>2. Agrees(r, index'[k], latest'[k], cache')
        BY <1>2, <1>4, <2>3 DEF Agrees, Promotes
      <3> QED BY <1>0, <1>1, <1>2, <2>1, <3>1, <3>2, GoodStays
    <2> QED BY <2>2, <2>3
  <1>5. CASE key = k /\ r.op = "get"
    <2>1. \A u \in Workers : call[u].key = k => ~Writes(call[u])
      BY <1>5 DEF Delete, Put, Get, Start, Overlap, On, Writers, Writes, TypeInv, TypeOK
    <2>2. Same(k)
      BY <1>1, <1>2, <1>5 DEF Same
    <2>3. r.at = "cache" => r.bytes = latest[k]
      BY <1>2, <1>5, <2>1 DEF Good, Settled
    <2>4. Agrees(r, index'[k], latest'[k], cache') /\ ~Writes(r)
      BY <1>2, <1>5, <2>2, <2>3 DEF Agrees, Promotes, Writes, Same
    <2> QED BY <1>0, <1>1, <1>2, <2>1, <2>2, <2>4, GoodStays
  <1> QED BY <1>3, <1>4, <1>5

LEMMA VisitGood ==
  ASSUME TypeInv, NEW k \in Keys, Good(k), NEW w \in Drains, Visit(w)
  PROVE  Good(k)'
  <1>0. w \in Workers /\ call[w].key = None /\ call[w].key # k
    BY Stored, StoreAssumption DEF Workers, Visit, At, Shaped
  <1>1. Same(k) /\ Kept(k)
    BY CacheKeeps DEF Visit, stores, Same
  <1>2. PICK r : Becomes(w, r) /\ r.key = None
    <2>1. PICK keys : Becomes(w, [Idle EXCEPT !.op = "drain", !.at = "next", !.todo = keys])
      BY DEF Visit, Becomes
    <2>2. [Idle EXCEPT !.op = "drain", !.at = "next", !.todo = keys].key = None
      BY DEF Idle
    <2> QED BY <2>1, <2>2
  <1> QED BY <1>0, <1>1, <1>2, GoodElsewhere

LEMMA CutGood ==
  ASSUME TypeInv, NEW k \in Keys, Good(k), NEW w \in Workers, Cut(w), k \notin excused'
  PROVE  Good(k)'
  <1>1. Same(k) /\ Kept(k)
    BY CacheKeeps DEF Cut, stores, Same
  <1>2. Becomes(w, Idle) /\ Idle.key = None
    BY DEF Cut, Becomes, Idle
  <1>3. call[w].key = k => ~Writes(call[w])
    BY DEF Cut, Writers, On, Writes
  <1> QED BY <1>1, <1>2, <1>3, GoodLeft

LEMMA EvictGood ==
  ASSUME TypeInv, NEW k \in Keys, Good(k), Evict, k \notin excused'
  PROVE  Good(k)'
  <1>1. Kept(k) /\ UNCHANGED <<index, legacy, latest, call>>
    BY RemoveKeeps DEF Evict
  <1>2. \A v \in Workers : call'[v].key = k => Agrees(call'[v], index'[k], latest'[k], cache')
    BY <1>1 DEF Good, Agrees, Kept
  <1>3. Settled(k) => Settled(k)'
    BY <1>1 DEF Settled, Kept
  <1>4. Alone(k)'
    BY <1>1 DEF Good, Alone
  <1> QED BY <1>1, <1>2, <1>3, <1>4 DEF Good

\* Once excused, a key stays so.
LEMMA ExcusedGrows ==
  ASSUME Next
  PROVE  excused \subseteq excused'
  <1>1. ASSUME NEW w \in Workers, Step(w) PROVE excused \subseteq excused'
    BY <1>1 DEF Step, ReadCache, ReadLegacy, Write, Refuse, Verify, Point, PutPoint, Drop, Forget,
               Unlink, Fallback, NextEntry, EndVisit, Remove, Overlap
  <1>2. ASSUME NEW w \in Callers, NEW k \in Keys,
               Get(w, k) \/ Delete(w, k) \/ \E c \in Puts : Put(w, k, c)
        PROVE  excused \subseteq excused'
    BY <1>2 DEF Get, Delete, Put, Start, Overlap
  <1>3. ASSUME Evict \/ (\E w \in Workers : Cut(w)) \/ (\E w \in Drains : Visit(w))
        PROVE  excused \subseteq excused'
    BY <1>3 DEF Evict, Cut, Visit, Remove
  <1> QED BY <1>1, <1>2, <1>3 DEF Next

LEMMA NextGood ==
  ASSUME Sticks, TypeInv, Next, NEW k \in Keys, Good(k), k \notin excused'
  PROVE  Good(k)'
  <1>1. ASSUME NEW w \in Workers, Step(w) PROVE Good(k)'
    BY <1>1, ReadGood, WriteGood, RefuseGood, VerifyGood, PointGood, PutPointGood,
       DropGood, ForgetGood, UnlinkGood, FallbackGood, PassGood DEF Step
  <1>2. ASSUME NEW w \in Callers, NEW key \in Keys,
               Get(w, key) \/ Delete(w, key) \/ \E c \in Puts : Put(w, key, c)
        PROVE  Good(k)'
    BY <1>2, StartGood
  <1>3. CASE \E w \in Drains : Visit(w)
    BY <1>3, VisitGood
  <1>4. CASE \E w \in Workers : Cut(w)
    BY <1>4, CutGood
  <1>5. CASE Evict
    BY <1>5, EvictGood
  <1> QED BY <1>1, <1>2, <1>3, <1>4, <1>5 DEF Next

LEMMA RestGood ==
  ASSUME UNCHANGED vars, NEW k \in Keys, Good(k)
  PROVE  Good(k)'
  BY DEF vars, stores, Good, Alone, Agrees, Settled

LEMMA NextServes ==
  ASSUME "pointer" \notin Faults, ServeInv, [Next]_vars
  PROVE  ServeInv'
  <1>1. TypeInv /\ TypeInv' /\ Sticks
    BY NextTyped DEF ServeInv, Sticks
  <1>2. CASE UNCHANGED vars
    BY <1>1, <1>2, RestGood DEF ServeInv, vars
  <1>3. CASE Next
    BY <1>1, <1>3, ExcusedGrows, NextGood DEF ServeInv
  <1> QED BY <1>2, <1>3

\* While localStorage keeps the pointers it is given, no drain, read, cut or refused write ever
\* takes a key's bytes: get() answers what the last put or delete of the key left (promote(),
\* put(), delete() of keyedBlobStore.ts).
THEOREM AlwaysServed ==
  ASSUME "pointer" \notin Faults
  PROVE  Spec => []Serves
  <1>1. ServeInv /\ [Next]_vars => ServeInv'
    BY NextServes
  <1> QED BY ServeInit, <1>1, ServeInvServes, PTL DEF Spec

\* On the same terms, what a get() is about to answer and what a promotion is about to write
\* under a key is the current value for as long as it is carried (get(), promote()).
THEOREM CurrentInFlight ==
  ASSUME "pointer" \notin Faults
  PROVE  Spec => []NothingStale
  <1>1. ServeInv /\ [Next]_vars => ServeInv'
    BY NextServes
  <1> QED BY ServeInit, <1>1, ServeInvCurrent, PTL DEF Spec

-----------------------------------------------------------------------------
(* NothingUnreachable: what leads to a blob, and which step hands it on      *)

\* A pointer that stays, or a call between the write and its pointer, or between the new pointer
\* and the old blob.  The old store and a call that has only read the bytes do not count: both are
\* given up without looking at the cache.
Points(k, c) == index[k] = c /\ \A w \in Workers : call[w].key = k => call[w].at # "forget"
Carries(w, c) == call[w].bytes = c /\ call[w].at \in {"verify", "point", "drop"}
Anchored(c) == (\E k \in Keys : Points(k, c)) \/ \E w \in Workers : Carries(w, c)

\* delete() drops what its key points at.
Dooms(w) ==
  call[w].op = "delete" /\ call[w].at = "drop" => index[call[w].key] = call[w].bytes

Tight ==
  /\ \A k \in Keys : Good(k)
  /\ \A w \in Workers : Dooms(w)
  /\ \A c \in cache : Anchored(c)

Clean == faults = 0 /\ excused = {}

ReachInv == TypeInv /\ (Clean => Tight)

LEMMA ReachInvReaches == ReachInv => NothingUnreachable
  <1> SUFFICES ASSUME Clean, Tight, NEW c \in cache
               PROVE  \/ \E k \in Keys : c \in {index[k], legacy[k]}
                      \/ \E w \in Workers : call[w].bytes = c
    BY DEF ReachInv, NothingUnreachable, Clean
  <1> QED BY DEF Tight, Anchored, Points, Carries

LEMMA ReachInit == Init => ReachInv
  <1> SUFFICES ASSUME Init PROVE Tight
    BY TypeInit DEF ReachInv
  <1>1. \A k \in Keys : Good(k)
    BY ServeInit DEF ServeInv, Init
  <1>2. \A w \in Workers : Dooms(w)
    BY DEF Init, Idle, Dooms
  <1> QED BY <1>1, <1>2 DEF Init, Tight

\* A step of w on a key: no blob appears, no pointer changes, and w hands on what it carries.
LEMMA AnchoredStays ==
  ASSUME TypeInv, NEW w \in Workers, NEW r, Becomes(w, r), UNCHANGED index,
         NEW c \in Contents, Anchored(c),
         r.at = "forget" => r.key \in Keys /\ index[r.key] # c,
         Carries(w, c) => r.bytes = c /\ r.at \in {"verify", "point", "drop"}
  PROVE  Anchored(c)'
  <1>1. call'[w] = r /\ \A v \in Workers \ {w} : call'[v] = call[v]
    BY DEF Becomes, TypeInv, TypeOK
  <1>2. ASSUME NEW k \in Keys, Points(k, c) PROVE Anchored(c)'
    <2>1. \A v \in Workers : call'[v].key = k => call'[v].at # "forget"
      BY <1>1, <1>2 DEF Points
    <2> QED BY <1>2, <2>1 DEF Points, Anchored
  <1>3. ASSUME NEW v \in Workers, Carries(v, c) PROVE Anchored(c)'
    <2>1. Carries(v, c)'
      BY <1>1, <1>3 DEF Carries
    <2> QED BY <2>1 DEF Anchored
  <1> QED BY <1>2, <1>3 DEF Anchored

LEMMA DoomsStay ==
  ASSUME TypeInv, \A v \in Workers : Dooms(v), NEW w \in Workers, NEW r, Becomes(w, r),
         r.op = "delete" /\ r.at = "drop" => index'[r.key] = r.bytes,
         \A v \in Workers \ {w} :
           call[v].op = "delete" /\ call[v].at = "drop" => index'[call[v].key] = index[call[v].key]
  PROVE  \A v \in Workers : Dooms(v)'
  <1>1. call'[w] = r /\ \A v \in Workers \ {w} : call'[v] = call[v]
    BY DEF Becomes, TypeInv, TypeOK
  <1> QED BY <1>1 DEF Dooms

\* What a step has to keep, the calls of Good aside.
Holds == (\A w \in Workers : Dooms(w)) /\ \A c \in cache : Anchored(c)

\* A step that sets no pointer and adds no blob, by a call that carries nothing or carries it on.
LEMMA QuietHolds ==
  ASSUME TypeInv, Tight, NEW w \in Workers, NEW r, Becomes(w, r), UNCHANGED index, cache' \subseteq cache,
         r.at # "forget", r.op = "delete" /\ r.at = "drop" => index[r.key] = r.bytes,
         \A c \in cache' : Carries(w, c) => r.bytes = c /\ r.at \in {"verify", "point", "drop"}
  PROVE  Holds'
  <1>1. \A v \in Workers : Dooms(v)'
    BY DoomsStay DEF Tight
  <1>2. ASSUME NEW c \in cache' PROVE Anchored(c)'
    <2>1. c \in Contents /\ Anchored(c)
      BY DEF TypeInv, TypeOK, Tight
    <2> QED BY <2>1, AnchoredStays
  <1> QED BY <1>1, <1>2 DEF Holds

\* A call that ends, or a pass that is done with an entry.
LEMMA LeaveHolds ==
  ASSUME TypeInv, Tight, NEW w \in Workers, NEW r \in CallType, Shaped(r), Becomes(w, r), r.key = None,
         UNCHANGED index, cache' \subseteq cache, \A c \in cache' : ~Carries(w, c)
  PROVE  Holds'
  <1>1. r.at \in {"idle", "next"}
    BY StoreAssumption DEF Shaped
  <1> QED BY <1>1, QuietHolds

LEMMA ReadHolds ==
  ASSUME TypeInv, Tight, NEW w \in Workers, ReadCache(w) \/ ReadLegacy(w)
  PROVE  Holds'
  <1>0. UNCHANGED <<index, cache>> /\ Shaped(call[w]) /\ call[w] \in CallType
    BY Stored DEF ReadCache, ReadLegacy, stores
  <1>1. \A c \in cache' : ~Carries(w, c)
    BY DEF ReadCache, ReadLegacy, At, Carries
  <1>2. CASE \E r \in CallType : Shaped(r) /\ Becomes(w, r) /\ r.key = None
    BY <1>0, <1>1, <1>2, LeaveHolds
  <1>3. CASE \E r : Becomes(w, r) /\ r.at \in {"legacy", "write"}
    BY <1>0, <1>1, <1>3, QuietHolds
  <1>4. CASE ReadCache(w) /\ Return(w, TRUE)
    BY <1>2, <1>4, ReturnShaped DEF ReadCache, At
  <1>5. CASE ReadCache(w) /\ Carry(w, "legacy", None)
    BY <1>3, <1>5, CarryFacts DEF Stages
  <1>6. CASE ReadLegacy(w) /\ legacy[call[w].key] # None /\ Carry(w, "write", legacy[call[w].key])
    <2>1. call[w].key \in Keys
      BY <1>0, <1>6 DEF ReadLegacy, At, Shaped
    <2> QED BY <1>3, <1>6, <2>1, CarryFacts DEF Stages, TypeInv, TypeOK
  <1>7. CASE /\ ReadLegacy(w)
             /\ Becomes(w, IF call[w].op = "drain"
                            THEN [call[w] EXCEPT !.at = "next", !.key = None] ELSE Idle)
    <2>1. CASE Becomes(w, Idle)
      BY <1>2, <2>1, IdleShaped DEF Idle
    <2>2. CASE call[w].op = "drain" /\ Becomes(w, [call[w] EXCEPT !.at = "next", !.key = None])
      <3> DEFINE r == [call[w] EXCEPT !.at = "next", !.key = None]
      <3>1. r \in CallType /\ r.key = None
        BY <1>0 DEF CallType, Stages
      <3>2. Shaped(r)
        BY <1>0, <2>2 DEF Shaped, CallType
      <3> QED BY <1>2, <2>2, <3>1, <3>2
    <2> QED BY <1>7, <2>1, <2>2
  <1> QED BY <1>4, <1>5, <1>6, <1>7 DEF ReadCache, ReadLegacy, Becomes

\* The writer takes the new blob with it.
LEMMA WriteHolds ==
  ASSUME TypeInv, Tight, NEW w \in Workers, Write(w), UNCHANGED faults
  PROVE  Holds'
  <1>0. call[w].at = "write" /\ call[w].bytes \in Contents /\ call[w].op # "delete"
    BY Stored DEF Write, At, Shaped
  <1>1. PICK r : /\ Becomes(w, r) /\ r.op = call[w].op
                 /\ r.at = (IF call[w].op = "put" THEN "point" ELSE "verify")
                 /\ r.key = call[w].key /\ r.bytes = call[w].bytes
    BY GotoFacts DEF Write, Stages
  <1>2. UNCHANGED index /\ cache' \subseteq cache \cup {call[w].bytes}
    BY DEF Write
  <1>3. \A v \in Workers : Dooms(v)'
    BY <1>0, <1>1, <1>2, DoomsStay DEF Tight
  <1>4. ASSUME NEW c \in cache' PROVE Anchored(c)'
    <2>1. CASE c = call[w].bytes
      <3>1. call'[w] = r
        BY <1>1 DEF Becomes, TypeInv, TypeOK
      <3> QED BY <1>1, <2>1, <3>1 DEF Carries, Anchored
    <2>2. CASE c # call[w].bytes
      <3>1. c \in Contents /\ Anchored(c)
        BY <1>2, <2>2 DEF TypeInv, TypeOK, Tight
      <3>2. ~Carries(w, c)
        BY <1>0 DEF Carries
      <3> QED BY <1>1, <1>2, <3>1, <3>2, AnchoredStays
    <2> QED BY <2>1, <2>2
  <1> QED BY <1>3, <1>4 DEF Holds

LEMMA RefuseHolds ==
  ASSUME TypeInv, Tight, NEW w \in Workers, Refuse(w)
  PROVE  Holds'
  <1>0. call[w].at = "write" /\ UNCHANGED index /\ cache' \subseteq cache
    BY DEF Refuse, At, Remove
  <1>1. \A c \in cache' : ~Carries(w, c)
    BY <1>0 DEF Carries
  <1>2. CASE Return(w, FALSE)
    BY <1>0, <1>1, <1>2, ReturnShaped, LeaveHolds
  <1>3. CASE Goto(w, "fallback")
    BY <1>0, <1>1, <1>3, GotoFacts, QuietHolds DEF Stages
  <1> QED BY <1>2, <1>3 DEF Refuse

\* A read-back that finds nothing leaves nothing behind.
LEMMA VerifyHolds ==
  ASSUME TypeInv, Tight, NEW w \in Workers, Verify(w)
  PROVE  Holds'
  <1>0. call[w].at = "verify" /\ UNCHANGED <<index, cache>>
    BY DEF Verify, At, stores
  <1>1. CASE call[w].bytes \notin cache /\ Return(w, FALSE)
    <2>1. \A c \in cache' : ~Carries(w, c)
      BY <1>0, <1>1 DEF Carries
    <2> QED BY <1>0, <1>1, <2>1, ReturnShaped, LeaveHolds
  <1>2. CASE Goto(w, "point")
    <2>1. PICK r : Becomes(w, r) /\ r.at = "point" /\ r.bytes = call[w].bytes
      BY <1>2, GotoFacts DEF Stages
    <2>2. \A c \in cache' : Carries(w, c) => r.bytes = c
      BY <2>1 DEF Carries
    <2> QED BY <1>0, <2>1, <2>2, QuietHolds
  <1> QED BY <1>1, <1>2 DEF Verify

\* While w works on k as its only writer or next to no writer, no delete is there.
LEMMA NoDelete ==
  ASSUME TypeInv, Tight, NEW w \in Workers, call[w].key \in Keys, call[w].op # "delete"
  PROVE  \A v \in Workers : call[v].key = call[w].key => call[v].op # "delete"
  BY DEF Tight, Good, Alone, Writes

LEMMA Forgets ==
  ASSUME TypeInv, NEW w \in Workers, call[w].at = "forget"
  PROVE  call[w].op = "delete"
  BY Stored, Kinds DEF Shaped

\* A pointer that is set leads to the bytes the call brought, and the call takes the old ones, if
\* any, with it.
LEMMA SetHolds ==
  ASSUME TypeInv, Tight, NEW w \in Workers, NEW r, Becomes(w, r),
         NEW k \in Keys, call[w].key = k, call[w].op # "delete", call[w].at = "point",
         r.key = k, r.op = call[w].op, r.at \in {"unlink", "drop"},
         index' = [index EXCEPT ![k] = call[w].bytes], UNCHANGED cache,
         \/ index[k] \in {None, call[w].bytes}
         \/ r.at = "drop" /\ r.bytes = index[k]
  PROVE  Holds'
  <1>1. call'[w] = r /\ \A v \in Workers \ {w} : call'[v] = call[v]
    BY DEF Becomes, TypeInv, TypeOK
  <1>2. \A v \in Workers : call[v].key = k => call[v].op # "delete" /\ call[v].at # "forget"
    BY NoDelete, Forgets
  <1>3. index'[k] = call[w].bytes /\ \A j \in Keys \ {k} : index'[j] = index[j]
    BY DEF TypeInv, TypeOK
  <1>4. \A v \in Workers : Dooms(v)'
    <2>1. \A v \in Workers \ {w} :
            call[v].op = "delete" /\ call[v].at = "drop" => index'[call[v].key] = index[call[v].key]
      BY <1>2, <1>3, Stored DEF Shaped
    <2> QED BY <2>1, DoomsStay DEF Tight
  <1>5. ASSUME NEW c \in cache' PROVE Anchored(c)'
    <2>1. \A j \in Keys : (\A v \in Workers : call[v].key = j => call[v].at # "forget")
                            => (\A v \in Workers : call'[v].key = j => call'[v].at # "forget")
      BY <1>1
    <2>2. CASE c = call[w].bytes
      <3>1. Points(k, c)'
        BY <1>2, <1>3, <2>1, <2>2 DEF Points
      <3> QED BY <3>1 DEF Anchored
    <2>3. CASE c # call[w].bytes
      <3>0. Anchored(c) /\ c # None
        BY StoreAssumption DEF Tight, TypeInv, TypeOK
      <3>1. ASSUME NEW j \in Keys \ {k}, Points(j, c) PROVE Anchored(c)'
        <4>1. Points(j, c)'
          BY <1>3, <2>1, <3>1 DEF Points
        <4> QED BY <4>1 DEF Anchored
      <3>2. CASE Points(k, c)
        <4>1. Carries(w, c)'
          BY <1>1, <2>3, <3>0, <3>2 DEF Points, Carries
        <4> QED BY <4>1 DEF Anchored
      <3>3. ASSUME NEW v \in Workers, Carries(v, c) PROVE Anchored(c)'
        <4>1. Carries(v, c)'
          BY <1>1, <2>3, <3>3 DEF Carries
        <4> QED BY <4>1 DEF Anchored
      <3> QED BY <3>0, <3>1, <3>2, <3>3 DEF Anchored
    <2> QED BY <2>2, <2>3
  <1> QED BY <1>4, <1>5 DEF Holds

\* promote() brings the value the key already has.
LEMMA PointHolds ==
  ASSUME TypeInv, Tight, NEW w \in Workers, Point(w), UNCHANGED faults
  PROVE  Holds'
  <1>0. /\ call[w].at = "point" /\ call[w].key \in Keys /\ call[w].op # "delete"
        /\ ~Writes(call[w]) /\ Promotes(call[w])
    BY Stored, Kinds DEF Point, At, Shaped, Writes, Promotes
  <1>1. PICK r : Becomes(w, r) /\ r.op = call[w].op /\ r.at = "unlink" /\ r.key = call[w].key
    BY GotoFacts DEF Point, Stages
  <1>2. index' = [index EXCEPT ![call[w].key] = call[w].bytes] /\ UNCHANGED cache
    BY PointerSet DEF Point, Sticks
  <1>3. Good(call[w].key)
    BY <1>0 DEF Tight
  <1>4. call[w].bytes = latest[call[w].key]
    BY <1>0, <1>3 DEF Good, Agrees
  <1>5. Settled(call[w].key)
    BY <1>0, <1>3, NoWriters DEF Good
  <1>6. index[call[w].key] \in {None, call[w].bytes}
    BY <1>4, <1>5 DEF Settled
  <1> QED BY <1>0, <1>1, <1>2, <1>6, SetHolds

\* put() goes on with the bytes it replaces.
LEMMA PutPointHolds ==
  ASSUME TypeInv, Tight, NEW w \in Workers, PutPoint(w), UNCHANGED faults
  PROVE  Holds'
  <1> DEFINE prev == index[call[w].key]
  <1>0. call[w].at = "point" /\ call[w].key \in Keys /\ call[w].op = "put"
    BY Stored DEF PutPoint, At, Shaped
  <1>1. index' = [index EXCEPT ![call[w].key] = call[w].bytes] /\ UNCHANGED cache
    BY PointerSet DEF PutPoint, Sticks
  <1>2. CASE prev \in {None, call[w].bytes}
    <2>1. PICK r : Becomes(w, r) /\ r.op = "put" /\ r.at = "unlink" /\ r.key = call[w].key
      BY <1>0, <1>2, GotoFacts DEF PutPoint, Stages
    <2> QED BY <1>0, <1>1, <1>2, <2>1, SetHolds
  <1>3. CASE prev \notin {None, call[w].bytes}
    <2>1. PICK r : /\ Becomes(w, r) /\ r.op = "put" /\ r.at = "drop" /\ r.key = call[w].key
                   /\ r.bytes = prev
      BY <1>0, <1>3, CarryFacts DEF PutPoint, Stages, TypeInv, TypeOK
    <2> QED BY <1>0, <1>1, <2>1, SetHolds
  <1> QED BY <1>2, <1>3

\* What is dropped is gone, and it is all that a deleted key led to.
LEMMA DropHolds ==
  ASSUME TypeInv, Tight, NEW w \in Workers, Drop(w)
  PROVE  Holds'
  <1>0. /\ call[w].at = "drop" /\ call[w].key \in Keys /\ call[w].op \in {"put", "delete"}
        /\ UNCHANGED index /\ cache' = cache \ {call[w].bytes}
    BY Stored, Kinds DEF Drop, At, Remove, Shaped
  <1>1. PICK r : /\ Becomes(w, r) /\ r.op = call[w].op /\ r.key = call[w].key
                 /\ r.at = (IF call[w].op = "put" THEN "unlink" ELSE "forget")
    BY GotoFacts DEF Drop, Stages
  <1>2. \A v \in Workers : Dooms(v)'
    BY <1>0, <1>1, DoomsStay DEF Tight
  <1>3. ASSUME NEW c \in cache' PROVE Anchored(c)'
    <2>1. c \in Contents /\ Anchored(c) /\ c # call[w].bytes
      BY <1>0, <1>3 DEF TypeInv, TypeOK, Tight
    <2>2. ~Carries(w, c)
      BY <2>1 DEF Carries
    <2>3. r.at = "forget" => r.key \in Keys /\ index[r.key] # c
      BY <1>0, <1>1, <2>1 DEF Tight, Dooms
    <2> QED BY <1>0, <1>1, <2>1, <2>2, <2>3, AnchoredStays
  <1> QED BY <1>2, <1>3 DEF Holds

\* The pointer that goes no longer counted.
LEMMA ForgetHolds ==
  ASSUME TypeInv, Tight, NEW w \in Workers, Forget(w)
  PROVE  Holds'
  <1> DEFINE k == call[w].key
  <1>0. call[w].at = "forget" /\ k \in Keys /\ call[w].op = "delete" /\ UNCHANGED cache
    BY Stored, Kinds DEF Forget, At, Shaped
  <1>1. PICK r : Becomes(w, r) /\ r.at = "unlink" /\ r.key = k
    BY GotoFacts DEF Forget, Stages
  <1>2. call'[w] = r /\ \A v \in Workers \ {w} : call'[v] = call[v]
    BY <1>1 DEF Becomes, TypeInv, TypeOK
  <1>3. \A j \in Keys \ {k} : index'[j] = index[j]
    BY DEF Forget, TypeInv, TypeOK
  <1>4. \A v \in Workers \ {w} : call[v].key # k
    BY <1>0, Lone DEF Tight, Writes
  <1>5. \A v \in Workers : Dooms(v)'
    <2>1. \A v \in Workers \ {w} :
            call[v].op = "delete" /\ call[v].at = "drop" => index'[call[v].key] = index[call[v].key]
      BY <1>3, <1>4, Stored DEF Shaped
    <2> QED BY <1>1, <2>1, DoomsStay DEF Tight
  <1>6. ASSUME NEW c \in cache' PROVE Anchored(c)'
    <2>1. Anchored(c) /\ ~Points(k, c)
      BY <1>0 DEF Tight, Points
    <2>2. ASSUME NEW j \in Keys \ {k}, Points(j, c) PROVE Anchored(c)'
      <3>1. Points(j, c)'
        BY <1>1, <1>2, <1>3, <2>2 DEF Points
      <3> QED BY <3>1 DEF Anchored
    <2>3. ASSUME NEW v \in Workers, Carries(v, c) PROVE Anchored(c)'
      <3>1. Carries(v, c)'
        BY <1>0, <1>2, <2>3 DEF Carries
      <3> QED BY <3>1 DEF Anchored
    <2> QED BY <2>1, <2>2, <2>3 DEF Anchored
  <1> QED BY <1>5, <1>6 DEF Holds

LEMMA EndHolds ==
  ASSUME TypeInv, Tight, NEW w \in Workers,
         Unlink(w) \/ Fallback(w) \/ EndVisit(w) \/ NextEntry(w)
  PROVE  Holds'
  <1>0. /\ call[w].at \in {"unlink", "fallback", "next"} /\ UNCHANGED <<index, cache>>
        /\ \A c \in cache' : ~Carries(w, c)
    BY DEF Unlink, Fallback, EndVisit, NextEntry, At, Carries, stores
  <1>1. CASE Unlink(w)
    BY <1>0, <1>1, ReturnShaped, LeaveHolds DEF Unlink, At
  <1>2. CASE Fallback(w) \/ EndVisit(w)
    <2>1. Becomes(w, Idle) /\ Idle.key = None
      BY <1>2 DEF Fallback, EndVisit, Becomes, Idle
    <2> QED BY <1>0, <2>1, IdleShaped, LeaveHolds
  <1>3. CASE NextEntry(w)
    <2>1. PICK e \in call[w].todo :
            call' = [call EXCEPT ![w].at = "legacy", ![w].key = e, ![w].todo = @ \ {e}]
      BY <1>3 DEF NextEntry
    <2> DEFINE r == [call[w] EXCEPT !.at = "legacy", !.key = e, !.todo = call[w].todo \ {e}]
    <2>2. Becomes(w, r)
      BY <2>1, Stored DEF Becomes, CallType, TypeInv, TypeOK
    <2>3. r.at = "legacy"
      BY Stored DEF CallType
    <2> HIDE DEF r
    <2> QED BY <1>0, <2>2, <2>3, QuietHolds
  <1> QED BY <1>0, <1>1, <1>2, <1>3

LEMMA StartHolds ==
  ASSUME TypeInv, Tight, NEW w \in Callers, NEW key \in Keys,
         Get(w, key) \/ Delete(w, key) \/ \E c \in Puts : Put(w, key, c)
  PROVE  Holds'
  <1>0. w \in Workers /\ call[w].at = "idle" /\ UNCHANGED <<index, cache>>
    BY DEF Workers, Get, Delete, Put, Start, At, stores
  <1>1. \A c \in cache' : ~Carries(w, c)
    BY <1>0 DEF Carries
  <1>2. CASE Get(w, key)
    <2>1. PICK r : Becomes(w, r) /\ r.op = "get" /\ r.at \in {"legacy", "cache"}
      BY <1>0, <1>2, StartFacts DEF Get
    <2> QED BY <1>0, <1>1, <2>1, QuietHolds
  <1>3. CASE Delete(w, key)
    <2>1. PICK r : /\ Becomes(w, r) /\ r.at \in {"unlink", "drop"}
                   /\ r.key = key /\ r.bytes = index[key]
      BY <1>0, <1>3, StartFacts DEF Delete
    <2> QED BY <1>0, <1>1, <2>1, QuietHolds
  <1>4. CASE \E c \in Puts : Put(w, key, c)
    <2>1. PICK r : Becomes(w, r) /\ r.op = "put" /\ r.at = "write"
      BY <1>0, <1>4, StartFacts DEF Put
    <2> QED BY <1>0, <1>1, <2>1, QuietHolds
  <1> QED BY <1>2, <1>3, <1>4

LEMMA VisitHolds ==
  ASSUME TypeInv, Tight, NEW w \in Drains, Visit(w)
  PROVE  Holds'
  <1>0. w \in Workers /\ call[w].at = "idle" /\ UNCHANGED <<index, cache>>
    BY DEF Workers, Visit, At, stores
  <1>1. \A c \in cache' : ~Carries(w, c)
    BY <1>0 DEF Carries
  <1>2. PICK r : Becomes(w, r) /\ r.at = "next"
    <2>1. PICK keys : Becomes(w, [Idle EXCEPT !.op = "drain", !.at = "next", !.todo = keys])
      BY DEF Visit, Becomes
    <2>2. [Idle EXCEPT !.op = "drain", !.at = "next", !.todo = keys].at = "next"
      BY DEF Idle
    <2> QED BY <2>1, <2>2
  <1> QED BY <1>0, <1>1, <1>2, QuietHolds

\* A fault is never taken back.
LEMMA FaultsGrow ==
  ASSUME TypeInv, [Next]_vars, faults' = 0
  PROVE  faults = 0 /\ (Next => ~Evict /\ \A w \in Workers : ~Cut(w))
  <1>0. faults \in Nat /\ \A f : ~Fault(f)
    BY StoreAssumption DEF TypeInv, TypeOK, Fault
  <1>1. \A w \in Workers : Step(w) => UNCHANGED faults
    BY <1>0 DEF Step, ReadCache, ReadLegacy, Write, Refuse, Verify, Point, PutPoint, SetPointer, Drop,
                Forget, Unlink, Fallback, NextEntry, EndVisit, Listed, Sound
  <1>2. \A w \in Callers, k \in Keys :
          Get(w, k) \/ Delete(w, k) \/ (\E c \in Puts : Put(w, k, c)) => UNCHANGED faults
    BY DEF Get, Delete, Put
  <1>3. ~Evict /\ \A w \in Workers : ~Cut(w)
    BY <1>0 DEF Evict, Cut
  <1>4. \A w \in Drains : Visit(w) => UNCHANGED faults
    BY <1>0 DEF Visit, Listed, Sound
  <1> QED BY <1>1, <1>2, <1>3, <1>4 DEF Next, vars

LEMMA NextReaches ==
  ASSUME ReachInv, [Next]_vars
  PROVE  ReachInv'
  <1>1. TypeInv /\ TypeInv'
    BY NextTyped DEF ReachInv
  <1> SUFFICES ASSUME Clean' PROVE Tight'
    BY <1>1 DEF ReachInv
  <1>2. CASE UNCHANGED vars
    <2>1. Clean /\ Tight
      BY <1>2 DEF Clean, vars, ReachInv
    <2>2. \A k \in Keys : Good(k)'
      BY <1>2, <2>1, RestGood DEF Tight
    <2> QED BY <1>2, <2>1, <2>2 DEF Tight, vars, stores, Dooms, Anchored, Points, Carries
  <1>3. CASE Next
    <2>1. UNCHANGED faults /\ excused = {} /\ excused' = {}
      BY <1>1, <1>3, FaultsGrow, ExcusedGrows DEF Clean
    <2>2. Tight
      BY <2>1 DEF ReachInv, Clean
    <2>3. \A k \in Keys : Good(k)'
      BY <1>1, <1>3, <2>1, <2>2, NextGood DEF Sticks, Tight
    <2>4. Holds'
      <3>1. ASSUME NEW w \in Workers, Step(w) PROVE Holds'
        BY <1>1, <2>1, <2>2, <3>1, ReadHolds, WriteHolds, RefuseHolds, VerifyHolds, PointHolds,
           PutPointHolds, DropHolds, ForgetHolds, EndHolds DEF Step
      <3>2. ASSUME NEW w \in Callers, NEW key \in Keys,
                   Get(w, key) \/ Delete(w, key) \/ \E c \in Puts : Put(w, key, c)
            PROVE  Holds'
        BY <1>1, <2>2, <3>2, StartHolds
      <3>3. CASE \E w \in Drains : Visit(w)
        BY <1>1, <2>2, <3>3, VisitHolds
      <3> QED BY <1>1, <1>3, <3>1, <3>2, <3>3, FaultsGrow DEF Next, Clean
    <2> QED BY <2>3, <2>4 DEF Tight, Holds
  <1> QED BY <1>2, <1>3

\* put() and delete() remove the bytes they take a key's pointer from, and promote() writes none it
\* does not point at: as long as nothing fails and no two calls of which one writes share a key,
\* no blob is left that no key and no call leads to ("leaving them would cost the user quota
\* forever", keyedBlobStore.ts:262).
THEOREM NothingStranded == Spec => []NothingUnreachable
  <1> QED BY ReachInit, NextReaches, ReachInvReaches, PTL DEF Spec
=============================================================================
