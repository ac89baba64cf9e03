------------------------- MODULE MailboxSyncProofs -------------------------
(***************************************************************************)
(* What holds while the host's posts and the device's counter are in step. *)
(* SyncInv is inductive, and Lockstep and NoOverwrittenPost follow; beside *)
(* it, in this order: DesyncIsProof and NoGarbledDigests (Holders), the    *)
(* refinement of JobQueue (Shape), and SuccessMeansVerified (Solo).        *)
(***************************************************************************)
EXTENDS MailboxProofs, FiniteSetTheorems

\* The parts of SyncInv that hold under inSync.
Inv == PostsInOrder /\ Alone /\ ClaimsHold /\ HashesHold /\ DeviceHolds

Typed == TypeOK /\ LockInv

\* Everything about the posted values but NextPost is in ready and devCounter.
LEMMA OrderKept ==
  ASSUME PostsInOrder, UNCHANGED <<ready, devCounter>>, NextPost' = NextPost
  PROVE  PostsInOrder'
BY DEF PostsInOrder, Pending

\* NextPost is a positive number.
LEMMA NextPostType == TypeOK => NextPost \in Nat \ {0}
<1> SUFFICES ASSUME TypeOK PROVE NextPost \in Nat \ {0}
  OBVIOUS
<1>1. counter[current] \in Nat \ {0}
  BY DEF TypeOK, FlasherType
<1> QED BY <1>1 DEF NextPost

\* An operation that ends, by a throw, leaves everything else in place.
LEMMA ThrowInv ==
  ASSUME Typed, Inv, NEW op \in Ops, NEW how, Throw(op, how), pc[op] # "bump",
         ~Resting(op), UNCHANGED <<wordVars, devVars>>
  PROVE  Inv'
<1> USE DEF Throw, Finish, Goto
<1>0. \A o \in Ops : pc'[o] = IF o = op THEN "done" ELSE pc[o]
  BY DEF Typed, TypeOK, OpType
<1>1. PostsInOrder'
  BY <1>0, NextPostKept, OrderKept DEF Inv, wordVars, devVars
<1>2. Alone'
  BY <1>0 DEF Inv, Alone, Resting
<1>3. ClaimsHold'
  BY <1>0 DEF Inv, ClaimsHold, wordVars, ctxVars
<1>4. HashesHold'
  BY <1>0 DEF Inv, HashesHold, HashWait, wordVars, ctxVars, devVars
<1>5. DeviceHolds'
  BY DEF Inv, DeviceHolds, wordVars, ctxVars, devVars, jobVars
<1> QED BY <1>1, <1>2, <1>3, <1>4, <1>5 DEF Inv

\* op moves, outside its claims: it neither holds a context nor posts one, before or after,
\* unless it has just found a free one.
Moves(op) ==
  /\ \A o \in Ops \ {op} : pc'[o] = pc[o] /\ slot'[o] = slot[o]
  /\ pc[op] \notin {"header", "payload", "post", "bump", "await", "readout", "clear"}
  /\ pc'[op] \notin {"payload", "post", "bump", "await", "readout", "clear"}
  /\ pc'[op] = "header" => slot'[op] = slot[op] /\ ready[slot[op]] = 0

\* Such a move keeps the invariant if it touches no word.
LEMMA MoveInv ==
  ASSUME Inv, NEW op \in Ops, Owner[op] = current, Moves(op),
         UNCHANGED <<counter, current, ready, responded, header, mode, cur, devCounter>>
  PROVE  Inv'
<1> USE DEF Moves
<1>1. PostsInOrder'
  <2>1. \A o \in Ops : pc'[o] = "bump" <=> pc[o] = "bump"
    OBVIOUS
  <2> QED BY <2>1, NextPostKept, OrderKept DEF Inv
<1>2. Alone'
  BY DEF Inv, Alone, Resting
<1>3. ClaimsHold'
  BY DEF Inv, ClaimsHold
<1>4. HashesHold'
  <2>1. ASSUME NEW o \in Ops, pc'[o] \in HashWait
        PROVE  pc'[o] = pc[o] /\ slot'[o] = slot[o]
    BY <2>1 DEF HashWait
  <2>2. Hashes \subseteq Ops /\ {"await", "readout", "clear"} \subseteq HashWait
    BY DEF Ops, HashWait
  <2> QED BY <2>1, <2>2 DEF Inv, HashesHold
<1>5. DeviceHolds'
  BY DEF Inv, DeviceHolds
<1> QED BY <1>1, <1>2, <1>3, <1>4, <1>5 DEF Inv

\* Nothing the invariant speaks of changes.
LEMMA InvKept ==
  ASSUME Inv, UNCHANGED <<pc, slot, counter, current, ready, responded, header, mode, cur, devCounter>>
  PROVE  Inv'
BY DEF Inv, PostsInOrder, Pending, NextPost, Alone, Resting, ClaimsHold, HashesHold, DeviceHolds

\* The steps of one operation that touch no word keep the invariant.
LEMMA HostMoveInv ==
  ASSUME Typed, Inv, NEW op \in Ops,
         \/ StartFlash(op) \/ StartHash(op) \/ BeginChunk(op) \/ AcquireLock(op)
         \/ ScanContext(op) \/ PollReady(op) \/ PollStatus(op) \/ ChunkDone(op)
         \/ RetryChunk(op) \/ DrainContext(op) \/ FlashDone(op) \/ Abort(op)
  PROVE  Inv'
<1>1. CASE Abort(op)
  BY <1>1, InvKept DEF Abort, flasherVars, wordVars, ctxVars, devVars, jobVars
<1>2. CASE ~Abort(op)
  <2>1. Owner[op] = current
    BY <1>2 DEF Inv, Alone, Resting, StartFlash, StartHash, BeginChunk, AcquireLock, ScanContext,
           PollReady, PollStatus, ChunkDone, RetryChunk, DrainContext, FlashDone
  <2>2. UNCHANGED <<counter, current, ready, responded, header, mode, cur, devCounter>>
    BY <1>2 DEF StartFlash, StartHash, BeginChunk, AcquireLock, ScanContext, PollReady, PollStatus,
           ChunkDone, RetryChunk, DrainContext, FlashDone,
           flasherVars, wordVars, ctxVars, devVars, jobVars
  <2>3. Moves(op)
    <3> USE DEF Moves, Goto, Typed, TypeOK, OpType
    <3>1. CASE StartFlash(op)
      BY <3>1 DEF StartFlash
    <3>2. CASE StartHash(op)
      BY <3>2 DEF StartHash, Enqueue
    <3>3. CASE BeginChunk(op)
      BY <3>3 DEF BeginChunk, Enqueue
    <3>4. CASE AcquireLock(op)
      BY <3>4 DEF AcquireLock
    <3>5. CASE ScanContext(op)
      BY <3>5 DEF ScanContext
    <3>6. CASE PollReady(op)
      BY <3>6 DEF PollReady
    <3>7. CASE PollStatus(op)
      BY <3>7 DEF PollStatus
    <3>8. CASE ChunkDone(op)
      BY <3>8 DEF ChunkDone
    <3>9. CASE RetryChunk(op)
      BY <3>9 DEF RetryChunk
    <3>10. CASE DrainContext(op)
      BY <3>10 DEF DrainContext
    <3>11. CASE FlashDone(op)
      BY <3>11 DEF FlashDone, Finish
    <3> QED BY <1>2, <3>1, <3>2, <3>3, <3>4, <3>5, <3>6, <3>7, <3>8, <3>9, <3>10, <3>11
  <2> QED BY <2>1, <2>2, <2>3, MoveInv
<1> QED BY <1>1, <1>2

\* While op fills or posts a context, everyone else is outside the critical section.
LEMMA OthersOut ==
  ASSUME Typed, Inv, NEW op \in Ops, Holds(op), NEW o \in Ops \ {op}
  PROVE  pc[o] \notin {"scan", "header", "payload", "post", "bump"}
BY OneRuns DEF Typed, Inv, Holds, Critical

\* FillHeader writes a free context, which nobody else has claimed.
LEMMA FillHeaderInv ==
  ASSUME Typed, Inv, NEW op \in Ops, FillHeader(op)
  PROVE  Inv'
<1> DEFINE s == slot[op]
<1> USE DEF FillHeader, flasherVars, devVars, jobVars
<1>0. /\ pc[op] = "header" /\ ready[s] = 0 /\ s \in Slots /\ Holds(op)
      /\ \E l \in {"post", "payload"} : /\ \A o \in Ops : pc'[o] = IF o = op THEN l ELSE pc[o]
                                        /\ l = "post" <=> op \in Hashes
  BY DEF Inv, ClaimsHold, Typed, TypeOK, OpType, Goto, Holds, Critical
<1>1. PostsInOrder'
  BY <1>0, NextPostKept, OrderKept DEF Inv
<1>2. Alone'
  BY <1>0 DEF Inv, Alone, Resting
<1>3. /\ header'[s] = JobOf(op) /\ \A i \in Slots \ {s} : header'[i] = header[i]
      /\ op \in Hashes => ~responded'[s]
      /\ \A i \in Slots \ {s} : responded'[i] = responded[i]
  BY <1>0 DEF Typed, TypeOK, WordType
<1>4. JobOf(op) \in HashJobs <=> op \in Hashes
  BY DEF JobOf, HashJobs, Typed, TypeOK, OpType
<1>5. ClaimsHold'
  BY <1>0, <1>3, <1>4, OthersOut DEF ClaimsHold
<1>6. HashesHold'
  <2>1. ASSUME NEW o \in Ops, pc'[o] \in HashWait
        PROVE  o # op /\ pc'[o] = pc[o]
    BY <1>0, <2>1 DEF HashWait
  <2>2. ASSUME NEW o \in Hashes, pc[o] \in HashWait
        PROVE  slot[o] \in Slots \ {s}
    BY <1>0, <2>2 DEF Inv, HashesHold, Ops, Typed, TypeOK, OpType
  <2>3. Hashes \subseteq Ops /\ {"await", "readout", "clear"} \subseteq HashWait
    BY DEF Ops, HashWait
  <2>4. ~(ready[s] >= devCounter)
    BY <1>0 DEF Typed, TypeOK, DeviceType
  <2> QED BY <1>3, <2>1, <2>2, <2>3, <2>4 DEF Inv, HashesHold
<1>7. DeviceHolds'
  <2>1. mode \in {"decompress", "hash"} => cur \in Slots \ {s}
    BY <1>0 DEF Inv, DeviceHolds, Typed, TypeOK, DeviceType
  <2> QED BY <1>3, <2>1 DEF Inv, DeviceHolds
<1> QED BY <1>1, <1>2, <1>5, <1>6, <1>7 DEF Inv

\* FillPayload touches nothing the invariant speaks of but the program counter.
LEMMA FillPayloadInv ==
  ASSUME Typed, Inv, NEW op \in Ops, FillPayload(op)
  PROVE  Inv'
<1> USE DEF FillPayload, flasherVars, devVars, jobVars
<1>0. /\ pc[op] = "payload" /\ \A o \in Ops : pc'[o] = IF o = op THEN "post" ELSE pc[o]
  BY DEF Typed, TypeOK, OpType, Goto
<1>1. PostsInOrder'
  BY <1>0, NextPostKept, OrderKept DEF Inv
<1>2. Alone'
  BY <1>0 DEF Inv, Alone, Resting
<1>3. ClaimsHold'
  BY <1>0 DEF Inv, ClaimsHold
<1>4. HashesHold'
  <2>1. ASSUME NEW o \in Ops, pc'[o] \in HashWait
        PROVE  pc'[o] = pc[o]
    BY <1>0, <2>1 DEF HashWait
  <2>2. Hashes \subseteq Ops /\ {"await", "readout", "clear"} \subseteq HashWait
    BY DEF Ops, HashWait
  <2> QED BY <2>1, <2>2 DEF Inv, HashesHold
<1>5. DeviceHolds'
  BY DEF Inv, DeviceHolds
<1> QED BY <1>1, <1>2, <1>3, <1>4, <1>5 DEF Inv

\* Post puts the next value into the free context op has claimed.
LEMMA PostInv ==
  ASSUME Typed, Inv, NEW op \in Ops, Post(op)
  PROVE  Inv'
<1> DEFINE s == slot[op]
           n == counter[current]
<1> USE DEF Post, flasherVars, ctxVars, devVars, jobVars
<1>0. /\ pc[op] = "post" /\ Holds(op) /\ s \in Slots /\ ready[s] = 0
      /\ pc'[op] = "bump" /\ \A o \in Ops \ {op} : pc'[o] = pc[o]
      /\ Owner[op] = current
  BY DEF Inv, ClaimsHold, Alone, Resting, Typed, TypeOK, OpType, Goto, Holds, Critical
<1>1. /\ NextPost = n /\ NextPost' = n + 1 /\ n \in Nat \ {0} /\ devCounter \in Nat \ {0}
  <2>1. \A o \in Ops : pc[o] # "bump"
    BY <1>0, OthersOut
  <2>2. n \in Nat \ {0} /\ devCounter \in Nat \ {0}
    BY DEF Typed, TypeOK, FlasherType, DeviceType
  <2> QED BY <1>0, <2>1, <2>2 DEF NextPost
<1>2. ready'[s] = n /\ \A i \in Slots \ {s} : ready'[i] = ready[i]
  BY <1>0 DEF WriteReady, Typed, TypeOK, WordType
<1>3. \A i \in Slots : ready[i] \in Nat
  BY DEF Typed, TypeOK, WordType
<1>4. PostsInOrder'
  <2>1. \A i \in Slots : ready[i] < n
    BY <1>1 DEF Inv, PostsInOrder
  <2>2. \A i \in Slots : ready'[i] < n + 1
    BY <1>1, <1>2, <1>3, <2>1
  <2>3. ASSUME NEW i \in Slots, NEW k \in Slots, ready'[i] = ready'[k], ready'[i] # 0
        PROVE  i = k
    <3>1. CASE i # s /\ k # s
      BY <1>2, <2>3, <3>1 DEF Inv, PostsInOrder
    <3>2. CASE i = s /\ k # s
      BY <1>1, <1>2, <1>3, <2>1, <2>3, <3>2
    <3>3. CASE i # s /\ k = s
      BY <1>1, <1>2, <1>3, <2>1, <2>3, <3>3
    <3> QED BY <3>1, <3>2, <3>3
  <2>4. ASSUME NEW v \in devCounter .. n
        PROVE  \E i \in Slots : ready'[i] = v
    <3>1. CASE v = n
      BY <1>0, <1>2, <3>1
    <3>2. CASE v # n
      <4>1. v \in devCounter .. (n - 1)
        BY <1>1, <3>2
      <4>2. PICK i \in Slots : ready[i] = v
        BY <1>1, <4>1 DEF Inv, PostsInOrder, Pending
      <4>3. i # s
        BY <1>0, <1>1, <4>1, <4>2
      <4> QED BY <1>2, <4>2, <4>3
    <3> QED BY <3>1, <3>2
  <2>5. devCounter <= n + 1
    BY <1>1 DEF Inv, PostsInOrder
  <2>6. Pending' = devCounter .. n
    BY <1>1 DEF Pending
  <2> QED BY <1>1, <2>2, <2>3, <2>4, <2>5, <2>6 DEF PostsInOrder
<1>5. Alone'
  BY <1>0 DEF Inv, Alone, Resting
<1>6. ClaimsHold'
  <2>1. ASSUME NEW o \in Ops, pc'[o] \in {"header", "payload", "post"}
        PROVE  FALSE
    BY <1>0, <2>1, OthersOut
  <2> QED BY <2>1 DEF ClaimsHold
<1>7. HashesHold'
  <2>1. ASSUME NEW o \in Hashes, pc'[o] \in HashWait, o # op
        PROVE  pc'[o] = pc[o] /\ slot[o] \in Slots \ {s}
    BY <1>0, <2>1 DEF Inv, HashesHold, HashWait, Ops, Typed, TypeOK, OpType
  <2>2. op \in Hashes => header[s] \in HashJobs /\ ~responded[s]
    BY <1>0 DEF Inv, ClaimsHold
  <2>3. op \notin Hashes => header[s] \notin HashJobs
    BY <1>0 DEF Inv, ClaimsHold
  <2>4. \A o \in Ops : pc'[o] \in {"await", "readout", "clear"} => o # op /\ pc[o] = pc'[o]
    BY <1>0
  <2>5. \A o \in Ops : pc'[o] \in {"await", "readout", "clear"} => o \in Hashes
    BY <2>4 DEF Inv, HashesHold
  <2>6. ASSUME NEW o \in Hashes, pc'[o] \in HashWait
        PROVE  /\ ready'[slot[o]] # 0 /\ header[slot[o]] \in HashJobs
               /\ pc'[o] \in {"readout", "clear"} => responded[slot[o]]
    <3>1. CASE o = op
      BY <1>0, <1>1, <1>2, <2>2, <3>1
    <3>2. CASE o # op
      BY <1>2, <2>1, <2>6, <3>2 DEF Inv, HashesHold
    <3> QED BY <3>1, <3>2
  <2>7. ASSUME NEW a \in Hashes, NEW b \in Hashes,
               pc'[a] \in HashWait, pc'[b] \in HashWait, slot[a] = slot[b]
        PROVE  a = b
    BY <2>1, <2>7 DEF Inv, HashesHold
  <2>8. ASSUME NEW i \in Slots, ready'[i] >= devCounter, header[i] \in HashJobs
        PROVE  ~responded[i]
    BY <1>2, <2>2, <2>3, <2>8 DEF Inv, HashesHold
  <2> QED BY <2>5, <2>6, <2>7, <2>8 DEF HashesHold
<1>8. DeviceHolds'
  <2>1. mode \in {"decompress", "hash"} => cur \in Slots \ {s}
    BY <1>0 DEF Inv, DeviceHolds, Typed, TypeOK, DeviceType
  <2> QED BY <1>2, <2>1 DEF Inv, DeviceHolds
<1> QED BY <1>4, <1>5, <1>6, <1>7, <1>8 DEF Inv

\* Bump makes the counter follow the post it belongs to.
LEMMA BumpInv ==
  ASSUME Typed, Inv, NEW op \in Ops, Bump(op)
  PROVE  Inv'
<1> DEFINE n == counter[current]
<1> USE DEF Bump, wordVars, ctxVars, devVars, jobVars
<1>0. /\ pc[op] = "bump" /\ Holds(op) /\ Owner[op] = current
      /\ pc'[op] \in {"await", "wait"} /\ (pc'[op] = "await" <=> op \in Hashes)
      /\ \A o \in Ops \ {op} : pc'[o] = pc[o]
      /\ \A o \in Ops : Resting(o)' => Resting(o)
  BY DEF Inv, Alone, Resting, Typed, TypeOK, OpType, Goto, Holds, Critical
<1>1. PostsInOrder'
  <2>1. \A o \in Ops : pc'[o] # "bump"
    BY <1>0, OthersOut
  <2>2. n \in Nat \ {0} /\ counter'[current] = n + 1 /\ current' = current
    BY <1>0 DEF Typed, TypeOK, FlasherType
  <2>3. NextPost = n + 1 /\ NextPost' = counter'[current]
    BY <1>0, <2>1, <2>2 DEF NextPost
  <2> QED BY <2>2, <2>3, OrderKept DEF Inv
<1>2. Alone'
  BY <1>0 DEF Inv, Alone, Resting
<1>3. ClaimsHold'
  BY <1>0 DEF Inv, ClaimsHold
<1>4. HashesHold'
  <2>1. ASSUME NEW o \in Hashes, pc'[o] \in HashWait
        PROVE  pc[o] \in HashWait /\ (pc'[o] = pc[o] \/ pc'[o] = "await")
    BY <1>0, <2>1 DEF HashWait, Ops
  <2>2. \A o \in Ops : pc'[o] \in {"await", "readout", "clear"} => o \in Hashes
    BY <1>0 DEF Inv, HashesHold
  <2>3. ASSUME NEW o \in Hashes, pc'[o] \in HashWait
        PROVE  /\ ready[slot[o]] # 0 /\ header[slot[o]] \in HashJobs
               /\ pc'[o] \in {"readout", "clear"} => responded[slot[o]]
    BY <2>1, <2>3 DEF Inv, HashesHold
  <2> QED BY <2>1, <2>2, <2>3 DEF Inv, HashesHold
<1>5. DeviceHolds'
  BY DEF Inv, DeviceHolds
<1> QED BY <1>1, <1>2, <1>3, <1>4, <1>5 DEF Inv

\* A hash request moves on only once the device has responded.
LEMMA HashReadInv ==
  ASSUME Typed, Inv, NEW op \in Ops, AwaitResponse(op) \/ ReadDigests(op)
  PROVE  Inv'
<1> USE DEF AwaitResponse, ReadDigests, flasherVars, wordVars, ctxVars, devVars, jobVars
<1>0. /\ \/ pc[op] = "await" /\ pc'[op] = "readout" /\ responded[slot[op]]
         \/ pc[op] = "readout" /\ pc'[op] = "clear"
      /\ \A o \in Ops \ {op} : pc'[o] = pc[o]
  BY DEF Typed, TypeOK, OpType, Goto
<1>1. PostsInOrder'
  BY <1>0, NextPostKept, OrderKept DEF Inv
<1>2. Alone'
  BY <1>0 DEF Inv, Alone, Resting
<1>3. ClaimsHold'
  BY <1>0 DEF Inv, ClaimsHold
<1>4. HashesHold'
  <2>1. \A o \in Ops : pc'[o] \in {"await", "readout", "clear"} => pc[o] \in {"await", "readout", "clear"}
    BY <1>0
  <2>2. \A o \in Ops : pc'[o] \in HashWait => pc[o] \in HashWait
    BY <1>0 DEF HashWait
  <2>3. ASSUME NEW o \in Hashes, pc'[o] \in HashWait
        PROVE  pc'[o] \in {"readout", "clear"} => responded[slot[o]]
    BY <1>0, <2>2, <2>3 DEF Inv, HashesHold, Ops
  <2>4. Hashes \subseteq Ops
    BY DEF Ops
  <2> QED BY <2>1, <2>2, <2>3, <2>4 DEF Inv, HashesHold
<1>5. DeviceHolds'
  BY DEF Inv, DeviceHolds
<1> QED BY <1>1, <1>2, <1>3, <1>4, <1>5 DEF Inv

\* The context a hash request reads or clears was picked up.
LEMMA RespondedIsPassed ==
  ASSUME Typed, Inv, NEW op \in Ops, pc[op] \in {"readout", "clear"}
  PROVE  /\ op \in Hashes /\ responded[slot[op]] /\ slot[op] \in Slots
         /\ 0 < ready[slot[op]] /\ ready[slot[op]] < devCounter
<1>1. op \in Hashes /\ slot[op] \in Slots
  BY DEF Inv, HashesHold, Typed, TypeOK, OpType
<1>2. responded[slot[op]] /\ ready[slot[op]] # 0 /\ header[slot[op]] \in HashJobs
  BY <1>1 DEF Inv, HashesHold, HashWait
<1>3. ready[slot[op]] \in Nat /\ devCounter \in Nat
  BY <1>1 DEF Typed, TypeOK, WordType, DeviceType
<1> QED BY <1>1, <1>2, <1>3 DEF Inv, HashesHold

\* ready' clears context s, which the device has passed.
LEMMA ClearKeepsOrder ==
  ASSUME Typed, PostsInOrder, NEW s \in Slots, ready[s] < devCounter,
         ready' = [ready EXCEPT ![s] = 0], devCounter' = devCounter, NextPost' = NextPost
  PROVE  PostsInOrder'
<1>1. ready'[s] = 0 /\ \A i \in Slots \ {s} : ready'[i] = ready[i]
  BY DEF Typed, TypeOK, WordType
<1>2. NextPost \in Nat \ {0} /\ devCounter \in Nat \ {0}
  BY NextPostType DEF Typed, TypeOK, DeviceType
<1>3. \A i \in Slots : ready'[i] < NextPost
  BY <1>1, <1>2 DEF PostsInOrder
<1>4. ASSUME NEW v \in devCounter .. (NextPost - 1)
      PROVE  \E i \in Slots : ready'[i] = v
  <2>1. PICK i \in Slots : ready[i] = v
    BY DEF PostsInOrder, Pending
  <2>2. i # s
    BY <1>2, <2>1
  <2> QED BY <1>1, <2>1, <2>2
<1>5. \A i, k \in Slots : ready'[i] = ready'[k] /\ ready'[i] # 0 => i = k
  BY <1>1 DEF PostsInOrder
<1> QED BY <1>3, <1>4, <1>5 DEF PostsInOrder, Pending

\* A hash request hands its context back, and nobody else's.
LEMMA ClearReadyInv ==
  ASSUME Typed, Inv, NEW op \in Ops, ClearReady(op)
  PROVE  Inv'
<1> DEFINE s == slot[op]
<1> USE DEF ClearReady, flasherVars, ctxVars, devVars, jobVars
<1>0. /\ pc[op] = "clear" /\ pc'[op] = "done" /\ \A o \in Ops \ {op} : pc'[o] = pc[o]
      /\ op \in Hashes /\ s \in Slots /\ responded[s] /\ 0 < ready[s] /\ ready[s] < devCounter
  BY RespondedIsPassed DEF Typed, TypeOK, OpType, Goto
<1>1. ready'[s] = 0 /\ \A i \in Slots \ {s} : ready'[i] = ready[i]
  BY <1>0 DEF Typed, TypeOK, WordType
<1>2. PostsInOrder'
  BY <1>0, NextPostKept, ClearKeepsOrder DEF Inv
<1>3. Alone'
  BY <1>0 DEF Inv, Alone, Resting
<1>4. ClaimsHold'
  <2>1. \A o \in Ops : slot[o] \in Slots
    BY DEF Typed, TypeOK, OpType
  <2> QED BY <1>0, <1>1, <2>1 DEF Inv, ClaimsHold
<1>5. HashesHold'
  <2>1. ASSUME NEW o \in Hashes, pc'[o] \in HashWait
        PROVE  o # op /\ pc'[o] = pc[o] /\ slot[o] \in Slots \ {s}
    BY <1>0, <2>1 DEF Inv, HashesHold, HashWait, Ops, Typed, TypeOK, OpType
  <2>2. \A o \in Ops : pc'[o] \in {"await", "readout", "clear"} => o \in Hashes
    BY <1>0 DEF Inv, HashesHold
  <2>3. ~(ready'[s] >= devCounter)
    BY <1>1 DEF Typed, TypeOK, DeviceType
  <2> QED BY <1>1, <2>1, <2>2, <2>3 DEF Inv, HashesHold
<1>6. DeviceHolds'
  <2>1. mode = "hash" => ~responded[cur]
    BY DEF Inv, DeviceHolds
  <2>2. mode = "decompress" => header[cur] \notin HashJobs /\ header[s] \in HashJobs
    BY <1>0 DEF Inv, DeviceHolds, HashesHold, HashWait
  <2>3. mode \in {"decompress", "hash"} => cur \in Slots \ {s}
    BY <1>0, <2>1, <2>2 DEF Typed, TypeOK, DeviceType
  <2> QED BY <1>1, <2>3 DEF Inv, DeviceHolds
<1> QED BY <1>2, <1>3, <1>4, <1>5, <1>6 DEF Inv

\* A step of the device that leaves the host, the counters and READY alone.
LEMMA DeviceMoveInv ==
  ASSUME Typed, Inv, DeviceHolds',
         UNCHANGED <<pc, slot, counter, current, ready, header, devCounter>>,
         \/ UNCHANGED responded
         \/ /\ mode = "hash"
            /\ responded' = [responded EXCEPT ![cur] = TRUE]
  PROVE  Inv'
<1>1. PostsInOrder' /\ Alone'
  BY DEF Inv, PostsInOrder, Pending, NextPost, Alone, Resting
<1>2. \A i \in Slots : responded'[i] = responded[i] \/ (ready[i] < devCounter /\ ready[i] # 0 /\ responded'[i])
  BY DEF Inv, DeviceHolds, Typed, TypeOK, WordType, DeviceType
<1>3. \A i \in Slots : ready[i] \in Nat /\ devCounter \in Nat
  BY DEF Typed, TypeOK, WordType, DeviceType
<1>4. \A o \in Ops : slot[o] \in Slots /\ o \in Ops
  BY DEF Typed, TypeOK, OpType
<1>5. ClaimsHold'
  BY <1>2, <1>4 DEF Inv, ClaimsHold
<1>6. HashesHold'
  <2>1. \A i \in Slots : ready[i] >= devCounter /\ header[i] \in HashJobs => ~responded'[i]
    BY <1>2, <1>3 DEF Inv, HashesHold
  <2>2. \A o \in Hashes : responded[slot[o]] => responded'[slot[o]]
    BY <1>2, <1>4 DEF Ops
  <2> QED BY <2>1, <2>2 DEF Inv, HashesHold
<1> QED BY <1>1, <1>5, <1>6 DEF Inv

\* The device picks up the value its counter has reached, and moves past it.
LEMMA PickupInv ==
  ASSUME Typed, Inv, NEW s \in Slots, Pickup(s)
  PROVE  Inv'
<1> USE DEF Pickup, opVars, flasherVars, ctxVars
<1>1. /\ ready[s] = devCounter /\ devCounter' = devCounter + 1 /\ cur' = s
      /\ devCounter \in Nat \ {0} /\ NextPost \in Nat \ {0}
      /\ \A i \in Slots : ready[i] \in Nat
  BY NextPostType DEF Matches, Typed, TypeOK, WordType, DeviceType
<1>2. PostsInOrder'
  <2>1. NextPost' = NextPost
    BY NextPostKept
  <2>2. devCounter + 1 <= NextPost
    BY <1>1 DEF Inv, PostsInOrder
  <2>3. ASSUME NEW v \in (devCounter + 1) .. (NextPost - 1)
        PROVE  \E i \in Slots : ready[i] = v
    <3>1. v \in devCounter .. (NextPost - 1)
      BY <1>1
    <3> QED BY <3>1 DEF Inv, PostsInOrder, Pending
  <2> QED BY <1>1, <2>1, <2>2, <2>3 DEF Inv, PostsInOrder, Pending
<1>3. Alone' /\ ClaimsHold'
  BY DEF Inv, Alone, Resting, ClaimsHold
<1>4. HashesHold'
  <2>1. \A i \in Slots : ready[i] >= devCounter + 1 => ready[i] >= devCounter
    BY <1>1
  <2> QED BY <1>1, <2>1 DEF Inv, HashesHold
<1>5. DeviceHolds'
  <2>1. 0 < ready[s] /\ ready[s] < devCounter + 1
    BY <1>1
  <2>2. mode' = "hash" => header[s] \in HashJobs /\ ~responded[s]
    BY <1>1 DEF Inv, HashesHold
  <2>3. mode' = "decompress" => header[s] \notin HashJobs
    OBVIOUS
  <2> QED BY <1>1, <2>1, <2>2, <2>3 DEF DeviceHolds
<1> QED BY <1>2, <1>3, <1>4, <1>5 DEF Inv

\* The device releases the context it has transferred, which no hash request holds.
LEMMA DecompressInv ==
  ASSUME Typed, Inv, Decompress \/ BadTransfer
  PROVE  Inv'
<1> USE DEF Decompress, BadTransfer, opVars, flasherVars, ctxVars, jobVars
<1>1. /\ mode = "decompress" /\ mode' \notin {"decompress", "hash"}
      /\ cur \in Slots /\ ready[cur] < devCounter /\ header[cur] \notin HashJobs
  BY DEF Inv, DeviceHolds, Typed, TypeOK, DeviceType
<1>2. ready'[cur] = 0 /\ \A i \in Slots \ {cur} : ready'[i] = ready[i]
  BY <1>1 DEF Typed, TypeOK, WordType
<1>3. PostsInOrder'
  <2>1. NextPost' = NextPost
    BY NextPostKept
  <2> QED BY <1>1, <2>1, ClearKeepsOrder DEF Inv
<1>4. Alone'
  BY DEF Inv, Alone, Resting
<1>5. ClaimsHold'
  <2>1. \A o \in Ops : slot[o] \in Slots
    BY DEF Typed, TypeOK, OpType
  <2> QED BY <1>2, <2>1 DEF Inv, ClaimsHold
<1>6. HashesHold'
  <2>1. ASSUME NEW o \in Hashes, pc[o] \in HashWait
        PROVE  slot[o] \in Slots \ {cur}
    BY <1>1, <2>1 DEF Inv, HashesHold, Ops, Typed, TypeOK, OpType
  <2>2. \A i \in Slots : header[i] \in HashJobs => i # cur
    BY <1>1
  <2> QED BY <1>2, <2>1, <2>2 DEF Inv, HashesHold
<1>7. DeviceHolds'
  BY <1>1 DEF DeviceHolds
<1> QED BY <1>3, <1>4, <1>5, <1>6, <1>7 DEF Inv

\* Every other step of the device.
LEMMA DeviceInv ==
  ASSUME Typed, Inv, Park \/ WorkDone \/ WorkBad \/ HashDone \/ LeaveError \/ StubExit
  PROVE  Inv'
<1> USE DEF Park, WorkDone, WorkBad, HashDone, LeaveError, StubExit,
            opVars, flasherVars, wordVars, ctxVars, devVars, jobVars, envVars
<1>1. DeviceHolds'
  BY DEF Inv, DeviceHolds
<1>2. UNCHANGED <<pc, slot, counter, current, ready, header, devCounter>>
  OBVIOUS
<1>3. \/ UNCHANGED responded
      \/ /\ mode = "hash"
         /\ responded' = [responded EXCEPT ![cur] = TRUE]
  OBVIOUS
<1> QED BY <1>1, <1>2, <1>3, DeviceMoveInv

\* A boot that finds every READY clear and nobody running puts the two sides in step.
LEMMA BootInv ==
  ASSUME Typed, NEW f \in Flashers, Boot(f), inSync'
  PROVE  Inv'
<1> USE DEF Boot, StubRuns, opVars, ctxVars
<1>1. /\ \A i \in Slots : ready'[i] = 0
      /\ \A o \in Ops : pc'[o] \in {"idle", "done"}
      /\ counter'[f] = 1 /\ current' = f /\ devCounter' = 1 /\ mode' = "idle"
  BY DEF Resting, Typed, TypeOK, FlasherType
<1>2. NextPost' = 1
  BY <1>1 DEF NextPost
<1>3. PostsInOrder'
  BY <1>1, <1>2 DEF PostsInOrder, Pending
<1>4. Alone' /\ ClaimsHold'
  BY <1>1 DEF Alone, ClaimsHold, Resting
<1>5. HashesHold'
  <2>1. Hashes \subseteq Ops
    BY DEF Ops
  <2>2. \A o \in Ops : pc'[o] \notin HashWait /\ pc'[o] \notin {"await", "readout", "clear"}
    BY <1>1 DEF HashWait
  <2>3. \A i \in Slots : ~(ready'[i] >= devCounter')
    BY <1>1
  <2> QED BY <2>1, <2>2, <2>3 DEF HashesHold
<1>6. DeviceHolds'
  BY <1>1 DEF DeviceHolds
<1> QED BY <1>3, <1>4, <1>5, <1>6 DEF Inv

LEMMA InitSync == Init => inSync /\ Inv
<1> SUFFICES ASSUME Init PROVE Inv /\ inSync
  OBVIOUS
<1> USE DEF Init
<1>1. current \in Flashers
  BY MailboxAssumption
<1>2. \A op \in Ops : pc[op] = "idle"
  OBVIOUS
<1>3. NextPost = 1
  BY <1>1, <1>2 DEF NextPost
<1>4. PostsInOrder
  BY <1>3 DEF PostsInOrder, Pending
<1>5. Alone /\ ClaimsHold
  BY <1>2 DEF Alone, ClaimsHold, Resting
<1>6. HashesHold
  BY <1>2 DEF HashesHold, HashWait, Ops
<1>7. DeviceHolds
  BY DEF DeviceHolds
<1> QED BY <1>4, <1>5, <1>6, <1>7 DEF Inv

\* The steps that end an operation early, except for a lost acknowledgement.
LEMMA GiveUpInv ==
  ASSUME Typed, Inv, NEW op \in Ops,
         \/ VerifyError(op) \/ DeviceError(op) \/ StubGone(op) \/ AbortSeen(op)
         \/ CounterDesync(op) \/ Stall(op) \/ LinkError(op)
  PROVE  Inv'
<1>1. pc[op] # "bump" /\ ~Resting(op) /\ UNCHANGED <<wordVars, devVars>>
  BY DEF VerifyError, DeviceError, StubGone, AbortSeen, CounterDesync, Stall, LinkError,
         Polling, Resting
<1>2. \E how \in {"verifyError", "failed", "desync"} : Throw(op, how)
  BY DEF VerifyError, DeviceError, StubGone, AbortSeen, CounterDesync, Stall, LinkError
<1> QED BY <1>1, <1>2, ThrowInv

LEMMA NextSync ==
  ASSUME TypeOK, LockInv, SyncInv, [Next]_vars
  PROVE  SyncInv'
<1> SUFFICES ASSUME inSync' PROVE Inv'
  BY DEF SyncInv, Inv
<1>0. Typed
  BY DEF Typed
<1>1. ASSUME NEW f \in Flashers, Boot(f) PROVE Inv'
  BY <1>0, <1>1, BootInv
<1>2. CASE UNCHANGED vars
  <2>1. Inv
    BY <1>2 DEF SyncInv, Inv, vars, envVars
  <2> QED BY <1>2, <2>1, InvKept DEF vars, opVars, flasherVars, wordVars, ctxVars, devVars, jobVars
<1>3. ASSUME NEW op \in Ops,
             \/ StartFlash(op) \/ StartHash(op) \/ HostStep(op) \/ GiveUp(op)
             \/ Abort(op) \/ LinkError(op) \/ LostAck(op)
      PROVE  Inv'
  <2>1. ~LostAck(op)
    BY DEF LostAck
  <2>2. inSync' = inSync
    BY <1>3, <2>1 DEF StartFlash, StartHash, HostStep, GiveUp, Abort, LinkError,
         BeginChunk, AcquireLock, ScanContext, FillHeader, FillPayload, Post, Bump, PollReady,
         PollStatus, ChunkDone, RetryChunk, VerifyError, DeviceError, StubGone, DrainContext,
         FlashDone, AwaitResponse, ReadDigests, ClearReady, AbortSeen, CounterDesync, Stall, envVars
  <2>3. Inv
    BY <2>2 DEF SyncInv, Inv
  <2> QED BY <1>0, <1>3, <2>1, <2>3, HostMoveInv, FillHeaderInv, FillPayloadInv, PostInv, BumpInv,
             HashReadInv, ClearReadyInv, GiveUpInv DEF HostStep, GiveUp
<1>4. CASE DeviceStep \/ BadTransfer \/ WorkBad \/ StubRestart \/ StubExit
  <2>1. ~StubRestart
    BY DEF StubRestart
  <2>2. inSync' = inSync
    BY <1>4, <2>1 DEF DeviceStep, Pickup, Park, Decompress, BadTransfer, WorkDone, WorkBad,
         HashDone, LeaveError, StubExit, envVars
  <2>3. Inv
    BY <2>2 DEF SyncInv, Inv
  <2> QED BY <1>0, <1>4, <2>1, <2>3, PickupInv, DecompressInv, DeviceInv DEF DeviceStep
<1> QED BY <1>1, <1>2, <1>3, <1>4 DEF Next

\* No step replaces or clears a posted word that the device has not reached.
LEMMA PostKept ==
  ASSUME TypeOK, LockInv, SyncInv, [Next]_vars, inSync, inSync', booted' = booted,
         NEW i \in Slots, ready[i] # 0, ready'[i] # ready[i]
  PROVE  ready'[i] = 0 /\ ready[i] < devCounter
<1>0. Typed /\ Inv
  BY DEF Typed, SyncInv, Inv
<1>1. ASSUME NEW op \in Ops, Post(op) PROVE FALSE
  BY <1>0, <1>1 DEF Post, WriteReady, Inv, ClaimsHold, Typed, TypeOK, OpType, WordType
<1>2. ASSUME NEW op \in Ops, ClearReady(op) PROVE ready'[i] = 0 /\ ready[i] < devCounter
  BY <1>0, <1>2, RespondedIsPassed DEF ClearReady, TypeOK, WordType
<1>3. ASSUME Decompress \/ BadTransfer PROVE ready'[i] = 0 /\ ready[i] < devCounter
  BY <1>0, <1>3 DEF Decompress, BadTransfer, Inv, DeviceHolds, TypeOK, WordType
<1>4. ASSUME NEW f \in Flashers, Boot(f) PROVE FALSE
  BY <1>4 DEF Boot
<1>5. ~StubRestart /\ \A op \in Ops : ~LostAck(op)
  BY DEF StubRestart, LostAck
<1>6. ASSUME NEW op \in Ops, ~Post(op), ~ClearReady(op),
             \/ StartFlash(op) \/ StartHash(op) \/ HostStep(op) \/ GiveUp(op)
             \/ Abort(op) \/ LinkError(op)
      PROVE  FALSE
  BY <1>6 DEF StartFlash, StartHash, HostStep, GiveUp, Abort, LinkError,
         BeginChunk, AcquireLock, ScanContext, FillHeader, FillPayload, Bump, PollReady,
         PollStatus, ChunkDone, RetryChunk, VerifyError, DeviceError, StubGone, DrainContext,
         FlashDone, AwaitResponse, ReadDigests, AbortSeen, CounterDesync, Stall, wordVars
<1>7. ASSUME \/ \E s \in Slots : Pickup(s)
             \/ Park \/ WorkDone \/ WorkBad \/ HashDone \/ LeaveError \/ StubExit
      PROVE  FALSE
  BY <1>7 DEF Pickup, Park, WorkDone, WorkBad, HashDone, LeaveError, StubExit, wordVars
<1>8. ~UNCHANGED vars
  BY DEF vars, wordVars
<1> QED BY <1>1, <1>2, <1>3, <1>4, <1>5, <1>6, <1>7, <1>8 DEF Next, DeviceStep

\* SyncInv, with the types and the lock it rests on, is an invariant.
LEMMA SyncInvariant == Spec => [](TypeOK /\ LockInv /\ SyncInv)
<1>1. Init => TypeOK /\ LockInv /\ SyncInv
  BY InitType, InitSync DEF SyncInv, Inv
<1>2. TypeOK /\ LockInv /\ SyncInv /\ [Next]_vars => TypeOK' /\ LockInv' /\ SyncInv'
  BY NextType, NextSync
<1> QED BY <1>1, <1>2, PTL DEF Spec

\* claimContext's INVARIANT, for every number of contexts, flashers and operations: while the
\* two sides are in step, the host posts consecutive values and each of them stays in exactly
\* one context until the device's counter reaches it.
THEOREM LockstepHolds == Spec => []Lockstep
<1>1. SyncInv => Lockstep
  BY DEF SyncInv, Lockstep
<1> QED BY <1>1, SyncInvariant, PTL

\* No step of any operation replaces or clears a posted READY word that the device has not
\* picked up ("EVERY context the host posts is picked up by the device", mailboxrace.mjs).
THEOREM PostsSurvive == Spec => NoOverwrittenPost
<1> DEFINE Kept == inSync /\ inSync' /\ booted' = booted =>
                     \A i \in Slots : ready[i] # 0 /\ ready'[i] # ready[i] =>
                       ready'[i] = 0 /\ ready[i] < devCounter
<1>1. TypeOK /\ LockInv /\ SyncInv /\ [Next]_vars => [Kept]_vars
  BY PostKept
<1> QED BY <1>1, SyncInvariant, PTL DEF Spec, NoOverwrittenPost

-----------------------------------------------------------------------------
(* DesyncIsProof and NoGarbledDigests.  Both ask who holds a context that  *)
(* the device has passed and whose READY is still set.                     *)

\* A hash request that waits on context i, or died with READY set.
HashKept(i) ==
  \E h \in Hashes :
    slot[h] = i /\ (pc[h] \in HashWait \/ (pc[h] = "done" /\ outcome[h] = "failed"))

\* Every posted hash context has such a request; a flash context that the device has passed
\* is the one it is transferring.
HoldInv ==
  /\ \A i \in Slots : ready[i] # 0 /\ header[i] \in HashJobs => HashKept(i)
  /\ \A i \in Slots : ready[i] # 0 /\ ready[i] < devCounter /\ header[i] \notin HashJobs =>
       mode = "off" \/ (mode = "decompress" /\ cur = i)

\* The response in a hash request's context is the response to that request.
DigestInv ==
  /\ mode = "hash" => place = header[cur]
  /\ \A h \in Hashes : pc[h] \in HashWait \cup {"payload", "post"} => header[slot[h]] = JobOf(h)
  /\ \A h \in Hashes : pc[h] \in HashWait /\ responded[slot[h]] => payload[slot[h]] = JobOf(h)

Holders == inSync => HoldInv /\ DigestInv

\* op ends, or moves without touching a word: it holds no context before or after, or dies
\* holding one.
LEMMA MoveHold ==
  ASSUME HoldInv, DigestInv, NEW op \in Ops, pc[op] # "done",
         UNCHANGED <<ready, responded, header, payload, mode, cur, place, devCounter>>,
         \A o \in Ops \ {op} : /\ pc'[o] = pc[o] /\ slot'[o] = slot[o]
                               /\ chunk'[o] = chunk[o] /\ outcome'[o] = outcome[o],
         pc'[op] \notin HashWait \cup {"payload", "post"},
         op \in Hashes /\ pc[op] \in HashWait =>
           pc'[op] = "done" /\ outcome'[op] = "failed" /\ slot'[op] = slot[op]
  PROVE  HoldInv' /\ DigestInv'
<1> Hashes \subseteq Ops
  BY DEF Ops
<1>1. ASSUME NEW i \in Slots, HashKept(i) PROVE HashKept(i)'
  <2>1. PICK h \in Hashes :
          slot[h] = i /\ (pc[h] \in HashWait \/ (pc[h] = "done" /\ outcome[h] = "failed"))
    BY <1>1 DEF HashKept
  <2>2. CASE h = op
    BY <2>1, <2>2 DEF HashKept
  <2>3. CASE h # op
    <3>1. h \in Ops \ {op}
      BY <2>3
    <3> QED BY <2>1, <3>1 DEF HashKept
  <2> QED BY <2>2, <2>3
<1>2. HoldInv'
  BY <1>1 DEF HoldInv
<1>3. DigestInv'
  <2>1. ASSUME NEW h \in Hashes, pc'[h] \in HashWait \cup {"payload", "post"}
        PROVE  pc'[h] = pc[h] /\ slot'[h] = slot[h] /\ JobOf(h)' = JobOf(h)
    <3>1. h \in Ops \ {op}
      BY <2>1
    <3> QED BY <3>1 DEF JobOf
  <2> QED BY <2>1 DEF DigestInv
<1> QED BY <1>2, <1>3

\* Nothing this speaks of changes.
LEMMA HoldKept ==
  ASSUME HoldInv, DigestInv,
         UNCHANGED <<pc, slot, chunk, outcome, ready, responded, header, payload,
                     mode, cur, place, devCounter>>
  PROVE  HoldInv' /\ DigestInv'
BY DEF HoldInv, HashKept, DigestInv, JobOf

LEMMA HostMoveHold ==
  ASSUME Typed, Inv, HoldInv, DigestInv, NEW op \in Ops,
         \/ StartFlash(op) \/ StartHash(op) \/ BeginChunk(op) \/ AcquireLock(op)
         \/ ScanContext(op) \/ PollReady(op) \/ PollStatus(op) \/ ChunkDone(op)
         \/ RetryChunk(op) \/ DrainContext(op) \/ FlashDone(op)
  PROVE  HoldInv' /\ DigestInv'
<1>1. /\ UNCHANGED <<ready, responded, header, payload, mode, cur, place, devCounter>>
      /\ pc[op] \notin HashWait \cup {"done"}
  BY DEF StartFlash, StartHash, BeginChunk, AcquireLock, ScanContext,
         PollReady, PollStatus, ChunkDone, RetryChunk, DrainContext, FlashDone, HashWait,
         wordVars, ctxVars, devVars, jobVars
<1>2. /\ \A o \in Ops \ {op} : /\ pc'[o] = pc[o] /\ slot'[o] = slot[o]
                               /\ chunk'[o] = chunk[o] /\ outcome'[o] = outcome[o]
      /\ pc'[op] \notin HashWait \cup {"payload", "post"}
  <2> USE DEF Goto, Typed, TypeOK, OpType, HashWait
  <2>1. CASE StartFlash(op) \/ StartHash(op) \/ BeginChunk(op)
    BY <2>1 DEF StartFlash, StartHash, BeginChunk, Enqueue
  <2>2. CASE AcquireLock(op)
    BY <2>2 DEF AcquireLock
  <2>3. CASE ScanContext(op)
    BY <2>3 DEF ScanContext
  <2>4. CASE PollReady(op) \/ PollStatus(op)
    BY <2>4 DEF PollReady, PollStatus
  <2>5. CASE ChunkDone(op)
    BY <2>5 DEF ChunkDone
  <2>6. CASE RetryChunk(op)
    BY <2>6 DEF RetryChunk
  <2>7. CASE DrainContext(op) \/ FlashDone(op)
    BY <2>7 DEF DrainContext, FlashDone, Finish
  <2> QED BY <2>1, <2>2, <2>3, <2>4, <2>5, <2>6, <2>7
<1> QED BY <1>1, <1>2, MoveHold

LEMMA GiveUpHold ==
  ASSUME Typed, Inv, HoldInv, DigestInv, NEW op \in Ops,
         \/ VerifyError(op) \/ DeviceError(op) \/ StubGone(op) \/ AbortSeen(op)
         \/ CounterDesync(op) \/ Stall(op) \/ LinkError(op)
  PROVE  HoldInv' /\ DigestInv'
<1>1. pc[op] # "done" /\ UNCHANGED <<wordVars, devVars>>
  BY DEF VerifyError, DeviceError, StubGone, AbortSeen, CounterDesync, Stall, LinkError, Polling
<1>2. \E how \in {"verifyError", "failed", "desync"} :
        Throw(op, how) /\ (pc[op] \in HashWait => how = "failed")
  BY DEF VerifyError, DeviceError, StubGone, AbortSeen, CounterDesync, Stall, LinkError, HashWait
<1>3. /\ \A o \in Ops : pc'[o] = IF o = op THEN "done" ELSE pc[o]
      /\ \A o \in Ops \ {op} : outcome'[o] = outcome[o]
      /\ pc[op] \in HashWait => outcome'[op] = "failed"
      /\ UNCHANGED <<slot, chunk>>
  BY <1>2 DEF Throw, Finish, Goto, Typed, TypeOK, OpType
<1>4. pc'[op] \notin HashWait \cup {"payload", "post"} /\ pc'[op] = "done"
  BY <1>3 DEF HashWait
<1> QED BY <1>1, <1>3, <1>4, MoveHold DEF wordVars, ctxVars, devVars, jobVars

\* A fill goes to a context that is free, hence that of no waiting hash request.
LEMMA FillHold ==
  ASSUME Typed, Inv, HoldInv, DigestInv, NEW op \in Ops, FillHeader(op) \/ FillPayload(op)
  PROVE  HoldInv' /\ DigestInv'
<1> DEFINE s == slot[op]
<1> USE DEF flasherVars, devVars, jobVars
<1> Hashes \subseteq Ops
  BY DEF Ops
<1>0. /\ pc[op] \in {"header", "payload"} /\ Holds(op) /\ ready[s] = 0 /\ s \in Slots
      /\ UNCHANGED <<slot, chunk, outcome, ready, mode, cur, place, devCounter>>
  BY DEF FillHeader, FillPayload, Inv, ClaimsHold, Typed, TypeOK, OpType, Holds, Critical
<1>1. /\ \A o \in Ops \ {op} : pc'[o] = pc[o]
      /\ pc'[op] \in {"payload", "post"}
  BY DEF FillHeader, FillPayload, Goto, Typed, TypeOK, OpType
<1>2. /\ op \in Hashes => header'[s] = JobOf(op)
      /\ \A i \in Slots \ {s} : /\ header'[i] = header[i] /\ responded'[i] = responded[i]
                                /\ payload'[i] = payload[i]
  <2>1. CASE FillHeader(op)
    BY <1>0, <2>1 DEF FillHeader, Typed, TypeOK, WordType
  <2>2. CASE FillPayload(op)
    BY <1>0, <2>2 DEF FillPayload, Typed, TypeOK, WordType, DigestInv
  <2> QED BY <2>1, <2>2
<1>3. ASSUME NEW h \in Hashes, pc'[h] \in HashWait
      PROVE  h # op /\ pc[h] \in HashWait /\ slot[h] \in Slots \ {s}
  <2>1. h # op /\ pc[h] \in HashWait
    BY <1>1, <1>3 DEF HashWait
  <2>2. ready[slot[h]] # 0 /\ slot[h] \in Slots
    BY <2>1 DEF Inv, HashesHold, Typed, TypeOK, OpType
  <2> QED BY <1>0, <2>1, <2>2
<1>4. HoldInv'
  <2>1. ASSUME NEW i \in Slots, HashKept(i) PROVE HashKept(i)'
    <3>1. PICK h \in Hashes :
            slot[h] = i /\ (pc[h] \in HashWait \/ (pc[h] = "done" /\ outcome[h] = "failed"))
      BY <2>1 DEF HashKept
    <3>2. h # op
      BY <1>0, <3>1 DEF HashWait
    <3> QED BY <1>0, <1>1, <3>1, <3>2 DEF HashKept
  <2> QED BY <1>0, <1>2, <2>1 DEF HoldInv
<1>5. DigestInv'
  <2>1. ASSUME NEW h \in Hashes, pc'[h] \in HashWait \cup {"payload", "post"}
        PROVE  header'[slot[h]] = JobOf(h)
    <3>1. CASE h = op
      BY <1>2, <3>1
    <3>2. CASE h # op /\ pc'[h] \in HashWait
      BY <1>2, <1>3, <3>2 DEF DigestInv
    <3>3. CASE h # op /\ pc'[h] \in {"payload", "post"}
      BY <1>0, <1>1, <3>3, OthersOut
    <3> QED BY <2>1, <3>1, <3>2, <3>3
  <2>2. mode = "hash" => cur \in Slots \ {s}
    BY <1>0 DEF Inv, DeviceHolds, Typed, TypeOK, DeviceType
  <2> QED BY <1>0, <1>1, <1>2, <1>3, <2>1, <2>2 DEF DigestInv, JobOf
<1> QED BY <1>4, <1>5

\* A post makes a hash request the keeper of the context it has filled.
LEMMA PostHold ==
  ASSUME Typed, Inv, HoldInv, DigestInv, NEW op \in Ops, Post(op)
  PROVE  HoldInv' /\ DigestInv'
<1> DEFINE s == slot[op]
<1> USE DEF Post, flasherVars, ctxVars, devVars, jobVars
<1> Hashes \subseteq Ops
  BY DEF Ops
<1>0. /\ pc[op] = "post" /\ s \in Slots /\ ready[s] = 0 /\ Owner[op] = current
      /\ header[s] \in HashJobs => op \in Hashes
      /\ op \in Hashes => ~responded[s]
      /\ pc'[op] = "bump" /\ \A o \in Ops \ {op} : pc'[o] = pc[o]
  BY DEF Inv, ClaimsHold, Alone, Resting, Typed, TypeOK, OpType, Goto
<1>1. ready'[s] >= devCounter /\ \A i \in Slots \ {s} : ready'[i] = ready[i]
  <2>1. \A o \in Ops : pc[o] # "bump"
    BY <1>0, OthersOut DEF Holds, Critical
  <2>2. counter[current] \in Nat /\ devCounter \in Nat
    BY DEF Typed, TypeOK, FlasherType, DeviceType
  <2>3. devCounter <= counter[current]
    BY <2>1, <2>2 DEF Inv, PostsInOrder, NextPost
  <2> QED BY <1>0, <2>3 DEF WriteReady, Typed, TypeOK, WordType
<1>2. HoldInv'
  <2>1. ASSUME NEW i \in Slots, HashKept(i) PROVE HashKept(i)'
    <3>1. PICK h \in Hashes :
            slot[h] = i /\ (pc[h] \in HashWait \/ (pc[h] = "done" /\ outcome[h] = "failed"))
      BY <2>1 DEF HashKept
    <3>2. h # op
      BY <1>0, <3>1 DEF HashWait
    <3> QED BY <1>0, <3>1, <3>2 DEF HashKept
  <2>2. header[s] \in HashJobs => HashKept(s)'
    BY <1>0 DEF HashKept, HashWait
  <2>3. ~(ready'[s] < devCounter)
    <3>1. ready'[s] \in Nat /\ devCounter \in Nat
      BY <1>0, NextType DEF Typed, TypeOK, WordType, DeviceType, FlasherType, WriteReady
    <3> QED BY <1>1, <3>1
  <2> QED BY <1>1, <2>1, <2>2, <2>3 DEF HoldInv
<1>3. DigestInv'
  <2>1. ASSUME NEW h \in Hashes, pc'[h] \in HashWait \cup {"payload", "post"}
        PROVE  /\ pc[h] \in HashWait \cup {"payload", "post"}
               /\ pc'[h] \in HashWait => pc[h] \in HashWait \/ ~responded[slot[h]]
    BY <1>0, <2>1
  <2> QED BY <2>1 DEF DigestInv, JobOf
<1> QED BY <1>2, <1>3

\* The keeper moves on with its context, and hands it back in the end.
LEMMA KeeperHold ==
  ASSUME Typed, Inv, HoldInv, DigestInv, NEW op \in Ops,
         Bump(op) \/ AwaitResponse(op) \/ ReadDigests(op) \/ ClearReady(op)
  PROVE  HoldInv' /\ DigestInv'
<1> DEFINE s == slot[op]
<1> USE DEF flasherVars, wordVars, ctxVars, devVars, jobVars
<1> Hashes \subseteq Ops
  BY DEF Ops
<1>0. /\ pc[op] \in HashWait /\ s \in Slots
      /\ pc[op] # "bump" => op \in Hashes
      /\ UNCHANGED <<slot, chunk, responded, header, payload, mode, cur, place, devCounter>>
  BY DEF Bump, AwaitResponse, ReadDigests, ClearReady, HashWait, Inv, HashesHold,
         Typed, TypeOK, OpType
<1>1. /\ \A o \in Ops \ {op} : pc'[o] = pc[o] /\ outcome'[o] = outcome[o]
      /\ pc'[op] \in {"await", "readout", "clear", "done", "wait"}
      /\ ~ClearReady(op) /\ op \in Hashes => pc'[op] \in HashWait /\ UNCHANGED ready
      /\ ~ClearReady(op) => UNCHANGED ready
  BY <1>0 DEF Bump, AwaitResponse, ReadDigests, ClearReady, Goto, HashWait, Typed, TypeOK, OpType
<1>2. ASSUME NEW i \in Slots, HashKept(i), i # s \/ ~ClearReady(op)
      PROVE  HashKept(i)'
  <2>1. PICK h \in Hashes :
          slot[h] = i /\ (pc[h] \in HashWait \/ (pc[h] = "done" /\ outcome[h] = "failed"))
    BY <1>2 DEF HashKept
  <2>2. CASE h = op
    BY <1>0, <1>1, <1>2, <2>1, <2>2 DEF HashKept
  <2>3. CASE h # op
    BY <1>0, <1>1, <2>1, <2>3 DEF HashKept
  <2> QED BY <2>2, <2>3
<1>3. ClearReady(op) => ready'[s] = 0 /\ \A i \in Slots \ {s} : ready'[i] = ready[i]
  BY <1>0 DEF ClearReady, Typed, TypeOK, WordType
<1>4. HoldInv'
  <2>1. ASSUME NEW i \in Slots, ready'[i] # 0
        PROVE  ready'[i] = ready[i] /\ (HashKept(i) => HashKept(i)')
    BY <1>1, <1>2, <1>3, <2>1
  <2> QED BY <1>0, <2>1 DEF HoldInv
<1>5. DigestInv'
  <2>1. ASSUME NEW h \in Hashes, pc'[h] \in HashWait \cup {"payload", "post"}
        PROVE  /\ pc[h] \in HashWait \cup {"payload", "post"}
               /\ pc'[h] \in HashWait => pc[h] \in HashWait
    <3>1. h # op => pc'[h] = pc[h]
      BY <1>1
    <3> QED BY <1>0, <2>1, <3>1
  <2> QED BY <1>0, <2>1 DEF DigestInv, JobOf
<1> QED BY <1>4, <1>5

\* The device answers in the context it has taken.
LEMMA DeviceHold ==
  ASSUME Typed, Inv, HoldInv, DigestInv, DeviceStep \/ BadTransfer \/ WorkBad \/ StubExit
  PROVE  HoldInv' /\ DigestInv'
<1> USE DEF opVars, flasherVars, wordVars, ctxVars, devVars, jobVars, envVars
<1> Hashes \subseteq Ops
  BY DEF Ops
<1>0. /\ cur \in Slots /\ devCounter \in Nat /\ \A i \in Slots : ready[i] \in Nat
      /\ \A o \in Ops : slot[o] \in Slots
  BY DEF Typed, TypeOK, OpType, WordType, DeviceType
<1>1. UNCHANGED <<pc, slot, chunk, outcome, header>>
  BY DEF DeviceStep, Pickup, Park, Decompress, BadTransfer, WorkDone, WorkBad, HashDone,
         LeaveError, StubExit
<1>2. \A i \in Slots : HashKept(i)' <=> HashKept(i)
  BY <1>1 DEF HashKept
<1>3. ASSUME NEW s \in Slots, Pickup(s) PROVE HoldInv' /\ DigestInv'
  <2>1. \A i \in Slots : ready[i] = devCounter => i = s
    BY <1>0, <1>3 DEF Pickup, Matches, Inv, PostsInOrder, Typed, TypeOK, DeviceType
  <2>2. \A i \in Slots : ready[i] < devCounter + 1 => ready[i] < devCounter \/ i = s
    BY <1>0, <2>1
  <2>3. mode = "idle" /\ cur' = s /\ (header[s] \notin HashJobs => mode' = "decompress")
    BY <1>3 DEF Pickup
  <2>4. HoldInv'
    BY <1>1, <1>2, <1>3, <2>2, <2>3 DEF Pickup, HoldInv
  <2> QED BY <1>1, <1>3, <2>4 DEF Pickup, DigestInv, JobOf
<1>4. CASE Decompress \/ BadTransfer
  <2>1. /\ mode = "decompress" /\ mode' # "hash" /\ UNCHANGED <<devCounter, responded, payload>>
        /\ ready'[cur] = 0 /\ \A i \in Slots \ {cur} : ready'[i] = ready[i]
    BY <1>0, <1>4 DEF Decompress, BadTransfer, Typed, TypeOK, WordType
  <2>2. HoldInv'
    BY <1>1, <1>2, <2>1 DEF HoldInv
  <2> QED BY <1>1, <2>1, <2>2 DEF DigestInv, JobOf
<1>5. CASE HashDone
  <2>1. /\ mode = "hash" /\ UNCHANGED <<ready, devCounter>> /\ mode' = "idle"
        /\ payload'[cur] = header[cur]
        /\ \A i \in Slots \ {cur} : payload'[i] = payload[i] /\ responded'[i] = responded[i]
    BY <1>0, <1>5 DEF HashDone, Typed, TypeOK, WordType, DigestInv
  <2>2. HoldInv'
    BY <1>1, <1>2, <2>1 DEF HoldInv
  <2>3. ASSUME NEW h \in Hashes, pc[h] \in HashWait, responded'[slot[h]]
        PROVE  payload'[slot[h]] = JobOf(h)
    <3>1. header[slot[h]] = JobOf(h)
      BY <2>3 DEF DigestInv
    <3> QED BY <1>0, <2>1, <2>3, <3>1 DEF DigestInv
  <2> QED BY <1>1, <2>1, <2>2, <2>3 DEF DigestInv, JobOf
<1>6. CASE Park \/ WorkDone \/ WorkBad \/ LeaveError \/ StubExit
  <2>1. /\ UNCHANGED <<ready, responded, payload, devCounter, cur, place>>
        /\ mode' = "hash" => mode = "hash"
        /\ mode = "decompress" => mode' \in {"decompress", "off"}
        /\ mode = "off" => mode' = "off"
    BY <1>6 DEF Park, WorkDone, WorkBad, LeaveError, StubExit
  <2>2. HoldInv'
    BY <1>1, <1>2, <2>1 DEF HoldInv
  <2> QED BY <1>1, <2>1, <2>2 DEF DigestInv, JobOf
<1> QED BY <1>3, <1>4, <1>5, <1>6 DEF DeviceStep

\* A boot that puts the two sides in step finds no context held.
LEMMA BootHold ==
  ASSUME Typed, NEW f \in Flashers, Boot(f), inSync'
  PROVE  HoldInv' /\ DigestInv'
<1>1. /\ \A i \in Slots : ready'[i] = 0
      /\ \A o \in Ops : pc'[o] \in {"idle", "done"}
      /\ mode' = "idle"
  BY DEF Boot, StubRuns, opVars, Resting
<1>2. Hashes \subseteq Ops
  BY DEF Ops
<1> QED BY <1>1, <1>2 DEF HoldInv, DigestInv, HashWait

\* inSync changes only with a lost acknowledgement, a restart or a boot.
LEMMA HostKeepsSync ==
  ASSUME NEW op \in Ops,
         \/ StartFlash(op) \/ StartHash(op) \/ HostStep(op) \/ GiveUp(op)
         \/ Abort(op) \/ LinkError(op)
  PROVE  inSync' = inSync
BY DEF StartFlash, StartHash, HostStep, GiveUp, Abort, LinkError,
         BeginChunk, AcquireLock, ScanContext, FillHeader, FillPayload, Post, Bump, PollReady,
         PollStatus, ChunkDone, RetryChunk, VerifyError, DeviceError, StubGone, DrainContext,
         FlashDone, AwaitResponse, ReadDigests, ClearReady, AbortSeen, CounterDesync, Stall, envVars

LEMMA DeviceKeepsSync ==
  ASSUME DeviceStep \/ BadTransfer \/ WorkBad \/ StubExit
  PROVE  inSync' = inSync
BY DEF DeviceStep, Pickup, Park, Decompress, BadTransfer, WorkDone, WorkBad, HashDone,
       LeaveError, StubExit, envVars

LEMMA InitHold == Init => Holders
BY DEF Init, Holders, HoldInv, DigestInv, HashWait, Ops

LEMMA NextHold ==
  ASSUME Typed, SyncInv, Holders, [Next]_vars
  PROVE  Holders'
<1> SUFFICES ASSUME inSync' PROVE HoldInv' /\ DigestInv'
  BY DEF Holders
<1>1. ASSUME NEW f \in Flashers, Boot(f) PROVE HoldInv' /\ DigestInv'
  BY <1>1, BootHold
<1>2. CASE UNCHANGED vars
  <2>1. HoldInv /\ DigestInv
    BY <1>2 DEF Holders, vars, envVars
  <2> QED BY <1>2, <2>1, HoldKept DEF vars, opVars, wordVars, ctxVars, devVars, jobVars
<1>3. ASSUME NEW op \in Ops,
             \/ StartFlash(op) \/ StartHash(op) \/ HostStep(op) \/ GiveUp(op)
             \/ Abort(op) \/ LinkError(op) \/ LostAck(op)
      PROVE  HoldInv' /\ DigestInv'
  <2>1. ~LostAck(op)
    BY DEF LostAck
  <2>2. inSync' = inSync
    BY <1>3, <2>1, HostKeepsSync
  <2>3. Inv /\ HoldInv /\ DigestInv
    BY <2>2 DEF SyncInv, Inv, Holders
  <2>4. Abort(op) => HoldInv' /\ DigestInv'
    BY <2>3, HoldKept DEF Abort, wordVars, ctxVars, devVars, jobVars
  <2> QED BY <1>3, <2>1, <2>3, <2>4, HostMoveHold, FillHold, PostHold, KeeperHold, GiveUpHold
          DEF HostStep, GiveUp
<1>4. CASE DeviceStep \/ BadTransfer \/ WorkBad \/ StubRestart \/ StubExit
  <2>1. ~StubRestart
    BY DEF StubRestart
  <2>2. inSync' = inSync
    BY <1>4, <2>1, DeviceKeepsSync
  <2>3. Inv /\ HoldInv /\ DigestInv
    BY <2>2 DEF SyncInv, Inv, Holders
  <2> QED BY <1>4, <2>1, <2>3, DeviceHold
<1> QED BY <1>1, <1>2, <1>3, <1>4 DEF Next

LEMMA HoldersInvariant == Spec => [](Typed /\ SyncInv /\ Holders)
<1>1. Init => Typed /\ SyncInv /\ Holders
  BY InitType, InitSync, InitHold DEF Typed, SyncInv, Inv
<1>2. Typed /\ SyncInv /\ Holders /\ [Next]_vars => (Typed /\ SyncInv /\ Holders)'
  BY NextType, NextSync, NextHold DEF Typed
<1> QED BY <1>1, <1>2, PTL DEF Spec

\* A device that is Quiet and in step has passed every posted value.
LEMMA QuietHasPassed ==
  ASSUME Typed, Inv, Quiet, mode # "off", NEW s \in Slots, ready[s] # 0
  PROVE  mode = "idle" /\ ready[s] < devCounter
<1>0. ready[s] \in Nat /\ devCounter \in Nat \ {0} /\ NextPost \in Nat \ {0}
  BY NextPostType DEF Typed, TypeOK, WordType, DeviceType
<1>1. mode = "idle" /\ \A i \in Slots : ready[i] # devCounter
  BY DEF Quiet, Matches
<1>2. ASSUME ready[s] >= devCounter PROVE FALSE
  <2>1. devCounter \in Pending
    BY <1>0, <1>2 DEF Inv, PostsInOrder, Pending
  <2> QED BY <1>1, <2>1 DEF Inv, PostsInOrder
<1> QED BY <1>0, <1>1, <1>2

\* CounterDesync alone gives the verdict.
LEMMA OnlyDesync ==
  ASSUME Typed, Next, NEW op \in Ops, outcome'[op] = "desync", outcome[op] # "desync"
  PROVE  CounterDesync(op)
<1>0. outcome \in [Ops -> {"none", "ok", "garbled", "failed", "verifyError", "desync"}]
  BY DEF Typed, TypeOK, OpType
<1>1. ASSUME NEW o \in Ops,
             \/ StartFlash(o) \/ StartHash(o) \/ HostStep(o) \/ GiveUp(o)
             \/ Abort(o) \/ LinkError(o) \/ LostAck(o)
      PROVE  CounterDesync(op)
  BY <1>0, <1>1 DEF StartFlash, StartHash, HostStep, GiveUp, Abort, LinkError, LostAck, Throw,
         BeginChunk, AcquireLock, ScanContext, FillHeader, FillPayload, Post, Bump, PollReady,
         PollStatus, ChunkDone, RetryChunk, VerifyError, DeviceError, StubGone, DrainContext,
         FlashDone, AwaitResponse, ReadDigests, ClearReady, AbortSeen, CounterDesync, Stall,
         Finish
<1>2. CASE DeviceStep \/ BadTransfer \/ WorkBad \/ StubRestart \/ StubExit
           \/ \E f \in Flashers : Boot(f)
  BY <1>2 DEF DeviceStep, Pickup, Park, Decompress, BadTransfer, WorkDone, WorkBad, HashDone,
         LeaveError, StubRestart, StubExit, Boot, opVars
<1> QED BY <1>1, <1>2 DEF Next

\* A hash request that reads its context reads the response to it.
LEMMA OwnDigests ==
  ASSUME Typed, SyncInv, Holders, inSync, NoGarbledDigests, NEW op \in Ops,
         \/ StartFlash(op) \/ StartHash(op) \/ HostStep(op) \/ GiveUp(op)
         \/ Abort(op) \/ LinkError(op)
  PROVE  NoGarbledDigests'
<1> Hashes \subseteq Ops
  BY DEF Ops
<1>0. outcome \in [Ops -> {"none", "ok", "garbled", "failed", "verifyError", "desync"}]
  BY DEF Typed, TypeOK, OpType
<1>1. CASE ReadDigests(op)
  <2>1. op \in Hashes /\ payload[slot[op]] = JobOf(op)
    BY <1>1 DEF ReadDigests, SyncInv, HashesHold, Holders, DigestInv, HashWait
  <2> QED BY <1>0, <1>1, <2>1 DEF ReadDigests, NoGarbledDigests
<1>2. CASE ~ReadDigests(op)
  <2>1. outcome' = outcome
        \/ \E how \in {"ok", "failed", "verifyError", "desync"} : outcome' = [outcome EXCEPT ![op] = how]
    BY <1>2 DEF StartFlash, StartHash, HostStep, GiveUp, Abort, LinkError, Throw,
         BeginChunk, AcquireLock, ScanContext, FillHeader, FillPayload, Post, Bump, PollReady,
         PollStatus, ChunkDone, RetryChunk, VerifyError, DeviceError, StubGone, DrainContext,
         FlashDone, AwaitResponse, ClearReady, AbortSeen, CounterDesync, Stall,
         Finish
  <2> QED BY <1>0, <2>1 DEF NoGarbledDigests
<1> QED BY <1>1, <1>2

\* The desync verdict of waitForContextComplete is a proof, for every number of operations,
\* contexts and faults: the two counters disagree, the stub no longer runs, or a hash request
\* died holding the context.
THEOREM VerdictIsProof == Spec => DesyncIsProof
<1> DEFINE Proof ==
      \A op \in Ops : outcome'[op] = "desync" /\ outcome[op] # "desync" =>
        ~inSync \/ mode = "off" \/ Leaked(slot[op])
<1>1. ASSUME Typed, SyncInv, Holders, Next PROVE Proof
  <2> SUFFICES ASSUME NEW op \in Ops, outcome'[op] = "desync", outcome[op] # "desync",
                      inSync, mode # "off"
               PROVE  Leaked(slot[op])
    OBVIOUS
  <2>1. CounterDesync(op)
    BY <1>1, OnlyDesync
  <2>2. Inv /\ HoldInv
    BY <1>1 DEF SyncInv, Inv, Holders
  <2>3. slot[op] \in Slots /\ ready[slot[op]] # 0 /\ Quiet
    BY <1>1, <2>1 DEF CounterDesync, Typed, TypeOK, OpType
  <2>4. mode = "idle" /\ ready[slot[op]] < devCounter
    BY <1>1, <2>2, <2>3, QuietHasPassed
  <2>5. HashKept(slot[op])
    BY <2>2, <2>3, <2>4 DEF HoldInv
  <2> QED BY <2>1, <2>5 DEF CounterDesync, HashKept, HashWait, Leaked
<1>2. Typed /\ SyncInv /\ Holders /\ [Next]_vars => [Proof]_vars
  BY <1>1
<1> QED BY <1>2, HoldersInvariant, PTL DEF Spec, DesyncIsProof

\* What keeps the two sides in step for good: one stub boot, and no fault that sets the
\* counters apart.
Undisturbed == Flashers = {FirstFlasher} /\ Faults \subseteq {"linkError", "stubExit"}

InStep == inSync /\ booted = Flashers /\ faults \subseteq Faults

\* Nothing disturbs the two sides then.
LEMMA NoDisturbance ==
  ASSUME Undisturbed, InStep
  PROVE  ~StubRestart /\ (\A op \in Ops : ~LostAck(op)) /\ \A f \in Flashers : ~Boot(f)
BY DEF StubRestart, LostAck, Boot, Fault, Undisturbed, InStep

LEMMA StaysInStep ==
  ASSUME Undisturbed, InStep, [Next]_vars
  PROVE  InStep'
<1>1. CASE UNCHANGED vars
  BY <1>1 DEF InStep, vars, flasherVars, envVars
<1>2. ASSUME NEW op \in Ops,
             \/ StartFlash(op) \/ StartHash(op) \/ HostStep(op) \/ GiveUp(op)
             \/ Abort(op) \/ LinkError(op)
      PROVE  InStep'
  <2>1. inSync' = inSync
    BY <1>2, HostKeepsSync
  <2>2. booted' = booted /\ faults' \subseteq faults
    BY <1>2 DEF StartFlash, StartHash, HostStep, GiveUp, Abort, LinkError, Throw,
         BeginChunk, AcquireLock, ScanContext, FillHeader, FillPayload, Post, Bump, PollReady,
         PollStatus, ChunkDone, RetryChunk, VerifyError, DeviceError, StubGone, DrainContext,
         FlashDone, AwaitResponse, ReadDigests, ClearReady, AbortSeen, CounterDesync, Stall,
         Fault, flasherVars, envVars
  <2> QED BY <2>1, <2>2 DEF InStep
<1>3. CASE DeviceStep \/ BadTransfer \/ WorkBad \/ StubExit
  <2>1. inSync' = inSync
    BY <1>3, DeviceKeepsSync
  <2>2. booted' = booted /\ faults' \subseteq faults
    BY <1>3 DEF DeviceStep, Pickup, Park, Decompress, BadTransfer, WorkDone, WorkBad, HashDone,
         LeaveError, StubExit, Fault, flasherVars, envVars
  <2> QED BY <2>1, <2>2 DEF InStep
<1> QED BY <1>1, <1>2, <1>3, NoDisturbance DEF Next

\* Everything shown so far holds of such a link.
StepInv == Typed /\ Inv /\ HoldInv /\ DigestInv /\ FillInv /\ InStep

LEMMA UndisturbedInvariant == ASSUME Undisturbed PROVE Spec => []StepInv
<1>1. Init => FillInv /\ InStep
  BY InitFill, InitSync DEF Init, InStep, Undisturbed
<1>2. ASSUME Typed, FillInv, InStep, [Next]_vars PROVE FillInv' /\ InStep'
  <2>1. CASE UNCHANGED vars
    BY <1>2, <2>1, FillKept, StaysInStep
       DEF vars, opVars, flasherVars, wordVars, ctxVars, devVars, jobVars
  <2>2. CASE Next
    BY <1>2, <2>2, NextFill, StaysInStep, NoDisturbance DEF Typed
  <2> QED BY <1>2, <2>1, <2>2
<1>3. Typed /\ FillInv /\ InStep /\ [Next]_vars => (FillInv /\ InStep)'
  BY <1>2
<1>4. Typed /\ SyncInv /\ Holders /\ FillInv /\ InStep => StepInv
  BY DEF StepInv, SyncInv, Inv, Holders, InStep
<1> QED BY <1>1, <1>3, <1>4, HoldersInvariant, PTL DEF Spec

\* Whatever else is posted, aborted or fails in between, a hash request returns the digests of
\* its own region, for every number of requests and contexts.
THEOREM DigestsAreOwn ==
  ASSUME Undisturbed
  PROVE  Spec => []NoGarbledDigests
<1>1. Init => NoGarbledDigests
  BY DEF Init, NoGarbledDigests, Ops
<1>2. ASSUME StepInv, NoGarbledDigests, [Next]_vars PROVE NoGarbledDigests'
  <2>1. CASE UNCHANGED vars
    BY <1>2, <2>1 DEF vars, opVars, NoGarbledDigests
  <2>2. ASSUME NEW op \in Ops,
               \/ StartFlash(op) \/ StartHash(op) \/ HostStep(op) \/ GiveUp(op)
               \/ Abort(op) \/ LinkError(op)
        PROVE  NoGarbledDigests'
    BY <1>2, <2>2, OwnDigests DEF StepInv, InStep, SyncInv, Inv, Holders
  <2>3. CASE DeviceStep \/ BadTransfer \/ WorkBad \/ StubExit
    <3>1. outcome' = outcome
      BY <2>3 DEF DeviceStep, Pickup, Park, Decompress, BadTransfer, WorkDone, WorkBad, HashDone,
         LeaveError, StubExit, opVars
    <3> QED BY <1>2, <3>1 DEF NoGarbledDigests
  <2>4. ~StubRestart /\ (\A op \in Ops : ~LostAck(op)) /\ \A f \in Flashers : ~Boot(f)
    BY <1>2, NoDisturbance DEF StepInv
  <2> QED BY <1>2, <2>1, <2>2, <2>3, <2>4 DEF Next
<1>3. StepInv /\ NoGarbledDigests /\ [Next]_vars => NoGarbledDigests'
  BY <1>2
<1> QED BY <1>1, <1>3, UndisturbedInvariant, PTL DEF Spec

-----------------------------------------------------------------------------
(* RefinesJobQueue: the contexts that hold the pending values, in the      *)
(* order of the values, are a queue.                                       *)

\* CHOOSE finds the one context that holds a value.
LEMMA OneHolder ==
  ASSUME NEW words, NEW i \in Slots, \A k \in Slots : words[k] = words[i] => k = i
  PROVE  (CHOOSE k \in Slots : words[k] = words[i]) = i
OBVIOUS

\* Two sequences of the same length with the same elements are equal.
LEMMA SameSeq ==
  ASSUME NEW S, NEW a \in Seq(S), NEW b \in Seq(S), Len(a) = Len(b),
         \A k \in 1 .. Len(a) : a[k] = b[k]
  PROVE  a = b
OBVIOUS

\* Each pending value is in one context; the queue is as long as there are pending values, and
\* its elements are what those contexts ask for.
Shape ==
  /\ \A v \in Pending :
       /\ HolderOf(v) \in Slots /\ ready[HolderOf(v)] = v
       /\ \A i \in Slots : ready[i] = v => i = HolderOf(v)
  /\ NextPost - devCounter \in Nat
  /\ Posted \in Seq(Jobs \cup {NoJob}) /\ Len(Posted) = NextPost - devCounter
  /\ \A k \in 1 .. (NextPost - devCounter) :
       /\ devCounter + k - 1 \in Pending
       /\ Posted[k] = header[HolderOf(devCounter + k - 1)]

LEMMA PostedIs == Typed /\ PostsInOrder => Shape
<1> SUFFICES ASSUME Typed, PostsInOrder PROVE Shape
  OBVIOUS
<1> DEFINE n == NextPost - devCounter
<1>1. NextPost \in Nat /\ devCounter \in Nat \ {0} /\ n \in Nat
  BY NextPostType DEF Typed, TypeOK, DeviceType, PostsInOrder
<1>2. ASSUME NEW v \in Pending
      PROVE  /\ HolderOf(v) \in Slots /\ ready[HolderOf(v)] = v
             /\ \A i \in Slots : ready[i] = v => i = HolderOf(v)
  <2>1. PICK i \in Slots : ready[i] = v
    BY DEF PostsInOrder
  <2>2. v # 0
    BY <1>1 DEF Pending
  <2>3. \A k \in Slots : ready[k] = ready[i] => k = i
    BY <2>1, <2>2 DEF PostsInOrder
  <2>4. HolderOf(v) = i
    BY <2>1, <2>3, OneHolder DEF HolderOf
  <2> QED BY <2>1, <2>3, <2>4
<1>3. \A k \in 1 .. n : devCounter + k - 1 \in Pending
  BY <1>1 DEF Pending
<1>4. ASSUME NEW k \in 1 .. n
      PROVE  header[HolderOf(devCounter + k - 1)] \in Jobs \cup {NoJob}
  <2>1. HolderOf(devCounter + k - 1) \in Slots
    BY <1>2, <1>3
  <2> QED BY <2>1 DEF Typed, TypeOK, WordType
<1>5. Posted \in [1 .. n -> Jobs \cup {NoJob}]
  BY <1>4 DEF Posted
<1>6. Posted \in Seq(Jobs \cup {NoJob}) /\ Len(Posted) = n
  BY <1>1, <1>5
<1> QED BY <1>1, <1>2, <1>3, <1>6 DEF Posted, Shape

LEMMA PostedIsNext == Typed' /\ PostsInOrder' => Shape'
BY PostedIs, PTL

\* The queue stays while the pending values stay, and their contexts with them.
LEMMA SameQueue ==
  ASSUME Shape, Shape', NextPost' = NextPost, devCounter' = devCounter,
         \A i \in Slots : ready[i] \in Pending => ready'[i] = ready[i] /\ header'[i] = header[i]
  PROVE  Posted' = Posted
<1> DEFINE n == NextPost - devCounter
<1>1. ASSUME NEW k \in 1 .. n PROVE Posted'[k] = Posted[k]
  <2> DEFINE v == devCounter + k - 1
             i == HolderOf(v)
  <2>1. v \in Pending /\ i \in Slots /\ ready[i] = v /\ Posted[k] = header[i]
    BY DEF Shape
  <2>2. v \in Pending' /\ Posted'[k] = header'[HolderOf(v)']
    BY DEF Shape
  <2>3. HolderOf(v)' = i
    BY <2>1, <2>2 DEF Shape
  <2> QED BY <2>1, <2>2, <2>3
<1>2. Len(Posted) = n /\ Len(Posted') = n
  BY DEF Shape
<1> QED BY <1>1, <1>2, SameSeq DEF Shape

\* The host posts one value at a time, and the queue has room for it: the pending values are
\* in different contexts, none of which is the one just claimed.
LEMMA PostHasRoom ==
  ASSUME Typed, PostsInOrder, NEW s \in Slots, ready[s] = 0
  PROVE  NextPost - devCounter < N_CONTEXTS
<1> DEFINE H == [v \in Pending |-> HolderOf(v)]
<1>0. N_CONTEXTS \in Nat \ {0} /\ NextPost \in Nat /\ devCounter \in Nat \ {0} /\ devCounter <= NextPost
  BY NextPostType, MailboxAssumption DEF Typed, TypeOK, DeviceType, PostsInOrder
<1>1. ASSUME NEW v \in Pending PROVE HolderOf(v) \in Slots \ {s}
  <2>1. v # 0
    BY <1>0 DEF Pending
  <2> QED BY <2>1, PostedIs DEF Shape
<1>2. ASSUME NEW v \in Pending, NEW w \in Pending, HolderOf(v) = HolderOf(w) PROVE v = w
  BY <1>2, PostedIs DEF Shape
<1>3. H \in Injection(Pending, Slots \ {s})
  BY <1>1, <1>2 DEF Injection, IsInjective
<1>4. IsFiniteSet(Slots) /\ Cardinality(Slots) = N_CONTEXTS
  BY <1>0, FS_Interval DEF Slots
<1>5. IsFiniteSet(Slots \ {s}) /\ Cardinality(Slots \ {s}) = N_CONTEXTS - 1
  BY <1>4, FS_RemoveElement
<1>6. Cardinality(Pending) <= N_CONTEXTS - 1
  BY <1>3, <1>5, FS_Injection
<1>7. Cardinality(Pending) = IF devCounter > NextPost - 1 THEN 0 ELSE NextPost - devCounter
  <2>1. Cardinality(devCounter .. (NextPost - 1)) =
          IF devCounter > NextPost - 1 THEN 0 ELSE NextPost - 1 - devCounter + 1
    BY <1>0, FS_Interval
  <2> QED BY <1>0, <2>1 DEF Pending
<1> QED BY <1>0, <1>6, <1>7

\* A post appends the job its claimant has filled in.
LEMMA QueuePost ==
  ASSUME StepInv, StepInv', NEW op \in Ops, Post(op)
  PROVE  Queue!Enqueue(JobOf(op))
<1> DEFINE s == slot[op]
           n == NextPost - devCounter
<1> USE DEF StepInv, Post, flasherVars, ctxVars, devVars, jobVars
<1>0. /\ pc[op] = "post" /\ Holds(op) /\ s \in Slots /\ ready[s] = 0
      /\ pc'[op] = "bump" /\ \A o \in Ops \ {op} : pc'[o] = pc[o]
      /\ Owner[op] = current /\ header[s] = JobOf(op)
  BY DEF FillInv, FillsHold, Alone, Resting, Typed, TypeOK, OpType, Goto, Holds, Critical
<1>1. NextPost = counter[current] /\ NextPost' = NextPost + 1 /\ NextPost \in Nat \ {0}
  <2>1. \A o \in Ops : pc[o] # "bump"
    BY <1>0, OthersOut
  <2>2. counter[current] \in Nat \ {0}
    BY DEF Typed, TypeOK, FlasherType
  <2> QED BY <1>0, <2>1, <2>2 DEF NextPost
<1>2. ready'[s] = NextPost /\ \A i \in Slots \ {s} : ready'[i] = ready[i]
  BY <1>0, <1>1 DEF WriteReady, Typed, TypeOK, WordType
<1>3. devCounter \in Nat \ {0} /\ n \in Nat
  BY PostedIs DEF Inv, Shape, Typed, TypeOK, DeviceType
<1>4. JobOf(op) \in Jobs
  BY DEF JobOf, Jobs, Typed, TypeOK, OpType
<1>5. /\ Posted \in Seq(Jobs \cup {NoJob}) /\ Len(Posted) = n
      /\ Posted' \in Seq(Jobs \cup {NoJob}) /\ Len(Posted') = n + 1
  <2>1. Posted' \in Seq(Jobs \cup {NoJob}) /\ Len(Posted') = NextPost' - devCounter'
    BY PostedIsNext DEF Inv, Shape
  <2> QED BY <1>1, <1>3, <2>1, PostedIs DEF Inv, Shape
<1>6. ASSUME NEW k \in 1 .. (n + 1)
      PROVE  Posted'[k] = Append(Posted, JobOf(op))[k]
  <2> DEFINE v == devCounter + k - 1
  <2>1. Posted'[k] = header[HolderOf(v)'] /\ v \in Pending'
    <3>1. k \in 1 .. (NextPost' - devCounter')
      BY <1>1, <1>3
    <3> QED BY <3>1, PostedIsNext DEF Inv, Shape
  <2>2. CASE k = n + 1
    <3>1. v = NextPost
      BY <1>1, <1>3, <2>2
    <3>2. HolderOf(v)' = s
      BY <1>0, <1>2, <2>1, <3>1, PostedIsNext DEF Inv, Shape
    <3> QED BY <1>0, <1>3, <1>5, <2>1, <2>2, <3>2
  <2>3. CASE k # n + 1
    <3>1. k \in 1 .. n
      BY <1>3, <2>3
    <3>2. /\ v \in Pending /\ HolderOf(v) \in Slots /\ ready[HolderOf(v)] = v
          /\ Posted[k] = header[HolderOf(v)]
      BY <3>1, PostedIs DEF Inv, Shape
    <3>3. HolderOf(v) # s
      BY <1>0, <1>3, <3>2 DEF Pending
    <3>4. HolderOf(v)' = HolderOf(v)
      BY <1>2, <2>1, <3>2, <3>3, PostedIsNext DEF Inv, Shape
    <3> QED BY <1>4, <1>5, <2>1, <3>1, <3>2, <3>4
  <2> QED BY <2>2, <2>3
<1>7. Posted' = Append(Posted, JobOf(op))
  <2>1. /\ Append(Posted, JobOf(op)) \in Seq(Jobs \cup {NoJob})
        /\ Len(Append(Posted, JobOf(op))) = n + 1
    BY <1>4, <1>5
  <2> QED BY <1>5, <1>6, <2>1, SameSeq
<1>8. Working' = Working
  BY DEF Working
<1>9. Len(Posted) < N_CONTEXTS
  BY <1>0, <1>5, PostHasRoom DEF Inv
<1> QED BY <1>7, <1>8, <1>9 DEF Queue!Enqueue

\* The device takes the oldest job.
LEMMA QueueTake ==
  ASSUME StepInv, StepInv', NEW s \in Slots, Pickup(s)
  PROVE  Queue!Take
<1> DEFINE n == NextPost - devCounter
<1> USE DEF StepInv, Pickup, opVars, flasherVars, ctxVars
<1>1. NextPost' = NextPost /\ devCounter' = devCounter + 1 /\ ready[s] = devCounter
  BY DEF NextPost, Matches
<1>2. devCounter \in Nat \ {0} /\ NextPost \in Nat /\ n \in Nat /\ n > 0
  BY <1>1, NextPostType, PostedIs DEF Inv, Shape, PostsInOrder, Typed, TypeOK, DeviceType
<1>3. /\ Posted \in Seq(Jobs \cup {NoJob}) /\ Len(Posted) = n
      /\ Posted' \in Seq(Jobs \cup {NoJob}) /\ Len(Posted') = n - 1
  <2>1. Posted' \in Seq(Jobs \cup {NoJob}) /\ Len(Posted') = NextPost' - devCounter'
    BY PostedIsNext DEF Inv, Shape
  <2> QED BY <1>1, <1>2, <2>1, PostedIs DEF Inv, Shape
<1>4. Posted # << >> /\ Head(Posted) = header[s]
  <2>1. 1 \in 1 .. n /\ devCounter + 1 - 1 = devCounter
    BY <1>2
  <2>2. devCounter \in Pending /\ Posted[1] = header[HolderOf(devCounter)]
    BY <2>1, PostedIs DEF Inv, Shape
  <2>3. HolderOf(devCounter) = s
    BY <1>1, <2>2, PostedIs DEF Inv, Shape
  <2> QED BY <1>2, <1>3, <2>2, <2>3
<1>5. Posted' = Tail(Posted)
  <2>1. Tail(Posted) \in Seq(Jobs \cup {NoJob}) /\ Len(Tail(Posted)) = n - 1
    BY <1>2, <1>3
  <2>2. ASSUME NEW k \in 1 .. (n - 1) PROVE Posted'[k] = Tail(Posted)[k]
    <3>1. k + 1 \in 1 .. n /\ k \in 1 .. (NextPost' - devCounter')
      BY <1>1, <1>2
    <3>2. Posted[k + 1] = header[HolderOf(devCounter + (k + 1) - 1)]
      BY <3>1, PostedIs DEF Inv, Shape
    <3>3. Posted'[k] = header'[HolderOf(devCounter + k - 1)']
      BY <3>1, PostedIsNext DEF Inv, Shape
    <3>4. devCounter' + k - 1 = devCounter + (k + 1) - 1
      BY <1>1, <1>2
    <3>5. Posted'[k] = Posted[k + 1]
      BY <3>2, <3>3, <3>4 DEF HolderOf
    <3> QED BY <1>2, <1>3, <2>1, <3>5
  <2> QED BY <1>3, <2>1, <2>2, SameSeq
<1>6. Working = NoJob /\ Working' = header[s]
  BY DEF Working
<1> QED BY <1>4, <1>5, <1>6 DEF Queue!Take

\* No step of a link in step touches a pending value, but for its pickup.
LEMMA PendingStays ==
  ASSUME StepInv, TypeOK, LockInv, SyncInv, [Next]_vars, inSync, inSync', booted' = booted,
         NEW i \in Slots, ready[i] \in Pending
  PROVE  ready'[i] = ready[i] /\ ready[i] # 0
<1>1. ready[i] # 0 /\ ~(ready[i] < devCounter)
  BY DEF StepInv, Typed, TypeOK, WordType, DeviceType, Pending
<1> QED BY <1>1, PostKept

\* NextPost counts posts, not bumps.
LEMMA OnlyPostsCount ==
  ASSUME Typed, Inv, NEW op \in Ops, ~Post(op),
         \/ StartFlash(op) \/ StartHash(op) \/ HostStep(op) \/ GiveUp(op)
         \/ Abort(op) \/ LinkError(op)
  PROVE  NextPost' = NextPost
<1>1. CASE Bump(op)
  <2>1. /\ pc[op] = "bump" /\ Holds(op) /\ Owner[op] = current /\ current' = current
        /\ pc'[op] # "bump" /\ \A o \in Ops \ {op} : pc'[o] = pc[o]
    BY <1>1 DEF Bump, Inv, Alone, Resting, Typed, TypeOK, OpType, Goto, Holds, Critical
  <2>2. \A o \in Ops : pc'[o] # "bump"
    BY <2>1, OthersOut
  <2>3. counter[current] \in Nat /\ counter'[current] = counter[current] + 1
    BY <1>1, <2>1 DEF Bump, Typed, TypeOK, FlasherType
  <2> QED BY <2>1, <2>2, <2>3 DEF NextPost
<1>2. CASE ~Bump(op)
  <2>1. UNCHANGED <<counter, current>>
    BY <1>2 DEF StartFlash, StartHash, HostStep, GiveUp, Abort, LinkError, Throw,
         BeginChunk, AcquireLock, ScanContext, FillHeader, FillPayload, PollReady,
         PollStatus, ChunkDone, RetryChunk, VerifyError, DeviceError, StubGone, DrainContext,
         FlashDone, AwaitResponse, ReadDigests, ClearReady, AbortSeen, CounterDesync, Stall, flasherVars
  <2>2. \A o \in Ops : pc'[o] = "bump" <=> pc[o] = "bump"
    BY <1>2 DEF StartFlash, StartHash, HostStep, GiveUp, Abort, LinkError, Throw,
         BeginChunk, AcquireLock, ScanContext, FillHeader, FillPayload, PollReady,
         PollStatus, ChunkDone, RetryChunk, VerifyError, DeviceError, StubGone, DrainContext,
         FlashDone, AwaitResponse, ReadDigests, ClearReady, AbortSeen, CounterDesync, Stall,
         Enqueue, Finish, Goto, Polling, Typed, TypeOK, OpType
  <2> QED BY <2>1, <2>2, NextPostKept
<1> QED BY <1>1, <1>2

\* Every other step leaves the queue alone, and ends the active job or leaves it alone.
LEMMA QueueKeeps ==
  ASSUME StepInv, StepInv', Next, \A op \in Ops : ~Post(op), \A s \in Slots : ~Pickup(s),
         ~StubRestart, \A op \in Ops : ~LostAck(op), \A f \in Flashers : ~Boot(f)
  PROVE  Queue!Finish \/ UNCHANGED <<Posted, Working>>
<1> USE DEF StepInv
<1>0. /\ TypeOK /\ LockInv /\ SyncInv /\ inSync /\ inSync' /\ booted' = booted
      /\ Shape /\ Shape'
  BY PostedIs, PostedIsNext DEF Typed, SyncInv, Inv, InStep
<1>1. CASE DeviceStep \/ BadTransfer \/ WorkBad \/ StubExit
  <2>1. /\ UNCHANGED <<pc, counter, current, devCounter, header>>
        /\ mode' \in {"decompress", "work", "hash"} =>
             mode \in {"decompress", "work", "hash"} /\ place' = place
    BY <1>1 DEF DeviceStep, Park, Decompress, BadTransfer, WorkDone, WorkBad, HashDone,
         LeaveError, StubExit, opVars, flasherVars, ctxVars, wordVars, devVars, jobVars
  <2>2. NextPost' = NextPost
    BY <2>1, NextPostKept
  <2>3. Posted' = Posted
    BY <1>0, <2>1, <2>2, PendingStays, SameQueue
  <2>4. Working' = NoJob \/ Working' = Working
    BY <2>1 DEF Working
  <2> QED BY <2>3, <2>4 DEF Queue!Finish
<1>2. ASSUME NEW op \in Ops,
             \/ StartFlash(op) \/ StartHash(op) \/ HostStep(op) \/ GiveUp(op)
             \/ Abort(op) \/ LinkError(op)
      PROVE  UNCHANGED <<Posted, Working>>
  <2>1. UNCHANGED <<devCounter, mode, place>>
    BY <1>2 DEF StartFlash, StartHash, HostStep, GiveUp, Abort, LinkError, Throw,
         BeginChunk, AcquireLock, ScanContext, FillHeader, FillPayload, Post, Bump, PollReady,
         PollStatus, ChunkDone, RetryChunk, VerifyError, DeviceError, StubGone, DrainContext,
         FlashDone, AwaitResponse, ReadDigests, ClearReady, AbortSeen, CounterDesync, Stall, devVars, jobVars
  <2>2. NextPost' = NextPost
    BY <1>2, OnlyPostsCount
  <2>3. \A i \in Slots : header'[i] = header[i] \/ ready[i] = 0
    BY <1>2 DEF StartFlash, StartHash, HostStep, GiveUp, Abort, LinkError, Throw,
         BeginChunk, AcquireLock, ScanContext, FillHeader, FillPayload, Post, Bump, PollReady,
         PollStatus, ChunkDone, RetryChunk, VerifyError, DeviceError, StubGone, DrainContext,
         FlashDone, AwaitResponse, ReadDigests, ClearReady, AbortSeen, CounterDesync, Stall, wordVars, ctxVars,
         FillInv, FillsHold, Typed, TypeOK, OpType, WordType
  <2>4. Posted' = Posted
    BY <1>0, <2>1, <2>2, <2>3, PendingStays, SameQueue
  <2> QED BY <2>1, <2>4 DEF Working
<1> QED BY <1>1, <1>2 DEF Next

LEMMA InitQueue == Init => Queue!Init
<1> SUFFICES ASSUME Init PROVE Posted = << >> /\ Working = NoJob
  BY DEF Queue!Init
<1>1. NextPost = 1 /\ devCounter = 1
  BY MailboxAssumption DEF Init, NextPost
<1>2. 1 .. (NextPost - devCounter) = {}
  BY <1>1
<1> QED BY <1>2 DEF Posted, Working, Init

LEMMA QueueStep ==
  ASSUME Undisturbed, StepInv, StepInv', [Next]_vars
  PROVE  [Queue!Next]_<<Posted, Working>>
<1>1. CASE UNCHANGED vars
  BY <1>1 DEF Posted, HolderOf, NextPost, Working, vars, opVars, flasherVars, wordVars, ctxVars,
     devVars, jobVars
<1>2. ASSUME NEW op \in Ops, Post(op) PROVE Queue!Next
  <2>1. JobOf(op) \in Jobs
    BY DEF JobOf, Jobs, StepInv, Typed, TypeOK, OpType
  <2> QED BY <1>2, <2>1, QueuePost DEF Queue!Next
<1>3. ASSUME NEW s \in Slots, Pickup(s) PROVE Queue!Next
  BY <1>3, QueueTake DEF Queue!Next
<1>4. CASE Next /\ (\A op \in Ops : ~Post(op)) /\ \A s \in Slots : ~Pickup(s)
  BY <1>4, QueueKeeps, NoDisturbance DEF Queue!Next, StepInv
<1> QED BY <1>1, <1>2, <1>3, <1>4

\* As long as one stub runs and no acknowledgement is lost, the mailbox is a queue: jobs are
\* worked on one at a time, in the order in which they were posted, each of them once, whatever
\* number of operations share it and whichever of them fails.
THEOREM MailboxIsQueue ==
  ASSUME Undisturbed
  PROVE  Spec => RefinesJobQueue
<1>1. StepInv /\ StepInv' /\ [Next]_vars => [Queue!Next]_<<Posted, Working>>
  BY QueueStep
<1> QED BY <1>1, InitQueue, UndisturbedInvariant, PTL DEF Spec, RefinesJobQueue, Queue!Spec

-----------------------------------------------------------------------------
(* SuccessMeansVerified: what flash() concludes from READY and STATUS when *)
(* nobody else uses the mailbox.                                           *)

\* No two operations share a stub, and no stub is booted under a running operation.
OneAtATime ==
  /\ ~OverlapBoot /\ Hashes = {}
  /\ \A a, b \in Ops : Owner[a] = Owner[b] => a = b

Passed == devCounter = NextPost
InFlight == mode \in {"decompress", "work"}
Settled == Passed /\ mode \in {"idle", "off"}
Waiting == {"bump", "wait", "check", "idleWait"}
Draining == {"drain", "drainCheck", "drainIdle"}
Verified(op, n) == \A c \in 1 .. n : flash[<<op, c>>] = <<op, c>>

\* The chunks before the current one are verified, and what the device has or will get to work
\* on is the current one.
ChunkHolds(op) ==
  /\ Verified(op, chunk[op] - 1)
  /\ InFlight => place = JobOf(op)
  /\ \A i \in Slots : ready[i] \in Pending => header[i] = JobOf(op)

\* The context waited for is the last one posted; once the device has passed it, an idle
\* STATUS tells that its chunk is verified.
WaitHolds(op) ==
  /\ ready[slot[op]] = NextPost - 1 \/ (ready[slot[op]] = 0 /\ Passed)
  /\ pc[op] = "idleWait" => ready[slot[op]] = 0
  /\ Passed /\ (status = "IDLE" \/ mode = "idle") =>
       flash[JobOf(op)] = JobOf(op) /\ mode \in {"idle", "off"}

SoloOp(op) ==
  /\ pc[op] = "idle" => Settled
  /\ pc[op] \notin Draining \cup {"idle", "done"} => ChunkHolds(op)
  /\ pc[op] \in Waiting => WaitHolds(op)
  /\ pc[op] \in Draining => Settled /\ Verified(op, Chunks)

\* STATUS reads busy while the device works, and names an error while it is in ERROR.
StatusHolds == (InFlight => status = "BUSY") /\ (mode = "error" => status # "IDLE")

Solo == StatusHolds /\ \A op \in Ops : Owner[op] = current => SoloOp(op)

\* Operations of a stub that is not booted yet have not begun.
NotYet == current \in booted /\ \A op \in Ops : Owner[op] \notin booted => pc[op] = "idle"

\* A chunk that leaves the waits leaves nothing behind for the device.
LEMMA NothingPends ==
  ASSUME Typed, Passed
  PROVE  Pending = {}
BY NextPostType DEF Passed, Pending, Typed, TypeOK, DeviceType

\* A wait for IDLE that ends has seen its chunk verified.
LEMMA WaitedPassed ==
  ASSUME Typed, PostsInOrder, NEW op \in Ops, SoloOp(op), pc[op] = "idleWait", status = "IDLE"
  PROVE  Settled /\ flash[JobOf(op)] = JobOf(op) /\ Verified(op, chunk[op] - 1)
<1>1. NextPost \in Nat \ {0} /\ devCounter \in Nat \ {0}
  BY NextPostType DEF Typed, TypeOK, DeviceType
<1>2. WaitHolds(op) /\ ChunkHolds(op)
  BY DEF SoloOp, Waiting, Draining
<1>3. Passed
  BY <1>1, <1>2 DEF WaitHolds, PostsInOrder, Passed
<1> QED BY <1>2, <1>3 DEF WaitHolds, ChunkHolds, Settled

\* The steps of the one operation that runs.
LEMMA HostSolo ==
  ASSUME Typed, Inv, FillInv, Solo, OneAtATime, NEW op \in Ops,
         \/ StartFlash(op) \/ StartHash(op) \/ HostStep(op) \/ GiveUp(op)
         \/ Abort(op) \/ LinkError(op)
  PROVE  Solo'
<1>0. /\ UNCHANGED <<current, mode, status, place, devCounter, flash>>
      /\ op \notin Hashes /\ Owner[op] = current
  <2>1. UNCHANGED <<current, mode, status, place, devCounter, flash>>
    BY DEF StartFlash, StartHash, HostStep, GiveUp, Abort, LinkError, Throw,
         BeginChunk, AcquireLock, ScanContext, FillHeader, FillPayload, Post, Bump, PollReady,
         PollStatus, ChunkDone, RetryChunk, VerifyError, DeviceError, StubGone, DrainContext,
         FlashDone, AwaitResponse, ReadDigests, ClearReady, AbortSeen, CounterDesync, Stall, flasherVars, wordVars, devVars, jobVars
  <2>2. ~Resting(op) \/ StartFlash(op) \/ StartHash(op)
    BY DEF StartFlash, StartHash, HostStep, GiveUp, Abort, LinkError, Throw,
         BeginChunk, AcquireLock, ScanContext, FillHeader, FillPayload, Post, Bump, PollReady,
         PollStatus, ChunkDone, RetryChunk, VerifyError, DeviceError, StubGone, DrainContext,
         FlashDone, AwaitResponse, ReadDigests, ClearReady, AbortSeen, CounterDesync, Stall, Resting, Polling
  <2> QED BY <2>1, <2>2 DEF OneAtATime, Inv, Alone, StartFlash, StartHash
<1>1. SUFFICES SoloOp(op)'
  BY <1>0 DEF Solo, StatusHolds, InFlight, OneAtATime
<1>2. SoloOp(op) /\ Typed /\ pc[op] \in PCs /\ slot[op] \in Slots /\ chunk[op] \in 0 .. Chunks
  BY <1>0 DEF Solo, Typed, TypeOK, OpType
<1> USE DEF Goto, SoloOp, Waiting, Draining, ChunkHolds, WaitHolds, Settled, InFlight, Passed,
            Verified, JobOf
<1>3. CASE Post(op)
  <2> USE DEF Post, flasherVars, ctxVars
  <2>1. pc[op] = "post" /\ ready[slot[op]] = 0 /\ header[slot[op]] = JobOf(op)
    BY <1>3 DEF FillInv, FillsHold
  <2>2. pc'[op] = "bump" /\ UNCHANGED <<slot, chunk, header, counter>>
        /\ \A o \in Ops \ {op} : pc'[o] = pc[o]
    BY <1>2, <1>3 DEF TypeOK, OpType, Typed
  <2>3. NextPost = counter[current] /\ NextPost' = NextPost + 1 /\ NextPost \in Nat
        /\ devCounter \in Nat /\ devCounter <= NextPost
    <3>1. \A o \in Ops : pc[o] # "bump"
      BY <2>1, OthersOut DEF Holds, Critical
    <3>2. counter[current] \in Nat /\ devCounter \in Nat
      BY DEF Typed, TypeOK, FlasherType, DeviceType
    <3> QED BY <1>0, <2>2, <3>1, <3>2 DEF NextPost, Inv, PostsInOrder
  <2>4. ready'[slot[op]] = NextPost /\ \A i \in Slots \ {slot[op]} : ready'[i] = ready[i]
    BY <1>0, <1>2, <1>3, <2>3 DEF WriteReady, Typed, TypeOK, WordType
  <2>5. ~Passed'
    BY <1>0, <2>3
  <2>6. ChunkHolds(op)
    BY <1>2, <2>1
  <2>7. ASSUME NEW i \in Slots, ready'[i] \in Pending' PROVE header'[i] = JobOf(op)
    <3>1. i # slot[op] => ready[i] \in Pending
      BY <1>0, <2>3, <2>4, <2>7 DEF Pending, Inv, PostsInOrder, Typed, TypeOK, WordType
    <3> QED BY <2>1, <2>2, <2>6, <3>1
  <2>8. ready'[slot'[op]] = NextPost' - 1
    BY <2>2, <2>3, <2>4
  <2> QED BY <1>0, <2>2, <2>5, <2>6, <2>7, <2>8
<1>4. CASE ~Post(op)
  <2>1. NextPost' = NextPost /\ Pending' = Pending
    BY <1>0, <1>4, OnlyPostsCount DEF Pending
  <2>2. UNCHANGED ready
    <3>1. ~ClearReady(op)
      BY <1>0 DEF ClearReady, Inv, HashesHold
    <3> QED BY <1>4, <3>1 DEF StartFlash, StartHash, HostStep, GiveUp, Abort, LinkError, Throw,
         BeginChunk, AcquireLock, ScanContext, FillHeader, FillPayload, Bump, PollReady,
         PollStatus, ChunkDone, RetryChunk, VerifyError, DeviceError, StubGone, DrainContext,
         FlashDone, AwaitResponse, ReadDigests, AbortSeen, CounterDesync, Stall, wordVars
  <2>3. CASE StartFlash(op)
    <3>1. pc'[op] = "chunk" /\ chunk'[op] = 1 /\ header' = header /\ Pending = {}
      BY <1>2, <2>3, NothingPends DEF StartFlash, Typed, TypeOK, OpType, wordVars, ctxVars
    <3> QED BY <1>0, <1>2, <2>1, <2>3, <3>1 DEF StartFlash
  <2>4. CASE BeginChunk(op) \/ AcquireLock(op) \/ ScanContext(op) \/ FillPayload(op) \/ RetryChunk(op)
    <3>1. /\ pc[op] \notin Draining \cup {"idle", "done"}
          /\ pc'[op] \notin Draining \cup Waiting \cup {"idle", "done"}
          /\ UNCHANGED <<chunk, header>>
      BY <1>2, <2>4 DEF BeginChunk, AcquireLock, ScanContext, FillPayload, RetryChunk, Enqueue,
         Typed, TypeOK, OpType, wordVars, ctxVars
    <3> QED BY <1>0, <1>2, <2>1, <2>2, <3>1
  <2>5. CASE FillHeader(op)
    <3>1. /\ pc[op] = "header" /\ pc'[op] = "payload" /\ UNCHANGED chunk
          /\ \A i \in Slots : header'[i] = header[i] \/ ready[i] = 0
      BY <1>0, <1>2, <2>5 DEF FillHeader, Typed, TypeOK, OpType, WordType, FillInv, FillsHold
    <3>2. 0 \notin Pending
      BY NextPostType DEF Pending, Typed, TypeOK, DeviceType
    <3> QED BY <1>0, <1>2, <2>1, <2>2, <3>1, <3>2
  <2>6. CASE Bump(op) \/ PollReady(op) \/ (PollStatus(op) /\ pc[op] = "check")
    <3>1. /\ pc[op] \in Waiting \ {"idleWait"} /\ pc'[op] \in Waiting
          /\ pc'[op] = "idleWait" => ready[slot[op]] = 0
          /\ UNCHANGED <<chunk, header, slot>>
      BY <1>0, <1>2, <2>6 DEF Bump, PollReady, PollStatus, Typed, TypeOK, OpType, wordVars, ctxVars
    <3> QED BY <1>0, <1>2, <2>1, <2>2, <3>1
  <2>7. CASE ChunkDone(op)
    <3>1. pc[op] = "idleWait" /\ status = "IDLE" /\ header' = header
      BY <2>7 DEF ChunkDone, wordVars, ctxVars
    <3>2. Settled /\ flash[JobOf(op)] = JobOf(op) /\ Verified(op, chunk[op] - 1)
      BY <1>2, <3>1, WaitedPassed DEF Inv
    <3>3. Verified(op, chunk[op])
      BY <1>2, <3>2
    <3>4. Pending = {}
      BY <1>2, <3>2, NothingPends
    <3>5. CASE chunk[op] < Chunks
      <4>1. pc'[op] = "chunk" /\ chunk'[op] = chunk[op] + 1
        BY <1>2, <2>7, <3>5 DEF ChunkDone, Typed, TypeOK, OpType
      <4>2. chunk'[op] - 1 = chunk[op]
        BY <1>2, <4>1
      <4> QED BY <1>0, <2>1, <3>2, <3>3, <3>4, <4>1, <4>2
    <3>6. CASE ~(chunk[op] < Chunks)
      <4>1. pc'[op] = "drain" /\ chunk[op] = Chunks
        BY <1>2, <2>7, <3>6, MailboxAssumption DEF ChunkDone, Typed, TypeOK, OpType
      <4> QED BY <1>0, <2>1, <3>2, <3>3, <4>1
    <3> QED BY <3>5, <3>6
  <2>8. CASE DrainContext(op) \/ (PollStatus(op) /\ pc[op] # "check")
    <3>1. pc[op] \in Draining /\ pc'[op] \in Draining
      BY <1>2, <2>8 DEF DrainContext, PollStatus, Typed, TypeOK, OpType
    <3> QED BY <1>0, <1>2, <2>1, <3>1
  <2>9. CASE pc'[op] = "done"
    BY <2>9
  <2>10. CASE Abort(op)
    <3>1. UNCHANGED <<pc, slot, chunk, header>>
      BY <2>10 DEF Abort, wordVars, ctxVars
    <3> QED BY <1>0, <1>2, <2>1, <2>2, <3>1
  <2>11. CASE \/ VerifyError(op) \/ DeviceError(op) \/ StubGone(op) \/ FlashDone(op)
              \/ AbortSeen(op) \/ GiveUp(op) \/ LinkError(op)
    <3>1. pc'[op] = "done"
      BY <1>2, <2>11 DEF VerifyError, DeviceError, StubGone, FlashDone, AbortSeen, GiveUp,
         CounterDesync, Stall, LinkError, Throw, Finish, Typed, TypeOK, OpType
    <3> QED BY <3>1
  <2>12. ~StartHash(op) /\ ~AwaitResponse(op) /\ ~ReadDigests(op) /\ ~ClearReady(op)
    BY <1>0 DEF StartHash, AwaitResponse, ReadDigests, ClearReady, Inv, HashesHold
  <2> QED BY <1>4, <2>3, <2>4, <2>5, <2>6, <2>7, <2>8, <2>10, <2>11, <2>12 DEF HostStep
<1> QED BY <1>3, <1>4

\* A step that leaves the host, the flash and the posted words alone, and neither takes a job
\* nor ends one, can only disturb what is known of an idle STATUS.
LEMMA DeviceMoveSolo ==
  ASSUME Typed, Solo, StatusHolds', UNCHANGED <<opVars, flasherVars, ready, header, place, devCounter>>,
         InFlight' => InFlight,
         mode \in {"idle", "off"} => mode' \in {"idle", "off"},
         UNCHANGED flash \/ mode = "work",
         \A op \in Ops : InFlight /\ Owner[op] = current /\ ~Resting(op) =>
           \A c \in 1 .. (chunk[op] - 1) : flash'[<<op, c>>] = flash[<<op, c>>],
         \A op \in Ops : Passed /\ Owner[op] = current /\ pc[op] \in Waiting
                           /\ ChunkHolds(op) /\ WaitHolds(op)
                           /\ (status' = "IDLE" \/ mode' = "idle") =>
           flash'[JobOf(op)] = JobOf(op) /\ mode' \in {"idle", "off"}
  PROVE  Solo'
<1> SUFFICES ASSUME NEW op \in Ops, Owner[op] = current PROVE SoloOp(op)'
  BY DEF Solo, flasherVars
<1>1. SoloOp(op)
  BY DEF Solo
<1>2. NextPost' = NextPost /\ UNCHANGED <<pc, slot, chunk>>
  BY DEF NextPost, opVars, flasherVars
<1>3. mode \notin {"idle", "off"} => pc[op] \notin Draining \cup {"idle"}
  BY <1>1 DEF SoloOp, Settled
<1> USE <1>1, <1>2 DEF SoloOp, Passed
<1>4. (pc[op] = "idle" => Settled) /\ (pc[op] \in Draining => Settled /\ Verified(op, Chunks))
  OBVIOUS
<1>5. ASSUME pc[op] \in Draining \cup {"idle"} PROVE UNCHANGED flash /\ Settled'
  BY <1>3, <1>4, <1>5 DEF Settled
<1>6. ASSUME pc[op] \in Draining PROVE Settled' /\ Verified(op, Chunks)'
  BY <1>4, <1>5, <1>6 DEF Verified
<1>7. ASSUME pc[op] \notin Draining \cup {"idle", "done"} PROVE ChunkHolds(op)'
  <2>1. ~Resting(op)
    BY <1>7 DEF Resting
  <2>2. Verified(op, chunk[op] - 1)'
    BY <1>7, <2>1 DEF ChunkHolds, Verified, InFlight
  <2> QED BY <1>7, <2>2 DEF ChunkHolds, JobOf, Pending
<1>8. ASSUME pc[op] \in Waiting PROVE WaitHolds(op)'
  <2>1. ChunkHolds(op) /\ WaitHolds(op)
    BY <1>8 DEF Waiting, Draining
  <2> QED BY <1>8, <2>1 DEF WaitHolds, JobOf
<1> QED BY <1>5, <1>6, <1>7, <1>8

\* The chunks that are done are not the one in hand.
LEMMA DoneChunk ==
  ASSUME OpType, NEW op \in Ops, NEW c \in 1 .. (chunk[op] - 1)
  PROVE  <<op, c>> \in Jobs /\ <<op, c>> # JobOf(op)
<1>1. chunk[op] \in 0 .. Chunks /\ Chunks \in Nat
  BY MailboxAssumption DEF OpType
<1>2. c \in 0 .. Chunks /\ c # chunk[op]
  BY <1>1
<1> QED BY <1>2 DEF Jobs, JobOf

\* What the device writes is the region of the chunk in flight.
LEMMA WorkSolo ==
  ASSUME Typed, FillInv, Solo, WorkDone \/ WorkBad
  PROVE  Solo'
<1> USE DEF WorkDone, WorkBad, wordVars, ctxVars, jobVars, InFlight
<1>1. content = place /\ flash \in [Jobs -> Contents]
  BY DEF FillInv, TransferHolds, Typed, TypeOK, DeviceType
<1>2. ASSUME NEW op \in Ops, Owner[op] = current, ~Resting(op) PROVE place = JobOf(op)
  BY <1>2 DEF Solo, SoloOp, ChunkHolds, Settled, Draining, Resting
<1>3. ASSUME NEW op \in Ops
      PROVE  JobOf(op) \in Jobs
  BY DEF Typed, TypeOK, OpType, JobOf, Jobs
<1>4. ASSUME NEW op \in Ops, Owner[op] = current, ~Resting(op), NEW c \in 1 .. (chunk[op] - 1)
      PROVE  flash'[<<op, c>>] = flash[<<op, c>>]
  <2>1. <<op, c>> \in Jobs /\ <<op, c>> # place
    BY <1>2, <1>4, DoneChunk DEF Typed, TypeOK
  <2> QED BY <1>1, <2>1
<1>5. ASSUME NEW op \in Ops, Owner[op] = current, pc[op] \in Waiting,
             status' = "IDLE" \/ mode' = "idle"
      PROVE  flash'[JobOf(op)] = JobOf(op) /\ mode' \in {"idle", "off"}
  <2>1. place = JobOf(op)
    BY <1>2, <1>5 DEF Resting, Waiting
  <2>2. WorkDone
    BY <1>5
  <2> QED BY <1>1, <1>3, <2>1, <2>2
<1>6. StatusHolds'
  BY DEF StatusHolds
<1> QED BY <1>4, <1>5, <1>6, DeviceMoveSolo

\* A job is taken only for the operation that runs, and STATUS reads busy from then on.
LEMMA PickupSolo ==
  ASSUME Typed, Inv, Solo, OneAtATime, NEW s \in Slots, Pickup(s)
  PROVE  Solo'
<1> USE DEF Pickup, opVars, flasherVars, ctxVars
<1>1. /\ ready[s] = devCounter /\ devCounter' = devCounter + 1 /\ devCounter \in Nat \ {0}
      /\ NextPost \in Nat \ {0} /\ ready[s] < NextPost
  BY NextPostType DEF Matches, Typed, TypeOK, DeviceType, Inv, PostsInOrder
<1>2. ~Passed /\ ready[s] \in Pending
  BY <1>1 DEF Passed, Pending
<1>3. NextPost' = NextPost
  BY DEF NextPost
<1>4. Pending' \subseteq Pending
  BY <1>1, <1>3 DEF Pending
<1>5. mode' = "decompress" /\ status' = "BUSY" /\ place' = header[s]
  BY DEF OneAtATime, HashJobs
<1>6. SUFFICES ASSUME NEW op \in Ops, Owner[op] = current PROVE SoloOp(op)'
  BY <1>5 DEF Solo, StatusHolds, InFlight
<1>7. SoloOp(op) /\ pc[op] \notin Draining \cup {"idle"}
  BY <1>2, <1>6 DEF Solo, SoloOp, Settled
<1>8. ASSUME pc[op] # "done" PROVE ChunkHolds(op)'
  BY <1>2, <1>4, <1>5, <1>7, <1>8 DEF SoloOp, ChunkHolds, Verified, JobOf
<1>9. ASSUME pc[op] \in Waiting PROVE WaitHolds(op)'
  BY <1>2, <1>3, <1>5, <1>7, <1>9 DEF SoloOp, WaitHolds, Passed
<1> QED BY <1>7, <1>8, <1>9 DEF SoloOp

\* A context is released only once its chunk is in the device's hands.
LEMMA ReleaseSolo ==
  ASSUME Typed, Inv, Solo, Decompress \/ BadTransfer
  PROVE  Solo'
<1> USE DEF Decompress, BadTransfer, opVars, flasherVars, ctxVars, jobVars
<1>1. /\ mode = "decompress" /\ status = "BUSY" /\ cur \in Slots
      /\ 0 < ready[cur] /\ ready[cur] < devCounter
      /\ ready'[cur] = 0 /\ \A i \in Slots \ {cur} : ready'[i] = ready[i]
  BY DEF Inv, DeviceHolds, Solo, StatusHolds, InFlight, Typed, TypeOK, DeviceType, WordType
<1>2. NextPost' = NextPost /\ NextPost \in Nat \ {0} /\ devCounter \in Nat \ {0}
      /\ devCounter <= NextPost
  BY NextPostType DEF NextPost, Typed, TypeOK, DeviceType, Inv, PostsInOrder
<1>3. Pending' = Pending /\ 0 \notin Pending
  BY <1>2 DEF Pending
<1>4. SUFFICES ASSUME NEW op \in Ops, Owner[op] = current PROVE SoloOp(op)'
  BY <1>1 DEF Solo, StatusHolds, InFlight
<1>5. SoloOp(op) /\ pc[op] \notin Draining \cup {"idle"} /\ slot[op] \in Slots
  BY <1>1, <1>4 DEF Solo, SoloOp, Settled, Typed, TypeOK, OpType
<1>6. ASSUME pc[op] # "done" PROVE ChunkHolds(op)'
  BY <1>1, <1>3, <1>5, <1>6 DEF SoloOp, ChunkHolds, Verified, JobOf, InFlight
<1>7. ASSUME pc[op] \in Waiting PROVE WaitHolds(op)'
  <2>1. WaitHolds(op)
    BY <1>5, <1>7 DEF SoloOp
  <2>2. ready'[slot[op]] = NextPost - 1 \/ (ready'[slot[op]] = 0 /\ Passed)
    <3>1. CASE slot[op] = cur
      BY <1>1, <1>2, <2>1, <3>1 DEF WaitHolds, Passed, Typed, TypeOK, WordType
    <3>2. CASE slot[op] # cur
      BY <1>1, <1>5, <2>1, <3>2 DEF WaitHolds
    <3> QED BY <3>1, <3>2
  <2>3. pc[op] = "idleWait" => ready'[slot[op]] = 0
    BY <1>1, <1>5, <2>1 DEF WaitHolds
  <2>4. status' # "IDLE" /\ mode' # "idle"
    BY <1>1
  <2> QED BY <1>2, <2>2, <2>3, <2>4 DEF WaitHolds, Passed
<1> QED BY <1>5, <1>6, <1>7 DEF SoloOp

\* The device never holds a passed context without working on it, so that ERROR is left for
\* a context still to be taken.
LEMMA ErrorPends ==
  ASSUME Typed, Inv, HoldInv, Hashes = {}, mode \in {"error", "hash"},
         NEW s \in Slots, ready[s] # 0
  PROVE  ready[s] >= devCounter /\ ~Passed
<1>1. header[s] \notin HashJobs
  BY DEF HashJobs
<1>2. ~(ready[s] < devCounter)
  BY <1>1 DEF HoldInv
<1> QED BY <1>2 DEF Passed, Inv, PostsInOrder, Typed, TypeOK, WordType, DeviceType

\* Every step of the device.
LEMMA DeviceSolo ==
  ASSUME Typed, Inv, HoldInv, FillInv, Solo, OneAtATime,
         DeviceStep \/ BadTransfer \/ WorkBad \/ StubExit
  PROVE  Solo'
<1>1. CASE Park
  <2>1. UNCHANGED <<opVars, flasherVars, ready, header, place, devCounter, mode, flash>> /\ mode = "idle"
    BY <1>1 DEF Park, ctxVars, devVars, jobVars
  <2>2. StatusHolds'
    BY <2>1 DEF StatusHolds, InFlight
  <2> QED BY <2>1, <2>2, DeviceMoveSolo DEF InFlight, WaitHolds
<1>2. CASE LeaveError
  <2>1. /\ UNCHANGED <<opVars, flasherVars, ready, header, place, devCounter, flash>>
        /\ mode = "error" /\ mode' = "idle"
    BY <1>2 DEF LeaveError, ctxVars, jobVars
  <2>2. ~Passed
    BY <1>2, ErrorPends DEF LeaveError, OneAtATime
  <2>3. StatusHolds'
    BY <2>1 DEF StatusHolds, InFlight
  <2> QED BY <2>1, <2>2, <2>3, DeviceMoveSolo DEF InFlight
<1>3. CASE StubExit
  <2>1. /\ UNCHANGED <<opVars, flasherVars, ready, header, place, devCounter, status>>
        /\ mode' = "off" /\ (mode # "work" => flash' = flash)
        /\ mode = "work" => flash' = [flash EXCEPT ![place] = Garbage]
    BY <1>3 DEF StubExit, Interrupt, wordVars, ctxVars, jobVars
  <2>2. StatusHolds' /\ ~InFlight'
    BY <2>1 DEF StatusHolds, InFlight
  <2>3. ASSUME NEW op \in Ops, Owner[op] = current, ~Resting(op), InFlight,
               NEW c \in 1 .. (chunk[op] - 1)
        PROVE  flash'[<<op, c>>] = flash[<<op, c>>]
    <3>1. place = JobOf(op) /\ flash \in [Jobs -> Contents]
      BY <2>3 DEF Solo, SoloOp, ChunkHolds, Settled, Draining, Resting, InFlight,
         Typed, TypeOK, DeviceType
    <3>2. <<op, c>> # place /\ <<op, c>> \in Jobs
      BY <2>3, <3>1, DoneChunk DEF Typed, TypeOK
    <3> QED BY <2>1, <3>1, <3>2
  <2>4. ASSUME NEW op \in Ops, Passed, Owner[op] = current, WaitHolds(op), status = "IDLE"
        PROVE  flash'[JobOf(op)] = JobOf(op)
    <3>1. mode # "work"
      BY <2>4 DEF Solo, StatusHolds, InFlight
    <3> QED BY <2>1, <2>4, <3>1 DEF WaitHolds
  <2> QED BY <2>1, <2>2, <2>3, <2>4, DeviceMoveSolo
<1>4. CASE HashDone
  <2>1. mode = "hash" /\ cur \in Slots /\ ready[cur] # 0 /\ ready[cur] < devCounter
    BY <1>4 DEF HashDone, Inv, DeviceHolds, Typed, TypeOK, DeviceType
  <2>2. ready[cur] >= devCounter
    BY <2>1, ErrorPends DEF OneAtATime
  <2> QED BY <2>1, <2>2 DEF Typed, TypeOK, WordType, DeviceType
<1> QED BY <1>1, <1>2, <1>3, <1>4, PickupSolo, ReleaseSolo, WorkSolo DEF DeviceStep

\* A boot finds the operations of its flasher not begun.
LEMMA BootSolo ==
  ASSUME Typed, NotYet, NEW f \in Flashers, Boot(f), inSync'
  PROVE  Solo'
<1>1. /\ \A o \in Ops : pc'[o] \in {"idle", "done"} /\ (Owner[o] = f => pc'[o] = "idle")
      /\ counter'[f] = 1 /\ current' = f /\ devCounter' = 1 /\ mode' = "idle"
  BY DEF Boot, StubRuns, NotYet, opVars, Resting, Typed, TypeOK, FlasherType
<1>2. NextPost' = 1
  BY <1>1 DEF NextPost
<1>3. StatusHolds' /\ Settled'
  BY <1>1, <1>2 DEF StatusHolds, InFlight, Settled, Passed
<1> QED BY <1>1, <1>3 DEF Solo, SoloOp, Waiting, Draining

\* Operations begin on the stub that runs.
LEMMA NextNotYet ==
  ASSUME Typed, NotYet, [Next]_vars
  PROVE  NotYet'
<1>1. CASE UNCHANGED vars
  BY <1>1 DEF vars, opVars, flasherVars, NotYet
<1>2. ASSUME NEW op \in Ops,
             \/ StartFlash(op) \/ StartHash(op) \/ HostStep(op) \/ GiveUp(op)
             \/ Abort(op) \/ LinkError(op) \/ LostAck(op)
      PROVE  NotYet'
  <2>1. /\ UNCHANGED <<booted, current>>
        /\ UNCHANGED pc \/ \E l : Goto(op, l)
    BY <1>2 DEF StartFlash, StartHash, HostStep, GiveUp, Abort, LinkError, LostAck, Throw,
         BeginChunk, AcquireLock, ScanContext, FillHeader, FillPayload, Post, Bump, PollReady,
         PollStatus, ChunkDone, RetryChunk, VerifyError, DeviceError, StubGone, DrainContext,
         FlashDone, AwaitResponse, ReadDigests, ClearReady, AbortSeen, CounterDesync, Stall,
         Enqueue, Finish, flasherVars
  <2>2. pc[op] # "idle" \/ Owner[op] = current \/ UNCHANGED pc
    BY <1>2 DEF StartFlash, StartHash, HostStep, GiveUp, Abort, LinkError, LostAck,
         BeginChunk, AcquireLock, ScanContext, FillHeader, FillPayload, Post, Bump, PollReady,
         PollStatus, ChunkDone, RetryChunk, VerifyError, DeviceError, StubGone, DrainContext,
         FlashDone, AwaitResponse, ReadDigests, ClearReady, AbortSeen, CounterDesync, Stall, Polling
  <2> QED BY <2>1, <2>2 DEF NotYet, Goto, Typed, TypeOK, OpType
<1>3. CASE DeviceStep \/ BadTransfer \/ WorkBad \/ StubRestart \/ StubExit
  BY <1>3 DEF DeviceStep, Pickup, Park, Decompress, BadTransfer, WorkDone, WorkBad, HashDone,
       LeaveError, StubRestart, StubExit, opVars, flasherVars, NotYet
<1>4. ASSUME NEW f \in Flashers, Boot(f) PROVE NotYet'
  BY <1>4 DEF Boot, opVars, NotYet
<1> QED BY <1>1, <1>2, <1>3, <1>4 DEF Next

\* In step, the device is never silenced by a restart.
LEMMA NotSilent ==
  ASSUME Typed, PostsInOrder, MisplacedInv
  PROVE  FillInv
<1>1. ASSUME Silent PROVE FALSE
  <2>1. NextPost \in Nat /\ 1 \in Pending
    BY <1>1, NextPostType DEF Silent, Pending, Typed
  <2> QED BY <1>1, <2>1 DEF Silent, PostsInOrder
<1> QED BY <1>1 DEF MisplacedInv

SoloInv ==
  Typed /\ SyncInv /\ Holders /\ MisplacedInv /\ NotYet /\ (inSync => Solo)

LEMMA InitSolo == Init => MisplacedInv /\ NotYet /\ Solo
<1> SUFFICES ASSUME Init PROVE NotYet /\ Solo
  BY InitFill DEF MisplacedInv
<1> USE DEF Init
<1>1. current \in Flashers /\ \A op \in Ops : pc[op] = "idle"
  BY MailboxAssumption
<1>2. NextPost = 1
  BY <1>1 DEF NextPost
<1> QED BY <1>1, <1>2
        DEF NotYet, Solo, SoloOp, StatusHolds, InFlight, Settled, Passed, Waiting, Draining

LEMMA NextSolo ==
  ASSUME OneAtATime, SoloInv, [Next]_vars, inSync'
  PROVE  Solo'
<1> USE DEF SoloInv
<1>1. ASSUME NEW f \in Flashers, Boot(f) PROVE Solo'
  BY <1>1, BootSolo
<1>2. CASE UNCHANGED vars
  <2>1. Solo
    BY <1>2 DEF vars, envVars
  <2> QED BY <1>2, <2>1 DEF vars, opVars, flasherVars, wordVars, ctxVars, devVars, jobVars,
          Solo, SoloOp, StatusHolds, InFlight, Settled, Passed, Verified, ChunkHolds, WaitHolds,
          JobOf, Pending, NextPost
<1>3. ASSUME NEW op \in Ops,
             \/ StartFlash(op) \/ StartHash(op) \/ HostStep(op) \/ GiveUp(op)
             \/ Abort(op) \/ LinkError(op) \/ LostAck(op)
      PROVE  Solo'
  <2>1. ~LostAck(op)
    BY DEF LostAck
  <2>2. inSync' = inSync
    BY <1>3, <2>1, HostKeepsSync
  <2>3. Inv
    BY <2>2 DEF SyncInv, Inv
  <2>4. FillInv
    BY <2>3, NotSilent DEF Inv
  <2> QED BY <1>3, <2>1, <2>2, <2>3, <2>4, HostSolo
<1>4. CASE DeviceStep \/ BadTransfer \/ WorkBad \/ StubRestart \/ StubExit
  <2>1. ~StubRestart
    BY DEF StubRestart
  <2>2. inSync' = inSync
    BY <1>4, <2>1, DeviceKeepsSync
  <2>3. Inv /\ HoldInv
    BY <2>2 DEF SyncInv, Inv, Holders
  <2>4. FillInv
    BY <2>3, NotSilent DEF Inv
  <2> QED BY <1>4, <2>1, <2>2, <2>3, <2>4, DeviceSolo
<1> QED BY <1>1, <1>2, <1>3, <1>4 DEF Next

LEMMA SoloInvariant == ASSUME OneAtATime PROVE Spec => []SoloInv
<1>1. Init => SoloInv
  BY InitType, InitSync, InitHold, InitSolo DEF SoloInv, Typed, SyncInv, Inv
<1>2. ASSUME SoloInv, [Next]_vars PROVE SoloInv'
  <2>1. Typed' /\ SyncInv' /\ Holders'
    BY <1>2, NextType, NextSync, NextHold DEF SoloInv, Typed
  <2>2. MisplacedInv' /\ NotYet'
    BY <1>2, NextMisplaced, NextNotYet DEF SoloInv, Typed, OneAtATime
  <2>3. inSync' => Solo'
    BY <1>2, NextSolo
  <2> QED BY <2>1, <2>2, <2>3 DEF SoloInv
<1>3. SoloInv /\ [Next]_vars => SoloInv'
  BY <1>2
<1> QED BY <1>1, <1>3, PTL DEF Spec

\* FlashDone alone lets a flash() succeed.
LEMMA OnlyDone ==
  ASSUME Typed, HashesHold, Next, NEW op \in Flashes, outcome'[op] = "ok", outcome[op] # "ok"
  PROVE  FlashDone(op)
<1>0. /\ outcome \in [Ops -> {"none", "ok", "garbled", "failed", "verifyError", "desync"}]
      /\ op \in Ops /\ op \notin Hashes
  BY MailboxAssumption DEF Typed, TypeOK, OpType, Ops
<1>1. ASSUME NEW o \in Ops,
             \/ StartFlash(o) \/ StartHash(o) \/ HostStep(o) \/ GiveUp(o)
             \/ Abort(o) \/ LinkError(o) \/ LostAck(o)
      PROVE  FlashDone(op)
  <2>1. CASE ReadDigests(o)
    <3>1. o \in Hashes
      BY <2>1 DEF ReadDigests, HashesHold
    <3> QED BY <1>0, <2>1, <3>1 DEF ReadDigests
  <2>2. CASE ~ReadDigests(o)
    BY <1>0, <1>1, <2>2 DEF StartFlash, StartHash, HostStep, GiveUp, Abort, LinkError, LostAck, Throw,
         BeginChunk, AcquireLock, ScanContext, FillHeader, FillPayload, Post, Bump, PollReady,
         PollStatus, ChunkDone, RetryChunk, VerifyError, DeviceError, StubGone, DrainContext,
         FlashDone, AwaitResponse, ClearReady, AbortSeen, CounterDesync, Stall, Finish
  <2> QED BY <2>1, <2>2
<1>2. CASE DeviceStep \/ BadTransfer \/ WorkBad \/ StubRestart \/ StubExit
           \/ \E f \in Flashers : Boot(f)
  BY <1>2 DEF DeviceStep, Pickup, Park, Decompress, BadTransfer, WorkDone, WorkBad, HashDone,
         LeaveError, StubRestart, StubExit, Boot, opVars
<1> QED BY <1>1, <1>2 DEF Next

\* "flash complete (device-verified)", for every number of chunks, contexts, attempts and stub
\* boots, and whichever fault hits: when the one flash() of a stub returns and the two sides
\* are in step, every chunk of it was programmed and verified, though an idle STATUS and a free
\* context are all it has read.
THEOREM SuccessIsVerified ==
  ASSUME OneAtATime
  PROVE  Spec => SuccessMeansVerified
<1> DEFINE Success ==
      \A op \in Flashes :
        outcome'[op] = "ok" /\ outcome[op] # "ok" /\ inSync =>
          \A c \in 1 .. Chunks : flash[<<op, c>>] = <<op, c>>
<1>1. ASSUME SoloInv, [Next]_vars PROVE [Success]_vars
  <2>1. SUFFICES ASSUME Next, NEW op \in Flashes,
                        outcome'[op] = "ok", outcome[op] # "ok", inSync
                 PROVE  \A c \in 1 .. Chunks : flash[<<op, c>>] = <<op, c>>
    BY <1>1
  <2>2. Inv /\ Solo /\ Typed /\ op \in Ops
    BY <1>1, <2>1 DEF SoloInv, SyncInv, Inv, Ops
  <2>3. pc[op] = "drainIdle" /\ Owner[op] = current
    BY <2>1, <2>2, OnlyDone DEF FlashDone, Inv, Alone, Resting
  <2> QED BY <2>2, <2>3 DEF Solo, SoloOp, Draining, Verified
<1>2. SoloInv /\ [Next]_vars => [Success]_vars
  BY <1>1
<1> QED BY <1>2, SoloInvariant, PTL DEF Spec, SuccessMeansVerified

=============================================================================
