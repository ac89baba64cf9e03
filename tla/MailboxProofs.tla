--------------------------- MODULE MailboxProofs ---------------------------
(***************************************************************************)
(* Proofs about Mailbox, for every number of operations, flashers,         *)
(* contexts and chunks, and every choice of faults: the types, the lock of *)
(* claimContext, and that no region gets the bytes of another.             *)
(***************************************************************************)
EXTENDS Mailbox, TLAPS

\* Whoever is past its wait in the promise chain is the head of the chain.
LockInv ==
  \A op \in Ops : Holds(op) =>
    /\ ctxLock[Owner[op]] # << >>
    /\ Head(ctxLock[Owner[op]]) = op

\* The program counters a step of the host may name.
LEMMA Labels ==
  /\ Critical \subseteq PCs /\ Polling \subseteq PCs
  /\ {"idle", "chunk", "queued", "wait", "drain", "readout", "clear", "done"} \subseteq PCs
BY DEF PCs, Critical, Polling

\* The initial state is well typed.
LEMMA InitType == Init => TypeOK /\ LockInv
BY MailboxAssumption
   DEF Init, TypeOK, OpType, FlasherType, WordType, DeviceType, HistoryType, LockInv,
       Slots, Contents, FaultKinds, PCs, Critical, Polling, Holds

\* Removing the head of a queue, or joining it, keeps it a queue of operations; joining a
\* queue that has a head keeps the head.
LEMMA QueueOps ==
  ASSUME NEW S, NEW s \in Seq(S), NEW x \in S
  PROVE  /\ s # << >> => Tail(s) \in Seq(S)
         /\ Append(s, x) \in Seq(S)
         /\ s # << >> => Append(s, x) # << >> /\ Head(Append(s, x)) = Head(s)
<1>1. s # << >> => Tail(s) \in Seq(S)
  OBVIOUS
<1>2. Append(s, x) \in Seq(S)
  OBVIOUS
<1>3. ASSUME s # << >>
      PROVE  Append(s, x) # << >> /\ Head(Append(s, x)) = Head(s)
  <2>1. Len(s) \in Nat /\ Len(s) > 0
    BY <1>3
  <2>2. Len(Append(s, x)) = Len(s) + 1 /\ Append(s, x)[1] = s[1]
    BY <2>1
  <2> QED BY <2>1, <2>2, <1>2
<1> QED BY <1>1, <1>2, <1>3

\* Throw keeps the types of what it changes, and the lock.
LEMMA ThrowType ==
  ASSUME NEW op \in Ops, NEW how \in {"failed", "verifyError", "desync"},
         OpType, FlasherType, LockInv, Throw(op, how)
  PROVE  OpType' /\ FlasherType' /\ LockInv'
<1> USE MailboxAssumption DEF Throw, Finish, Goto
<1>1. OpType'
  BY Labels DEF OpType, PCs, Critical
<1>2. FlasherType'
  <2> Owner[op] \in Flashers
    OBVIOUS
  <2>1. CASE Holds(op)
    <3>1. ctxLock[Owner[op]] \in Seq(Ops) /\ ctxLock[Owner[op]] # << >>
      BY <2>1 DEF FlasherType, LockInv
    <3>2. Tail(ctxLock[Owner[op]]) \in Seq(Ops)
      BY <3>1, QueueOps
    <3>3. ctxLock' = [ctxLock EXCEPT ![Owner[op]] = Tail(ctxLock[Owner[op]])]
      BY <2>1 DEF Release
    <3> QED BY <3>2, <3>3 DEF FlasherType
  <2>2. CASE ~Holds(op)
    BY <2>2 DEF FlasherType
  <2> QED BY <2>1, <2>2
<1>3. LockInv'
  <2> SUFFICES ASSUME NEW o \in Ops, Holds(o)'
               PROVE  ctxLock'[Owner[o]] # << >> /\ Head(ctxLock'[Owner[o]]) = o
    BY DEF LockInv
  <2>1. o # op /\ Holds(o)
    BY DEF Holds, Critical, OpType
  <2>2. CASE Owner[o] = Owner[op]
    <3>1. ~Holds(op)
      BY <2>1, <2>2 DEF LockInv
    <3> QED BY <3>1, <2>1 DEF LockInv
  <2>3. CASE Owner[o] # Owner[op]
    BY <2>1, <2>3 DEF LockInv, Release, FlasherType
  <2> QED BY <2>2, <2>3
<1> QED BY <1>1, <1>2, <1>3

\* A move of op that leaves the queues alone keeps the lock if op is not past its wait
\* afterwards, was so before, or is the head of its queue.
LEMMA LockKept ==
  ASSUME OpType, LockInv, NEW op \in Ops, UNCHANGED ctxLock,
         NEW label \in PCs, Goto(op, label),
         \/ label \notin Critical \/ Holds(op)
         \/ ctxLock[Owner[op]] # << >> /\ Head(ctxLock[Owner[op]]) = op
  PROVE  LockInv'
BY DEF LockInv, Holds, Goto, OpType

\* Release by an operation that leaves the critical section.
LEMMA ReleaseLock ==
  ASSUME OpType, FlasherType, LockInv, NEW op \in Ops, Holds(op), Release(op),
         NEW label \in PCs \ Critical, Goto(op, label)
  PROVE  LockInv' /\ ctxLock' \in [Flashers -> Seq(Ops)]
<1> USE MailboxAssumption
<1>0. Owner[op] \in Flashers
  OBVIOUS
<1>1. ctxLock[Owner[op]] \in Seq(Ops) /\ ctxLock[Owner[op]] # << >>
  BY <1>0 DEF FlasherType, LockInv
<1>2. Tail(ctxLock[Owner[op]]) \in Seq(Ops)
  BY <1>1, QueueOps
<1>3. ctxLock' \in [Flashers -> Seq(Ops)]
  BY <1>2 DEF FlasherType, Release
<1>4. LockInv'
  <2> SUFFICES ASSUME NEW o \in Ops, Holds(o)'
               PROVE  ctxLock'[Owner[o]] # << >> /\ Head(ctxLock'[Owner[o]]) = o
    BY DEF LockInv
  <2>1. o # op /\ Holds(o)
    BY DEF Holds, Goto, OpType
  <2>2. Owner[o] # Owner[op]
    BY <2>1 DEF LockInv
  <2> QED BY <2>1, <2>2 DEF LockInv, Release, FlasherType
<1> QED BY <1>3, <1>4

\* Joining the queue keeps every head.
LEMMA EnqueueLock ==
  ASSUME OpType, FlasherType, LockInv, NEW op \in Ops, ~Holds(op), Enqueue(op)
  PROVE  LockInv' /\ ctxLock' \in [Flashers -> Seq(Ops)]
<1> USE MailboxAssumption
<1>0. Owner[op] \in Flashers /\ ctxLock[Owner[op]] \in Seq(Ops)
  BY DEF FlasherType
<1>1. Append(ctxLock[Owner[op]], op) \in Seq(Ops)
  BY <1>0, QueueOps
<1>2. ctxLock' \in [Flashers -> Seq(Ops)]
  BY <1>1 DEF FlasherType, Enqueue
<1>3. LockInv'
  <2> SUFFICES ASSUME NEW o \in Ops, Holds(o)'
               PROVE  ctxLock'[Owner[o]] # << >> /\ Head(ctxLock'[Owner[o]]) = o
    BY DEF LockInv
  <2>1. Holds(o) /\ ctxLock[Owner[o]] # << >> /\ Head(ctxLock[Owner[o]]) = o
    BY DEF Holds, Enqueue, Goto, OpType, Critical, LockInv
  <2>2. CASE Owner[o] = Owner[op]
    <3>1. ctxLock'[Owner[o]] = Append(ctxLock[Owner[op]], op)
      BY <1>0, <2>2 DEF Enqueue, FlasherType
    <3> QED BY <1>0, <2>1, <2>2, <3>1, QueueOps
  <2>3. CASE Owner[o] # Owner[op]
    BY <2>1, <2>3 DEF Enqueue, FlasherType
  <2> QED BY <2>2, <2>3
<1> QED BY <1>2, <1>3

\* The state an operation's step leaves alone keeps its type.
LEMMA Untouched ==
  /\ WordType /\ UNCHANGED wordVars => WordType'
  /\ DeviceType /\ UNCHANGED devVars => DeviceType'
  /\ HistoryType /\ UNCHANGED envVars => HistoryType'
  /\ FlasherType /\ UNCHANGED flasherVars => FlasherType'
  /\ OpType /\ UNCHANGED opVars => OpType'
  /\ LockInv /\ UNCHANGED <<pc, ctxLock>> => LockInv'
BY DEF WordType, wordVars, ctxVars, DeviceType, devVars, jobVars, HistoryType, envVars,
       FlasherType, flasherVars, OpType, opVars, LockInv, Holds

\* The steps of one operation keep the types and the lock.
LEMMA HostStepType ==
  ASSUME TypeOK, LockInv, NEW op \in Ops, HostStep(op) \/ GiveUp(op)
  PROVE  TypeOK' /\ LockInv'
<1>0. Owner[op] \in Flashers
  BY MailboxAssumption
<1> USE MailboxAssumption, Untouched, Labels DEF TypeOK
<1>1. CASE BeginChunk(op)
  <2>1. ~Holds(op) /\ Enqueue(op)
    BY <1>1 DEF BeginChunk, Holds, Critical
  <2>2. LockInv' /\ ctxLock' \in [Flashers -> Seq(Ops)]
    BY <2>1, EnqueueLock
  <2>3. OpType' /\ FlasherType'
    BY <1>1, <2>2 DEF BeginChunk, Enqueue, Goto, OpType, FlasherType
  <2> QED BY <1>1, <2>2, <2>3 DEF BeginChunk
<1>2. CASE AcquireLock(op)
  <2>1. OpType'
    BY <1>2 DEF AcquireLock, Goto, OpType, Slots, Critical
  <2>2. LockInv'
    BY <1>2, LockKept DEF AcquireLock, flasherVars, Holds, Critical
  <2> QED BY <1>2, <2>1, <2>2 DEF AcquireLock
<1>3. CASE ScanContext(op)
  <2>1. OpType'
    BY <1>3 DEF ScanContext, Goto, OpType, Slots, Critical
  <2>2. LockInv'
    <3>1. CASE ready[slot[op]] = 0
      BY <1>3, <3>1, LockKept DEF ScanContext, flasherVars, Holds, Critical
    <3>2. CASE ready[slot[op]] # 0
      BY <1>3, <3>2 DEF ScanContext, flasherVars
    <3> QED BY <3>1, <3>2
  <2> QED BY <1>3, <2>1, <2>2 DEF ScanContext
<1>4. CASE FillHeader(op)
  <2>1. OpType' /\ WordType'
    BY <1>4 DEF FillHeader, Goto, OpType, WordType, JobOf, Jobs, Critical
  <2>2. LockInv'
    BY <1>4, LockKept DEF FillHeader, flasherVars, Holds, Critical
  <2> QED BY <1>4, <2>1, <2>2 DEF FillHeader
<1>5. CASE FillPayload(op)
  <2>1. OpType' /\ WordType'
    BY <1>5 DEF FillPayload, Goto, OpType, WordType, JobOf, Jobs, Critical
  <2>2. LockInv'
    BY <1>5, LockKept DEF FillPayload, flasherVars, Holds, Critical
  <2> QED BY <1>5, <2>1, <2>2 DEF FillPayload
<1>6. CASE Post(op)
  <2>1. OpType' /\ WordType'
    BY <1>6 DEF Post, WriteReady, Goto, OpType, WordType, FlasherType, ctxVars, Critical
  <2>2. LockInv'
    BY <1>6, LockKept DEF Post, flasherVars, Holds, Critical
  <2> QED BY <1>6, <2>1, <2>2 DEF Post
<1>7. CASE Bump(op)
  <2>1. /\ Holds(op) /\ Release(op)
        /\ Goto(op, "await") \/ Goto(op, "wait")
        /\ {"await", "wait"} \subseteq PCs \ Critical
    BY <1>7 DEF Bump, Holds, Critical, PCs, Polling
  <2>2. LockInv' /\ ctxLock' \in [Flashers -> Seq(Ops)]
    BY <2>1, ReleaseLock
  <2>3. OpType'
    BY <1>7 DEF Bump, Goto, OpType, Polling
  <2>4. counter' \in [Flashers -> Nat \ {0}]
    <3>1. counter[Owner[op]] \in Nat \ {0}
      BY <1>0 DEF FlasherType
    <3>2. counter[Owner[op]] + 1 \in Nat \ {0}
      BY <3>1
    <3>3. counter' = [counter EXCEPT ![Owner[op]] = counter[Owner[op]] + 1]
      BY <1>7 DEF Bump
    <3> QED BY <3>2, <3>3 DEF FlasherType
  <2>5. FlasherType'
    BY <1>7, <2>2, <2>4 DEF Bump, FlasherType
  <2> QED BY <1>7, <2>2, <2>3, <2>5 DEF Bump
<1>8. CASE PollReady(op) \/ PollStatus(op)
  <2>1. OpType'
    BY <1>8 DEF PollReady, PollStatus, Goto, OpType, Polling
  <2>2. \E label \in {"idleWait", "check", "wait", "drain"} : Goto(op, label)
    BY <1>8 DEF PollReady, PollStatus
  <2>3. {"idleWait", "check", "wait", "drain"} \subseteq PCs \ Critical
    BY DEF PCs, Polling, Critical
  <2>4. LockInv'
    BY <1>8, <2>2, <2>3, LockKept DEF PollReady, PollStatus, flasherVars
  <2> QED BY <1>8, <2>1, <2>4 DEF PollReady, PollStatus
<1>9. CASE ChunkDone(op) \/ RetryChunk(op)
  <2>1. OpType'
    BY <1>9 DEF ChunkDone, RetryChunk, Goto, OpType, Slots
  <2>2. Goto(op, "chunk") \/ Goto(op, "drain")
    BY <1>9 DEF ChunkDone, RetryChunk
  <2>3. UNCHANGED ctxLock
    BY <1>9 DEF ChunkDone, RetryChunk, flasherVars
  <2>4. LockInv'
    BY <2>2, <2>3, LockKept DEF Critical
  <2> QED BY <1>9, <2>1, <2>4 DEF ChunkDone, RetryChunk
<1>10. CASE DrainContext(op)
  <2>1. OpType'
    BY <1>10 DEF DrainContext, Goto, OpType, Slots, Polling
  <2>2. UNCHANGED ctxLock /\ ~Holds(op)
    BY <1>10 DEF DrainContext, flasherVars, Holds, Critical
  <2>3. UNCHANGED pc \/ \E label \in PCs \ Critical : Goto(op, label)
    BY <1>10 DEF DrainContext, Critical, Polling
  <2>4. LockInv'
    BY <2>2, <2>3, LockKept, Untouched
  <2> QED BY <1>10, <2>1, <2>4 DEF DrainContext
<1>11. CASE FlashDone(op) \/ AwaitResponse(op) \/ ReadDigests(op)
  <2>1. OpType'
    BY <1>11 DEF FlashDone, AwaitResponse, ReadDigests, Finish, Goto, OpType
  <2>2. LockInv'
    BY <1>11, LockKept DEF FlashDone, AwaitResponse, ReadDigests, Finish, flasherVars, Critical
  <2> QED BY <1>11, <2>1, <2>2 DEF FlashDone, AwaitResponse, ReadDigests
<1>12. CASE ClearReady(op)
  <2>1. OpType' /\ WordType'
    BY <1>12 DEF ClearReady, Goto, OpType, WordType, ctxVars
  <2>2. LockInv'
    BY <1>12, LockKept DEF ClearReady, flasherVars, Holds, Critical
  <2> QED BY <1>12, <2>1, <2>2 DEF ClearReady
<1>13. CASE VerifyError(op) \/ DeviceError(op) \/ StubGone(op) \/ AbortSeen(op)
            \/ CounterDesync(op) \/ Stall(op)
  <2>1. PICK how \in {"failed", "verifyError", "desync"} : Throw(op, how)
    BY <1>13 DEF VerifyError, DeviceError, StubGone, AbortSeen, CounterDesync, Stall
  <2>2. UNCHANGED <<wordVars, devVars, envVars>>
    BY <1>13 DEF VerifyError, DeviceError, StubGone, AbortSeen, CounterDesync, Stall
  <2> QED BY <2>1, <2>2, ThrowType
<1> QED
  BY <1>1, <1>2, <1>3, <1>4, <1>5, <1>6, <1>7, <1>8, <1>9, <1>10, <1>11, <1>12, <1>13
     DEF HostStep, GiveUp

\* What the user starts and what goes wrong on the link keeps the types and the lock.
LEMMA UserStepType ==
  ASSUME TypeOK, LockInv, NEW op \in Ops,
         StartFlash(op) \/ StartHash(op) \/ Abort(op) \/ LinkError(op) \/ LostAck(op)
  PROVE  TypeOK' /\ LockInv'
<1> USE MailboxAssumption, Untouched, Labels DEF TypeOK
<1>1. CASE StartFlash(op)
  <2>1. OpType'
    BY <1>1 DEF StartFlash, Goto, OpType
  <2>2. LockInv'
    BY <1>1, LockKept DEF StartFlash, flasherVars, Critical
  <2> QED BY <1>1, <2>1, <2>2 DEF StartFlash
<1>2. CASE StartHash(op)
  <2>1. ~Holds(op) /\ Enqueue(op)
    BY <1>2 DEF StartHash, Holds, Critical
  <2>2. LockInv' /\ ctxLock' \in [Flashers -> Seq(Ops)]
    BY <2>1, EnqueueLock
  <2>3. OpType' /\ FlasherType'
    BY <1>2, <2>2 DEF StartHash, Enqueue, Goto, OpType, FlasherType
  <2> QED BY <1>2, <2>2, <2>3 DEF StartHash
<1>3. CASE Abort(op)
  <2>1. OpType'
    BY <1>3 DEF Abort, OpType
  <2> QED BY <1>3, <2>1 DEF Abort, flasherVars
<1>4. CASE LinkError(op)
  <2>1. OpType' /\ FlasherType' /\ LockInv'
    BY <1>4, ThrowType DEF LinkError
  <2>2. HistoryType'
    BY <1>4 DEF LinkError, Fault, HistoryType
  <2> QED BY <1>4, <2>1, <2>2 DEF LinkError
<1>5. CASE LostAck(op)
  <2>1. OpType' /\ FlasherType' /\ LockInv'
    BY <1>5, ThrowType DEF LostAck
  <2>2. HistoryType' /\ WordType'
    BY <1>5 DEF LostAck, Fault, HistoryType, WriteReady, WordType, OpType, FlasherType, ctxVars
  <2> QED BY <1>5, <2>1, <2>2 DEF LostAck
<1> QED BY <1>1, <1>2, <1>3, <1>4, <1>5

\* The device's steps and the boots of a stub keep the types and the lock.
LEMMA DeviceStepType ==
  ASSUME TypeOK, LockInv,
         \/ DeviceStep \/ BadTransfer \/ WorkBad \/ StubRestart \/ StubExit
         \/ \E f \in Flashers : Boot(f)
  PROVE  TypeOK' /\ LockInv'
<1> USE MailboxAssumption, Untouched DEF TypeOK
<1>1. ASSUME NEW i \in Slots, Pickup(i)
      PROVE  TypeOK' /\ LockInv'
  <2>1. DeviceType'
    BY <1>1 DEF Pickup, DeviceType, WordType
  <2>2. WordType'
    BY <1>1 DEF Pickup, WordType, ctxVars
  <2> QED BY <1>1, <2>1, <2>2 DEF Pickup, opVars, flasherVars
<1>2. CASE Park \/ LeaveError
  <2>1. DeviceType' /\ WordType'
    BY <1>2 DEF Park, LeaveError, DeviceType, devVars, WordType, ctxVars, jobVars
  <2> QED BY <1>2, <2>1 DEF Park, LeaveError, opVars, flasherVars
<1>3. CASE Decompress
  <2>1. DeviceType' /\ WordType'
    BY <1>3 DEF Decompress, DeviceType, WordType, ctxVars
  <2> QED BY <1>3, <2>1 DEF Decompress, opVars, flasherVars
<1>4. CASE BadTransfer
  <2>1. DeviceType' /\ WordType'
    BY <1>4 DEF BadTransfer, DeviceType, WordType, ctxVars, jobVars
  <2> QED BY <1>4, <2>1 DEF BadTransfer, opVars, flasherVars
<1>5. CASE WorkDone
  <2>1. DeviceType'
    BY <1>5 DEF WorkDone, DeviceType, jobVars, Contents
  <2> QED BY <1>5, <2>1 DEF WorkDone, opVars, flasherVars
<1>6. CASE WorkBad
  <2>1. DeviceType' /\ WordType'
    BY <1>6 DEF WorkBad, DeviceType, WordType, jobVars, ctxVars, Contents
  <2> QED BY <1>6, <2>1 DEF WorkBad, opVars, flasherVars
<1>7. CASE HashDone
  <2>1. DeviceType' /\ WordType'
    BY <1>7 DEF HashDone, DeviceType, WordType, jobVars
  <2> QED BY <1>7, <2>1 DEF HashDone, opVars, flasherVars
<1>8. ASSUME StubRuns
      PROVE  DeviceType' /\ WordType'
  <2>1. flash' \in [Jobs -> Contents]
    BY <1>8 DEF StubRuns, Interrupt, DeviceType, Contents
  <2>2. 0 \in Slots
    BY DEF Slots
  <2>3. ready' \in [Slots -> Nat]
    BY <1>8 DEF StubRuns, WordType
  <2> QED BY <1>8, <2>1, <2>2, <2>3 DEF StubRuns, DeviceType, WordType, ctxVars
<1>9. CASE StubRestart
  <2>1. HistoryType'
    BY <1>9 DEF StubRestart, Fault, HistoryType
  <2> QED BY <1>8, <1>9, <2>1 DEF StubRestart, opVars, flasherVars
<1>10. CASE StubExit
  <2>1. HistoryType' /\ DeviceType'
    BY <1>10 DEF StubExit, Fault, Interrupt, HistoryType, DeviceType, jobVars, Contents
  <2> QED BY <1>10, <2>1 DEF StubExit, opVars, flasherVars
<1>11. ASSUME NEW f \in Flashers, Boot(f)
       PROVE  TypeOK' /\ LockInv'
  <2>1. FlasherType'
    BY <1>11 DEF Boot, FlasherType
  <2>2. HistoryType'
    BY <1>11 DEF Boot, HistoryType
  <2> QED BY <1>8, <1>11, <2>1, <2>2 DEF Boot, opVars
<1> QED BY <1>1, <1>2, <1>3, <1>4, <1>5, <1>6, <1>7, <1>9, <1>10, <1>11 DEF DeviceStep

\* Every step keeps the types and the lock.
LEMMA NextType == TypeOK /\ LockInv /\ [Next]_vars => TypeOK' /\ LockInv'
<1> SUFFICES ASSUME TypeOK, LockInv, [Next]_vars
             PROVE  TypeOK' /\ LockInv'
  OBVIOUS
<1>1. CASE Next
  BY <1>1, HostStepType, UserStepType, DeviceStepType DEF Next
<1>2. CASE UNCHANGED vars
  BY <1>2, Untouched DEF vars, TypeOK, opVars, flasherVars
<1> QED BY <1>1, <1>2

\* Every variable keeps its range in every behaviour.
THEOREM TypeCorrect == Spec => []TypeOK
BY InitType, NextType, PTL DEF Spec

\* ctxLock serialises the claims of one flasher: of its operations at most one is filling a
\* context or posting it, whatever boots, restarts and faults happen.
THEOREM MutualExclusion == Spec => []OneClaimant
<1>1. LockInv => OneClaimant
  BY DEF LockInv, OneClaimant
<1> QED BY <1>1, InitType, NextType, PTL DEF Spec

-----------------------------------------------------------------------------
(* NeverMisplaced.  The device combines words it reads at different times, *)
(* so its proof follows a fill from the free context to the flash.         *)

\* A context being filled is free, and what is in it so far is of one job.
FillsHold ==
  \A op \in Ops :
    /\ pc[op] \in {"header", "payload", "post"} => ready[slot[op]] = 0
    /\ pc[op] \in {"payload", "post"} => header[slot[op]] = JobOf(op)
    /\ pc[op] = "post" /\ op \notin Hashes => digest[slot[op]] = JobOf(op)

\* A hash request that will clear READY has the context to itself.
HashesKeep ==
  /\ \A op \in Ops : pc[op] \in {"await", "readout", "clear"} => op \in Hashes
  /\ \A h \in Hashes : pc[h] \in HashWait =>
       ready[slot[h]] # 0 /\ header[slot[h]] \in HashJobs
  /\ \A a, b \in Hashes :
       pc[a] \in HashWait /\ pc[b] \in HashWait /\ slot[a] = slot[b] => a = b

\* A posted flash context is of one job.
Whole == \A i \in Slots : ready[i] # 0 /\ header[i] \notin HashJobs => digest[i] = header[i]

\* The context the device transfers is posted, and what it programs is of one job.
TransferHolds ==
  /\ mode = "decompress" => ready[cur] # 0 /\ header[cur] = place /\ place \notin HashJobs
  /\ mode = "work" => content = place

FillInv == Alone /\ FillsHold /\ HashesKeep /\ Whole /\ TransferHolds /\ NeverMisplaced

\* Of the operations that run, one at most is past its wait: they all run on one flasher.
LEMMA OneRuns ==
  ASSUME LockInv, Alone, NEW a \in Ops, NEW b \in Ops, Holds(a), Holds(b)
  PROVE  a = b
BY DEF LockInv, Alone, Holds, Resting, Critical

\* A job of an operation is a hash job if the operation is a hash request.
LEMMA JobKind ==
  ASSUME OpType, NEW op \in Ops
  PROVE  JobOf(op) \in HashJobs <=> op \in Hashes
BY DEF JobOf, HashJobs, OpType

\* An operation that ends, or moves outside its claims, changes none of this: it neither
\* fills a context nor posts one, before or after, unless it has just found a free one.
LEMMA MoveFill ==
  ASSUME TypeOK, FillInv, NEW op \in Ops, pc[op] # "bump",
         UNCHANGED <<current, ready, header, digest, mode, cur, place, content, flash>>,
         \A o \in Ops \ {op} : pc'[o] = pc[o] /\ slot'[o] = slot[o] /\ chunk'[o] = chunk[o],
         Owner[op] = current,
         pc'[op] \notin {"payload", "post", "bump", "await", "readout", "clear"},
         pc'[op] = "header" => slot'[op] = slot[op] /\ ready[slot[op]] = 0
  PROVE  FillInv'
<1>1. Alone'
  BY DEF FillInv, Alone, Resting
<1>2. FillsHold'
  BY DEF FillInv, FillsHold, JobOf
<1>3. HashesKeep'
  <2>1. ASSUME NEW o \in Ops, pc'[o] \in HashWait
        PROVE  pc'[o] = pc[o] /\ slot'[o] = slot[o]
    BY <2>1 DEF HashWait
  <2>2. Hashes \subseteq Ops /\ {"await", "readout", "clear"} \subseteq HashWait
    BY DEF Ops, HashWait
  <2> QED BY <2>1, <2>2 DEF FillInv, HashesKeep
<1>4. Whole' /\ TransferHolds' /\ NeverMisplaced'
  BY DEF FillInv, Whole, TransferHolds, NeverMisplaced
<1> QED BY <1>1, <1>2, <1>3, <1>4 DEF FillInv

\* Nothing this speaks of changes.
LEMMA FillKept ==
  ASSUME FillInv,
         UNCHANGED <<pc, slot, chunk, current, ready, header, digest, mode, cur, place, content, flash>>
  PROVE  FillInv'
BY DEF FillInv, Alone, Resting, FillsHold, JobOf, HashesKeep, Whole, TransferHolds, NeverMisplaced

\* The steps of one operation that write no word.
LEMMA HostMoveFill ==
  ASSUME TypeOK, FillInv, NEW op \in Ops,
         \/ StartFlash(op) \/ StartHash(op) \/ BeginChunk(op) \/ AcquireLock(op)
         \/ ScanContext(op) \/ PollReady(op) \/ PollStatus(op) \/ ChunkDone(op)
         \/ RetryChunk(op) \/ DrainContext(op) \/ FlashDone(op)
  PROVE  FillInv'
<1>1. /\ UNCHANGED <<current, ready, header, digest, mode, cur, place, content, flash>>
      /\ Owner[op] = current /\ pc[op] # "bump"
  BY DEF FillInv, Alone, Resting, StartFlash, StartHash, BeginChunk, AcquireLock, ScanContext,
         PollReady, PollStatus, ChunkDone, RetryChunk, DrainContext, FlashDone,
         flasherVars, wordVars, ctxVars, devVars, jobVars
<1>2. /\ \A o \in Ops \ {op} : pc'[o] = pc[o] /\ slot'[o] = slot[o] /\ chunk'[o] = chunk[o]
      /\ pc'[op] \notin {"payload", "post", "bump", "await", "readout", "clear"}
      /\ pc'[op] = "header" => slot'[op] = slot[op] /\ ready[slot[op]] = 0
  <2> USE DEF Goto, TypeOK, OpType
  <2>1. CASE StartFlash(op) \/ StartHash(op) \/ BeginChunk(op)
    BY <2>1 DEF StartFlash, StartHash, BeginChunk, Enqueue
  <2>2. CASE AcquireLock(op)
    BY <2>2 DEF AcquireLock
  <2>3. CASE ScanContext(op)
    BY <2>3 DEF ScanContext
  <2>4. CASE PollReady(op) \/ PollStatus(op)
    BY <2>4 DEF PollReady, PollStatus
  <2>5. CASE ChunkDone(op)
    BY <2>5 DEF ChunkDone
  <2>6. CASE RetryChunk(op)
    BY <2>6 DEF RetryChunk
  <2>7. CASE DrainContext(op) \/ FlashDone(op)
    BY <2>7 DEF DrainContext, FlashDone, Finish
  <2> QED BY <2>1, <2>2, <2>3, <2>4, <2>5, <2>6, <2>7
<1> QED BY <1>1, <1>2, MoveFill

\* The steps that end an operation early.
LEMMA GiveUpFill ==
  ASSUME TypeOK, FillInv, NEW op \in Ops,
         \/ VerifyError(op) \/ DeviceError(op) \/ StubGone(op) \/ AbortSeen(op)
         \/ CounterDesync(op) \/ Stall(op) \/ LinkError(op)
  PROVE  FillInv'
<1>1. pc[op] # "bump" /\ ~Resting(op) /\ UNCHANGED <<wordVars, devVars>>
  BY DEF VerifyError, DeviceError, StubGone, AbortSeen, CounterDesync, Stall, LinkError,
         Polling, Resting
<1>2. \E how \in {"verifyError", "failed", "desync"} : Throw(op, how)
  BY DEF VerifyError, DeviceError, StubGone, AbortSeen, CounterDesync, Stall, LinkError
<1>3. /\ pc' = [pc EXCEPT ![op] = "done"] /\ UNCHANGED <<slot, chunk, current>>
  BY <1>2 DEF Throw, Finish, Goto
<1>4. Owner[op] = current
  BY <1>1 DEF FillInv, Alone
<1>5. \A o \in Ops : pc'[o] = IF o = op THEN "done" ELSE pc[o]
  BY <1>3 DEF TypeOK, OpType
<1> QED BY <1>1, <1>3, <1>4, <1>5, MoveFill DEF wordVars, ctxVars, devVars, jobVars

\* While op fills or posts a context, nobody else of its flasher does.
LEMMA OthersOutside ==
  ASSUME LockInv, Alone, NEW op \in Ops, Holds(op), NEW o \in Ops \ {op}
  PROVE  pc[o] \notin {"scan", "header", "payload", "post", "bump"}
BY OneRuns DEF Holds, Critical

\* FillHeader and FillPayload write a context that is free: the device does not read it, and
\* nobody else has claimed it.
LEMMA FillFill ==
  ASSUME TypeOK, LockInv, FillInv, NEW op \in Ops, FillHeader(op) \/ FillPayload(op)
  PROVE  FillInv'
<1> DEFINE s == slot[op]
<1> USE DEF flasherVars, devVars, jobVars
<1>0. /\ pc[op] \in {"header", "payload"} /\ Holds(op) /\ ready[s] = 0 /\ s \in Slots
      /\ UNCHANGED <<slot, chunk, current, ready, mode, cur, place, content, flash>>
  BY DEF FillHeader, FillPayload, FillInv, FillsHold, Holds, Critical, TypeOK, OpType
<1>1. /\ \A o \in Ops \ {op} : pc'[o] = pc[o]
      /\ pc'[op] \in {"payload", "post"}
      /\ pc'[op] = "payload" => op \notin Hashes
      /\ FillHeader(op) /\ op \notin Hashes => pc'[op] = "payload"
  BY DEF FillHeader, FillPayload, Goto, TypeOK, OpType, FillInv, FillsHold
<1>2. /\ header'[s] = JobOf(op)
      /\ FillPayload(op) => digest'[s] = JobOf(op)
      /\ \A i \in Slots \ {s} : header'[i] = header[i] /\ digest'[i] = digest[i]
  <2>1. CASE FillHeader(op)
    BY <1>0, <2>1 DEF FillHeader, TypeOK, WordType, FillPayload
  <2>2. CASE FillPayload(op)
    BY <1>0, <2>2 DEF FillPayload, TypeOK, WordType, FillInv, FillsHold
  <2> QED BY <2>1, <2>2
<1>3. Alone'
  BY <1>0, <1>1 DEF FillInv, Alone, Resting
<1>4. FillsHold'
  <2>1. JobOf(op)' = JobOf(op)
    BY <1>0 DEF JobOf
  <2>2. ASSUME NEW o \in Ops \ {op}
        PROVE  pc'[o] \notin {"header", "payload", "post"}
    BY <1>0, <1>1, OthersOutside DEF FillInv
  <2> QED BY <1>0, <1>1, <1>2, <2>1, <2>2 DEF FillsHold
<1>5. HashesKeep'
  <2>1. ASSUME NEW o \in Ops, pc'[o] \in HashWait
        PROVE  o # op /\ pc'[o] = pc[o]
    BY <1>1, <2>1 DEF HashWait
  <2>2. ASSUME NEW o \in Hashes, pc[o] \in HashWait
        PROVE  slot[o] \in Slots \ {s}
    BY <1>0, <2>2 DEF FillInv, HashesKeep, Ops, TypeOK, OpType
  <2>3. Hashes \subseteq Ops /\ {"await", "readout", "clear"} \subseteq HashWait
    BY DEF Ops, HashWait
  <2> QED BY <1>0, <1>2, <2>1, <2>2, <2>3 DEF FillInv, HashesKeep
<1>6. Whole'
  BY <1>0, <1>2 DEF FillInv, Whole
<1>7. TransferHolds' /\ NeverMisplaced'
  <2>1. mode = "decompress" => cur \in Slots \ {s}
    BY <1>0 DEF FillInv, TransferHolds, TypeOK, DeviceType
  <2> QED BY <1>0, <1>2, <2>1 DEF FillInv, TransferHolds, NeverMisplaced
<1> QED BY <1>3, <1>4, <1>5, <1>6, <1>7 DEF FillInv

\* A post, acknowledged or not, turns a filled context into a posted one.
LEMMA PostFill ==
  ASSUME TypeOK, LockInv, FillInv, NEW op \in Ops, Post(op) \/ LostAck(op)
  PROVE  FillInv'
<1> DEFINE s == slot[op]
<1> USE DEF flasherVars, ctxVars, devVars, jobVars
<1>0. /\ pc[op] = "post" /\ Holds(op) /\ ready[s] = 0 /\ s \in Slots
      /\ header[s] = JobOf(op) /\ (op \notin Hashes => digest[s] = JobOf(op))
      /\ UNCHANGED <<slot, chunk, current, header, digest, mode, cur, place, content, flash>>
  BY DEF Post, LostAck, Throw, FillInv, FillsHold, Holds, Critical, TypeOK, OpType
<1>1. /\ \A o \in Ops \ {op} : pc'[o] = pc[o]
      /\ pc'[op] \in {"bump", "done"}
  BY DEF Post, LostAck, Throw, Finish, Goto, TypeOK, OpType
<1>2. /\ ready'[s] # 0 /\ \A i \in Slots \ {s} : ready'[i] = ready[i]
  <2>1. counter[Owner[op]] \in Nat \ {0}
    BY MailboxAssumption DEF TypeOK, FlasherType
  <2>2. WriteReady(op)
    BY DEF Post, LostAck
  <2> QED BY <1>0, <2>1, <2>2 DEF WriteReady, TypeOK, WordType
<1>3. Alone'
  BY <1>0, <1>1 DEF FillInv, Alone, Resting
<1>4. FillsHold'
  <2>1. ASSUME NEW o \in Ops
        PROVE  pc'[o] \notin {"header", "payload", "post"}
    BY <1>0, <1>1, OthersOutside DEF FillInv
  <2> QED BY <2>1 DEF FillsHold
<1>5. HashesKeep'
  <2>1. ASSUME NEW o \in Hashes, o # op, pc'[o] \in HashWait
        PROVE  pc[o] \in HashWait /\ slot[o] \in Slots \ {s}
    BY <1>0, <1>1, <2>1 DEF FillInv, HashesKeep, Ops, TypeOK, OpType
  <2>2. op \in Hashes => header[s] \in HashJobs
    BY <1>0, JobKind DEF TypeOK
  <2>3. \A o \in Ops : pc'[o] \in {"await", "readout", "clear"} => o \in Hashes
    BY <1>1 DEF FillInv, HashesKeep
  <2>4. \A h \in Hashes : pc'[h] \in HashWait => ready'[slot[h]] # 0 /\ header[slot[h]] \in HashJobs
    BY <1>2, <2>1, <2>2 DEF FillInv, HashesKeep
  <2>5. \A a, b \in Hashes :
          pc'[a] \in HashWait /\ pc'[b] \in HashWait /\ slot[a] = slot[b] => a = b
    BY <2>1 DEF FillInv, HashesKeep
  <2> QED BY <1>0, <2>3, <2>4, <2>5 DEF HashesKeep
<1>6. Whole'
  <2>1. header[s] \notin HashJobs => digest[s] = header[s]
    BY <1>0, JobKind DEF TypeOK
  <2> QED BY <1>0, <1>2, <2>1 DEF FillInv, Whole
<1>7. TransferHolds' /\ NeverMisplaced'
  <2>1. mode = "decompress" => cur \in Slots \ {s}
    BY <1>0 DEF FillInv, TransferHolds, TypeOK, DeviceType
  <2> QED BY <1>0, <1>2, <2>1 DEF FillInv, TransferHolds, NeverMisplaced
<1> QED BY <1>3, <1>4, <1>5, <1>6, <1>7 DEF FillInv

\* A hash request keeps its context from its post to the clearing of READY.
LEMMA HashFill ==
  ASSUME TypeOK, FillInv, NEW op \in Ops,
         Bump(op) \/ AwaitResponse(op) \/ ReadDigests(op) \/ ClearReady(op)
  PROVE  FillInv'
<1> DEFINE s == slot[op]
<1> USE DEF flasherVars, wordVars, ctxVars, devVars, jobVars
<1>0. /\ pc[op] \in HashWait /\ s \in Slots /\ ~Resting(op)
      /\ pc[op] # "bump" => op \in Hashes
      /\ UNCHANGED <<slot, chunk, current, header, digest, mode, cur, place, content, flash>>
  BY DEF Bump, AwaitResponse, ReadDigests, ClearReady, HashWait, Resting, FillInv, HashesKeep,
         TypeOK, OpType
<1>1. /\ \A o \in Ops \ {op} : pc'[o] = pc[o]
      /\ pc'[op] \in {"await", "readout", "clear", "done", "wait"}
      /\ pc'[op] \in {"await", "readout", "clear"} => op \in Hashes
  BY <1>0 DEF Bump, AwaitResponse, ReadDigests, ClearReady, Goto, TypeOK, OpType
<1>2. CASE UNCHANGED ready
  <2>1. Alone'
    BY <1>0, <1>1, <1>2 DEF FillInv, Alone, Resting
  <2>2. FillsHold'
    BY <1>0, <1>1, <1>2 DEF FillInv, FillsHold, JobOf
  <2>3. HashesKeep'
    <3>1. ASSUME NEW o \in Hashes, pc'[o] \in HashWait
          PROVE  pc[o] \in HashWait
      BY <1>0, <1>1, <3>1 DEF Ops
    <3>2. \A o \in Ops : pc'[o] \in {"await", "readout", "clear"} => o \in Hashes
      BY <1>1 DEF FillInv, HashesKeep
    <3> QED BY <1>0, <1>2, <3>1, <3>2 DEF FillInv, HashesKeep
  <2>4. Whole' /\ TransferHolds' /\ NeverMisplaced'
    BY <1>0, <1>2 DEF FillInv, Whole, TransferHolds, NeverMisplaced
  <2> QED BY <2>1, <2>2, <2>3, <2>4 DEF FillInv
<1>3. CASE ~UNCHANGED ready
  <2>0. ClearReady(op)
    BY <1>3 DEF Bump, AwaitResponse, ReadDigests
  <2>1. /\ op \in Hashes /\ pc'[op] = "done"
        /\ ready'[s] = 0 /\ \A i \in Slots \ {s} : ready'[i] = ready[i]
        /\ header[s] \in HashJobs
    BY <1>0, <2>0 DEF ClearReady, Goto, TypeOK, OpType, WordType, HashWait, FillInv, HashesKeep
  <2>2. Alone'
    BY <1>0, <1>1, <2>1 DEF FillInv, Alone, Resting
  <2>3. FillsHold'
    <3>1. \A o \in Ops : slot[o] \in Slots
      BY DEF TypeOK, OpType
    <3> QED BY <1>0, <1>1, <2>1, <3>1 DEF FillInv, FillsHold, JobOf
  <2>4. HashesKeep'
    <3>1. ASSUME NEW o \in Hashes, pc'[o] \in HashWait
          PROVE  pc[o] \in HashWait /\ slot[o] \in Slots \ {s}
      <4>1. o # op /\ pc[o] \in HashWait
        BY <1>1, <2>1, <3>1 DEF HashWait, Ops
      <4>2. slot[o] # s
        BY <1>0, <2>1, <4>1 DEF FillInv, HashesKeep
      <4> QED BY <4>1, <4>2 DEF TypeOK, OpType, Ops
    <3>2. \A o \in Ops : pc'[o] \in {"await", "readout", "clear"} => o \in Hashes
      BY <1>1 DEF FillInv, HashesKeep
    <3> QED BY <1>0, <2>1, <3>1, <3>2 DEF FillInv, HashesKeep
  <2>5. Whole' /\ TransferHolds' /\ NeverMisplaced'
    <3>1. mode = "decompress" => cur \in Slots \ {s}
      BY <2>1 DEF FillInv, TransferHolds, TypeOK, DeviceType
    <3> QED BY <1>0, <2>1, <3>1 DEF FillInv, Whole, TransferHolds, NeverMisplaced
  <2> QED BY <2>2, <2>3, <2>4, <2>5 DEF FillInv
<1> QED BY <1>2, <1>3

\* The device reads a context it has taken, releases it and programs what it has read.
LEMMA DeviceFill ==
  ASSUME TypeOK, FillInv, DeviceStep \/ BadTransfer \/ WorkBad \/ StubExit
  PROVE  FillInv'
<1> USE DEF opVars, flasherVars, wordVars, ctxVars, devVars, jobVars, envVars
<1>0. flash \in [Jobs -> Contents] /\ cur \in Slots /\ \A o \in Ops : slot[o] \in Slots
  BY DEF TypeOK, OpType, DeviceType
<1>1. UNCHANGED <<pc, slot, chunk, current, header, digest>>
  BY DEF DeviceStep, Pickup, Park, Decompress, BadTransfer, WorkDone, WorkBad, HashDone,
         LeaveError, StubExit
<1>2. \/ UNCHANGED ready
      \/ /\ mode = "decompress" /\ mode' \in {"work", "error"}
         /\ ready'[cur] = 0 /\ \A i \in Slots \ {cur} : ready'[i] = ready[i]
  BY DEF DeviceStep, Pickup, Park, Decompress, BadTransfer, WorkDone, WorkBad, HashDone,
         LeaveError, StubExit, TypeOK, WordType
<1>3. Alone' /\ FillsHold' /\ Whole'
  BY <1>0, <1>1, <1>2 DEF FillInv, Alone, Resting, FillsHold, JobOf, Whole
<1>4. HashesKeep'
  <2>1. ASSUME NEW h \in Hashes, pc[h] \in HashWait
        PROVE  ready'[slot[h]] # 0
    <3>1. ready[slot[h]] # 0 /\ header[slot[h]] \in HashJobs /\ slot[h] \in Slots
      BY <1>0, <2>1 DEF FillInv, HashesKeep, Ops
    <3> QED BY <1>2, <3>1 DEF FillInv, TransferHolds
  <2> QED BY <1>1, <2>1 DEF FillInv, HashesKeep
<1>5. TransferHolds'
  <2>1. ASSUME NEW i \in Slots, Pickup(i) PROVE TransferHolds'
    <3>1. ready[i] # 0
      BY <2>1 DEF Pickup, Matches, TypeOK, DeviceType
    <3> QED BY <2>1, <3>1 DEF Pickup, TransferHolds
  <2>2. CASE Decompress
    <3>1. header[cur] \notin HashJobs /\ ready[cur] # 0 /\ header[cur] = place
      BY <2>2 DEF Decompress, FillInv, TransferHolds
    <3>2. payload[cur] = place
      BY <1>0, <2>2, <3>1 DEF Decompress, FillInv, Whole
    <3> QED BY <2>2, <3>2 DEF Decompress, TransferHolds
  <2>3. CASE Park \/ BadTransfer \/ WorkDone \/ WorkBad \/ HashDone \/ LeaveError \/ StubExit
    BY <2>3 DEF Park, BadTransfer, WorkDone, WorkBad, HashDone, LeaveError, StubExit,
                FillInv, TransferHolds
  <2> QED BY <2>1, <2>2, <2>3 DEF DeviceStep
<1>6. NeverMisplaced'
  <2>1. \A j \in Jobs : flash'[j] \in {flash[j], Garbage, j}
    BY <1>0 DEF DeviceStep, Pickup, Park, Decompress, BadTransfer, WorkDone, WorkBad, HashDone,
           LeaveError, StubExit, Interrupt, FillInv, TransferHolds
  <2> QED BY <2>1 DEF FillInv, NeverMisplaced
<1> QED BY <1>3, <1>4, <1>5, <1>6 DEF FillInv

\* The next value to post, while nobody is between a post and its bump.
LEMMA NextPostIs ==
  /\ (\A op \in Ops : pc[op] # "bump") => NextPost = counter[current] + 0
  /\ \A op \in Ops : Owner[op] = current /\ pc[op] = "bump" => NextPost = counter[current] + 1
BY DEF NextPost

\* The next value does not change when nobody posts or bumps.
LEMMA NextPostKept ==
  ASSUME UNCHANGED <<counter, current>>,
         \A o \in Ops : pc'[o] = "bump" <=> pc[o] = "bump"
  PROVE  NextPost' = NextPost
BY DEF NextPost

\* A restart that clears READY under a hash request silences the device: the host's counter
\* is past the value the device waits for, so that nothing is picked up until the next boot.
Silent ==
  /\ ~ReadySurvives /\ Alone /\ NeverMisplaced
  /\ mode \in {"idle", "off"}
  /\ devCounter = 1 /\ NextPost > 1 /\ \A i \in Slots : ready[i] # 1

\* A hash request that waits has left the counter above its initial value.
Counted == \A op \in Ops : pc[op] \in {"await", "readout", "clear"} => counter[Owner[op]] > 1

MisplacedInv == Counted /\ (FillInv \/ Silent)

\* A restart puts the device back to work on what READY words are left, or silences it.
LEMMA RestartFill ==
  ASSUME TypeOK, MisplacedInv, StubRestart
  PROVE  FillInv' \/ Silent'
<1> USE DEF StubRestart, StubRuns, opVars, flasherVars, ctxVars
<1>0. /\ flash \in [Jobs -> Contents] /\ \A o \in Ops : slot[o] \in Slots
      /\ counter[current] \in Nat \ {0}
  BY DEF TypeOK, OpType, FlasherType, DeviceType
<1>1. NeverMisplaced'
  BY <1>0 DEF Interrupt, MisplacedInv, FillInv, Silent, TransferHolds, NeverMisplaced
<1>2. Alone' /\ NextPost' = NextPost
  BY DEF MisplacedInv, FillInv, Silent, Alone, Resting, NextPost
<1>3. CASE FillInv /\ (ReadySurvives \/ \A h \in Hashes : pc[h] \notin HashWait)
  <2>1. \A i \in Slots : ready'[i] \in {ready[i], 0}
    OBVIOUS
  <2>2. FillsHold' /\ Whole' /\ TransferHolds'
    BY <1>0, <1>3, <2>1 DEF FillInv, FillsHold, JobOf, Whole, TransferHolds
  <2>3. HashesKeep'
    BY <1>0, <1>3 DEF FillInv, HashesKeep, Ops
  <2> QED BY <1>1, <1>2, <2>2, <2>3 DEF FillInv
<1>4. ASSUME NEW h \in Hashes, pc[h] \in HashWait, FillInv, ~ReadySurvives
      PROVE  Silent'
  <2>1. Owner[h] = current /\ h \in Ops
    BY <1>4 DEF FillInv, Alone, Resting, HashWait, Ops
  <2>2. NextPost > 1
    BY <1>0, <1>4, <2>1 DEF MisplacedInv, Counted, HashWait, NextPost
  <2> QED BY <1>1, <1>2, <1>4, <2>2 DEF Silent
<1>5. CASE Silent
  BY <1>1, <1>2, <1>5 DEF Silent
<1> QED BY <1>3, <1>4, <1>5 DEF MisplacedInv

\* A boot waits for every operation to rest, so that only posted words are left.
LEMMA BootFill ==
  ASSUME TypeOK, MisplacedInv, ~OverlapBoot, NEW f \in Flashers, Boot(f)
  PROVE  FillInv'
<1> USE DEF Boot, StubRuns, opVars, ctxVars
<1>0. flash \in [Jobs -> Contents] /\ \A op \in Ops : pc'[op] \in {"idle", "done"}
  BY DEF TypeOK, DeviceType, Resting
<1>1. Alone' /\ FillsHold' /\ TransferHolds'
  BY <1>0 DEF Alone, Resting, FillsHold, TransferHolds
<1>2. HashesKeep'
  <2>1. Hashes \subseteq Ops
    BY DEF Ops
  <2>2. \A op \in Ops : pc'[op] \notin HashWait /\ pc'[op] \notin {"await", "readout", "clear"}
    BY <1>0 DEF HashWait
  <2> QED BY <2>1, <2>2 DEF HashesKeep
<1>3. Whole'
  BY DEF MisplacedInv, FillInv, Silent, Whole
<1>4. NeverMisplaced'
  BY <1>0 DEF Interrupt, MisplacedInv, FillInv, Silent, TransferHolds, NeverMisplaced
<1> QED BY <1>1, <1>2, <1>3, <1>4 DEF FillInv

\* A silent device stays silent, whatever the host posts.
LEMMA SilentStays ==
  ASSUME TypeOK, LockInv, Silent, Next, ~StubRestart, \A f \in Flashers : ~Boot(f)
  PROVE  Silent'
<1>0. counter[current] \in Nat \ {0}
  BY DEF TypeOK, FlasherType
<1>1. CASE DeviceStep \/ BadTransfer \/ WorkBad \/ StubExit
  <2>1. Park \/ StubExit
    BY <1>1 DEF Silent, DeviceStep, Pickup, Matches, Decompress, BadTransfer, WorkDone, WorkBad,
                HashDone, LeaveError
  <2>2. /\ UNCHANGED <<pc, counter, current, ready, devCounter>>
        /\ mode' \in {"idle", "off"} /\ flash' = flash
    BY <2>1 DEF Park, StubExit, Interrupt, Silent, opVars, flasherVars, wordVars, devVars, jobVars
  <2> QED BY <2>2 DEF Silent, Alone, Resting, NextPost, NeverMisplaced
<1>2. ASSUME NEW op \in Ops,
             \/ StartFlash(op) \/ StartHash(op) \/ HostStep(op) \/ GiveUp(op)
             \/ Abort(op) \/ LinkError(op) \/ LostAck(op)
      PROVE  Silent'
  <2>1. UNCHANGED <<mode, devCounter, flash, current>>
    BY <1>2 DEF StartFlash, StartHash, HostStep, GiveUp, Abort, LinkError, LostAck, Throw,
         BeginChunk, AcquireLock, ScanContext, FillHeader, FillPayload, Post, Bump, PollReady,
         PollStatus, ChunkDone, RetryChunk, VerifyError, DeviceError, StubGone, DrainContext,
         FlashDone, AwaitResponse, ReadDigests, ClearReady, AbortSeen, CounterDesync, Stall,
         flasherVars, devVars
  <2>2. \A o \in Ops \ {op} : pc'[o] = pc[o]
    BY <1>2 DEF StartFlash, StartHash, HostStep, GiveUp, Abort, LinkError, LostAck, Throw,
         BeginChunk, AcquireLock, ScanContext, FillHeader, FillPayload, Post, Bump, PollReady,
         PollStatus, ChunkDone, RetryChunk, VerifyError, DeviceError, StubGone, DrainContext,
         FlashDone, AwaitResponse, ReadDigests, ClearReady, AbortSeen, CounterDesync, Stall,
         Enqueue, Finish, Goto, TypeOK, OpType
  <2>3. pc'[op] \notin {"idle", "done"} => Owner[op] = current
    <3>1. CASE Resting(op)
      BY <1>2, <3>1 DEF StartFlash, StartHash, HostStep, GiveUp, Abort, LinkError, LostAck, Throw,
           BeginChunk, AcquireLock, ScanContext, FillHeader, FillPayload, Post, Bump, PollReady,
           PollStatus, ChunkDone, RetryChunk, VerifyError, DeviceError, StubGone, DrainContext,
           FlashDone, AwaitResponse, ReadDigests, ClearReady, AbortSeen, CounterDesync, Stall,
           Enqueue, Finish, Goto, Resting, Polling, TypeOK, OpType
    <3>2. CASE ~Resting(op)
      BY <3>2 DEF Silent, Alone
    <3> QED BY <3>1, <3>2
  <2>4. Alone'
    BY <2>1, <2>2, <2>3 DEF Silent, Alone, Resting
  <2>5. NextPost' > 1 /\ \A i \in Slots : ready'[i] # 1
    <3>1. CASE Post(op) \/ LostAck(op)
      <4>1. /\ Owner[op] = current /\ pc[op] = "post"
            /\ \A o \in Ops : pc[o] # "bump"
        BY <3>1, OthersOutside DEF Post, LostAck, Silent, Alone, Resting, Holds, Critical
      <4>2. counter[current] > 1
        BY <1>0, <4>1, NextPostIs DEF Silent
      <4>3. \A i \in Slots : ready'[i] # 1
        BY <3>1, <4>1, <4>2 DEF Post, LostAck, WriteReady, Silent, TypeOK, WordType
      <4>4. counter' = counter
        BY <3>1 DEF Post, LostAck, Throw, flasherVars
      <4> QED BY <1>0, <2>1, <4>2, <4>3, <4>4 DEF NextPost
    <3>2. CASE Bump(op)
      <4>1. Owner[op] = current /\ UNCHANGED ready
        BY <3>2 DEF Bump, Silent, Alone, Resting, wordVars
      <4>2. counter'[current] = counter[current] + 1
        BY <3>2, <4>1 DEF Bump, TypeOK, FlasherType
      <4> QED BY <1>0, <2>1, <4>1, <4>2 DEF NextPost, Silent
    <3>3. CASE ~Post(op) /\ ~LostAck(op) /\ ~Bump(op)
      <4>1. counter' = counter
        BY <1>2, <3>3 DEF StartFlash, StartHash, HostStep, GiveUp, Abort, LinkError, Throw,
             BeginChunk, AcquireLock, ScanContext, FillHeader, FillPayload, PollReady,
             PollStatus, ChunkDone, RetryChunk, VerifyError, DeviceError, StubGone, DrainContext,
             FlashDone, AwaitResponse, ReadDigests, ClearReady, AbortSeen, CounterDesync, Stall,
             flasherVars
      <4>2. pc[op] = "bump" => pc'[op] = "bump"
        BY <1>2, <3>3 DEF StartFlash, StartHash, HostStep, GiveUp, Abort, LinkError,
             BeginChunk, AcquireLock, ScanContext, FillHeader, FillPayload, PollReady,
             PollStatus, ChunkDone, RetryChunk, VerifyError, DeviceError, StubGone, DrainContext,
             FlashDone, AwaitResponse, ReadDigests, ClearReady, AbortSeen, CounterDesync, Stall,
             Polling
      <4>3. \A o \in Ops : pc[o] = "bump" => pc'[o] = "bump"
        BY <2>2, <4>2
      <4>4. ready' = ready \/ ClearReady(op)
        BY <1>2, <3>3 DEF StartFlash, StartHash, HostStep, GiveUp, Abort, LinkError,
             BeginChunk, AcquireLock, ScanContext, FillHeader, FillPayload, PollReady,
             PollStatus, ChunkDone, RetryChunk, VerifyError, DeviceError, StubGone, DrainContext,
             FlashDone, AwaitResponse, ReadDigests, AbortSeen, CounterDesync, Stall, wordVars
      <4>5. \A i \in Slots : ready'[i] # 1
        BY <4>4 DEF ClearReady, Silent, TypeOK, WordType
      <4> QED BY <1>0, <2>1, <4>1, <4>3, <4>5 DEF NextPost, Silent
    <3> QED BY <3>1, <3>2, <3>3
  <2> QED BY <2>1, <2>4, <2>5 DEF Silent, NeverMisplaced
<1> QED BY <1>1, <1>2 DEF Next

\* Every post of a hash request is counted before the wait for its response.
LEMMA NextCounted ==
  ASSUME TypeOK, Counted, ~OverlapBoot, [Next]_vars
  PROVE  Counted'
<1> USE MailboxAssumption
<1>0. \A f \in Flashers : counter[f] \in Nat \ {0}
  BY DEF TypeOK, FlasherType
<1>1. ASSUME NEW op \in Ops, Bump(op) PROVE Counted'
  <2>1. /\ counter'[Owner[op]] = counter[Owner[op]] + 1
        /\ \A o \in Ops : Owner[o] # Owner[op] => counter'[Owner[o]] = counter[Owner[o]]
        /\ \A o \in Ops \ {op} : pc'[o] = pc[o]
    BY <1>1 DEF Bump, Goto, TypeOK, OpType, FlasherType
  <2>2. \A o \in Ops : Owner[o] \in Flashers
    OBVIOUS
  <2>3. ASSUME NEW o \in Ops, pc'[o] \in {"await", "readout", "clear"}
        PROVE  counter'[Owner[o]] > 1
    <3>1. CASE Owner[o] = Owner[op]
      BY <1>0, <2>1, <2>2, <3>1
    <3>2. CASE Owner[o] # Owner[op]
      BY <2>1, <2>3, <3>2 DEF Counted
    <3> QED BY <3>1, <3>2
  <2> QED BY <2>3 DEF Counted
<1>2. ASSUME NEW f \in Flashers, Boot(f) PROVE Counted'
  BY <1>2 DEF Boot, opVars, Resting, Counted
<1>3. ASSUME NEW op \in Ops, ~Bump(op),
             \/ StartFlash(op) \/ StartHash(op) \/ HostStep(op) \/ GiveUp(op)
             \/ Abort(op) \/ LinkError(op) \/ LostAck(op)
      PROVE  Counted'
  <2>1. counter' = counter
    BY <1>3 DEF StartFlash, StartHash, HostStep, GiveUp, Abort, LinkError, LostAck, Throw,
         BeginChunk, AcquireLock, ScanContext, FillHeader, FillPayload, Post, PollReady,
         PollStatus, ChunkDone, RetryChunk, VerifyError, DeviceError, StubGone, DrainContext,
         FlashDone, AwaitResponse, ReadDigests, ClearReady, AbortSeen, CounterDesync, Stall,
         flasherVars
  <2>2. ASSUME NEW o \in Ops, pc'[o] \in {"await", "readout", "clear"}
        PROVE  pc[o] \in {"await", "readout", "clear"}
    BY <1>3, <2>2 DEF StartFlash, StartHash, HostStep, GiveUp, Abort, LinkError, LostAck, Throw,
         BeginChunk, AcquireLock, ScanContext, FillHeader, FillPayload, Post, PollReady,
         PollStatus, ChunkDone, RetryChunk, VerifyError, DeviceError, StubGone, DrainContext,
         FlashDone, AwaitResponse, ReadDigests, ClearReady, AbortSeen, CounterDesync, Stall,
         Enqueue, Finish, Goto, TypeOK, OpType
  <2> QED BY <2>1, <2>2 DEF Counted
<1>4. CASE DeviceStep \/ BadTransfer \/ WorkBad \/ StubRestart \/ StubExit \/ UNCHANGED vars
  BY <1>4 DEF DeviceStep, Pickup, Park, Decompress, BadTransfer, WorkDone, WorkBad, HashDone,
         LeaveError, StubRestart, StubExit, vars, opVars, flasherVars, Counted
<1> QED BY <1>1, <1>2, <1>3, <1>4 DEF Next

LEMMA InitFill == Init => FillInv /\ Counted
<1> SUFFICES ASSUME Init PROVE FillInv /\ Counted
  OBVIOUS
<1> USE DEF Init
<1>1. Alone /\ FillsHold /\ HashesKeep /\ Counted
  BY DEF Alone, Resting, FillsHold, HashesKeep, HashWait, Ops, Counted
<1>2. Whole /\ TransferHolds /\ NeverMisplaced
  BY DEF Whole, TransferHolds, NeverMisplaced
<1> QED BY <1>1, <1>2 DEF FillInv

\* Without a restart or a boot, the fills go on.
LEMMA NextFill ==
  ASSUME TypeOK, LockInv, FillInv, Next, ~StubRestart, \A f \in Flashers : ~Boot(f)
  PROVE  FillInv'
<1>1. ASSUME NEW op \in Ops, Abort(op) PROVE FillInv'
  BY <1>1, FillKept DEF Abort, flasherVars, wordVars, ctxVars, devVars, jobVars
<1>2. ASSUME NEW op \in Ops,
             \/ StartFlash(op) \/ StartHash(op) \/ HostStep(op) \/ GiveUp(op)
             \/ LinkError(op) \/ LostAck(op)
      PROVE  FillInv'
  BY <1>2, HostMoveFill, GiveUpFill, FillFill, PostFill, HashFill DEF HostStep, GiveUp
<1>3. CASE DeviceStep \/ BadTransfer \/ WorkBad \/ StubExit
  BY <1>3, DeviceFill
<1> QED BY <1>1, <1>2, <1>3 DEF Next

LEMMA NextMisplaced ==
  ASSUME ~OverlapBoot, TypeOK, LockInv, MisplacedInv, [Next]_vars
  PROVE  MisplacedInv'
<1>0. Counted'
  BY NextCounted DEF MisplacedInv
<1>1. CASE UNCHANGED vars
  <2>1. CASE FillInv
    BY <1>0, <1>1, <2>1, FillKept
       DEF MisplacedInv, vars, opVars, flasherVars, wordVars, ctxVars, devVars, jobVars
  <2>2. CASE Silent
    BY <1>0, <1>1, <2>2 DEF MisplacedInv, Silent, Alone, Resting, NextPost, NeverMisplaced,
       vars, opVars, flasherVars, wordVars, ctxVars, devVars, jobVars
  <2> QED BY <2>1, <2>2 DEF MisplacedInv
<1>2. CASE StubRestart
  BY <1>0, <1>2, RestartFill DEF MisplacedInv
<1>3. ASSUME NEW f \in Flashers, Boot(f) PROVE MisplacedInv'
  BY <1>0, <1>3, BootFill DEF MisplacedInv
<1>4. CASE Next /\ ~StubRestart /\ \A f \in Flashers : ~Boot(f)
  <2>1. CASE Silent
    BY <1>0, <1>4, <2>1, SilentStays DEF MisplacedInv
  <2>2. CASE FillInv
    BY <1>0, <1>4, <2>2, NextFill DEF MisplacedInv
  <2> QED BY <2>1, <2>2 DEF MisplacedInv
<1> QED BY <1>1, <1>2, <1>3, <1>4

\* As long as no stub is booted under a running operation: whatever operations interleave and
\* whichever fault hits, a region of the flash holds its own bytes, nothing, or what an
\* interrupted or failed attempt left.  ACTION/OFFSET/SIZE, the digest and the payload that
\* the device combines are of one fill.
THEOREM RegionsHoldTheirOwn ==
  ASSUME ~OverlapBoot
  PROVE  Spec => []NeverMisplaced
<1>1. Init => TypeOK /\ LockInv /\ MisplacedInv
  BY InitType, InitFill DEF MisplacedInv
<1>2. TypeOK /\ LockInv /\ MisplacedInv /\ [Next]_vars => (TypeOK /\ LockInv /\ MisplacedInv)'
  BY NextType, NextMisplaced
<1>3. MisplacedInv => NeverMisplaced
  BY DEF MisplacedInv, FillInv, Silent
<1> QED BY <1>1, <1>2, <1>3, PTL DEF Spec

=============================================================================
