------------------------------ MODULE Mailbox ------------------------------
(***************************************************************************)
(* The RAM mailbox between the browser and the gnwmanager stub, as the     *)
(* GnwFlasher class of packages/gnw-flasher drives it.                     *)
(*                                                                         *)
(* The host side is one action per transport call that matters: taking the *)
(* context lock, scanning for a free context, filling it, posting READY,   *)
(* bumping the counter, polling READY and then STATUS.  Operations of one  *)
(* GnwFlasher object share its counter and its lock; two GnwFlasher        *)
(* objects on one link share nothing but the mailbox.                      *)
(*                                                                         *)
(* The device is external: it is modelled from what the comments and the   *)
(* protocol suites of the repository say of gnwmanager.c.  It takes a      *)
(* context only when READY equals its own counter, releases the context    *)
(* before it erases, and parks in ERROR after a failed read-back.          *)
(***************************************************************************)
EXTENDS Integers, Sequences, FiniteSets

CONSTANTS
  Flashers,                 \* GnwFlasher objects, one per stub boot
  FirstFlasher,             \* the one whose stub is running initially
  Flashes,                  \* operations that run flash()
  Hashes,                   \* operations that run readHashes()
  Owner,                    \* the GnwFlasher an operation runs on
  N_CONTEXTS,               \* context slots in the mailbox (2 in the code)
  Chunks,                   \* chunks of one flash() call
  MAX_FLASH_HASH_ATTEMPTS,  \* attempts per chunk (3 in the code)
  Faults,                   \* bound: the faults that may occur, each at most once
  MayAbort,                 \* whether the user may abort a flash
  Impatient,                \* whether a no-progress budget may lapse on a working device
  ReadySurvives,            \* whether READY words survive a stub restart
  OverlapBoot,              \* whether a stub is booted under operations still running
  NoJob,                    \* the content of a context nobody has filled
  Garbage                   \* the content of a region erased, or programmed wrongly

Ops == Flashes \cup Hashes
Slots == 0 .. N_CONTEXTS - 1
Jobs == Ops \X (0 .. Chunks)
HashJobs == Hashes \X (0 .. Chunks)
Contents == Jobs \cup {NoJob, Garbage}
FaultKinds == {"linkError", "lostAck", "stubRestart", "stubExit"}

ASSUME MailboxAssumption ==
  /\ N_CONTEXTS \in Nat \ {0}
  /\ Chunks \in Nat \ {0}
  /\ MAX_FLASH_HASH_ATTEMPTS \in Nat \ {0}
  /\ Faults \subseteq FaultKinds
  /\ {MayAbort, Impatient, ReadySurvives, OverlapBoot} \subseteq BOOLEAN
  /\ FirstFlasher \in Flashers
  /\ Owner \in [Ops -> Flashers]
  /\ Flashes \cap Hashes = {}
  /\ NoJob \notin Jobs
  /\ Garbage \notin Jobs \cup {NoJob}

VARIABLES
  \* host: one program counter per operation
  pc, slot, chunk, attempt, aborted, outcome,
  \* host: one per GnwFlasher object
  counter, ctxLock, booted, current,
  \* mailbox words, written by both sides
  ready, responded, header, digest, payload, status,
  \* device
  mode, cur, place, content, devCounter, flash,
  \* environment and history
  faults, inSync

opVars == <<pc, slot, chunk, attempt, aborted, outcome>>
flasherVars == <<counter, ctxLock, booted, current>>
ctxVars == <<responded, header, digest, payload>>
wordVars == <<ready, ctxVars, status>>
jobVars == <<cur, place, content>>
devVars == <<mode, jobVars, devCounter, flash>>
envVars == <<faults, inSync>>
vars == <<opVars, flasherVars, wordVars, devVars, envVars>>

-----------------------------------------------------------------------------
(* Where an operation stands.                                              *)

\* From the resolution of the predecessor's promise to release().
Critical == {"scan", "header", "payload", "post", "bump"}
Polling == {"scan", "check", "idleWait", "drainCheck", "drainIdle", "await"}
PCs == Critical \cup Polling \cup
         {"idle", "chunk", "queued", "wait", "drain", "readout", "clear", "done"}

Holds(op) == pc[op] \in Critical
Resting(op) == pc[op] \in {"idle", "done"}
JobOf(op) == <<op, chunk[op]>>
IsError(s) == s \in {"BAD", "BAD_HASH_FLASH"}
Matches(i) == ready[i] = devCounter

\* The device's main loop has nothing to do: no wait on the device can end.
Quiet ==
  \/ mode = "off"
  \/ mode = "idle" /\ status = "IDLE" /\ \A i \in Slots : ~Matches(i)
  \/ mode = "error" /\ \A i \in Slots : ready[i] = 0

-----------------------------------------------------------------------------
Init ==
  /\ pc = [op \in Ops |-> "idle"]
  /\ slot = [op \in Ops |-> 0]
  /\ chunk = [op \in Ops |-> 0]
  /\ attempt = [op \in Ops |-> 1]
  /\ aborted = [op \in Ops |-> FALSE]
  /\ outcome = [op \in Ops |-> "none"]
  /\ counter = [f \in Flashers |-> 1]
  /\ ctxLock = [f \in Flashers |-> << >>]
  /\ booted = {FirstFlasher} /\ current = FirstFlasher
  /\ ready = [i \in Slots |-> 0]
  /\ responded = [i \in Slots |-> FALSE]
  /\ header = [i \in Slots |-> NoJob]
  /\ digest = [i \in Slots |-> NoJob]
  /\ payload = [i \in Slots |-> NoJob]
  /\ status = "IDLE"
  /\ mode = "idle" /\ cur = 0 /\ place = NoJob /\ content = NoJob
  /\ devCounter = 1
  /\ flash = [j \in Jobs |-> NoJob]
  /\ faults = Faults
  /\ inSync = TRUE

Goto(op, label) == pc' = [pc EXCEPT ![op] = label]

Finish(op, how) ==
  /\ Goto(op, "done")
  /\ outcome' = [outcome EXCEPT ![op] = how]

\* Joining the promise chain: `prev = this.ctxLock; this.ctxLock = new Promise(...)`.
Enqueue(op) ==
  /\ Goto(op, "queued")
  /\ ctxLock' = [ctxLock EXCEPT ![Owner[op]] = Append(@, op)]

\* claimContext's `finally { release() }`: the successor in the chain may run.
Release(op) == ctxLock' = [ctxLock EXCEPT ![Owner[op]] = Tail(@)]

\* Mutant: claimContext without its `finally`.
ThrowKeepsLock(op, how) ==
  /\ Finish(op, how)
  /\ UNCHANGED <<slot, chunk, attempt, aborted, flasherVars>>

\* Any of the throws that end an operation.
Throw(op, how) ==
  /\ Finish(op, how)
  /\ IF Holds(op) THEN Release(op) ELSE UNCHANGED ctxLock
  /\ UNCHANGED <<slot, chunk, attempt, aborted, counter, booted, current>>

-----------------------------------------------------------------------------
(* flash() and readHashes() up to the post.                                *)

StartFlash(op) ==
  /\ pc[op] = "idle" /\ op \in Flashes /\ Owner[op] = current
  /\ Goto(op, "chunk")
  /\ chunk' = [chunk EXCEPT ![op] = 1]
  /\ UNCHANGED <<slot, attempt, aborted, outcome, flasherVars, wordVars, devVars, envVars>>

\* The abort checks of flash() and programOnce(), then claimContext.
BeginChunk(op) ==
  /\ pc[op] = "chunk" /\ ~aborted[op]
  /\ Enqueue(op)
  /\ UNCHANGED <<slot, chunk, attempt, aborted, outcome, counter, booted, current,
                 wordVars, devVars, envVars>>

StartHash(op) ==
  /\ pc[op] = "idle" /\ op \in Hashes /\ Owner[op] = current
  /\ Enqueue(op)
  /\ UNCHANGED <<slot, chunk, attempt, aborted, outcome, counter, booted, current,
                 wordVars, devVars, envVars>>

\* The predecessor's promise has resolved; getContext starts at context 0.
AcquireLock(op) ==
  /\ pc[op] = "queued"
  /\ ctxLock[Owner[op]] # << >> /\ Head(ctxLock[Owner[op]]) = op
  /\ Goto(op, "scan")
  /\ slot' = [slot EXCEPT ![op] = 0]
  /\ UNCHANGED <<chunk, attempt, aborted, outcome, flasherVars, wordVars, devVars, envVars>>

\* Mutant: contexts are taken in turn, their READY unread.
ScanBlind(op) ==
  /\ pc[op] = "scan"
  /\ Goto(op, "header")
  /\ UNCHANGED <<slot, chunk, attempt, aborted, outcome, flasherVars, wordVars, devVars, envVars>>

\* One READY read of getContext's loop.  The signal is checked once per round.
ScanContext(op) ==
  /\ pc[op] = "scan"
  /\ slot[op] = 0 => ~aborted[op]
  /\ IF ready[slot[op]] = 0
       THEN Goto(op, "header") /\ UNCHANGED slot
       ELSE /\ slot' = [slot EXCEPT ![op] = (@ + 1) % N_CONTEXTS]
            /\ UNCHANGED pc
  /\ UNCHANGED <<chunk, attempt, aborted, outcome, flasherVars, wordVars, devVars, envVars>>

\* RESPONSE_READY (hash only), ACTION, OFFSET, SIZE, BANK, ERASE: what is done, and where.
FillHeader(op) ==
  /\ pc[op] = "header"
  /\ header' = [header EXCEPT ![slot[op]] = JobOf(op)]
  /\ responded' = IF op \in Hashes THEN [responded EXCEPT ![slot[op]] = FALSE] ELSE responded
  /\ Goto(op, IF op \in Hashes THEN "post" ELSE "payload")
  /\ UNCHANGED <<slot, chunk, attempt, aborted, outcome, flasherVars,
                 ready, digest, payload, status, devVars, envVars>>

\* EXPECTED_SHA256, COMPRESSED_SHA256, the bytes of the chunk, and the barrier read.
FillPayload(op) ==
  /\ pc[op] = "payload"
  /\ digest' = [digest EXCEPT ![slot[op]] = JobOf(op)]
  /\ payload' = [payload EXCEPT ![slot[op]] = JobOf(op)]
  /\ Goto(op, "post")
  /\ UNCHANGED <<slot, chunk, attempt, aborted, outcome, flasherVars,
                 ready, responded, header, status, devVars, envVars>>

WriteReady(op) == ready' = [ready EXCEPT ![slot[op]] = counter[Owner[op]]]

Post(op) ==
  /\ pc[op] = "post"
  /\ WriteReady(op)
  /\ Goto(op, "bump")
  /\ UNCHANGED <<slot, chunk, attempt, aborted, outcome, flasherVars,
                 ctxVars, status, devVars, envVars>>

\* Mutant: a hash request forgets the increment.
BumpFlashOnly(op) ==
  /\ pc[op] = "bump"
  /\ counter' = IF op \in Hashes THEN counter ELSE [counter EXCEPT ![Owner[op]] = @ + 1]
  /\ Release(op)
  /\ Goto(op, IF op \in Hashes THEN "await" ELSE "wait")
  /\ UNCHANGED <<slot, chunk, attempt, aborted, outcome, booted, current,
                 wordVars, devVars, envVars>>

\* `this.contextCounter += 1`, then release().
Bump(op) ==
  /\ pc[op] = "bump"
  /\ counter' = [counter EXCEPT ![Owner[op]] = @ + 1]
  /\ Release(op)
  /\ Goto(op, IF op \in Hashes THEN "await" ELSE "wait")
  /\ UNCHANGED <<slot, chunk, attempt, aborted, outcome, booted, current,
                 wordVars, devVars, envVars>>

-----------------------------------------------------------------------------
(* waitForContextComplete, waitForIdle, the BAD_HASH_FLASH retry, the drain. *)

\* The READY read of waitForContextComplete.
PollReady(op) ==
  /\ pc[op] = "wait" /\ ~aborted[op]
  /\ Goto(op, IF ready[slot[op]] = 0 THEN "idleWait" ELSE "check")
  /\ UNCHANGED <<slot, chunk, attempt, aborted, outcome, flasherVars, wordVars, devVars, envVars>>

\* The STATUS read that follows when the context is still held: poll again.
PollStatus(op) ==
  /\ pc[op] \in {"check", "drainCheck"} /\ ~IsError(status)
  /\ Goto(op, IF pc[op] = "check" THEN "wait" ELSE "drain")
  /\ UNCHANGED <<slot, chunk, attempt, aborted, outcome, flasherVars, wordVars, devVars, envVars>>

\* Mutant: the chunk counts as programmed once its context is released.
ChunkReleased(op) ==
  /\ pc[op] = "idleWait" /\ ~IsError(status)
  /\ attempt' = [attempt EXCEPT ![op] = 1]
  /\ IF chunk[op] < Chunks
       THEN Goto(op, "chunk") /\ chunk' = [chunk EXCEPT ![op] = @ + 1] /\ UNCHANGED slot
       ELSE Goto(op, "drain") /\ slot' = [slot EXCEPT ![op] = 0] /\ UNCHANGED chunk
  /\ UNCHANGED <<aborted, outcome, flasherVars, wordVars, devVars, envVars>>

\* waitForIdle reads IDLE: the chunk counts as programmed, the next one begins.
ChunkDone(op) ==
  /\ pc[op] = "idleWait" /\ status = "IDLE"
  /\ attempt' = [attempt EXCEPT ![op] = 1]
  /\ IF chunk[op] < Chunks
       THEN Goto(op, "chunk") /\ chunk' = [chunk EXCEPT ![op] = @ + 1] /\ UNCHANGED slot
       ELSE Goto(op, "drain") /\ slot' = [slot EXCEPT ![op] = 0] /\ UNCHANGED chunk
  /\ UNCHANGED <<aborted, outcome, flasherVars, wordVars, devVars, envVars>>

\* Mutant: one attempt too many.
RetryOnce(op) ==
  /\ pc[op] \in {"check", "idleWait"} /\ status = "BAD_HASH_FLASH"
  /\ ~aborted[op] /\ attempt[op] <= MAX_FLASH_HASH_ATTEMPTS
  /\ attempt' = [attempt EXCEPT ![op] = @ + 1]
  /\ Goto(op, "chunk")
  /\ UNCHANGED <<slot, chunk, aborted, outcome, flasherVars, wordVars, devVars, envVars>>

\* BadHashFlashSignal caught by program(): same chunk again, unless aborted or spent.
RetryChunk(op) ==
  /\ pc[op] \in {"check", "idleWait"} /\ status = "BAD_HASH_FLASH"
  /\ ~aborted[op] /\ attempt[op] < MAX_FLASH_HASH_ATTEMPTS
  /\ attempt' = [attempt EXCEPT ![op] = @ + 1]
  /\ Goto(op, "chunk")
  /\ UNCHANGED <<slot, chunk, aborted, outcome, flasherVars, wordVars, devVars, envVars>>

\* FlashVerifyError: the attempts are spent.
VerifyError(op) ==
  /\ pc[op] \in {"check", "idleWait"} /\ status = "BAD_HASH_FLASH"
  /\ ~aborted[op] /\ attempt[op] >= MAX_FLASH_HASH_ATTEMPTS
  /\ Throw(op, "verifyError")
  /\ UNCHANGED <<wordVars, devVars, envVars>>

\* Any other device error ends the operation, and so does an abort seen in the catch.
DeviceError(op) ==
  /\ \/ pc[op] \in {"check", "idleWait"} /\ status = "BAD"
     \/ pc[op] \in {"check", "idleWait"} /\ status = "BAD_HASH_FLASH" /\ aborted[op]
     \/ pc[op] \in {"drainCheck", "drainIdle"} /\ IsError(status)
  /\ Throw(op, "failed")
  /\ UNCHANGED <<wordVars, devVars, envVars>>

\* VTOR is outside the stub while STATUS does not read IDLE; looked at every 100 ms,
\* before the status itself is judged.
StubGone(op) ==
  /\ pc[op] \in {"idleWait", "drainIdle"} /\ status # "IDLE" /\ mode = "off"
  /\ Throw(op, "failed")
  /\ UNCHANGED <<wordVars, devVars, envVars>>

\* waitForAllContextsComplete: every READY must read 0, then STATUS must read IDLE.
DrainContext(op) ==
  /\ pc[op] = "drain"
  /\ IF ready[slot[op]] # 0
       THEN Goto(op, "drainCheck") /\ UNCHANGED slot
       ELSE IF slot[op] < N_CONTEXTS - 1
              THEN slot' = [slot EXCEPT ![op] = @ + 1] /\ UNCHANGED pc
              ELSE Goto(op, "drainIdle") /\ UNCHANGED slot
  /\ UNCHANGED <<chunk, attempt, aborted, outcome, flasherVars, wordVars, devVars, envVars>>

\* "flash complete (device-verified)."
FlashDone(op) ==
  /\ pc[op] = "drainIdle" /\ status = "IDLE"
  /\ Finish(op, "ok")
  /\ UNCHANGED <<slot, chunk, attempt, aborted, flasherVars, wordVars, devVars, envVars>>

-----------------------------------------------------------------------------
(* readHashes: the response is RESPONSE_READY, and the host clears READY.  *)

\* Mutant: the response is taken for ready when the device is idle.
AwaitIdle(op) ==
  /\ pc[op] = "await" /\ status = "IDLE"
  /\ Goto(op, "readout")
  /\ UNCHANGED <<slot, chunk, attempt, aborted, outcome, flasherVars, wordVars, devVars, envVars>>

AwaitResponse(op) ==
  /\ pc[op] = "await" /\ responded[slot[op]]
  /\ Goto(op, "readout")
  /\ UNCHANGED <<slot, chunk, attempt, aborted, outcome, flasherVars, wordVars, devVars, envVars>>

\* The digests are read out of the context buffer.
ReadDigests(op) ==
  /\ pc[op] = "readout"
  /\ Goto(op, "clear")
  /\ outcome' = [outcome EXCEPT ![op] = IF payload[slot[op]] = JobOf(op) THEN "ok" ELSE "garbled"]
  /\ UNCHANGED <<slot, chunk, attempt, aborted, flasherVars, wordVars, devVars, envVars>>

\* Mutant: it is always context 0 that is cleared.
ClearFirst(op) ==
  /\ pc[op] = "clear"
  /\ ready' = [ready EXCEPT ![0] = 0]
  /\ Goto(op, "done")
  /\ UNCHANGED <<slot, chunk, attempt, aborted, outcome, flasherVars,
                 ctxVars, status, devVars, envVars>>

ClearReady(op) ==
  /\ pc[op] = "clear"
  /\ ready' = [ready EXCEPT ![slot[op]] = 0]
  /\ Goto(op, "done")
  /\ UNCHANGED <<slot, chunk, attempt, aborted, outcome, flasherVars,
                 ctxVars, status, devVars, envVars>>

-----------------------------------------------------------------------------
(* Aborts, timeouts and failing transport calls.                           *)

Abort(op) ==
  /\ MayAbort /\ op \in Flashes /\ ~Resting(op) /\ ~aborted[op]
  /\ aborted' = [aborted EXCEPT ![op] = TRUE]
  /\ UNCHANGED <<pc, slot, chunk, attempt, outcome, flasherVars, wordVars, devVars, envVars>>

\* The signal is read at the chunk boundary, once per getContext round, and per READY poll.
AbortSeen(op) ==
  /\ aborted[op]
  /\ pc[op] \in {"chunk", "wait"} \/ (pc[op] = "scan" /\ slot[op] = 0)
  /\ Throw(op, "failed")
  /\ UNCHANGED <<wordVars, devVars, envVars>>

\* Mutant: the verdict without the grace period.
DesyncHasty(op) ==
  /\ pc[op] = "check" /\ status = "IDLE" /\ ready[slot[op]] # 0
  /\ Throw(op, "desync")
  /\ UNCHANGED <<wordVars, devVars, envVars>>

\* The mailbox is IDLE, the context is still held, and both last beyond the pickup grace period,
\* which outlasts a hash request that is about to hand the same context back.
CounterDesync(op) ==
  /\ pc[op] = "check" /\ status = "IDLE" /\ Quiet /\ ready[slot[op]] # 0
  /\ \A h \in Hashes : slot[h] = slot[op] => pc[h] \notin {"bump", "await", "readout", "clear"}
  /\ Throw(op, "desync")
  /\ UNCHANGED <<wordVars, devVars, envVars>>

\* A no-progress budget (getContext, stallWatch) or the hash deadline lapses.
Stall(op) ==
  /\ pc[op] \in Polling
  /\ Impatient \/ Quiet
  /\ Throw(op, "failed")
  /\ UNCHANGED <<wordVars, devVars, envVars>>

Fault(kind) == kind \in faults /\ faults' = faults \ {kind}

\* A transport call rejects before it had any effect ...
LinkError(op) ==
  /\ Fault("linkError")
  /\ pc[op] \notin {"idle", "queued", "bump", "done"}
  /\ Throw(op, "failed")
  /\ UNCHANGED <<wordVars, devVars, inSync>>

\* ... or the READY write lands and its acknowledgement is lost.
LostAck(op) ==
  /\ Fault("lostAck")
  /\ pc[op] = "post"
  /\ WriteReady(op)
  /\ Throw(op, "failed")
  /\ inSync' = FALSE
  /\ UNCHANGED <<ctxVars, status, devVars>>

-----------------------------------------------------------------------------
(* The device (external).                                                  *)

\* get_context(): the first context whose READY equals the counter; context_counter++.
Pickup(i) ==
  /\ mode = "idle" /\ Matches(i) /\ \A k \in Slots : k < i => ~Matches(k)
  /\ devCounter' = devCounter + 1
  /\ cur' = i /\ place' = header[i] /\ content' = NoJob
  /\ mode' = IF header[i] \in HashJobs THEN "hash" ELSE "decompress"
  /\ status' = "BUSY"
  /\ UNCHANGED <<opVars, flasherVars, ready, ctxVars, flash, envVars>>

\* The NULL branch of the main loop.
Park ==
  /\ mode = "idle" /\ status # "IDLE" /\ \A i \in Slots : ~Matches(i)
  /\ status' = "IDLE"
  /\ UNCHANGED <<opVars, flasherVars, ready, ctxVars, devVars, envVars>>

\* DECOMPRESSING ends with release_context(), before the erase ...
Decompress ==
  /\ mode = "decompress" /\ payload[cur] = digest[cur]
  /\ ready' = [ready EXCEPT ![cur] = 0]
  /\ content' = payload[cur]
  /\ mode' = "work"
  /\ UNCHANGED <<opVars, flasherVars, ctxVars, status, cur, place, devCounter, flash, envVars>>

\* ... or in ERROR: the bytes do not hash to the expected digest, or do not decompress.
BadTransfer ==
  /\ mode = "decompress"
  /\ ready' = [ready EXCEPT ![cur] = 0]
  /\ mode' = "error" /\ status' = "BAD"
  /\ UNCHANGED <<opVars, flasherVars, ctxVars, jobVars, devCounter, flash, envVars>>

\* ERASE, PROG and the read-back hash succeed, or the region already matched.
WorkDone ==
  /\ mode = "work"
  /\ flash' = [flash EXCEPT ![place] = content]
  /\ mode' = "idle"
  /\ UNCHANGED <<opVars, flasherVars, wordVars, jobVars, devCounter, envVars>>

\* CHECK_HASH_FLASH fails: straight to ERROR.
WorkBad ==
  /\ mode = "work"
  /\ flash' = [flash EXCEPT ![place] = Garbage]
  /\ mode' = "error" /\ status' = "BAD_HASH_FLASH"
  /\ UNCHANGED <<opVars, flasherVars, ready, ctxVars, jobVars, devCounter, envVars>>

\* gnwmanager_action_hash: digests into the buffer, response_ready = 1, READY untouched.
HashDone ==
  /\ mode = "hash"
  /\ payload' = [payload EXCEPT ![cur] = place]
  /\ responded' = [responded EXCEPT ![cur] = TRUE]
  /\ mode' = "idle"
  /\ UNCHANGED <<opVars, flasherVars, ready, header, digest, status,
                 jobVars, devCounter, flash, envVars>>

\* ERROR is left on any context's READY flag, and the BAD_* status is cleared.
LeaveError ==
  /\ mode = "error" /\ \E i \in Slots : ready[i] # 0
  /\ mode' = "idle" /\ status' = "IDLE"
  /\ UNCHANGED <<opVars, flasherVars, ready, ctxVars, jobVars, devCounter, flash, envVars>>

DeviceStep ==
  (\E i \in Slots : Pickup(i)) \/ Park \/ Decompress \/ WorkDone \/ HashDone \/ LeaveError

\* An erase or a program that a reset cuts short.
Interrupt == flash' = IF mode = "work" THEN [flash EXCEPT ![place] = Garbage] ELSE flash

\* The stub's .data is re-initialised; the mailbox words are kept or cleared.
StubRuns ==
  /\ Interrupt
  /\ mode' = "idle" /\ devCounter' = 1 /\ status' = "IDLE"
  /\ cur' = 0 /\ place' = NoJob /\ content' = NoJob
  /\ ready' = IF ReadySurvives THEN ready ELSE [i \in Slots |-> 0]
  /\ UNCHANGED ctxVars

\* The stub restarts under a cached flasher.
StubRestart ==
  /\ Fault("stubRestart")
  /\ StubRuns
  /\ inSync' = FALSE
  /\ UNCHANGED <<opVars, flasherVars>>

\* The target resets out of the stub; the mailbox keeps its last status.
StubExit ==
  /\ Fault("stubExit")
  /\ mode # "off" /\ mode' = "off"
  /\ Interrupt
  /\ UNCHANGED <<opVars, flasherVars, wordVars, jobVars, devCounter, inSync>>

\* startStub on a new GnwFlasher: its counter is 1, and so is the device's.  The two sides
\* agree from here on if no word of an earlier stub is left and nobody else is running.
Boot(f) ==
  /\ f \notin booted
  /\ OverlapBoot \/ \A op \in Ops : Resting(op)
  /\ booted' = booted \cup {f} /\ current' = f
  /\ counter' = [counter EXCEPT ![f] = 1]
  /\ StubRuns
  /\ inSync' = (\A i \in Slots : ready'[i] = 0) /\ (\A op \in Ops : Resting(op))
  /\ UNCHANGED <<opVars, ctxLock, faults>>

-----------------------------------------------------------------------------
HostStep(op) ==
  \/ BeginChunk(op) \/ AcquireLock(op) \/ ScanContext(op)
  \/ FillHeader(op) \/ FillPayload(op) \/ Post(op) \/ Bump(op)
  \/ PollReady(op) \/ PollStatus(op) \/ ChunkDone(op) \/ RetryChunk(op) \/ VerifyError(op)
  \/ DeviceError(op) \/ StubGone(op) \/ DrainContext(op) \/ FlashDone(op)
  \/ AwaitResponse(op) \/ ReadDigests(op) \/ ClearReady(op) \/ AbortSeen(op)

GiveUp(op) == CounterDesync(op) \/ Stall(op)

Next ==
  \/ \E op \in Ops :
       \/ StartFlash(op) \/ StartHash(op) \/ HostStep(op) \/ GiveUp(op)
       \/ Abort(op) \/ LinkError(op) \/ LostAck(op)
  \/ DeviceStep \/ BadTransfer \/ WorkBad \/ StubRestart \/ StubExit
  \/ \E f \in Flashers : Boot(f)

Spec == Init /\ [][Next]_vars

\* JavaScript runs every ready continuation and the device's loop runs (WF).  A budget is
\* read at each poll of a wait, between other steps of the same wait, hence SF: a wait that
\* stays silent is ended.  Nothing forces a user, a fault or a failed verification.
Fairness ==
  /\ \A op \in Ops : WF_vars(HostStep(op)) /\ SF_vars(GiveUp(op))
  /\ WF_vars(DeviceStep)

FairSpec == Spec /\ Fairness

-----------------------------------------------------------------------------
(* Properties.                                                             *)

OpType ==
  /\ pc \in [Ops -> PCs]
  /\ slot \in [Ops -> Slots]
  /\ chunk \in [Ops -> 0 .. Chunks]
  /\ attempt \in [Ops -> 1 .. MAX_FLASH_HASH_ATTEMPTS]
  /\ aborted \in [Ops -> BOOLEAN]
  /\ outcome \in [Ops -> {"none", "ok", "garbled", "failed", "verifyError", "desync"}]

FlasherType ==
  /\ counter \in [Flashers -> Nat \ {0}]
  /\ ctxLock \in [Flashers -> Seq(Ops)]
  /\ booted \subseteq Flashers
  /\ current \in Flashers

WordType ==
  /\ ready \in [Slots -> Nat]
  /\ responded \in [Slots -> BOOLEAN]
  /\ {header, digest, payload} \subseteq [Slots -> Jobs \cup {NoJob}]
  /\ status \in {"IDLE", "BUSY", "BAD", "BAD_HASH_FLASH"}

DeviceType ==
  /\ mode \in {"idle", "decompress", "work", "hash", "error", "off"}
  /\ cur \in Slots
  /\ {place, content} \subseteq Jobs \cup {NoJob}
  /\ devCounter \in Nat \ {0}
  /\ flash \in [Jobs -> Contents]

HistoryType ==
  /\ faults \subseteq FaultKinds
  /\ inSync \in BOOLEAN

\* Every variable keeps its range.
TypeOK == OpType /\ FlasherType /\ WordType /\ DeviceType /\ HistoryType

\* ctxLock: of the operations of one flasher, at most one is between the end of its wait in
\* the promise chain and release().
OneClaimant ==
  \A a, b \in Ops : Owner[a] = Owner[b] /\ Holds(a) /\ Holds(b) => a = b

\* The value the current flasher posts next: its counter, plus one while a post has landed
\* and `contextCounter += 1` has not run yet.
NextPost ==
  counter[current] +
    (IF \E op \in Ops : Owner[op] = current /\ pc[op] = "bump" THEN 1 ELSE 0)

\* The posted values the device has not reached yet.
Pending == devCounter .. (NextPost - 1)

\* THE INVARIANT of claimContext: the host posts consecutive values and each one stays in
\* exactly one context until the device picks it up, so the device never waits for a value
\* that exists nowhere.
PostsInOrder ==
  /\ devCounter <= NextPost
  /\ \A i \in Slots : ready[i] < NextPost
  /\ \A i, k \in Slots : ready[i] = ready[k] /\ ready[i] # 0 => i = k
  /\ \A v \in Pending : \E i \in Slots : ready[i] = v

\* It holds while the two counters have not been set apart by a stub restart, by a lost
\* acknowledgement, or by words left over from an earlier stub.
Lockstep == inSync => PostsInOrder

\* Only operations of the current flasher run.
Alone == \A op \in Ops : ~Resting(op) => Owner[op] = current

\* A claimed context stays free until its post, and holds what its claimant filled in.
ClaimsHold ==
  \A op \in Ops :
    /\ pc[op] \in {"header", "payload", "post"} => ready[slot[op]] = 0
    /\ pc[op] \in {"payload", "post"} => (header[slot[op]] \in HashJobs <=> op \in Hashes)
    /\ pc[op] \in {"payload", "post"} /\ op \in Hashes => ~responded[slot[op]]

\* A posted hash request keeps its context to itself until it clears READY.
HashWait == {"bump", "await", "readout", "clear"}
HashesHold ==
  /\ \A op \in Ops : pc[op] \in {"await", "readout", "clear"} => op \in Hashes
  /\ \A op \in Hashes : pc[op] \in HashWait =>
       /\ ready[slot[op]] # 0 /\ header[slot[op]] \in HashJobs
       /\ pc[op] \in {"readout", "clear"} => responded[slot[op]]
  /\ \A a, b \in Hashes :
       pc[a] \in HashWait /\ pc[b] \in HashWait /\ slot[a] = slot[b] => a = b
  /\ \A i \in Slots : ready[i] >= devCounter /\ header[i] \in HashJobs => ~responded[i]

\* The context the device transfers or hashes is one it has taken and not released.
DeviceHolds ==
  /\ mode \in {"decompress", "hash"} => 0 < ready[cur] /\ ready[cur] < devCounter
  /\ mode = "decompress" => header[cur] \notin HashJobs
  /\ mode = "hash" => ~responded[cur]

\* Lockstep strengthened to an inductive invariant.
SyncInv == inSync => PostsInOrder /\ Alone /\ ClaimsHold /\ HashesHold /\ DeviceHolds

\* No step replaces a posted READY by another value, or clears one, before the device's
\* counter has passed it ("EVERY context the host posts is picked up by the device",
\* mailboxrace.mjs).
NoOverwrittenPost ==
  [][inSync /\ inSync' /\ booted' = booted =>
       \A i \in Slots : ready[i] # 0 /\ ready'[i] # ready[i] =>
         ready'[i] = 0 /\ ready[i] < devCounter]_vars

\* A hash request that ended without clearing READY still holds context i.
Leaked(i) == \E h \in Hashes : pc[h] = "done" /\ slot[h] = i /\ outcome[h] = "failed"

\* The desync verdict of waitForContextComplete is "a proof rather than a guess": it falls
\* only when the counters really disagree, the stub no longer runs, or a hash request died
\* holding the context.
DesyncIsProof ==
  [][\A op \in Ops : outcome'[op] = "desync" /\ outcome[op] # "desync" =>
       ~inSync \/ mode = "off" \/ Leaked(slot[op])]_vars

\* A region is never programmed with the bytes of another one, whatever interleaves and
\* whichever fault hits: ACTION/OFFSET/SIZE and the payload the device combines are of one
\* fill.
NeverMisplaced == \A j \in Jobs : flash[j] \in {NoJob, Garbage, j}

\* "flash complete (device-verified)": when flash() returns, every chunk was programmed and
\* verified, as long as the two sides are in step.
SuccessMeansVerified ==
  [][\A op \in Flashes :
       outcome'[op] = "ok" /\ outcome[op] # "ok" /\ inSync =>
         \A c \in 1 .. Chunks : flash[<<op, c>>] = <<op, c>>]_vars

\* A hash request returns the digests of its own region.
NoGarbledDigests == \A op \in Hashes : outcome[op] # "garbled"

\* Every operation ends, whatever fault hits it, as long as the loops of both sides run.
EveryOperationEnds == \A op \in Ops : pc[op] # "idle" ~> pc[op] = "done"

\* While the two sides are in step the mailbox is a FIFO of jobs: those of the contexts
\* that hold the pending values, in the order of the values.
HolderOf(v) == CHOOSE i \in Slots : ready[i] = v
Posted == [k \in 1 .. (NextPost - devCounter) |-> header[HolderOf(devCounter + k - 1)]]
Working == IF mode \in {"decompress", "work", "hash"} THEN place ELSE NoJob

Queue == INSTANCE JobQueue WITH queue <- Posted, active <- Working, Capacity <- N_CONTEXTS

\* The mailbox implements JobQueue as long as the stub is neither rebooted nor restarted and
\* no acknowledgement is lost.
RefinesJobQueue == Queue!Spec

=============================================================================
