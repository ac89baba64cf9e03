# Verification of the Game & Watch web builder

TLA+ models, model checking and machine-checked proofs for the parts of this
repository whose mistakes brick hardware or lose what the user has, and depend on
how promises, timers, USB events, tabs, removals and a second processor
interleave: the browser's half of the SWD mailbox protocol
(`packages/gnw-flasher`), the probe session that owns the USB link
(`apps/web/src/lib/device.svelte.ts`), one device operation with its retries and
its disconnect warning (`engine/flasher.ts`, `installProgress.svelte.ts`), what
the app holds prepared (`sources/prepareState.svelte.ts`), the list of content
sources (`sources/store.svelte.ts`), the store that moves a
user's bundles and covers from one browser store to another
(`sources/keyedBlobStore.ts`), and the move of files on an SD card
(`sdHomebrewMigration.ts`).  The suites drive one schedule each; the models take
all of them.

Paths below are relative to the repository root.

## 1. Inventory

| Component | State | Operations | Interacts with |
|---|---|---|---|
| **GnwFlasher** `packages/gnw-flasher/src/index.ts` | `contextCounter`, `ctxLock` (a promise chain), `inFlight` | `flash`, `program`, `readHashes`, `claimContext`, the waits, `startStub` | the stub, through words in RAM: READY, RESPONSE_READY, the context header and buffer, STATUS |
| **The stub** (gnwmanager, a submodule) | `context_counter`, a state machine, the flash | picks up a context, decompresses, erases, programs, verifies, hashes | the mailbox |
| **DeviceStore** `device.svelte.ts` | `connection`, `probe`/`transport`, `flasher`, `_gen`, `_stubBootDepth`, `_reconnectAfterBoot`, `_deferredDispose`, `pollSuspendDepth`, `_suppressAutoRetry` | `connect`, `connectSilent`, `disconnect`, `resetDevice`, `handleLost`, `reconnectLoop`, `ensureStub`, the liveness poll, scans | USB events, timers, the views, `flashImage` |
| **flashImage** `engine/flasher.ts` | attempt and dead-handle budgets, watchdog, the flash it leaves running | acquire a flasher, flash, retry | `ensureStub`, `GnwFlasher.flash` |
| **Transport** `engine/transport.ts`, `packages/swd-transport` | a FIFO per link | `connectProbe`, `serialTransport`, time boxes | WebUSB |
| **Install progress and device safety** `installProgress.svelte.ts` | the modal's phase, an AbortController, reference-counted holds, the warning | `confirm`, `confirmCancel`, `hold`, `release`, `markQuiet`, `linkGone` | DeviceStore (poll, boots, lost links), views |
| **Unlock gate** `engine/unlockGate.ts` | none (evidence is passed in) | predicates over the evidence | views |
| **Prepared content** `sources/prepareState.svelte.ts`, `convertedCache.ts` | assets and their provenance, inputs, removals, spinners; a pointer per title in localStorage, blobs in OPFS | `run`, `restore`, core and shipped fetches, discovery, `unsupply`, `forgetCleared`, `forgetSource` | sources, cache pane, views, reloads |
| **Sources list** `sources/store.svelte.ts`, `autoDownload.ts`, `bundleStore.ts` | rows and removals (localStorage), kept zips (OPFS), notes of what failed, the add form, a queue of downloads | `load`, `importCurated`, `retryCurated`, `restore`, `add`, `addResolved`, `importBundleFile`, `refresh`, `updateAll`, `selectVersion`, `setActive`, `remove` | the projects' mirrors, the firmware release's list, prepared content, views, reloads |
| **littlefs writer, install, OFW, restore guards** | images in memory | compute what is sent to the chip | `flashImage` |
| **Blob stores** `sources/keyedBlobStore.ts` and users | pointer index, content-addressed bytes, a legacy store | get, put, delete, promote, migrate | OPFS, IndexedDB, other tabs |
| **SD migration** `sdHomebrewMigration.ts` | two directories of a card, a remembered decline | scan, offer, move with verification, remove the old directory | File System Access, `RomManagementTab`, the modal's signal |
| Patching and image builders, views, i18n, cheats, scraper, backend, desktop | — | — | — |

What is hard about them, in the order of importance:

1. *Two sides without a lock.*  The mailbox is shared memory between a browser
   and a microcontroller.  The device picks up a context only when its READY
   word equals a counter that both sides keep separately.  Operations interleave
   at every transport call; a call may reject, reject after it took effect, or
   the stub may restart or vanish between two calls.
2. *One handle, many owners.*  A stub boot resets the target and makes the probe
   re-enumerate, so that the boot itself fires the event that tears the
   connection down.  Teardown, boot, reconnect cadence, adapter poll, USB
   events and the user all act on one `USBDevice`.
3. *Retries.*  Budgets per block, per image and per dead handle, a watchdog that
   rejects without cancelling what it guards, a FIFO behind a call that may
   never settle.
4. *Storage that moves.*  Promotion and deletion race; a crash may fall between
   a copy and the removal of the original.
5. *One shelf, many hands.*  Runs, restores and fetches fill it across awaits;
   removed files, cleared categories and removed sources take things out; and
   half of the state outlives the session while the other half does not.
6. *Answers to old questions.*  Every source is looked up over the network, by
   several callers at a time, while the user adds, removes, pins and deactivates.

What makes each of them correct:

- mailbox: claims exclude each other; a posted context is picked up, once, in
  order; a chunk is never programmed with the bytes of another; success means
  verified; every operation ends;
- probe session: nothing begins to close the handle a boot writes through; what
  was deferred to a boot is done after it, and not to the session that is live by
  then; the poll comes back; a lost link is retried, a manual disconnect is not;
- retry: a retry never uses the flasher that failed; every operation ends; a
  drop spends its own budget;
- safety: the warning stands while anything writes and comes down on the device's
  word only;
- prepared content: a title is held whole or not at all, with what an install
  needs; what was removed stays away; a reload brings back what was there;
- sources: what the user removed, deactivated or pinned stays so whatever answer
  comes back; what cannot be read leaves a note; a row claims only what there is;
- SD card: an original is in one directory or the other, whole, and nothing whose
  lookup was answered is overwritten; running again finishes;
- stores: a key that was stored is readable until it is deleted.

`PROJECT.json` lists every component with its status, and every hazard with its
source line and the properties that watch it.

## 2. Plan

| Module | Depends on | State |
|---|---|---|
| `JobQueue` – what the mailbox promises | – | done |
| `Mailbox` – host and stub | refines `JobQueue` | done |
| `MailboxProofs`, `MailboxSyncProofs` | `Mailbox` | types, every safety property and the refinement of `JobQueue` done |
| `DeviceConnection` – the probe session | – | done |
| `DeviceConnectionProofs` | `DeviceConnection` | types and every safety property done |
| `FlashRetry` – one device operation: `flashImage`'s budgets and watchdog, the getter, the FIFO, the warning, the poll | takes the outcomes of `Mailbox` and `DeviceConnection` as faults | done |
| `FlashRetryProofs` | `FlashRetry` | types and the three invariants done |
| `PrepareState` – what is prepared, and what takes it out again | – | done |
| `PrepareStateProofs` | `PrepareState` | types and all eight invariants done |
| `SourcesStore` – the list of sources, its calls and its downloads | – | done |
| `SourcesStoreProofs` | `SourcesStore` | types and all four invariants done |
| `KeyedBlobStore` – get, put, delete, promote, migrate of several tabs | – | done |
| `KeyedBlobStoreProofs` | `KeyedBlobStore` | types, `Serves`, `NothingStale` and `NothingUnreachable` done |
| `HomebrewCard` – what a move promises of the card | – | done |
| `SdMigration` – the move, await by await | refines `HomebrewCard` | done |
| `SdMigrationProofs` | `SdMigration` | types, both action properties, that no content is lost, and the refinement's safety done |

Every safety property that a passing run checks is a theorem.  What is left is
liveness, which stays with TLC (section 10).

## 3. Mailbox

### Correspondence

One variable `pc` per operation names the `await` it is suspended at; one action
is what happens between two awaits that touch the mailbox.

| Code | Model |
|---|---|
| `claimContext`: joining the promise chain, waiting, `release()` | `Enqueue` (in `BeginChunk`, `StartHash`), `AcquireLock`, `Release` (in `Bump`, `Throw`); `ctxLock[f]` is the chain of flasher `f` |
| `getContext` | `ScanContext`: one READY read; the abort signal once per round |
| the `fill` callbacks | `FillHeader` (ACTION, OFFSET, SIZE, …), `FillPayload` (digests and bytes) |
| `writeWord(READY, contextCounter)`; `contextCounter += 1` | `Post`; `Bump` |
| `waitForContextComplete` | `PollReady`, `PollStatus`, `DeviceError`, `CounterDesync` |
| `waitForIdle` | `ChunkDone`, `DeviceError`, `StubGone` (the VTOR witness) |
| `program`'s three attempts | `RetryChunk`, `VerifyError` |
| `waitForAllContextsComplete` and the end of `flash` | `DrainContext`, `FlashDone` |
| `readHashes` | `AwaitResponse`, `ReadDigests`, `ClearReady` |
| no-progress budgets, deadlines | `Stall` |
| abort signal | `Abort`, `AbortSeen` |
| `startStub` on a new flasher | `Boot` |

The device is external.  Its actions come from what the comments of
`packages/gnw-flasher` and its protocol suites say of `gnwmanager.c`: it takes
the context whose READY equals its counter (`Pickup`), idles when none does
(`Park`), releases the context *before* it erases (`Decompress`), parks in ERROR
on a bad transfer (`BadTransfer`) or a bad read-back (`WorkBad`), leaves ERROR
on any READY flag (`LeaveError`), and signals a hash through RESPONSE_READY
(`HashDone`).

Data is abstract: the content of a header, a digest, a payload and a flash
region is the *job* (operation, chunk) it belongs to, `NoJob`, or `Garbage`.
That is what the properties tell apart.  Timeouts: a budget that outlasts
everything the device does in its stead may lapse only when the device is
`Quiet`; with `Impatient` it may lapse on a working device as well.

`inSync` records that nothing has set the two counters apart (a restart of the
stub, a lost acknowledgement, READY words left from an earlier stub).  It is a
history variable: no action reads it.

### Runs

| Run | Instance | Shows |
|---|---|---|
| `mailbox_flash` | flash `f1` on stub A, then `f2` on stub B; 2 contexts, 2 chunks, 2 attempts; each of link error, lost acknowledgement, stub restart and stub exit may hit once | `TypeOK`; `NeverMisplaced`: no region ever gets another one's bytes; `SuccessMeansVerified`, while in sync |
| `mailbox_shared` | flash `f1` and hash `h1` on one flasher, abort, a link error, a stub exit; fairness | `Lockstep`, `NoGarbledDigests`, `DesyncIsProof`, `RefinesJobQueue`, `EveryOperationEnds` |

Bounds.  Two contexts are the code's.  Two chunks give a first chunk, a
successor that may find the other context free, and a drain.  Two attempts
instead of three give a retry and an exhausted budget.  Two operations are the
most that interact: a third claimant only lengthens the chain.  Each fault
happens at most once, at any point; two operations and two stub boots let a
fault of the first reach the second.  The counters need no bound of their own:
posts are bounded by chunks × attempts.

Fairness.  Weak fairness for each operation's steps and for the device's loop:
the JavaScript event loop runs every ready continuation and the stub's main loop
runs.  Strong fairness for giving up: a budget is compared at each poll of a
wait, between other steps of the same wait.  Nothing is assumed about users,
faults or verification results.

### Seen, without a run

- *A success that is none.*  A flash chunk arrives damaged; the device releases the
  context and parks in ERROR with a BAD status.  Before the flash polls STATUS,
  a hash request of the same flasher posts READY; the device leaves ERROR on any
  READY flag and the status is cleared.  The flash reads IDLE and ends with
  "flash complete (device-verified)" although the chunk was never written.  The
  error belongs to the mailbox, not to the context, and `claimContext`'s lock is
  given up before the wait.  `SuccessMeansVerified` is therefore checked, and
  proved, without a second operation on the same stub (`mailbox_flash`), where it
  holds; with `f1` and `h1` of
  `mailbox_shared` TLC finds it violated.
- *A context that is worked on again.*  A boot resets both counters and clears STATUS, but not the
  READY words.  After a restart under a running flash a context posted to the
  old stub can hold a value the new stub's counter reaches, and the new stub
  works on it.  `NeverMisplaced` shows that it is at least worked on as a whole.

### Proofs

`MailboxProofs` (from `MailboxAssumption`, for all constants):
`TypeCorrect` and `MutualExclusion` (`OneClaimant`).  Mutual exclusion is not inductive; the
strengthening `LockInv` says that an operation past its wait is the *head* of its
flasher's chain, so that two of them are the same one.

`RegionsHoldTheirOwn` (`NeverMisplaced`) assumes `~OverlapBoot` and nothing of the
faults, so it also covers the times when the two counters disagree.  The device
reads ACTION/OFFSET/SIZE at the pickup and the payload later, so its invariant
`FillInv` follows a fill: a context being filled is free and of one job
(`FillsHold`), a hash request that will clear READY has its context to itself
(`HashesKeep`), a posted flash context is of one job (`Whole`), and what the
device transfers is still posted (`TransferHolds`).  One behaviour breaks it: a
restart that clears READY under a waiting hash request, whose clearing may then
hit a context somebody else is filling.  But the device is then `Silent`: its
counter is back at 1, the host's is past it, and nothing is taken until the next
boot, which waits for every operation to end.  `MisplacedInv` is the disjunction.

`MailboxSyncProofs`: `LockstepHolds` and `PostsSurvive` (`NoOverwrittenPost`).  `Lockstep` alone is not
inductive, because the host writes READY without looking: one needs that the
claimed context is still free at the post (`ClaimsHold`), that a hash request
keeps the context it waits on although the device has passed its value
(`HashesHold`), that the device releases only what it has taken (`DeviceHolds`),
and that nobody of an earlier flasher is still running (`Alone`).  `SyncInv` is
their conjunction under `inSync`; `SyncInvariant` proves it from `TypeOK` and
`LockInv`, one lemma per kind of step, and both theorems follow.

Beside `SyncInv` the module proves, in this order:

- `VerdictIsProof` (`DesyncIsProof`), for all constants.  `Holders` says who holds
  a context that the device has passed and whose READY is set: a hash request
  that waits or died on it, or the device itself.  A wait that ends in the
  verdict finds neither.
- `DigestsAreOwn` (`NoGarbledDigests`), under `Undisturbed`: one stub boot, and no
  fault that sets the counters apart.  The response in a waiting request's
  context is the response to it (`DigestInv`).
- `MailboxIsQueue` (`RefinesJobQueue`), under `Undisturbed`.  `Shape` replaces the
  CHOOSE in the mapping by the one slot that holds a pending value; a post then
  appends, a pickup takes the head, every other step stutters or finishes.  That
  the queue never exceeds its capacity is a pigeonhole argument: each pending
  value is in a slot of its own, and the claimed slot holds none.
- `SuccessIsVerified` (`SuccessMeansVerified`), under `OneAtATime`: no two
  operations share a stub, and no stub is booted under a running one; aborts,
  retries and every fault included.  `flash()` sees only READY 0 and an idle
  STATUS; `Solo` says what they tell.  The context waited for is the last one
  posted, so once it is free the device has passed every value, and it is idle
  only after the chunk was verified: it works on nothing else (`ChunkHolds`), STATUS
  reads busy while it works, and ERROR is left only for a context still to be
  taken (`ErrorPends`), never by an old one.

## 4. DeviceConnection

### Correspondence

| Code | Model |
|---|---|
| `probe`, `transport` | `link`: a handle `<<serial, device>>`; several handles may wrap one `USBDevice` |
| `_gen` | what it decides: `loop` (the newest `reconnectLoop`, gone once superseded) and `bootFresh` (`gen === this._gen`) |
| `_stubBootDepth` | the number of flows in `Booting` |
| `connect()` and its phases | `Connect`, `AttachOk`, `AttachDone`, `AttachEnd`, `AttachFail` |
| `connectSilent()` from the USB event or the adapter poll | `SilentStart`, `SilentGo` |
| `_teardownConnection()` up to `await probe.dispose()`, and after it with what its callers do | `TearStart`; `TearEnd`, `TearDone` |
| `ProbeHandle.dispose()`: called; the close, awaits later | `Dispose` (in `TearStart`, `Flush`, `BootFailed`); `Closed` |
| `handleLost()` | `HandleLost`, from `PingLapsed` or `UsbDisconnect` |
| `reconnectLoop()` | `LoopWake`; `AttachFail` ends it, see below |
| `disconnect()`; `resetDevice()`, the write and what follows it | `Disconnect`; `ResetDevice`, `ResetGo` |
| liveness poll, `suspendPoll`/`resumePoll` | `PollTick`, `PingAnswered`, `PingLapsed`, `StartPoll`, `ResumePoll` |
| `ensureStub` / `_ensureStubInner` | `Acquire`, `AcquireFail`, `CheckReuse`, `CheckReboot`, `BootStart`, `BootOk`, `BootFail`, `BootFailed` |
| `_flushDeferredDispose()` | `Flush` |
| `runScan()`, `_doScan()` | `Scan` and `AttachEnd`, only as far as they bump `_gen` and wait for a write |
| a flash flow of the views around `flashImage` | `OpStart`, `FlashOk`, `FlashFail`, `Again`, `OpEnd` |

External: the adapter leaves the bus and comes back as another `USBDevice`
(`Drop`, `Replug`), or re-enumerates because a boot reset the target
(`BootDrop`: the event fires, the open handle goes on working, which is what
`test/recovery.mjs` pins).

A dispose is begun in one step and closes the `USBDevice` in a later one
(`closing`): both kinds of handle await a last transfer before they close, and
until then `probe` and `transport` are still set.  In between everything else may
happen, a boot may begin and an attach may land on the same device.  `preBoot` and
`preLink` are history variables: the disposes under way when a boot began, and
when the session attached.

### Runs

| Run | Instance | Shows |
|---|---|---|
| `connection` | one flow with a retry, 2 attaches, 1 drop; fairness | `TypeOK`, `PollComesBack`, `FlowsEnd` |
| `connection_user` | one flow, 2 attaches, one failing transfer, the user connects, disconnects and resets once each | `NothingLeftDeferred`, `BootKeepsItsHandle`, `LiveHandleStaysOpen` |
| `connection_lost` | no flow, 3 attaches, 1 drop; fairness | `Reconnects` is **violated** |

Bounds.  One flow: the views run one at a time; overlapping boots are covered by
the proofs, which have no bound.  Two attaches are a session and the one that
replaces it over the same or another `USBDevice`, while a dispose of the first is
deferred or under way; `connection_lost`, which has no flow, takes three.  One drop
distinguishes an old `USBDevice` from a new one; `BootDrop` is not counted, the
boot may re-enumerate at any time.  A step at its bound is disabled, so the two
liveness properties do not blame the bound: `Reconnects` is excused when the
attaches are used up.

Fairness.  Callbacks and continuations run, the two ways to reconnect included;
an adapter that left the bus comes back.  A transfer settles here, and with it a
dispose (`Closed`); what one does that never settles is `FlashRetry`'s.  Users,
drops and failing transfers are never forced.

### Findings

- `connection_lost`.  `connect()` tears down when it fails, the teardown bumps
  `_gen`, and `reconnectLoop`'s catch takes that for a newer session and returns.
  Its first failing attempt is its last, and `connection` stays "connecting",
  which also shuts out `connectSilent` and the adapter poll.

Seen, and without a run:

- *A close under a boot.*  The depth of boots is looked at before `await
  probe.dispose()`, and `probe` is reset after it (`device.svelte.ts:1725-1737`).
  A flow that asks for its flasher in between finds the transport and begins a
  boot, under which the dispose then closes the device.  `BootKeepsItsHandle`
  excepts exactly these (`preBoot`): what closes a device under a boot was under
  way before it.
- *A close under the live session.*  `test/recovery.mjs:18` says of a deferred close
  that it "must never close the handle that is live NOW".  It is compared with
  the live session when it is begun (1756) and closes some awaits later (1757): a
  flow boots, the user disconnects, the boot ends and the flush begins the
  dispose, the user connects, the attach lands on the same `USBDevice`, and the
  dispose closes it.  `LiveHandleStaysOpen` excepts exactly these (`preLink`).
- *A close begun twice.*  In the same windows a handle can be disposed of by two
  teardowns, or deferred after its dispose began; "exactly once" (17) is the
  suite's schedule.
- `resetDevice()` awaits its write with nothing that keeps it from a boot; no view
  calls it.

- *An attach after a disconnect.*  One that a retry loop has in flight looks at nothing
  after its awaits, so one that `disconnect()` did not wait for completes after it
  and the session is up again (`AttachOk` after `Disconnect`), although
  `disconnect()` says it suppresses "any handleLost retry loop already in flight".
- A boot that saw a drop, succeeded and was superseded throws before
  `_reconnectAfterBoot` is drained; all the flag then does is make the next failing
  boot tear down a link that did not drop.

### Proofs

`DeviceConnectionProofs` (from `ConnectionAssumption` – finitely many flows, at
least one try each – for any number of attaches, drops and failures) proves every
safety property of the runs, and `SuspensionsEnd`.  Closes are not guarded at
their step, so that neither handle property is inductive: `OnlyDisposesClose` says
that a device is closed by a dispose that was under way, and two invariants say
which those are.  `BootShields`: all that is under way while a flow boots was under
way when its boot began, because every step that begins one looks at `Booting`
first and `BootFailed` tears down and flushes after the last boot.
`SessionShields`: a dispose under way that aims at the device of the session that
is up is that session's own teardown's or older than the session, because the
flush compares devices and not handles, and a new attach makes all that is under
way older than itself.  From the two follow `BootOwnsItsHandle`
(`BootKeepsItsHandle`) and `DeferredCloseSparesTheLive` (`LiveHandleStaysOpen`);
`DeferredCloseHappens` (`NothingLeftDeferred`) needs the stages of the flows only.

`ConnectionTypeOK` needs `Tried`: a flow that has not failed yet has tries left,
which is what bounds the counter.  `NoSuspensionSurvives` and `PollRuns` rest on
`PollInv`.  Its first part bounds the depth by the suspensions that are really
held: `depth` is at most the number of writing flows and nested boots.  It is an
inequality, for a teardown zeroes the depth under them and later resumes stop at
zero; with it, a depth without a suspension is impossible.  The other two say
that an open session that nothing suspends, tears down or reports lost is polled,
and that an attempt which is still probing has not connected.  The count over
flows is a cardinality, whence the finiteness of `Operations`.

## 5. KeyedBlobStore

### Correspondence

Bytes are their hash: `cache` is the set of contents that OPFS holds, `index` the
pointers in localStorage, `legacy` the IndexedDB store.  `call[w]` is a call in
flight, of any tab, with the `await` it is suspended at; what happens between
two awaits is one action, and the read-modify-write of a pointer, which has no
await, is part of it.

| Code | Model |
|---|---|
| `get()` | `Get`, `ReadCache`, `ReadLegacy`, then the promotion |
| `promote()`, from `get()` and `migrate()` | `Write` or `Refuse`, `Verify`, `Point`, `Unlink` |
| `put()` | `Put`, `Write` or `Refuse`, `PutPoint`, `Drop`, `Unlink`; `Fallback` |
| `delete()` | `Delete`, `Drop`, `Forget`, `Unlink` |
| `legacy.keys()`, empty on any failure | `Listed` |
| `migrate()` | `Visit` (flag and `keys()`), `NextEntry`, the promotion, `Return`, `EndVisit` (the last `keys()` and `markDone`) |
| `BlobCache.put` / `delete` / `clear` | `Write`, `Refuse` / `Remove` / `Evict` |

`Faults` and `MAX_FAULTS` say what may go wrong and how often: a write that OPFS
refuses or that reports success and keeps nothing, an eviction, a pointer that
does not fit into localStorage, a delete that IndexedDB does not do, a listing or
a read that it does not answer (`keys()` is then empty, `get()` null), a tab that
closes.  Contents in `Oversized` are always refused.

`latest`, `excused` and `stranded` are history variables.  `stranded` are the keys
that the old store still held when it was marked as drained, and what a refused
put puts into it afterwards: no pass comes for them any more.  `latest[k]` is what the last put
or delete of `k` left, or what the old store held.  A key becomes `excused`,
for good, when the code promises nothing of it any more:

- a put or delete of the key overlapped with another call or pass on the key;
- its blob was removed from outside: evicted, refused over an existing copy, or
  dropped by a put or delete of another key with the same bytes;
- a put fell back to the old store behind the pointer of an earlier put, or was
  cut, or believed a write that kept nothing;
- the old copy of a put or delete was not deleted, so that the next pass may
  promote it.

Each of these is behaviour of the model, and a hazard in `PROJECT.json` where it
bites.  `Serves` is about the drain, which is behind one of them only: a write it
is refused removes the copy of the same bytes that another key may point at.

### Runs

| Run | Instance | Shows |
|---|---|---|
| `blobs` | two keys, three contents of which one is oversized and one is what callers put, one caller, one pass with a budget of 1, one fault of any kind but `pointer`; fairness | `Serves`, `NothingStale`, `NothingUnreachable`, `Drained` (`TypeOK` is proved) |

Bounds.  Two keys are what sharing bytes and starving one another take.  Two
ordinary contents distinguish a replaced blob from its successor; callers put the
one (`Puts`), the old store starts with any; the oversized one is an entry that
always fails.  A budget of 1 makes every pass end early
when two entries are left.  A caller and a pass overlap on a key in every order;
the proof has any number of each.  One fault is enough for each promise; the
proof has any number.  Calls, passes and visits are not bounded: the state space
is finite.

Fairness (`FairSpec`).  Continuations run, and each pass is started again until
the store is marked as drained: `runCacheMigrations` starts one on every visit.  Callers
and faults are never forced, and `Drained` holds only if calls that write a key
do not go on for ever.

### Seen, without a run

- *Drained by a failure.*  `legacy.keys()` is "Empty on any failure -- which correctly
  reads as 'nothing left to move'" (`keyedBlobStore.ts:128`; `bundleStore.ts:84-102,
  134-138` answer `[]`).  For the list of work that is so; the second one, at the
  end of `migrate()` (368), is `remaining`, and a failure there, or at both of
  them, makes it 0 and marks the store as drained with entries left, for good: no
  later pass looks at them.  `get()` still finds them in the old store and promotes
  them one at a time, so that nothing is lost; `Serves` has that.  `Drained`
  excepts the keys that were left behind then (`stranded`) and no others.
- *A pointer refused.*  `localHashPointerIndex` swallows a `setItem` that throws, so
  `promote()` deletes the old copy although nothing leads to the new one.  The
  header's "At no instant is the entry in neither place" holds of the bytes and
  not of the entry; for a bundle the user imported there is no re-fetch.
- *An old copy that comes back.*  `put()` tries to delete the old copy and does not
  look whether it is gone (266); the next pass promotes it over the newer value.
- *Bytes that two keys share.*  `put()` deletes the blob it replaced without asking whether
  another key points at it, which the store's own suite has happen.
- *A miss of an entry that is held.*  A `get()` that found no pointer and reads the old
  store after another tab promoted the entry answers null (`ReadLegacy` with `old =
  None`); "Null / false always means 'not held'" is not so for that instant.  Within
  one tab IndexedDB serves the two in the order in which they were asked.

### Proofs

`KeyedBlobStoreProofs` (from `StoreAssumption`, for any keys, contents, callers,
passes, budget and number of faults): `TypeCorrect`, `AlwaysServed`, which
also assumes `"pointer" \notin Faults` (the refused pointer above is why it has to),
`CurrentInFlight` (`NothingStale`), on the same terms, and `NothingStranded`
(`NothingUnreachable`), which assumes nothing.
`TypeInv` adds to the types which fields a call has at each stage (`Shaped`).
`Serves` is not inductive: a pass at `Unlink` is about to delete the old copy,
and nothing in `Serves` says that the pointer is there.  `ServeInv` says of each
key that is not excused that a call that writes it is alone on it (`Alone`),
what a call has established at its stage (`Agrees`: what a get or a promotion carries is
what the key should be served, past the read-back it is in OPFS, past the pointer
the pointer leads to it), and that pointer and old copy hold that value and no
other while no write has touched them (`Settled`).  One lemma per action.

`NothingUnreachable` is not inductive either.  Much of what it accepts is given up
without a look at the cache: the old store is emptied, a call that has only read
its bytes may end, and a pointer that a `delete()` is about to forget goes.
`Anchored` leaves those out: a blob has a pointer that stays, or a call between
its write and its pointer, or between the new pointer and the removal of the old
blob.  Handing a blob on from one to the next takes what `Good` knows: the pointer
that a promotion sets is the one the key has, if it has any, and a put, alone on
its key, goes on with the pointer it replaced.  `Dooms` adds that a `delete()`
drops what its key points at.  `ReachInv` holds `Tight` – `Good` for every key,
`Dooms`, `Anchored` for every blob – while `Clean`: no fault, no key excused,
neither of which is ever taken back; so the lemmas of `AlwaysServed` serve again,
for a pointer that is set without a fault sticks.

## 6. FlashRetry

### Correspondence

One operation at a time, of one of three kinds: `"modal"` is
`InstallProgressStore.confirm` around a view's flow, `"browser"` an edit of the
file browser (which holds the warning, does not suspend the poll and passes
`allowReboot = force`), `"boot"` the header's Start Recovery Mode.  `pc` names
the await it is in.  One transfer stands for a chunk of a flash, one for a whole
stub boot, one for the `readInfo` after it.

| Code | Model |
|---|---|
| `DeviceSafetyStore.hold`, `release`, `markQuiet`, `linkGone` | `Hold`, `Release`, `MarkQuiet`, `LinkGone` on `safety` |
| `confirm()`, `confirmCancel()` | `Start`, `Finish`, `ConfirmCancel` |
| `flashImage`: budgets, forced stub, catch | `BeginImage`, `Forced`, `Catch`, `GivesUp`, `WaitForLink`, `WaitOver` |
| the watchdog and the flash it leaves behind | `Watchdog`; `OldContinues`, `OldDone` on `old` |
| `flasher.flash` as the loop sees it | `NextChunk` (with the abort check), `ChunkDone`, `FlashFails` |
| `ensureStub` | `NotConnected`, `Reuse`, `RefuseReboot`, `BootStart`, `BootOk`, `BootFails`, `InfoOk`, `InfoFails` |
| `serialTransport` | `queue`, its head, `stalled`; `Stall`, and `LateAnswer` if it settles after all |
| `flashInstallRegion`'s calls in a row | `SettleOver` |
| `suspendPoll`, `resumePoll`, `startPoll` | `Suspend`, `Resume`, `StartPoll` on `poll`: the depth, the timer, a ping awaited |
| `pollTick` | `Ping`, `PingOk`, `PingLate`, `PingLost` |
| `handleLost`, the disconnect event, an attach that fails, and their teardown | `HandleLost`, `UsbDisconnect`, `AttachFails`; `Unsuspended` |

`wrote` and `overrun` are history variables.  A failing flash does not take
`flasher` away by itself: it is `"spent"` for the current `flashImage`, and any
later call may use it again.  An attach is one step here: `DeviceConnection` has
what goes on in it.

### Runs

| Run | Instance | Shows |
|---|---|---|
| `flash_retry` | two operations of any kind, two regions, two chunks, three attempts, two dead-handle retries, up to three faults of any kind; fairness | `TypeOK`, `WarnedWhileWriting`, `Attested`, `RunsEnd`, `WarningClears` |
| `flash_dropped` | one operation, one drop, the code's budgets | `DropsSpendNoAttempt` is **violated** |

Bounds.  Three attempts are the code's; two dead-handle retries in place of five
give a retry, an exhausted budget and their mixtures.  Three faults exhaust either
budget or leave one of each kind for a mixture.  Two operations let what the
first leaves behind (a running flash, a warning, a wedged stub) meet the second;
two regions do the same inside one.  The proofs have no bound.

Fairness.  Timers fire and continuations run (`Flow`, `Poll`), and a transfer at
the head of the FIFO that has not stalled is done (`Usb`).  One that stalled may
stay so for ever: "a wedged probe/target leaves that read pending forever"
(`device.svelte.ts:665-667`), so `LateAnswer` has no fairness.  What then ends an
operation is a time box: the watchdog of a flash, the time boxes of the probes of
a cached stub.  A boot and a `readInfo` have none, and with a transfer that hangs
in one of them the operation hangs too: `RunsEnd` has that exception (`HungBoot`)
and no other.  The warning stays up behind a transfer of an abandoned flash, for
a busy link is not polled, and behind the `readInfo` of the header's boot:
`WarningClears` excepts these (`HungLink`).  Both say *for ever*: once the transfer
settles, is closed or is torn down the obligation is back.  Neither the adapter's
return nor anything a user does is assumed.

### Findings

- `flash_dropped`.  After the teardown that a drop causes, the getter throws
  "Not connected."; and a boot that is interrupted throws `_bootInterrupted`.
  Neither is a dead-handle error, so the loop spends its attempts at once, with
  no link and no wait, where its comments promise a budget of its own and up to
  40 s of patience.

Seen, without a run: a transfer that never settles during a boot, or a
`readInfo`, holds the operation, the modal and the warning until the page is
reloaded or the adapter pulled; a teardown zeroes the count of suspensions, so
that after a reattach the poll runs under a flow that suspended it; what a flash
writes after the watchdog gave up on it is not attested (`overrun`); a stop is not
consulted on the path of a dead handle, so a stopped run waits and boots again; a
ping rejected by the teardown of its session ends the session that was attached
since; the poll goes on under an edit of the
file browser, and a ping answered late tears the session down.

### Proofs

`FlashRetryProofs` (from `FlashRetryAssumption`, for any budgets, regions,
chunks, operations and faults): `TypeCorrect`, `WarningStands`,
`WarningIsHonest`, and `RetriesOnAFreshFlasher`: a retry never goes through the
flasher that failed (`NeverTheSameFlasher`).  `WarnedWhileWriting` is not
inductive, because a release has to know how many holds are left: `WarnInv` says
that `holds` is exactly one for an operation that is not the header's plus one
for a boot, and that a positive count shows "writing".  `SpentInv` says that past
a failure the next acquisition is forced, by the attempt or by the flag, until a
boot has made a new flasher.  `Attested` needs both: every way out of a hold goes
to "settling", or to "safe" with no link.

## 7. PrepareState

### Correspondence

A source has one title, with one input that takes several files; file `f`
converts into the output `<<t, f>>`, and `<<t, Art>>` is its mapped artifact.
`calls[c]` is an operation in flight with the await it is suspended at; what lies
between two awaits is one action.

| Code | Model |
|---|---|
| `run()` | `RunStart`, `RunFetched`, `Deliver`, `RunThrows`, `Settle` (the `finally`) |
| `convertCached()` | `RunLookup`, `RunHit`, `RunMiss`, `RunStore`, `RunRefused`, `RunPoint` |
| `restore()`, `restoreConverted()` | `Restore`, `Restored`, `Recoverable`, `Remapped` |
| `prepareCoreArtifacts()`, `prepareShippedGames()` | `Core`, `CoreFetched`; `Ship`, `ShipFetched` |
| `discoverForSource()`, `setDiscovered()` | `Discover`, `Discovered` |
| `unsupplyFile()`, `unsupply()` | `UnsupplyFile`, `UnsupplyRestored`, `Unsupply`, `UnsupplyOne` |
| `BlobCache.clear*()`, `forgetCleared()` | `Clear`, `Cleared` |
| `SourcesStore.remove()`, `forgetSource()` | `RemoveSource` |
| rows and manifests arriving | `AddSource`, `ManifestArrives` |
| a reload | `Reload`: `removed`, `index`, `cache` and the rows are what is left |

`lossy` and `disturbed` are history variables.  The browser may evict a blob at
any time; the promises about pointers end there.  `disturbed` records that
operations overlapped which the code does not order: a restore or a clear next to
anything that fills the shelf, a removal next to anything in flight, a shipped
game that lands on a converted one, an output that OPFS refused.  `NeverHalf` and
`BusyMeansRunning` hold in spite of them.  The other properties are claimed while
nothing of that has happened (`Ordered`), which is what the suites assume too;
runs of one title that overlap one another, and core fetches and discoveries next
to them, are ordered as the code has them.

### Runs

| Run | Instance | Shows |
|---|---|---|
| `prepare` | one title, two files of which one is shipped, two operations in flight, every operation, one eviction | `TypeOK`, `NeverHalf`, `BusyMeansRunning`, `Relocatable`, `NothingOfAGoneSource`, `Accounted`, `RemovalHolds`, `SurvivesReload`, `PointersHonest` |

Bounds.  Titles share nothing in this code but `restored` and a clear, so that
one title has every behaviour of a title; that titles do not disturb each other
is in the proofs.  Two files make the difference between a file and its input,
and between a pointer and a merged one.  Two operations overlap in every order.
Removals, clears and reloads are not counted: the state space is finite.  The
constraint `Bounds` ends a behaviour with its first disturbance, and with the
first overlap after the eviction; what is claimed beyond them is proved, without a
constraint.  The two operations are interchangeable (symmetry).

### Seen, without a run

- An output whose file the user took out comes back: prepare `f1`, then `f2`;
  take out `f1`, then `f2`, which empties the input; offer `f2` again.  The
  pointer has the signature of `f2` and names both outputs, and the hit delivers
  both (`RunHit`).
- A run, a core fetch, a restore or a discovery that is in flight when its source
  is removed, or its input emptied, puts bytes, inputs and a pointer back.
- `restore()` replaces what a run contributed while it was reading; it also runs
  once per session, with the titles whose manifests have arrived.
- Removing or clearing under a run that has its artifact loses the relocation
  facts, while the artifact still arrives with the outputs.
- A shipped game that arrives late overwrites a copy converted meanwhile; shipped
  games stay when their source is removed, for no title contributed them.
- Between the removals of a clear and its announcement a run may store a pointer
  that survives, or the tab may close: a pointer to bytes that are gone costs one
  conversion.

### Proofs

`PrepareStateProofs` (from `PrepareAssumption`, for any titles, files and
operations, overlapping or not): `TypeCorrect`, `NothingByHalves`, `SpinnersEnd`,
`PointersStayHonest`; and, of an ordered session, `ArtifactsRelocate`
(`Relocatable`), `GoneForGood` (`NothingOfAGoneSource`), `EverythingAccounted`
(`Accounted`), `RemovalsHold` (`RemovalHolds`), `ReloadsSurvived`
(`SurvivesReload`).  `TypeInv` adds which calls carry a title.  `NeverHalf` is
inductive because keys carry their title: `HalfInv` says that a contribution is
on the shelf and consists of its own title's keys, so that what a removal takes
down belongs to nobody else.  `SpinInv` says that a title is busy with the files
of its runs in flight, so that the `finally` of the last of them leaves nothing.
For the pointers, `AloneInv` says that until the first disturbance a restore or a
clear is alone at work, and `HonestInv` that a run between its last put and its
pointer has all its outputs in the cache.

The last five share one invariant, because they need each other: what a reload or
a restore brings back is what the pointers name, and whether a title of a removed
source is empty depends on who may still fill it.  `SessionInv` is `AloneInv`,
`HalfInv`, and two more, claimed until the first disturbance.  `OrderInv` describes
the shelf (`Orderly`): artifacts are mapped (`Relocated`), what a title produced
from files has the category by which a clear finds it (`Converted`) and is in the
title's pointer (`Named`), everything but the shipped games is some title's
(`Owned`), and a title whose source is gone, or whose input was emptied, has
nothing (`Gone`, `Emptied`).  `FitsInv` describes the calls in flight (`Fits`): a
filling one works for a source that is still there, a run past its fetch has its
artifact mapped, a hit reads no more than its pointer names, and a restore carries
the pointers as they are.  Each of the six parts is disturbed by few steps;
`RunKinds` and `OtherKinds` reduce the actions to what they do to the shelf (a run
delivers, an input is taken, a file is taken, nothing), with one lemma for each
kind and for each action that is of a kind of its own.  Two things are assumed of
the mark of absence: it is neither a set of files nor a pointer.

## 8. SdMigration

### Correspondence

`legacy` and `modern` are the two directories; a file is a name, its content a
value, and `Broken` the empty or wrong bytes a write leaves.  `pc` is the await
the run or the move of one file is at.

| Code | Model |
|---|---|
| `scanLegacyHomebrew`, `sameContents`, `movePlan`, `readyToMove` | `Seen`, `Plan`, `ReadyToMove`, in `Offer` |
| the prompt, its decline, its cancel | `Confirm`, `Decline`, `Cancel` |
| `moveLegacyHomebrew` | `NextFile`, `LoopOver` |
| `moveOne` | `Read`, `Check`, `Create`, `Write`, `ReadBack`, `Discard`, `RemoveSource` |
| `removeLegacyDirIfEmpty`, `pruneEmpty` | `Sweep`, `Prune` |

External: the card is pulled or the tab closed at any await (`Pull`), and somebody
else puts a file on the card at any moment (`Foreign`), between the lookup of
`moveOne` and its create too.  A lookup that rejects counts as absence, whatever
the reason (`"lookup"` in `Faults`), and a create opens the file that is there; a
write that fails leaves the old bytes or wrong ones.  `missed` is a history
variable: the names that `moveOne` took for free when a file had them.  There is
one tab.  In the old directory no file arrives that is the very copy of one
already moved: the original would then look like a leftover of an interrupted
run, and rightly be removed.

`HomebrewCard` is the promise: a file is in one of two directories and moves at
once, unchanged, if its name is free there; what has the name goes only if it was
missed (`Miss`, `Overwrite`).  The refinement mapping hides a copy until its
original is gone.

### Runs

| Run | Instance | Shows |
|---|---|---|
| `sd_migration` | two files, two contents, every start, all three layouts, four faults of any kind, one cancel; fairness | `TypeOK`, `MovesWhole`, `Finishes` |
| `sd_interrupted` | one file, the card pulled once; fairness | `InterruptedRunResumes` is **violated** |

Bounds.  Two files let a fault of one meet the move of the other and the removal
of the directory; two contents make a copy and a namesake.  Four faults break
write, read-back, discard and the next run; the proofs have any number.  Runs are
not counted.

Fairness (`FairSpec`).  The run goes on by itself.  The card is opened again and
the move confirmed again, for as long as there is an offer: what a user does who
wants the migration, and what `Finishes` is about; a decline ends it.

### Findings

- `sd_interrupted`.  `getFileHandle(…, { create: true })` makes an empty file
  before anything is written.  A card pulled, a tab closed or a write that throws
  before `close()` leaves it, and `discard` is only called for a read-back that
  differs.  The next scan sees a file with other bytes, a conflict, and offers
  nothing; the header promises that running again finishes the job.

Seen, without a run: "exists with DIFFERENT BYTES is a CONFLICT, never an
overwrite" (`sdHomebrewMigration.ts:87-88`) does not hold of a file that the lookup
missed.  `getFileHandle(base)` that rejects for another reason than absence is
caught as absence (560-564), and a file that arrives between it and
`getFileHandle(base, { create: true })` (574) is opened: either is written over,
and a read-back that differs removes it.  `MovesWhole`, `KeepsWhatIsSeen` and
`NothingLost` say that it takes one of the two.

### Proofs

`SdMigrationProofs` (from `SdMigrationAssumption`, for any files, contents,
faults and bounds): `TypeCorrect`; `NeverInNeitherPlace` (`MovesWhole`);
`KeepsWhatIsSeen`: a complete file of the destination goes only under the move of
a file of its name that missed it (`OverwritesOnlyMissed`); `NothingLost`: a
content that was ever complete on the card under a name stays on it under that
name, until that name is missed; and `OriginalsAreHandedOver`: an original goes
only behind a complete copy of it, with no exception.
`MoveInv` is their invariant: from the comparison to the removal, what was read is
what the original still holds (`SourceInv`), each step knows what its destination
holds (`DestInv`), a broken copy always has its original (`HalfInv`), and a
directory that is gone held no file (`DirInv`).  Under it every action is a move,
an arrival or a stutter of `HomebrewCard`.

## 9. SourcesStore

### Correspondence

`first[r]` is the row that `get(r)` finds, `second[r]` another one of the same
source, which nothing finds (see below).  A call in `calls` is an async function
at its await, with what it carries over it; what lies between two awaits is one
action.  `own` says that the row object it carries is still in the list: `refresh`
and `selectVersion` write to the row they started with, the others look it up.

| Code | Model |
|---|---|
| `load()` | `Init` on a first visit, `Reload` afterwards: `disk`, `dismissed` and `zips` are what is left |
| `importCurated()`, `resolveCurated()`, `retryCurated()` | `ListArrives`, `ListFails`; `CurateLands`, `CurateFails`; `RetryCurated` |
| `add()`, `addResolved()`, `keepResolved()` | `Add`, `AddLands`, `AddFails`; `AddResolved`; `KeepResolved` |
| `importBundleFile()`, `keepBundle()` | `Import`, `Imported`, `Conflict`, `AddFails`; `Keeps` |
| `restore()`, `restoreBundle()` | `ReadZip`, `Restored`, `NotRestored` |
| `refresh()`, `resolvePinned()`, `updateAll()` | `Refresh`, `Refreshed`, `PinRetired`, `RefreshFails`; `UpdateAll`, `BatchOver` |
| `selectVersion()` | `Select`, `Selected`, `SelectFails` |
| `setActive()`, `remove()`, `forgetBundle()` | `SetActive`, `Remove`, `Forget` |
| `AutoDownloader.request`, `cancel`, `pump` | `Request`, `Cancel`, `JobEnds` |

External: a project publishes a version (`Release`) and drops its oldest
(`Retire`); every mirror has the same ones.  Guards that are only in the views
are part of the actions: the add form is disabled while it is busy, and Refresh
is offered for a row in error.

A kept zip is known by its version (`zips`, and `tag` of the calls that carry one),
so that an older one can be told from a newer.

Five history variables.  `listed`: this visit has read the curated list.
`imported`: the version of the zip that the user imported on this visit.
`declined`: the sources he has deactivated, with a row that is marked `curated` or
that the list does not have; `unmarked`, those of them whose row an imported zip
has replaced since.
`overtaken`: the pin was set while a refresh for another version was in flight;
that refresh lands later and describes its own version, see below.  A refresh for
the pin, with no other in flight, ends it.

### Runs

| Run | Instance | Shows |
|---|---|---|
| `sources` | a core that the firmware release lists, a homebrew that it does not, two versions, one download at a time, users start calls while fewer than two are in flight | `TypeOK`, `OptOutHolds`, `NothingForgotten`, `RowsHonest`, `PinsHold` |

Bounds.  A row never looks at another one; two sources are what the queue of
downloads takes, and the two panes.  So the core has every operation, and the
constraint `Bounds` keeps the homebrew to what fills the queue: it comes from its
mirror, is not removed, pinned or in error, and asks nothing while the core does.
Two versions are a pin and a newest.  One download at a time in place of two
makes a second one wait.  Two calls at a time, besides those that a load or an
Update all starts, overlap every pair.

### Seen, without a run

- *A pin overtaken.*  A refresh reads the pin before its await.  A version that is
  selected meanwhile is answered first, and the refresh then replaces card and
  manifest: the row is pinned to one version and installs the other, until the
  next refresh.  `overtaken` excuses it.
- *Two rows.*  `add()` looks for the row before its await and appends after it; a
  curated entry that lands in between leaves two rows of one source.
- *A pane updated twice.*  `updating` is one field for both panes: Cores, Homebrew and
  Cores again runs the third although the first has not ended, "not re-entrant
  per pane" notwithstanding; the first to end clears the field for all.
- *A choice undone.*  `importCurated()` activates every inactive row without the marker
  `curated`, which it takes for one of an older importer: "A deliberately
  deactivated row keeps its choice after this marker is written"
  (`store.svelte.ts:472-474`).  A curated source that the user added by hand has no
  marker: deactivated before the list lands, or before a reload, it is active
  again, once, and the next refresh downloads it.  And the marker does not last: a
  zip imported over the row replaces it without one (788-797), and a choice made
  long ago is undone the same way.  `OptOutHolds` claims that a deactivation lasts
  for the other rows (`declined`, less `unmarked`), through every answer and reload.
- *Nothing warmed.*  `selectVersion()` cancels the download and asks again at once, when
  the aborted job is still in `running`: the request is refused as a duplicate.
- *A zip that stays.*  `remove()` while `keepBundle()` is still writing: the delete may end
  before the put.  A restore that drops a zip it cannot import may drop the one
  that was imported meanwhile.
- *A note that stays.*  An entry that fails after the user has added the source leaves
  a note; its Retry clears it.

### Proofs

`SourcesStoreProofs` (from `SourcesAssumption` and `RowAssumption`, which says that
no row is the mark of its absence; for any sources, versions, limits and calls in
flight): `TypeCorrect`, `OptOutCorrect`, `NothingForgottenCorrect`,
`RowsHonestCorrect`, `PinsHoldCorrect`.  All rest on `TypeInv`, which adds to the
types what a call carries (`Sound`: a refresh or a select whose row is still in
the list has one from a mirror; only a refresh belongs to an Update all) and that
nothing on disk is held.  `NothingForgotten` is inductive beside it.  `OptOutHolds`
needs `DeclinedInv`: a row that is declined and not unmarked is inactive in memory
and on disk and has its marker, or is not on the list, so that the list passes it
by.  `RowsHonest` needs `HonestInv`: a restore that is to settle a loading
row finds it not yet held, or it would pass it by; and `ImportsInv`: the row of a
zip imported on this visit is held, so that no restore lands on it.  `PinsHold` needs `PinsInv`:
unless a source is overtaken, every refresh in flight of its pinned row asks for
the pin.  Two lemmas carry the case analysis: `RowMoves`, the six things a step
can make of a row, and `CallStays`, that a call stays until it lands or a removal
takes its row.  The properties of the run are thus proved without the constraint
`Bounds`, for two sources that have every operation each, and more.

## 10. What is only model-checked

- Liveness (`EveryOperationEnds`, `FlowsEnd`, `RunsEnd`, `WarningClears`,
  `Drained`, `Finishes`): fairness and ENABLED are outside the proof system.
  Nothing in them is claimed of a transfer that never settles beyond what
  `RunsEnd` and `WarningClears` say.
- The violations: each is a finding with a trace, see `PROJECT.json`.

## 11. What is not modelled

- In the mailbox: the `BAD_HASH_RAM_COMPRESSED` re-transmission handshake
  (`tryChunkRetry`), read-back of written buffers, `info`, `readFlash`, `unlock`;
  a flash of several chunks uses one bank.  `OverlapBoot` opens the boot of a
  stub under operations that still run, which `FlashRetry` shows the watchdog to
  cause; no run of `Mailbox` uses it, because a flash nobody awaits any more is
  outside what `NeverMisplaced` could promise.
- In the session: the confirmation and unlock modals, "Change Adapter"
  (`forcePicker`), the scans' reads and their own teardown after a transfer
  mismatch, recovery mode's return path, the runtime classification in the poll.
- In the operation: phases, progress and the audit log of the modal, the prompt
  of `run()`, the byte-level plan of an install; attaching and detaching in more
  than one step.
- In the prepared content: verdicts and notices, variant attribution, titles with
  several inputs or with none, raw cores, a converter that is republished.
- In the list of sources: raw cores, the selection, error codes, the size
  threshold and the order of the downloads, the folders of a source
  (`localFolders`), that `updateAll()` has three requests at a time, and the
  instant in which a picked file is read after the form was found idle.
- In the SD migration: subdirectories, the marker and release lookup behind the
  layout, several cards, a second tab.
- In the blob store: `clear()`, which nothing calls; a browser without OPFS or
  IndexedDB, where the store passes through; MIME types; refiling between
  categories; the other users of the blob cache.
- The unlock gate (pure predicates over evidence that views collect; a model
  would restate them) and the littlefs writer (an algorithm over images).
- Patching, builders, converters, scrapers, cheats, translations, the views and
  the desktop shell.  They are most of the repository's lines, and transform
  bytes or draw: nothing in them interleaves, and the suites compare them with
  golden images.  The models cover what interleaves, fails or survives a reload;
  their share of the repository's lines is small for that reason.

Further hazards, in no model or in one without a property: a stale
`BAD_HASH_FLASH` that consumes an attempt (`packages/gnw-flasher/src/index.ts:775`,
a race of microseconds against a 10 ms poll); `reconnectLoop` attaching a second
time over a session that `connectSilent` has attached (`device.svelte.ts:1786`,
which `BootKeepsItsHandle` and `LiveHandleStaysOpen` include);
`deviceUid` and `backupTaken` surviving a lost link (`device.svelte.ts:1674`); a
scan that failed and still marks the device quiet (`device.svelte.ts:1126`);
`promote()` overwriting the pointer of a put that overlapped, a refused write
that removes the good copy of the same bytes, and a put that falls back behind
an earlier pointer (`keyedBlobStore.ts:308`, `blobCache.ts:262`,
`keyedBlobStore.ts:273`, all behaviour of the model that `Serves` excuses);
`run()` of the modal replacing a prompt that is still open, whose promise then
never settles (`installProgress.svelte.ts:260`); two tabs on one card.

## 12. Running

    tlc -config mailbox_flash.cfg MCMailbox        (every .cfg names its run)
    tlc -config connection.cfg MCDeviceConnection
    tlc -config flash_retry.cfg MCFlashRetry
    tlc -config prepare.cfg MCPrepareState         (about a minute)
    tlc -config sources.cfg MCSourcesStore         (about a minute)
    tlc -config blobs.cfg MCKeyedBlobStore
    tlc -config sd_migration.cfg MCSdMigration
    tlapm MailboxProofs.tla                        (and the other *Proofs modules;
                                                    SourcesStoreProofs takes three minutes)

The operators named *Mutant* in the modules are plausible bugs, each next to the
definition it would replace; `PROJECT.json` says which property each one breaks.
