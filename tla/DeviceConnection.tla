-------------------------- MODULE DeviceConnection --------------------------
(***************************************************************************)
(* The probe session of the DeviceStore (apps/web/src/lib/device.svelte.ts): *)
(* attaching, the liveness poll, the loss of the link, the reconnect       *)
(* cadence, the manual disconnect, and the stub boots of running           *)
(* operations, which own the USB handle while they write.                  *)
(*                                                                         *)
(* Every `await` between which another callback may run is a step boundary. *)
(* `_gen` is modelled by what it decides: who captured it last and has not *)
(* been superseded since (loop, bootFresh).  The confirmation modals and   *)
(* connect({ forcePicker }) are left out.                                  *)
(***************************************************************************)
EXTENDS Integers, FiniteSets

CONSTANTS
  Operations,      \* flash flows, each suspendPoll() .. resumePoll() around flashImage()
  MAX_TRIES,       \* flasher acquisitions of one flow
  MAX_ATTACHES,    \* bound: sessions attached
  MAX_DROPS,       \* bound: times the adapter leaves the bus
  MAX_FAILURES,    \* bound: transfers that fail on a working link
  UserActions,     \* bound: what the user does, each at most once
  NoHandle

ASSUME ConnectionAssumption ==
  /\ {MAX_TRIES, MAX_ATTACHES, MAX_DROPS, MAX_FAILURES} \subseteq Nat
  /\ MAX_TRIES # 0
  /\ UserActions \subseteq {"connect", "disconnect", "reset"}
  /\ IsFiniteSet(Operations)
  /\ NoHandle \notin (1 .. MAX_ATTACHES) \X (0 .. MAX_DROPS)

VARIABLES
  connection, suppress, link, flasher, listening,  \* DeviceStore fields; link is probe + transport
  poll, depth, ping,            \* pollTimer, pollSuspendDepth, the handle a tick is pinging
  attach, mine,                 \* the attempt behind _connectPromise and its local transport
  loop, silent,                 \* the newest reconnectLoop, connectSilent
  tear,                         \* teardowns awaiting probe.dispose()
  closing,                      \* the disposes under way: <<who began it, handle>>
  preBoot, preLink,             \* history: those under way when the flow's boot began, the session
  resetting,                    \* resetDevice() awaits the write that resets the target
  rejoin, deferred,             \* _reconnectAfterBoot, _deferredDispose
  op, owned, tries, bootFresh,  \* the flows: where, on which handle, how often, gen === _gen
  usb, plugged, opened, event,  \* the adapter: enumeration, on the bus, open, event to deliver
  attaches, failures, actions   \* counted against their bounds

storeVars == <<connection, suppress, link, flasher, listening>>
pollVars == <<poll, depth, ping>>
attachVars == <<attach, mine, attaches>>
retryVars == <<loop, silent>>
bootVars == <<rejoin, deferred>>
opVars == <<op, owned, tries, bootFresh>>
usbVars == <<usb, plugged, opened, event>>
closeVars == <<closing, preBoot, preLink>>
vars == <<storeVars, pollVars, attachVars, retryVars, tear, closeVars, resetting, bootVars,
          opVars, usbVars, failures, actions>>

\* A ProbeHandle: its serial number, and the USBDevice (an enumeration of the adapter) it wraps.
Handles == (1 .. MAX_ATTACHES) \X (0 .. MAX_DROPS)
DeviceOf(h) == h[2]
Works(h) == h # NoHandle /\ DeviceOf(h) = usb /\ plugged /\ opened

Tasks == {"event", "tick", "user", "reset", "connect"}
Booting == {o \in Operations : op[o] = "boot"}      \* _stubBootDepth is its size
Writing == {o \in Operations : op[o] \notin {"idle", "done"}}

Init ==
  /\ connection = "disconnected" /\ suppress = FALSE
  /\ link = NoHandle /\ flasher = NoHandle /\ listening = FALSE
  /\ poll = FALSE /\ depth = 0 /\ ping = NoHandle
  /\ attach = "none" /\ mine = NoHandle /\ attaches = 0
  /\ loop = "none" /\ silent = FALSE
  /\ tear = {} /\ closing = {} /\ resetting = FALSE
  /\ preBoot = [o \in Operations |-> {}] /\ preLink = {}
  /\ rejoin = FALSE /\ deferred = {}
  /\ op = [o \in Operations |-> "idle"]
  /\ owned = [o \in Operations |-> NoHandle]
  /\ tries = [o \in Operations |-> 0]
  /\ bootFresh = [o \in Operations |-> FALSE]
  /\ usb = 0 /\ plugged = TRUE /\ opened = FALSE /\ event = -1
  /\ failures = 0
  /\ actions = UserActions

-----------------------------------------------------------------------------
(* Shared pieces.                                                          *)

Fails == failures < MAX_FAILURES /\ failures' = failures + 1

UserDoes(what) == what \in actions /\ actions' = actions \ {what}

\* startPoll() does nothing under an active suspension.
StartPoll == poll' = (poll \/ depth = 0)

\* resumePoll(): only the outermost call restarts the timer, an unbalanced one does nothing.
ResumePoll ==
  /\ depth' = IF depth = 0 THEN 0 ELSE depth - 1
  /\ poll' = (poll \/ depth = 1)

\* ProbeHandle.dispose() is called: stlink.detach(), cortexM.disconnect() await their last
\* transfers before they close the USBDevice (Closed).
Dispose(by, hs) == closing' = closing \cup ({by} \X hs)

\* `_gen++`: the loops and boots that captured an earlier value have been superseded.
Supersede == loop' = "none" /\ bootFresh' = [o \in Operations |-> FALSE]

\* connect(): join the attempt in flight, leave it to the boot that owns the link, or start.
Connect ==
  \/ /\ attach # "none"
     /\ UNCHANGED <<attach, connection, suppress, rejoin>>
  \/ /\ attach = "none" /\ Booting # {}
     /\ rejoin' = TRUE
     /\ UNCHANGED <<attach, connection, suppress>>
  \/ /\ attach = "none" /\ Booting = {}
     /\ attach' = "probing" /\ connection' = "connecting" /\ suppress' = FALSE
     /\ UNCHANGED rejoin

\* What a teardown and its caller do once the handle is disposed of: handleLost and resetDevice
\* go on to start a cadence.
TearDone(t) ==
  /\ link' = NoHandle /\ flasher' = NoHandle
  /\ bootFresh' = [o \in Operations |-> FALSE]
  /\ loop' = IF t \in {"event", "tick", "reset"} THEN "sleep" ELSE "none"
  /\ connection' = CASE t \in {"event", "tick"} -> "lost"
                     [] t = "reset" -> "connecting"
                     [] t = "user" -> "disconnected"
                     [] t = "connect" -> connection
  /\ attach' = IF t = "connect" THEN "none" ELSE attach

\* Mutant: a teardown that disposes of the handle whoever is writing through it.
TearCloses(t) ==
  /\ t \notin tear /\ tear' = tear \cup {t}
  /\ poll' = FALSE /\ depth' = 0 /\ listening' = FALSE
  /\ Dispose(t, {link} \ {NoHandle})
  /\ attach' = IF t = "connect" THEN "failing" ELSE attach
  /\ UNCHANGED <<deferred, link, flasher, bootFresh, loop, connection>>

\* _teardownConnection(), up to `await probe.dispose()` if there is a handle to close.  One that
\* a boot is writing through is not closed but left to that boot.
TearStart(t) ==
  /\ t \notin tear
  /\ poll' = FALSE /\ depth' = 0 /\ listening' = FALSE
  /\ IF link # NoHandle /\ Booting = {}
       THEN /\ tear' = tear \cup {t}
            /\ Dispose(t, {link})
            /\ attach' = IF t = "connect" THEN "failing" ELSE attach
            /\ UNCHANGED <<deferred, link, flasher, bootFresh, loop, connection>>
       ELSE /\ deferred' = deferred \cup ({link} \ {NoHandle})
            /\ UNCHANGED <<tear, closing>>
            /\ TearDone(t)

\* The dispose is over.  The handle may have changed under the await.
TearEnd(t) ==
  /\ t \in tear /\ tear' = tear \ {t}
  /\ \A c \in closing : c[1] # t
  /\ TearDone(t)
  /\ UNCHANGED <<suppress, listening, pollVars, mine, attaches, silent, closeVars, resetting,
                 bootVars, op, owned, tries, usbVars, failures, actions>>

\* A dispose gets to close the USBDevice, for every handle that wraps it, whatever has begun
\* on that device since.
Closed(c) ==
  /\ c \in closing /\ closing' = closing \ {c}
  /\ opened' = (opened /\ DeviceOf(c[2]) # usb)
  /\ preBoot' = [o \in Operations |-> preBoot[o] \ {c}] /\ preLink' = preLink \ {c}
  /\ UNCHANGED <<storeVars, pollVars, attachVars, retryVars, tear, resetting, bootVars, opVars,
                 usb, plugged, event, failures, actions>>

\* Mutant: the live session is told by its handle, not by the device the handle wraps.
FlushIdentity(booting, live) ==
  IF booting # {}
    THEN UNCHANGED <<deferred, closing>>
    ELSE deferred' = {} /\ Dispose("boot", deferred \ {live})

\* Mutant: a handle that may not be closed yet is kept for later, and nothing comes later.
FlushKeeps(booting, live) ==
  IF booting # {}
    THEN UNCHANGED <<deferred, closing>>
    ELSE LET shared == {h \in deferred : live # NoHandle /\ DeviceOf(h) = DeviceOf(live)}
         IN deferred' = shared /\ Dispose("boot", deferred \ shared)

\* _flushDeferredDispose(): once no boot is left, and never the device of the live session.
Flush(booting, live) ==
  IF booting # {}
    THEN UNCHANGED <<deferred, closing>>
    ELSE /\ deferred' = {}
         /\ Dispose("boot", {h \in deferred : live = NoHandle \/ DeviceOf(h) # DeviceOf(live)})

tearTouches == <<tear, listening, closing, deferred, link, flasher, bootFresh, loop, connection,
                 attach>>

\* Mutant: a drop during a boot silences the poll and is not remembered.
LossForgotten(t) ==
  \/ connection \in {"disconnected", "lost"} /\ UNCHANGED <<poll, depth, rejoin, tearTouches>>
  \/ /\ connection \notin {"disconnected", "lost"} /\ Booting # {}
     /\ poll' = FALSE
     /\ UNCHANGED <<depth, rejoin, tearTouches>>
  \/ /\ connection \notin {"disconnected", "lost"} /\ Booting = {}
     /\ TearStart(t)
     /\ UNCHANGED rejoin

\* handleLost(): a boot that owns the link is told, anything else is torn down.
HandleLost(t) ==
  \/ connection \in {"disconnected", "lost"} /\ UNCHANGED <<poll, depth, rejoin, tearTouches>>
  \/ /\ connection \notin {"disconnected", "lost"} /\ Booting # {}
     /\ poll' = FALSE /\ rejoin' = TRUE
     /\ UNCHANGED <<depth, tearTouches>>
  \/ /\ connection \notin {"disconnected", "lost"} /\ Booting = {}
     /\ TearStart(t)
     /\ UNCHANGED rejoin

-----------------------------------------------------------------------------
(* Attaching.                                                              *)

UserConnect ==
  /\ UserDoes("connect") /\ connection # "connected"
  /\ Connect
  /\ UNCHANGED <<link, flasher, listening, pollVars, mine, attaches, retryVars, tear, closeVars,
                 resetting, deferred, opVars, usbVars, failures>>

\* connectSilent(), from the USB connect event or the adapter poll: the guard, an await ...
SilentStart ==
  /\ ~silent /\ connection \in {"disconnected", "lost"} /\ ~suppress
  /\ silent' = TRUE
  /\ UNCHANGED <<storeVars, pollVars, attachVars, loop, tear, closeVars, resetting, bootVars,
                 opVars, usbVars, failures, actions>>

\* ... and the guard again.
SilentGo ==
  /\ silent /\ silent' = FALSE
  /\ IF plugged /\ connection \in {"disconnected", "lost"} /\ ~suppress
       THEN Connect
       ELSE UNCHANGED <<attach, connection, suppress, rejoin>>
  /\ UNCHANGED <<link, flasher, listening, pollVars, mine, attaches, loop, tear, closeVars,
                 resetting, deferred, opVars, usbVars, failures, actions>>

\* reconnectLoop() wakes up.  A connect() that is left to a boot counts as done.
LoopWake ==
  /\ loop = "sleep"
  /\ IF suppress
       THEN loop' = "none" /\ UNCHANGED <<attach, connection, suppress, rejoin>>
       ELSE /\ Connect
            /\ loop' = IF attach = "none" /\ Booting # {} THEN "none" ELSE "join"
  /\ UNCHANGED <<link, flasher, listening, pollVars, mine, attaches, silent, tear, closeVars,
                 resetting, deferred, opVars, usbVars, failures, actions>>

\* connectProbe() resolves.
AttachOk ==
  /\ attach = "probing" /\ plugged /\ attaches < MAX_ATTACHES
  /\ attaches' = attaches + 1
  /\ mine' = <<attaches + 1, usb>> /\ link' = <<attaches + 1, usb>>
  /\ listening' = TRUE /\ opened' = TRUE /\ preLink' = closing
  /\ attach' = "checking"
  /\ UNCHANGED <<connection, suppress, flasher, pollVars, retryVars, tear, closing, preBoot,
                 resetting, bootVars, opVars, usb, plugged, event, failures, actions>>

\* isStubAlive() answers, or its time box lapses: the session is up.
AttachDone ==
  /\ attach = "checking"
  /\ \/ Works(mine) /\ flasher' = mine /\ attach' = "recovery"
     \/ flasher' = NoHandle /\ attach' = "quick"
  /\ mine' = NoHandle
  /\ connection' = "connected"
  /\ StartPoll
  /\ UNCHANGED <<suppress, link, listening, depth, ping, attaches, retryVars, tear, closeVars,
                 resetting, bootVars, opVars, usbVars, failures, actions>>

\* quickRuntimeProbe() is over, whatever it read, and _connectPromise settles.  The scan that
\* follows bumps _gen; an automatic one waits while a flow is writing.
AttachEnd ==
  /\ attach \in {"quick", "recovery"} /\ attach' = "none"
  /\ IF link # NoHandle /\ (attach = "recovery" \/ Writing = {})
       THEN Supersede
       ELSE loop' = (IF loop = "join" THEN "none" ELSE loop) /\ UNCHANGED bootFresh
  /\ UNCHANGED <<storeVars, pollVars, mine, attaches, silent, tear, closeVars, resetting,
                 bootVars, op, owned, tries, usbVars, failures, actions>>

\* connectProbe() or the stub's info read throws.  The teardown supersedes the reconnect loop
\* that called, whose catch then returns.
AttachFail ==
  /\ \/ attach = "probing" /\ ~plugged /\ UNCHANGED failures
     \/ attach \in {"probing", "checking"} /\ Fails
  /\ mine' = NoHandle
  /\ TearStart("connect")
  /\ UNCHANGED <<suppress, preBoot, preLink, resetting, ping, attaches, silent, rejoin, op, owned,
                 tries, usb, plugged, opened, event, actions>>

\* ... and runs once nothing is.
Scan ==
  /\ link # NoHandle /\ attach = "none" /\ Writing = {} /\ loop # "none"
  /\ Supersede
  /\ UNCHANGED <<storeVars, pollVars, attachVars, silent, tear, closeVars, resetting, bootVars,
                 op, owned, tries, usbVars, failures, actions>>

-----------------------------------------------------------------------------
(* Losing the link.                                                        *)

Disconnect ==
  /\ UserDoes("disconnect") /\ connection # "disconnected"
  /\ suppress' = TRUE
  /\ TearStart("user")
  /\ UNCHANGED <<ping, preBoot, preLink, resetting, mine, attaches, silent, rejoin, op, owned,
                 tries, usb, plugged, opened, event, failures>>

\* resetDevice(): whatever goes on, it awaits the write that resets the target ...
ResetDevice ==
  /\ UserDoes("reset") /\ link # NoHandle
  /\ resetting' = TRUE
  /\ UNCHANGED <<storeVars, pollVars, attachVars, retryVars, tear, closeVars, bootVars, opVars,
                 usbVars, failures>>

\* ... and tears the session down, the link it finds by then and not the one it wrote to.
ResetGo ==
  /\ IF resetting THEN UNCHANGED actions ELSE link = NoHandle /\ UserDoes("reset")
  /\ resetting' = FALSE
  /\ TearStart("reset")
  /\ UNCHANGED <<suppress, preBoot, preLink, ping, mine, attaches, silent, rejoin, op, owned, tries,
                 usbVars, failures>>

PollTick ==
  /\ poll /\ ping = NoHandle /\ link # NoHandle /\ connection = "connected"
  /\ ping' = link
  /\ UNCHANGED <<storeVars, poll, depth, attachVars, retryVars, tear, closeVars, resetting,
                 bootVars, opVars, usbVars, failures, actions>>

PingAnswered ==
  /\ Works(ping)
  /\ ping' = NoHandle
  /\ UNCHANGED <<storeVars, poll, depth, attachVars, retryVars, tear, closeVars, resetting,
                 bootVars, opVars, usbVars, failures, actions>>

\* 300 ms without an answer: the link is gone, or the ping waits behind an operation's transfer.
PingLapsed ==
  /\ ping # NoHandle /\ (~Works(ping) \/ Writing # {})
  /\ ping' = NoHandle
  /\ IF connection = "connected"
       THEN HandleLost("tick")
       ELSE UNCHANGED <<poll, depth, rejoin, tearTouches>>
  /\ UNCHANGED <<suppress, preBoot, preLink, resetting, mine, attaches, silent, op, owned, tries,
                 usb, plugged, opened, event, failures, actions>>

\* The USB disconnect event of enumeration `event`.
UsbDisconnect ==
  /\ event # -1 /\ event' = -1
  /\ IF listening /\ link # NoHandle /\ DeviceOf(link) = event
       THEN HandleLost("event")
       ELSE UNCHANGED <<poll, depth, rejoin, tearTouches>>
  /\ UNCHANGED <<suppress, preBoot, preLink, resetting, ping, mine, attaches, silent, op, owned,
                 tries, usb, plugged, opened, failures, actions>>

-----------------------------------------------------------------------------
(* Flash flows and their stub boots.                                       *)

OpStart(o) ==
  /\ op[o] = "idle" /\ connection = "connected"
  /\ op' = [op EXCEPT ![o] = "acquire"]
  /\ depth' = depth + 1 /\ poll' = FALSE
  /\ UNCHANGED <<storeVars, ping, attachVars, retryVars, tear, closeVars, resetting, bootVars,
                 owned, tries, bootFresh, usbVars, failures, actions>>

\* Mutant: one acquisition too many.
OnceMore(made) == IF made <= MAX_TRIES THEN "acquire" ELSE "end"

\* ensureStub() throws, or the flash does: flashImage tries again on a fresh stub, or gives up.
Again(made) == IF made < MAX_TRIES THEN "acquire" ELSE "end"

\* `const gen = ++this._gen; this._stubBootDepth++; bootTransport = this.transport`
BootStart(o) ==
  /\ op' = [op EXCEPT ![o] = "boot"]
  /\ owned' = [owned EXCEPT ![o] = link]
  /\ bootFresh' = [p \in Operations |-> p = o]
  /\ preBoot' = [preBoot EXCEPT ![o] = closing]
  /\ loop' = "none"

\* bootStub() throws: at once (`instant`) when there is no transport any more.  If a drop was
\* seen, the link is torn down now and the cadence starts.
BootFailed(o, instant) ==
  /\ op' = [op EXCEPT ![o] = Again(tries[o])]
  /\ flasher' = NoHandle
  /\ UNCHANGED <<owned, preBoot>>
  /\ IF rejoin
       THEN /\ rejoin' = FALSE /\ link' = NoHandle /\ listening' = FALSE
            /\ connection' = "lost" /\ loop' = "sleep"
            /\ bootFresh' = [p \in Operations |-> FALSE]
            /\ poll' = FALSE /\ depth' = 0
            /\ IF Booting \subseteq {o}
                 THEN /\ deferred' = {}
                      /\ Dispose("boot", deferred \cup ({link} \ {NoHandle}))
                 ELSE /\ deferred' = deferred \cup ({link} \ {NoHandle})
                      /\ UNCHANGED closing
       ELSE /\ Flush(Booting \ {o}, link)
            /\ ResumePoll
            /\ IF instant THEN Supersede ELSE UNCHANGED <<loop, bootFresh>>
            /\ UNCHANGED <<rejoin, link, listening, connection>>

\* ensureStub(): the first acquisition reuses a cached flasher that is on the live handle.
Acquire(o) ==
  /\ op[o] = "acquire" /\ link # NoHandle
  /\ tries' = [tries EXCEPT ![o] = @ + 1]
  /\ depth' = depth + 1 /\ poll' = FALSE
  /\ IF flasher # NoHandle /\ tries[o] = 0
       THEN IF flasher = link /\ DeviceOf(link) = usb /\ opened
              THEN op' = [op EXCEPT ![o] = "check"] /\ UNCHANGED <<owned, bootFresh, preBoot,
                                                                   loop, flasher>>
              ELSE flasher' = NoHandle /\ BootStart(o)
       ELSE BootStart(o) /\ UNCHANGED flasher
  /\ UNCHANGED <<connection, suppress, link, listening, ping, attachVars, silent, tear, closing,
                 preLink, resetting, bootVars, usbVars, failures, actions>>

\* Mutant: a flow that waits for a lost link to come back.
AcquireWaits(o) ==
  /\ op[o] = "acquire" /\ link = NoHandle /\ connection = "disconnected"
  /\ tries' = [tries EXCEPT ![o] = @ + 1]
  /\ op' = [op EXCEPT ![o] = Again(tries[o] + 1)]
  /\ UNCHANGED <<storeVars, pollVars, attachVars, retryVars, tear, closeVars, resetting, bootVars,
                 owned, bootFresh, usbVars, failures, actions>>

\* "Not connected."
AcquireFail(o) ==
  /\ op[o] = "acquire" /\ link = NoHandle
  /\ tries' = [tries EXCEPT ![o] = @ + 1]
  /\ op' = [op EXCEPT ![o] = Again(tries[o] + 1)]
  /\ UNCHANGED <<storeVars, pollVars, attachVars, retryVars, tear, closeVars, resetting, bootVars,
                 owned, bootFresh, usbVars, failures, actions>>

\* stubAlive() and contextsFree() answer for the cached flasher.
CheckReuse(o) ==
  /\ op[o] = "check" /\ Works(flasher)
  /\ op' = [op EXCEPT ![o] = "flash"]
  /\ owned' = [owned EXCEPT ![o] = flasher]
  /\ ResumePoll
  /\ UNCHANGED <<storeVars, ping, attachVars, retryVars, tear, closeVars, resetting, bootVars,
                 tries, bootFresh, usbVars, failures, actions>>

CheckReboot(o) ==
  /\ op[o] = "check"
  /\ \/ ~Works(flasher) /\ UNCHANGED failures
     \/ Works(flasher) /\ Fails
  /\ IF link = NoHandle
       THEN BootFailed(o, TRUE)
       ELSE /\ flasher' = NoHandle /\ BootStart(o)
            /\ UNCHANGED <<link, listening, connection, poll, depth, bootVars, closing>>
  /\ UNCHANGED <<suppress, ping, attachVars, silent, tear, preLink, resetting, tries, usb,
                 plugged, opened, event, actions>>

\* The boot's own writes landed: the drop seen meanwhile was its re-enumeration, unless the
\* session has been superseded.
BootOk(o) ==
  /\ op[o] = "boot" /\ Works(owned[o])
  /\ Flush(Booting \ {o}, link)
  /\ IF bootFresh[o]
       THEN /\ flasher' = owned[o] /\ rejoin' = FALSE
            /\ op' = [op EXCEPT ![o] = "flash"]
       ELSE /\ flasher' = NoHandle /\ UNCHANGED rejoin
            /\ op' = [op EXCEPT ![o] = Again(tries[o])]
  /\ depth' = IF depth = 0 THEN 0 ELSE depth - 1
  /\ poll' = (poll \/ depth = 1 \/ (bootFresh[o] /\ rejoin /\ depth = 0))
  /\ UNCHANGED <<connection, suppress, link, listening, ping, attachVars, retryVars, tear,
                 preBoot, preLink, resetting, owned, tries, bootFresh, usb, plugged, opened,
                 event, failures, actions>>

BootFail(o) ==
  /\ op[o] = "boot"
  /\ \/ ~Works(owned[o]) /\ UNCHANGED failures
     \/ Works(owned[o]) /\ Fails
  /\ BootFailed(o, FALSE)
  /\ UNCHANGED <<suppress, ping, attachVars, silent, tear, preBoot, preLink, resetting, tries,
                 usb, plugged, opened, event, actions>>

FlashOk(o) ==
  /\ op[o] = "flash" /\ Works(owned[o])
  /\ op' = [op EXCEPT ![o] = "end"]
  /\ UNCHANGED <<storeVars, pollVars, attachVars, retryVars, tear, closeVars, resetting, bootVars,
                 owned, tries, bootFresh, usbVars, failures, actions>>

FlashFail(o) ==
  /\ op[o] = "flash"
  /\ \/ ~Works(owned[o]) /\ UNCHANGED failures
     \/ Works(owned[o]) /\ Fails
  /\ op' = [op EXCEPT ![o] = Again(tries[o])]
  /\ UNCHANGED <<storeVars, pollVars, attachVars, retryVars, tear, closeVars, resetting, bootVars,
                 owned, tries, bootFresh, usbVars, actions>>

\* The flow's `finally { resumePoll() }`.
OpEnd(o) ==
  /\ op[o] = "end"
  /\ op' = [op EXCEPT ![o] = "done"]
  /\ ResumePoll
  /\ UNCHANGED <<storeVars, ping, attachVars, retryVars, tear, closeVars, resetting, bootVars,
                 owned, tries, bootFresh, usbVars, failures, actions>>

-----------------------------------------------------------------------------
(* The adapter (external).                                                 *)

\* It leaves the bus; it will come back as another USBDevice.
Drop ==
  /\ plugged /\ usb < MAX_DROPS /\ event = -1
  /\ plugged' = FALSE /\ opened' = FALSE
  /\ usb' = usb + 1 /\ event' = usb
  /\ UNCHANGED <<storeVars, pollVars, attachVars, retryVars, tear, closeVars, resetting, bootVars,
                 opVars, failures, actions>>

Replug ==
  /\ ~plugged /\ plugged' = TRUE
  /\ UNCHANGED <<storeVars, pollVars, attachVars, retryVars, tear, closeVars, resetting, bootVars,
                 opVars, usb, opened, event, failures, actions>>

\* A boot's reset makes the probe re-enumerate: the event fires, the handle goes on working.
BootDrop ==
  /\ Booting # {} /\ event = -1 /\ plugged
  /\ event' = usb
  /\ UNCHANGED <<storeVars, pollVars, attachVars, retryVars, tear, closeVars, resetting, bootVars,
                 opVars, usb, plugged, opened, failures, actions>>

-----------------------------------------------------------------------------
OpStep(o) ==
  \/ Acquire(o) \/ AcquireFail(o) \/ CheckReuse(o) \/ CheckReboot(o)
  \/ BootOk(o) \/ BootFail(o) \/ FlashOk(o) \/ FlashFail(o) \/ OpEnd(o)

AppStep ==
  \/ SilentGo \/ LoopWake \/ AttachOk \/ AttachDone \/ AttachEnd \/ AttachFail
  \/ PingAnswered \/ PingLapsed \/ UsbDisconnect
  \/ \E t \in Tasks : TearEnd(t)
  \/ \E c \in closing : Closed(c)
  \/ \E o \in Operations : OpStep(o)

Next ==
  \/ AppStep \/ SilentStart \/ Scan \/ PollTick
  \/ UserConnect \/ Disconnect \/ ResetDevice \/ ResetGo
  \/ \E o \in Operations : OpStart(o)
  \/ Drop \/ Replug \/ BootDrop

Spec == Init /\ [][Next]_vars

\* Callbacks and continuations run, transfers settle (those that never do are FlashRetry's), and
\* an adapter that left the bus comes back.  Nothing forces a user, a drop or a failing transfer.
FairSpec ==
  /\ Spec /\ WF_vars(Replug)
  /\ WF_vars(SilentStart) /\ WF_vars(SilentGo) /\ WF_vars(LoopWake)
  /\ WF_vars(AttachOk \/ AttachDone \/ AttachEnd) /\ WF_vars(UsbDisconnect) /\ WF_vars(PingLapsed)
  /\ \A t \in Tasks : WF_vars(TearEnd(t))
  /\ WF_vars(\E c \in closing : Closed(c))
  /\ \A o \in Operations : WF_vars(OpStep(o))

-----------------------------------------------------------------------------
(* Properties.                                                             *)

MaybeHandle == Handles \cup {NoHandle}
Disposes == (Tasks \cup {"boot"}) \X Handles

\* Every variable keeps its range.
TypeOK ==
  /\ connection \in {"disconnected", "connecting", "connected", "lost"}
  /\ {suppress, listening, poll, silent, rejoin, plugged, opened} \subseteq BOOLEAN
  /\ {link, flasher, ping, mine} \subseteq MaybeHandle
  /\ depth \in Nat
  /\ attach \in {"none", "probing", "checking", "recovery", "quick", "failing"}
  /\ loop \in {"none", "sleep", "join"}
  /\ tear \subseteq Tasks /\ closing \subseteq Disposes /\ resetting \in BOOLEAN
  /\ preBoot \in [Operations -> SUBSET Disposes] /\ preLink \subseteq Disposes
  /\ deferred \subseteq Handles
  /\ op \in [Operations -> {"idle", "acquire", "check", "boot", "flash", "end", "done"}]
  /\ owned \in [Operations -> MaybeHandle]
  /\ tries \in [Operations -> 0 .. MAX_TRIES]
  /\ bootFresh \in [Operations -> BOOLEAN]
  /\ usb \in 0 .. MAX_DROPS /\ event \in -1 .. MAX_DROPS
  /\ attaches \in 0 .. MAX_ATTACHES
  /\ failures \in 0 .. MAX_FAILURES
  /\ actions \subseteq UserActions

\* The app closes the device of the adapter that is on the bus, in this step.
Closes == opened /\ ~opened' /\ usb' = usb

\* recovery.mjs: "a teardown while a stub boot is in flight must NOT close the handle that
\* boot owns", whoever tears down and however many boots there are: the one dispose that can
\* still close it was under way, its close not reached yet, when the boot began.
BootKeepsItsHandle ==
  [][Closes => \A o \in Operations : op[o] = "boot" /\ op'[o] = "boot" =>
                 closing \ closing' \subseteq preBoot[o]]_vars

\* The device of a session that stays is closed by that session's own teardown, or by a dispose
\* that was under way when it attached: no boot that settles later begins to take it.
LiveHandleStaysOpen ==
  [][Closes /\ link' # NoHandle /\ DeviceOf(link') = usb =>
       \A c \in closing \ closing' : (c[1] \in Tasks /\ c[2] = link) \/ c \in preLink]_vars

\* recovery.mjs: "That deferred close must still happen ... when the boot settles": no handle is
\* left to a boot that is over.
NothingLeftDeferred == deferred # {} => Booting # {}

\* Nothing is going on and the session is up: the liveness poll runs.  No suspension, drop,
\* teardown or boot loses it, but for a superseded boot that throws before it drains
\* _reconnectAfterBoot (device.svelte.ts:813).
Quiescent == Writing = {} /\ tear = {} /\ attach = "none" /\ event = -1
PollComesBack ==
  Quiescent /\ connection = "connected" /\ link # NoHandle /\ ~rejoin => poll

\* No suspension of the poll outlives the flows, however the teardowns in between zeroed it:
\* a later session's poll starts.
SuspensionsEnd == Writing = {} => depth = 0

\* reconnectLoop: "10 attempts @ 200ms, then continuous @ 1000ms forever, until reconnected,
\* superseded ..., or auto-retry is suppressed".
Reconnects ==
  connection = "lost" ~> (connection = "connected" \/ suppress \/ attaches = MAX_ATTACHES)

\* Every flow ends, and with it its suspension of the poll.
FlowsEnd == \A o \in Operations : op[o] # "idle" ~> op[o] = "done"

=============================================================================
