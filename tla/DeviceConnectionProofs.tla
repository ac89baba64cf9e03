----------------------- MODULE DeviceConnectionProofs -----------------------
(***************************************************************************)
(* What TLAPS proves of DeviceConnection, for any number of flows, attaches, *)
(* drops and failures: every field keeps its range; no handle is left to a *)
(* boot that is over; the device of a boot, and of a session, is closed by *)
(* no dispose that began under it but the session's own; the poll is       *)
(* suspended only under a write, and comes back.                           *)
(***************************************************************************)
EXTENDS DeviceConnection, FiniteSetTheorems, TLAPS

Stages == {"idle", "acquire", "check", "boot", "flash", "end", "done"}

-----------------------------------------------------------------------------
(* Types.                                                                  *)

\* What a teardown may change.
TearRange ==
  /\ connection \in {"disconnected", "connecting", "connected", "lost"}
  /\ link \in MaybeHandle /\ flasher \in MaybeHandle
  /\ listening \in BOOLEAN /\ poll \in BOOLEAN
  /\ depth \in Nat
  /\ attach \in {"none", "probing", "checking", "recovery", "quick", "failing"}
  /\ loop \in {"none", "sleep", "join"}
  /\ tear \subseteq Tasks /\ closing \subseteq Disposes
  /\ deferred \subseteq Handles
  /\ bootFresh \in [Operations -> BOOLEAN]

\* The flows.
FlowRange ==
  /\ op \in [Operations -> Stages]
  /\ owned \in [Operations -> MaybeHandle]
  /\ tries \in [Operations -> 0 .. MAX_TRIES]
  /\ preBoot \in [Operations -> SUBSET Disposes]

\* The rest.
RestRange ==
  /\ suppress \in BOOLEAN /\ silent \in BOOLEAN /\ rejoin \in BOOLEAN /\ plugged \in BOOLEAN
  /\ opened \in BOOLEAN /\ resetting \in BOOLEAN /\ preLink \subseteq Disposes
  /\ ping \in MaybeHandle /\ mine \in MaybeHandle
  /\ usb \in 0 .. MAX_DROPS /\ event \in -1 .. MAX_DROPS
  /\ attaches \in 0 .. MAX_ATTACHES
  /\ failures \in 0 .. MAX_FAILURES
  /\ actions \subseteq UserActions

LEMMA Ranges ==
  /\ TypeOK <=> TearRange /\ FlowRange /\ RestRange
  /\ TearRange' /\ FlowRange' /\ RestRange' => TypeOK'
  BY DEF TypeOK, TearRange, FlowRange, RestRange, Stages

LEMMA TypeInit == Init => TypeOK
  <1> SUFFICES ASSUME Init PROVE TypeOK
    OBVIOUS
  <1>1. /\ 0 \in 0 .. MAX_TRIES /\ 0 \in 0 .. MAX_DROPS /\ -1 \in -1 .. MAX_DROPS
        /\ 0 \in 0 .. MAX_ATTACHES /\ 0 \in 0 .. MAX_FAILURES
    BY ConnectionAssumption
  <1>2. TearRange /\ FlowRange /\ RestRange
    BY <1>1 DEF Init, TearRange, FlowRange, RestRange, MaybeHandle, Stages
  <1> QED BY <1>2, Ranges

LEMMA CountFails ==
  ASSUME TypeOK, Fails
  PROVE  failures' \in 0 .. MAX_FAILURES
  BY ConnectionAssumption DEF TypeOK, Fails

LEMMA TearStartTypes ==
  ASSUME TypeOK, NEW t \in Tasks, TearStart(t)
  PROVE  TearRange'
  <1>1. closing' \subseteq Disposes
    BY DEF TypeOK, TearStart, Dispose, Disposes, MaybeHandle
  <1>0. /\ poll' = FALSE /\ depth' = 0 /\ listening' = FALSE
        /\ tear' \subseteq Tasks /\ deferred' \subseteq Handles
    BY DEF TypeOK, TearStart, MaybeHandle
  <1>2. CASE TearDone(t)
    <2>1. connection' \in {"disconnected", "connecting", "connected", "lost"}
      BY <1>2 DEF TypeOK, TearDone, Tasks
    <2>2. /\ link' \in MaybeHandle /\ flasher' \in MaybeHandle
          /\ loop' \in {"none", "sleep", "join"}
          /\ attach' \in {"none", "probing", "checking", "recovery", "quick", "failing"}
      BY <1>2 DEF TypeOK, TearDone, MaybeHandle
    <2>3. bootFresh' \in [Operations -> BOOLEAN]
      BY <1>2 DEF TearDone
    <2> QED BY <1>0, <1>1, <2>1, <2>2, <2>3 DEF TearRange
  <1>3. CASE UNCHANGED <<deferred, link, flasher, bootFresh, loop, connection>>
    <2>1. attach' \in {"none", "probing", "checking", "recovery", "quick", "failing"}
      BY DEF TypeOK, TearStart, TearDone
    <2> QED BY <1>0, <1>1, <1>3, <2>1 DEF TypeOK, TearRange
  <1> QED BY <1>2, <1>3 DEF TearStart

LEMMA HandleLostTypes ==
  ASSUME TypeOK, NEW t \in Tasks, HandleLost(t)
  PROVE  TearRange' /\ rejoin' \in BOOLEAN
  <1>1. CASE TearStart(t) /\ UNCHANGED rejoin
    BY <1>1, TearStartTypes DEF TypeOK
  <1>2. CASE UNCHANGED <<poll, depth, rejoin, tearTouches>>
    BY <1>2 DEF TypeOK, TearRange, tearTouches
  <1>3. CASE poll' = FALSE /\ rejoin' = TRUE /\ UNCHANGED <<depth, tearTouches>>
    BY <1>3 DEF TypeOK, TearRange, tearTouches
  <1> QED BY <1>1, <1>2, <1>3 DEF HandleLost

LEMMA ConnectTypes ==
  ASSUME TypeOK, Connect
  PROVE  /\ attach' \in {"none", "probing", "checking", "recovery", "quick", "failing"}
         /\ connection' \in {"disconnected", "connecting", "connected", "lost"}
         /\ suppress' \in BOOLEAN /\ rejoin' \in BOOLEAN
  BY DEF TypeOK, Connect

LEMMA PollTypes ==
  ASSUME TypeOK
  PROVE  /\ StartPoll => poll' \in BOOLEAN
         /\ ResumePoll => poll' \in BOOLEAN /\ depth' \in Nat
  <1>1. (poll \/ depth = 0) \in BOOLEAN /\ (poll \/ depth = 1) \in BOOLEAN
    OBVIOUS
  <1>2. StartPoll => poll' \in BOOLEAN
    BY <1>1, Zenon DEF StartPoll
  <1>3. ResumePoll => poll' \in BOOLEAN
    BY <1>1, Zenon DEF ResumePoll
  <1>4. ResumePoll => depth' \in Nat
    BY DEF TypeOK, ResumePoll
  <1> QED BY <1>2, <1>3, <1>4

LEMMA SupersedeTypes ==
  ASSUME Supersede
  PROVE  loop' \in {"none", "sleep", "join"} /\ bootFresh' \in [Operations -> BOOLEAN]
  BY DEF Supersede

\* The steps of the connection itself.
LEMMA ConnectionTypes ==
  ASSUME TypeOK,
         \/ SilentGo \/ LoopWake \/ AttachOk \/ AttachDone \/ AttachEnd \/ AttachFail
         \/ PingAnswered \/ PingLapsed \/ UsbDisconnect \/ SilentStart \/ Scan \/ PollTick
         \/ UserConnect \/ Disconnect \/ ResetDevice \/ ResetGo
         \/ (\E t \in Tasks : TearEnd(t)) \/ (\E c \in closing : Closed(c))
  PROVE  TypeOK'
  <1> USE DEF storeVars, pollVars, attachVars, retryVars, closeVars, bootVars, opVars, usbVars
  <1>0. TearRange /\ FlowRange /\ RestRange
    BY Ranges
  <1> SUFFICES TearRange' /\ FlowRange' /\ RestRange'
    BY Ranges
  <1>1. CASE SilentGo
    <2>1. \/ Connect
          \/ UNCHANGED <<attach, connection, suppress, rejoin>>
      BY <1>1 DEF SilentGo
    <2>2. /\ attach' \in {"none", "probing", "checking", "recovery", "quick", "failing"}
          /\ connection' \in {"disconnected", "connecting", "connected", "lost"}
          /\ suppress' \in BOOLEAN /\ rejoin' \in BOOLEAN
      BY <2>1, ConnectTypes DEF TypeOK
    <2> QED BY <1>0, <1>1, <2>2 DEF SilentGo, TearRange, FlowRange, RestRange
  <1>2. CASE LoopWake
    <2>1. \/ Connect
          \/ UNCHANGED <<attach, connection, suppress, rejoin>>
      BY <1>2 DEF LoopWake
    <2>2. /\ attach' \in {"none", "probing", "checking", "recovery", "quick", "failing"}
          /\ connection' \in {"disconnected", "connecting", "connected", "lost"}
          /\ suppress' \in BOOLEAN /\ rejoin' \in BOOLEAN
      BY <2>1, ConnectTypes DEF TypeOK
    <2>3. loop' \in {"none", "sleep", "join"}
      BY <1>2 DEF LoopWake
    <2> QED BY <1>0, <1>2, <2>2, <2>3 DEF LoopWake, TearRange, FlowRange, RestRange
  <1>3. CASE AttachOk
    <2>1. attaches' \in 0 .. MAX_ATTACHES /\ <<attaches + 1, usb>> \in Handles
      BY <1>3, ConnectionAssumption DEF AttachOk, TypeOK, Handles
    <2> QED BY <1>0, <1>3, <2>1 DEF AttachOk, TearRange, FlowRange, RestRange, MaybeHandle
  <1>4. CASE AttachDone
    <2>1. poll' \in BOOLEAN
      BY <1>4, PollTypes DEF AttachDone
    <2>2. flasher' \in MaybeHandle
      BY <1>0, <1>4 DEF AttachDone, RestRange, MaybeHandle
    <2> QED BY <1>0, <1>4, <2>1, <2>2 DEF AttachDone, TearRange, FlowRange, RestRange, MaybeHandle
  <1>5. CASE AttachEnd \/ Scan
    <2>1. loop' \in {"none", "sleep", "join"} /\ bootFresh' \in [Operations -> BOOLEAN]
      BY <1>0, <1>5, SupersedeTypes DEF AttachEnd, Scan, TearRange
    <2> QED BY <1>0, <1>5, <2>1 DEF AttachEnd, Scan, TearRange, FlowRange, RestRange
  <1>6. CASE AttachFail
    <2>1. failures' \in 0 .. MAX_FAILURES
      BY <1>6, CountFails DEF AttachFail, TypeOK
    <2>2. TearRange'
      BY <1>6, TearStartTypes DEF AttachFail, Tasks
    <2> QED BY <1>0, <1>6, <2>1, <2>2 DEF AttachFail, FlowRange, RestRange, MaybeHandle
  <1>7. CASE Disconnect \/ ResetGo
    <2>1. TearRange'
      BY <1>7, TearStartTypes DEF Disconnect, ResetGo, Tasks
    <2>2. suppress' \in BOOLEAN /\ actions' \subseteq UserActions /\ resetting' \in BOOLEAN
      BY <1>0, <1>7 DEF Disconnect, ResetGo, UserDoes, RestRange
    <2> QED BY <1>0, <1>7, <2>1, <2>2 DEF Disconnect, ResetGo, FlowRange, RestRange
  <1>8. CASE PingLapsed \/ UsbDisconnect
    <2>1. TearRange' /\ rejoin' \in BOOLEAN
      <3>1. CASE HandleLost("tick") \/ HandleLost("event")
        BY <3>1, HandleLostTypes DEF Tasks
      <3>2. CASE UNCHANGED <<poll, depth, rejoin, tearTouches>>
        BY <1>0, <3>2 DEF TearRange, RestRange, tearTouches
      <3> QED BY <1>8, <3>1, <3>2 DEF PingLapsed, UsbDisconnect
    <2>2. event' \in -1 .. MAX_DROPS /\ ping' \in MaybeHandle
      BY <1>0, <1>8, ConnectionAssumption DEF PingLapsed, UsbDisconnect, RestRange, MaybeHandle
    <2> QED BY <1>0, <1>8, <2>1, <2>2 DEF PingLapsed, UsbDisconnect, FlowRange, RestRange
  <1>9. CASE SilentStart \/ PollTick \/ PingAnswered
    <2>1. silent' \in BOOLEAN /\ ping' \in MaybeHandle
      BY <1>0, <1>9 DEF SilentStart, PollTick, PingAnswered, TearRange, RestRange, MaybeHandle
    <2>2. UNCHANGED <<connection, suppress, link, flasher, listening, poll, depth, attach, mine,
                      loop, tear, closing, preBoot, preLink, resetting, rejoin, deferred, op, owned, tries, bootFresh, usb, plugged,
                      opened, event, attaches, failures, actions>>
      BY <1>9 DEF SilentStart, PollTick, PingAnswered
    <2> QED BY <1>0, <2>1, <2>2 DEF TearRange, FlowRange, RestRange
  <1>10. CASE UserConnect
    <2>1. actions' \subseteq UserActions
      BY <1>0, <1>10 DEF UserConnect, UserDoes, RestRange
    <2> QED BY <1>0, <1>10, <2>1, ConnectTypes DEF UserConnect, TearRange, FlowRange, RestRange
  <1>11. CASE \E t \in Tasks : TearEnd(t)
    BY <1>0, <1>11 DEF TearEnd, TearDone, Tasks, TearRange, FlowRange, RestRange, MaybeHandle
  <1>12. CASE ResetDevice
    BY <1>0, <1>12 DEF ResetDevice, UserDoes, TearRange, FlowRange, RestRange
  <1>13. CASE \E c \in closing : Closed(c)
    <2>1. PICK c \in closing : Closed(c)
      BY <1>13
    <2>2. opened' \in BOOLEAN
      <3>1. (opened /\ DeviceOf(c[2]) # usb) \in BOOLEAN
        OBVIOUS
      <3> QED BY <2>1, <3>1, Zenon DEF Closed
    <2> QED BY <1>0, <2>1, <2>2 DEF Closed, TearRange, FlowRange, RestRange
  <1> QED BY <1>1, <1>2, <1>3, <1>4, <1>5, <1>6, <1>7, <1>8, <1>9, <1>10, <1>11, <1>12, <1>13

LEMMA AgainTypes ==
  ASSUME NEW o \in Operations, NEW f \in [Operations -> Stages], NEW n
  PROVE  [f EXCEPT ![o] = Again(n)] \in [Operations -> Stages]
  BY DEF Again, Stages

LEMMA BootStartTypes ==
  ASSUME TypeOK, NEW o \in Operations, BootStart(o)
  PROVE  /\ op' \in [Operations -> Stages]
         /\ owned' \in [Operations -> MaybeHandle]
         /\ bootFresh' \in [Operations -> BOOLEAN]
         /\ loop' \in {"none", "sleep", "join"}
         /\ preBoot' \in [Operations -> SUBSET Disposes]
  <1>1. bootFresh' \in [Operations -> BOOLEAN] /\ loop' \in {"none", "sleep", "join"}
    BY DEF BootStart
  <1>2. op' \in [Operations -> Stages] /\ owned' \in [Operations -> MaybeHandle]
    BY DEF TypeOK, BootStart, Stages
  <1>3. preBoot' \in [Operations -> SUBSET Disposes]
    BY DEF TypeOK, BootStart
  <1> QED BY <1>1, <1>2, <1>3

LEMMA FlushTypes ==
  ASSUME TypeOK, NEW booting, NEW live, Flush(booting, live)
  PROVE  deferred' \subseteq Handles /\ closing' \subseteq Disposes
  BY DEF TypeOK, Flush, Dispose, Disposes

LEMMA BootFailedTypes ==
  ASSUME TypeOK, NEW o \in Operations, NEW instant, BootFailed(o, instant),
         UNCHANGED <<attach, tear>>
  PROVE  /\ TearRange'
         /\ op' \in [Operations -> Stages] /\ owned' \in [Operations -> MaybeHandle]
         /\ preBoot' \in [Operations -> SUBSET Disposes]
         /\ rejoin' \in BOOLEAN
  <1>1. /\ op' \in [Operations -> Stages] /\ owned' \in [Operations -> MaybeHandle]
        /\ preBoot' \in [Operations -> SUBSET Disposes]
    BY AgainTypes DEF BootFailed, TypeOK, Stages
  <1>2. CASE rejoin
    <2>1. deferred' \subseteq Handles /\ closing' \subseteq Disposes
      BY <1>2 DEF BootFailed, TypeOK, Dispose, Disposes, MaybeHandle
    <2>2. /\ connection' = "lost" /\ loop' = "sleep" /\ link' = NoHandle /\ flasher' = NoHandle
          /\ rejoin' = FALSE /\ listening' = FALSE /\ poll' = FALSE /\ depth' = 0
          /\ bootFresh' = [p \in Operations |-> FALSE]
      BY <1>2 DEF BootFailed
    <2>3. bootFresh' \in [Operations -> BOOLEAN]
      BY <2>2
    <2> QED BY <1>1, <2>1, <2>2, <2>3 DEF TypeOK, TearRange, MaybeHandle
  <1>3. CASE ~rejoin
    <2>1. deferred' \subseteq Handles /\ closing' \subseteq Disposes
      BY <1>3, FlushTypes DEF BootFailed
    <2>2. poll' \in BOOLEAN /\ depth' \in Nat
      BY <1>3, PollTypes DEF BootFailed
    <2>3. loop' \in {"none", "sleep", "join"} /\ bootFresh' \in [Operations -> BOOLEAN]
      BY <1>3, SupersedeTypes DEF BootFailed, TypeOK
    <2> QED BY <1>1, <1>3, <2>1, <2>2, <2>3 DEF BootFailed, TypeOK, TearRange, MaybeHandle
  <1> QED BY <1>2, <1>3

\* A flow gives up after MAX_TRIES acquisitions.
Tried == \A o \in Operations :
           (op[o] = "idle" => tries[o] = 0) /\ (op[o] = "acquire" => tries[o] < MAX_TRIES)

LEMMA FlowTypes ==
  ASSUME TypeOK, Tried, NEW o \in Operations, OpStep(o) \/ OpStart(o)
  PROVE  TypeOK'
  <1> USE DEF storeVars, pollVars, attachVars, retryVars, closeVars, bootVars, opVars, usbVars
  <1>0. TearRange /\ FlowRange /\ RestRange
    BY Ranges
  <1> SUFFICES TearRange' /\ FlowRange' /\ RestRange'
    BY Ranges
  <1>1. CASE Acquire(o)
    <2>1. /\ op' \in [Operations -> Stages]
          /\ owned' \in [Operations -> MaybeHandle]
          /\ bootFresh' \in [Operations -> BOOLEAN]
          /\ loop' \in {"none", "sleep", "join"}
          /\ preBoot' \in [Operations -> SUBSET Disposes]
      <3>1. CASE BootStart(o)
        BY <3>1, BootStartTypes
      <3>2. CASE op' = [op EXCEPT ![o] = "check"] /\ UNCHANGED <<owned, bootFresh, preBoot, loop>>
        BY <1>0, <3>2 DEF TearRange, FlowRange, Stages
      <3> QED BY <1>1, <3>1, <3>2 DEF Acquire
    <2>2. tries[o] + 1 \in 0 .. MAX_TRIES
      BY <1>0, <1>1, ConnectionAssumption DEF Acquire, Tried, FlowRange
    <2>3. tries' \in [Operations -> 0 .. MAX_TRIES]
      BY <1>0, <1>1, <2>2 DEF Acquire, FlowRange
    <2>4. depth' \in Nat /\ poll' = FALSE /\ flasher' \in MaybeHandle
      BY <1>0, <1>1 DEF Acquire, TearRange, MaybeHandle
    <2>5. UNCHANGED <<connection, suppress, link, listening, ping, attach, mine, attaches, silent,
                      tear, closing, preLink, resetting, rejoin, deferred, usb, plugged, opened, event, failures, actions>>
      BY <1>1 DEF Acquire
    <2> QED BY <1>0, <2>1, <2>3, <2>4, <2>5 DEF TearRange, FlowRange, RestRange
  <1>2. CASE AcquireFail(o)
    <2>1. op' \in [Operations -> Stages]
      BY <1>0, <1>2, AgainTypes DEF AcquireFail, FlowRange
    <2>2. tries[o] + 1 \in 0 .. MAX_TRIES
      BY <1>0, <1>2, ConnectionAssumption DEF AcquireFail, Tried, FlowRange
    <2> QED BY <1>0, <1>2, <2>1, <2>2 DEF AcquireFail, TearRange, FlowRange, RestRange
  <1>3. CASE CheckReuse(o)
    <2>1. poll' \in BOOLEAN /\ depth' \in Nat
      BY <1>3, PollTypes DEF CheckReuse
    <2>2. op' \in [Operations -> Stages] /\ owned' \in [Operations -> MaybeHandle]
      BY <1>0, <1>3 DEF CheckReuse, TearRange, FlowRange, Stages
    <2> QED BY <1>0, <1>3, <2>1, <2>2 DEF CheckReuse, TearRange, FlowRange, RestRange
  <1>4. CASE CheckReboot(o)
    <2>1. failures' \in 0 .. MAX_FAILURES
      BY <1>0, <1>4, CountFails DEF CheckReboot, RestRange
    <2>2. TearRange' /\ rejoin' \in BOOLEAN
          /\ op' \in [Operations -> Stages] /\ owned' \in [Operations -> MaybeHandle]
          /\ preBoot' \in [Operations -> SUBSET Disposes]
      <3>1. CASE link = NoHandle
        BY <1>4, <3>1, BootFailedTypes DEF CheckReboot
      <3>2. CASE link # NoHandle
        <4>1. BootStart(o)
          BY <1>4, <3>2 DEF CheckReboot
        <4> QED BY <1>0, <1>4, <3>2, <4>1, BootStartTypes
                DEF CheckReboot, TearRange, RestRange, MaybeHandle
      <3> QED BY <3>1, <3>2
    <2> QED BY <1>0, <1>4, <2>1, <2>2 DEF CheckReboot, FlowRange, RestRange
  <1>5. CASE BootOk(o)
    <2>1. op' \in [Operations -> Stages]
      BY <1>0, <1>5, AgainTypes DEF BootOk, FlowRange, Stages
    <2>2. deferred' \subseteq Handles /\ closing' \subseteq Disposes
      BY <1>5, FlushTypes DEF BootOk
    <2>3. poll' \in BOOLEAN
      <3>1. (poll \/ depth = 1 \/ (bootFresh[o] /\ rejoin /\ depth = 0)) \in BOOLEAN
        OBVIOUS
      <3>2. poll' = (poll \/ depth = 1 \/ (bootFresh[o] /\ rejoin /\ depth = 0))
        BY <1>5, Zenon DEF BootOk
      <3> QED BY <3>1, <3>2, Zenon
    <2>4. depth' \in Nat
      BY <1>0, <1>5 DEF BootOk, TearRange
    <2>5. flasher' \in MaybeHandle /\ rejoin' \in BOOLEAN
      BY <1>0, <1>5 DEF BootOk, FlowRange, RestRange, MaybeHandle
    <2>6. UNCHANGED <<connection, suppress, link, listening, ping, attach, mine, attaches, loop,
                      silent, tear, preBoot, preLink, resetting, owned, tries, bootFresh, usb,
                      plugged, opened, event, failures, actions>>
      BY <1>5 DEF BootOk
    <2> QED BY <1>0, <2>1, <2>2, <2>3, <2>4, <2>5, <2>6 DEF TearRange, FlowRange, RestRange
  <1>6. CASE BootFail(o)
    <2>1. failures' \in 0 .. MAX_FAILURES
      BY <1>0, <1>6, CountFails DEF BootFail, RestRange
    <2>2. TearRange' /\ rejoin' \in BOOLEAN
          /\ op' \in [Operations -> Stages] /\ owned' \in [Operations -> MaybeHandle]
          /\ preBoot' \in [Operations -> SUBSET Disposes]
      BY <1>6, BootFailedTypes DEF BootFail
    <2> QED BY <1>0, <1>6, <2>1, <2>2 DEF BootFail, FlowRange, RestRange
  <1>7. CASE FlashOk(o) \/ FlashFail(o)
    <2>1. op' \in [Operations -> Stages]
      BY <1>0, <1>7, AgainTypes DEF FlashOk, FlashFail, FlowRange, Stages
    <2>2. failures' \in 0 .. MAX_FAILURES
      BY <1>0, <1>7, CountFails DEF FlashOk, FlashFail, RestRange
    <2> QED BY <1>0, <1>7, <2>1, <2>2 DEF FlashOk, FlashFail, TearRange, FlowRange, RestRange
  <1>8. CASE OpEnd(o)
    <2>1. poll' \in BOOLEAN /\ depth' \in Nat
      BY <1>8, PollTypes DEF OpEnd
    <2>2. op' \in [Operations -> Stages]
      BY <1>0, <1>8 DEF OpEnd, FlowRange, Stages
    <2> QED BY <1>0, <1>8, <2>1, <2>2 DEF OpEnd, TearRange, FlowRange, RestRange
  <1>9. CASE OpStart(o)
    <2>1. op' \in [Operations -> Stages] /\ depth' \in Nat /\ poll' = FALSE
      BY <1>0, <1>9 DEF OpStart, TearRange, FlowRange, Stages
    <2> QED BY <1>0, <1>9, <2>1 DEF OpStart, TearRange, FlowRange, RestRange
  <1> QED BY <1>1, <1>2, <1>3, <1>4, <1>5, <1>6, <1>7, <1>8, <1>9 DEF OpStep

LEMMA AdapterTypes ==
  ASSUME TypeOK, Drop \/ Replug \/ BootDrop \/ UNCHANGED vars
  PROVE  TypeOK'
  <1> USE DEF storeVars, pollVars, attachVars, retryVars, closeVars, bootVars, opVars, usbVars
  <1>0. TearRange /\ FlowRange /\ RestRange
    BY Ranges
  <1>1. usb' \in 0 .. MAX_DROPS /\ event' \in -1 .. MAX_DROPS
    BY <1>0, ConnectionAssumption DEF Drop, Replug, BootDrop, RestRange, vars
  <1>2. plugged' \in BOOLEAN /\ opened' \in BOOLEAN
    BY <1>0 DEF Drop, Replug, BootDrop, TearRange, RestRange, vars
  <1>3. UNCHANGED <<connection, suppress, link, flasher, listening, poll, depth, ping, attach, mine,
                    attaches, loop, silent, tear, closing, preBoot, preLink, resetting, rejoin,
                    deferred, op, owned, tries, bootFresh,
                    failures, actions>>
    BY DEF Drop, Replug, BootDrop, vars
  <1> QED BY <1>0, <1>1, <1>2, <1>3, Ranges DEF TearRange, FlowRange, RestRange

LEMMA FlowTried ==
  ASSUME TypeOK, Tried, NEW o \in Operations, OpStep(o) \/ OpStart(o)
  PROVE  Tried'
  <1> USE DEF storeVars, pollVars, attachVars, retryVars, closeVars, bootVars, opVars, usbVars
  <1>0. /\ op \in [Operations -> Stages] /\ tries \in [Operations -> 0 .. MAX_TRIES]
        /\ MAX_TRIES \in Nat /\ MAX_TRIES # 0
    BY ConnectionAssumption DEF TypeOK, Stages
  <1>1. \A n : Again(n) # "idle" /\ (Again(n) = "acquire" => n < MAX_TRIES)
    BY DEF Again
  <1>2. PICK s : /\ op' = [op EXCEPT ![o] = s] /\ s # "idle"
                 /\ s = "acquire" => tries'[o] < MAX_TRIES
    <2>1. CASE OpStart(o)
      <3>1. op' = [op EXCEPT ![o] = "acquire"] /\ tries' = tries /\ op[o] = "idle"
        BY <2>1 DEF OpStart
      <3>2. tries'[o] < MAX_TRIES
        BY <1>0, <3>1 DEF Tried
      <3> QED BY <3>1, <3>2
    <2>2. CASE Acquire(o)
      <3>1. op' = [op EXCEPT ![o] = "check"] \/ op' = [op EXCEPT ![o] = "boot"]
        BY <2>2 DEF Acquire, BootStart
      <3> QED BY <3>1
    <2>3. CASE AcquireFail(o)
      <3>1. op' = [op EXCEPT ![o] = Again(tries[o] + 1)] /\ tries'[o] = tries[o] + 1
        BY <1>0, <2>3 DEF AcquireFail
      <3> QED BY <1>1, <3>1
    <2>4. CASE CheckReuse(o)
      <3>1. op' = [op EXCEPT ![o] = "flash"]
        BY <2>4 DEF CheckReuse
      <3> WITNESS "flash"
      <3> QED BY <3>1
    <2>5. CASE CheckReboot(o)
      <3>1. \/ op' = [op EXCEPT ![o] = "boot"]
            \/ op' = [op EXCEPT ![o] = Again(tries[o])] /\ tries' = tries
        BY <2>5 DEF CheckReboot, BootFailed, BootStart
      <3> QED BY <1>1, <3>1
    <2>6. CASE BootOk(o) \/ BootFail(o)
      <3>1. \/ op' = [op EXCEPT ![o] = "flash"]
            \/ op' = [op EXCEPT ![o] = Again(tries[o])] /\ tries' = tries
        BY <2>6 DEF BootOk, BootFail, BootFailed
      <3> QED BY <1>1, <3>1
    <2>7. CASE FlashOk(o) \/ FlashFail(o) \/ OpEnd(o)
      <3>1. \/ op' = [op EXCEPT ![o] = "end"] \/ op' = [op EXCEPT ![o] = "done"]
            \/ op' = [op EXCEPT ![o] = Again(tries[o])] /\ tries' = tries
        BY <2>7 DEF FlashOk, FlashFail, OpEnd
      <3> QED BY <1>1, <3>1
    <2> QED BY <2>1, <2>2, <2>3, <2>4, <2>5, <2>6, <2>7 DEF OpStep
  <1>3. tries' \in [Operations -> 0 .. MAX_TRIES]
    BY FlowTypes DEF TypeOK
  <1>4. \A p \in Operations \ {o} : tries'[p] = tries[p]
    <2>1. tries' = tries \/ tries' = [tries EXCEPT ![o] = @ + 1]
      BY DEF OpStep, OpStart, Acquire, AcquireFail, CheckReuse, CheckReboot, BootOk, BootFail,
             FlashOk, FlashFail, OpEnd
    <2> QED BY <1>0, <2>1
  <1> QED BY <1>0, <1>2, <1>3, <1>4 DEF Tried

\* A step is one of the connection's, of a flow or of the adapter.
LEMMA StepCases ==
  ASSUME [Next]_vars
  PROVE  \/ \/ SilentGo \/ LoopWake \/ AttachOk \/ AttachDone \/ AttachEnd \/ AttachFail
            \/ PingAnswered \/ PingLapsed \/ UsbDisconnect \/ SilentStart \/ Scan \/ PollTick
            \/ UserConnect \/ Disconnect \/ ResetDevice \/ ResetGo
            \/ (\E t \in Tasks : TearEnd(t)) \/ (\E c \in closing : Closed(c))
         \/ \E o \in Operations : OpStep(o) \/ OpStart(o)
         \/ Drop \/ Replug \/ BootDrop \/ UNCHANGED vars
  BY DEF Next, AppStep

\* Only a flow's step changes the flow.
LEMMA FlowsStay ==
  ASSUME \/ SilentGo \/ LoopWake \/ AttachOk \/ AttachDone \/ AttachEnd \/ AttachFail
         \/ PingAnswered \/ PingLapsed \/ UsbDisconnect \/ SilentStart \/ Scan \/ PollTick
         \/ UserConnect \/ Disconnect \/ ResetDevice \/ ResetGo
         \/ (\E t \in Tasks : TearEnd(t)) \/ (\E c \in closing : Closed(c))
         \/ Drop \/ Replug \/ BootDrop \/ UNCHANGED vars
  PROVE  UNCHANGED <<op, owned, tries>>
  BY DEF SilentGo, LoopWake, AttachOk, AttachDone, AttachEnd, AttachFail, PingAnswered,
         PingLapsed, UsbDisconnect, SilentStart, Scan, PollTick, UserConnect, Disconnect,
         ResetDevice, ResetGo, TearEnd, Closed, Drop, Replug, BootDrop, vars, opVars

LEMMA TypeNext ==
  ASSUME TypeOK, Tried, [Next]_vars
  PROVE  TypeOK' /\ Tried'
  <1>1. TypeOK'
    BY StepCases, ConnectionTypes, FlowTypes, AdapterTypes
  <1>2. Tried'
    <2>1. CASE \E o \in Operations : OpStep(o) \/ OpStart(o)
      BY <2>1, FlowTried
    <2>2. CASE ~\E o \in Operations : OpStep(o) \/ OpStart(o)
      <3>1. UNCHANGED <<op, owned, tries>>
        BY <2>2, StepCases, FlowsStay
      <3> QED BY <3>1 DEF Tried
    <2> QED BY <2>1, <2>2
  <1> QED BY <1>1, <1>2

\* Every field of the store keeps its range, and no flow acquires a flasher more than MAX_TRIES
\* times, whatever interrupts what.
THEOREM ConnectionTypeOK == Spec => []TypeOK
  <1>1. Init => TypeOK /\ Tried
    <2>1. Init => Tried
      BY ConnectionAssumption DEF Init, Tried
    <2> QED BY <2>1, TypeInit
  <1>2. TypeOK /\ Tried /\ [Next]_vars => (TypeOK /\ Tried)'
    BY TypeNext
  <1> QED BY <1>1, <1>2, PTL DEF Spec

-----------------------------------------------------------------------------
(* The handles that boots and sessions own.                                *)

\* No dispose is begun while a boot is writing.
BootShields == \A o \in Booting : closing \subseteq preBoot[o]

\* A dispose begun under a session aims at another device, or is the session's own teardown.
SessionShields ==
  link # NoHandle =>
    \A c \in closing : \/ c \in preLink
                       \/ c[1] \in Tasks /\ c[2] = link
                       \/ DeviceOf(c[2]) # DeviceOf(link)

Inv == NothingLeftDeferred /\ BootShields /\ SessionShields

LEMMA InvInit == Init => Inv
  BY DEF Init, Inv, NothingLeftDeferred, BootShields, SessionShields, Booting

\* A teardown disposes of its session's handle, and only when no boot is writing.
LEMMA TeardownInv ==
  ASSUME Inv, NEW t \in Tasks, TearStart(t), UNCHANGED <<op, preBoot, preLink>>
  PROVE  Inv'
  <1>1. Booting' = Booting
    BY DEF Booting
  <1>2. NothingLeftDeferred'
    BY <1>1 DEF Inv, TearStart, TearDone, NothingLeftDeferred
  <1>3. BootShields'
    BY <1>1 DEF Inv, TearStart, BootShields
  <1>4. SessionShields'
    <2>1. CASE link # NoHandle /\ Booting = {}
      <3>1. link' = link /\ closing' = closing \cup {<<t, link>>}
        BY <2>1 DEF TearStart, Dispose
      <3> QED BY <3>1 DEF Inv, SessionShields
    <2>2. CASE ~(link # NoHandle /\ Booting = {})
      BY <2>2 DEF TearStart, TearDone, SessionShields
    <2> QED BY <2>1, <2>2
  <1> QED BY <1>2, <1>3, <1>4 DEF Inv

\* A step that begins no dispose and leaves the flows and the session alone.
LEMMA QuietInv ==
  ASSUME Inv, UNCHANGED <<op, deferred, closing, preBoot, preLink, link>>
  PROVE  Inv'
  BY DEF Inv, NothingLeftDeferred, BootShields, SessionShields, Booting

LEMMA LossInv ==
  ASSUME Inv, NEW t \in Tasks, HandleLost(t), UNCHANGED <<op, preBoot, preLink>>
  PROVE  Inv'
  <1>1. CASE UNCHANGED tearTouches
    BY <1>1, QuietInv DEF tearTouches
  <1>2. CASE TearStart(t)
    BY <1>2, TeardownInv
  <1> QED BY <1>1, <1>2 DEF HandleLost

\* A flow that leaves its boot, or fails to start it, disposes of what was deferred unless
\* another boot goes on.
LEMMA BootLeaves ==
  ASSUME TypeOK, NEW o \in Operations, NEW stage \in Stages \ {"boot"},
         op' = [op EXCEPT ![o] = stage]
  PROVE  Booting' = Booting \ {o}
  BY DEF TypeOK, Booting

LEMMA AgainIsNoBoot ==
  ASSUME NEW n
  PROVE  Again(n) \in Stages \ {"boot"}
  BY DEF Again, Stages

LEMMA FlushInv ==
  ASSUME Inv, NEW o \in Operations, Booting' = Booting \ {o}, Flush(Booting \ {o}, link),
         UNCHANGED <<preBoot, preLink, link>>
  PROVE  Inv'
  <1>1. CASE Booting \ {o} # {}
    BY <1>1 DEF Flush, Inv, NothingLeftDeferred, BootShields, SessionShields
  <1>2. CASE Booting \ {o} = {}
    <2>1. /\ deferred' = {}
          /\ closing' = closing \cup
               ({"boot"} \X {h \in deferred : link = NoHandle \/ DeviceOf(h) # DeviceOf(link)})
      BY <1>2 DEF Flush, Dispose
    <2>2. NothingLeftDeferred' /\ BootShields'
      BY <1>2, <2>1 DEF NothingLeftDeferred, BootShields
    <2>3. SessionShields'
      <3> SUFFICES ASSUME link # NoHandle, NEW c \in closing'
                   PROVE  \/ c \in preLink
                          \/ c[1] \in Tasks /\ c[2] = link
                          \/ DeviceOf(c[2]) # DeviceOf(link)
        BY DEF SessionShields
      <3>1. CASE c \in closing
        BY <3>1 DEF Inv, SessionShields
      <3>2. CASE c \notin closing
        BY <2>1, <3>2
      <3> QED BY <3>1, <3>2
    <2> QED BY <2>2, <2>3 DEF Inv
  <1> QED BY <1>1, <1>2

LEMMA FailureInv ==
  ASSUME TypeOK, Inv, NEW o \in Operations, NEW instant, BootFailed(o, instant),
         UNCHANGED preLink
  PROVE  Inv'
  <1>1. Booting' = Booting \ {o}
    BY AgainIsNoBoot, BootLeaves DEF BootFailed
  <1>2. CASE rejoin
    <2>1. link' = NoHandle /\ preBoot' = preBoot
      BY <1>2 DEF BootFailed
    <2>2. CASE Booting \subseteq {o}
      BY <1>1, <1>2, <2>1, <2>2 DEF BootFailed, Inv, NothingLeftDeferred, BootShields, SessionShields
    <2>3. CASE ~(Booting \subseteq {o})
      <3>1. closing' = closing
        BY <1>2, <2>3 DEF BootFailed
      <3> QED BY <1>1, <2>1, <2>3, <3>1
              DEF Inv, NothingLeftDeferred, BootShields, SessionShields
    <2> QED BY <2>2, <2>3
  <1>3. CASE ~rejoin
    BY <1>1, <1>3, FlushInv DEF BootFailed
  <1> QED BY <1>2, <1>3

LEMMA BootStartInv ==
  ASSUME TypeOK, Inv, NEW o \in Operations, BootStart(o),
         UNCHANGED <<deferred, closing, preLink, link>>
  PROVE  Inv'
  <1>1. Booting' = Booting \cup {o}
    BY DEF TypeOK, BootStart, Booting
  <1>2. preBoot'[o] = closing /\ \A p \in Operations \ {o} : preBoot'[p] = preBoot[p]
    BY DEF TypeOK, BootStart
  <1>3. BootShields'
    BY <1>1, <1>2 DEF Inv, BootShields, Booting
  <1> QED BY <1>1, <1>3 DEF Inv, NothingLeftDeferred, SessionShields

LEMMA FlowInv ==
  ASSUME TypeOK, Inv, NEW o \in Operations, OpStep(o) \/ OpStart(o)
  PROVE  Inv'
  <1> USE DEF storeVars, pollVars, attachVars, retryVars, closeVars, bootVars, opVars, usbVars
  <1>1. CASE \/ AcquireFail(o) \/ CheckReuse(o) \/ FlashOk(o) \/ FlashFail(o) \/ OpEnd(o)
             \/ OpStart(o) \/ (Acquire(o) /\ op' = [op EXCEPT ![o] = "check"])
    <2>1. op[o] # "boot"
      BY <1>1 DEF AcquireFail, CheckReuse, FlashOk, FlashFail, OpEnd, OpStart, Acquire
    <2>2. PICK stage \in Stages \ {"boot"} : op' = [op EXCEPT ![o] = stage]
      BY <1>1, AgainIsNoBoot
         DEF AcquireFail, CheckReuse, FlashOk, FlashFail, OpEnd, OpStart, Stages
    <2>3. Booting' = Booting
      BY <2>1, <2>2, BootLeaves DEF Booting
    <2>4. UNCHANGED <<deferred, closing, preLink, link>>
      BY <1>1 DEF AcquireFail, CheckReuse, FlashOk, FlashFail, OpEnd, OpStart, Acquire
    <2>5. preBoot' = preBoot
      <3>1. CASE Acquire(o) /\ op' = [op EXCEPT ![o] = "check"]
        <4>1. ~BootStart(o)
          BY <3>1 DEF BootStart, TypeOK
        <4> QED BY <3>1, <4>1 DEF Acquire
      <3> QED BY <1>1, <3>1 DEF AcquireFail, CheckReuse, FlashOk, FlashFail, OpEnd, OpStart
    <2> QED BY <2>3, <2>4, <2>5 DEF Inv, NothingLeftDeferred, BootShields, SessionShields
  <1>2. CASE Acquire(o) /\ op' # [op EXCEPT ![o] = "check"]
    <2>1. BootStart(o) /\ UNCHANGED <<deferred, closing, preLink, link>>
      BY <1>2 DEF Acquire
    <2> QED BY <2>1, BootStartInv
  <1>3. CASE CheckReboot(o)
    <2>1. CASE link = NoHandle
      BY <1>3, <2>1, FailureInv DEF CheckReboot
    <2>2. CASE link # NoHandle
      BY <1>3, <2>2, BootStartInv DEF CheckReboot
    <2> QED BY <2>1, <2>2
  <1>4. CASE BootOk(o)
    <2>1. PICK stage \in Stages \ {"boot"} : op' = [op EXCEPT ![o] = stage]
      BY <1>4, AgainIsNoBoot DEF BootOk, Stages
    <2>2. Flush(Booting \ {o}, link) /\ UNCHANGED <<preBoot, preLink, link>>
      BY <1>4 DEF BootOk
    <2> QED BY <2>1, <2>2, BootLeaves, FlushInv
  <1>5. CASE BootFail(o)
    BY <1>5, FailureInv DEF BootFail
  <1> QED BY <1>1, <1>2, <1>3, <1>4, <1>5 DEF OpStep

LEMMA NextInv ==
  ASSUME TypeOK, Inv, [Next]_vars
  PROVE  Inv'
  <1> USE DEF storeVars, pollVars, attachVars, retryVars, closeVars, bootVars, opVars, usbVars
  <1>1. CASE \/ SilentGo \/ LoopWake \/ AttachDone \/ AttachEnd \/ PingAnswered \/ SilentStart
             \/ Scan \/ PollTick \/ UserConnect \/ ResetDevice \/ Drop \/ Replug \/ BootDrop
             \/ UNCHANGED vars
    <2>1. UNCHANGED <<op, deferred, closing, preBoot, preLink, link>>
      BY <1>1 DEF SilentGo, LoopWake, AttachDone, AttachEnd, PingAnswered, SilentStart, Scan,
                  PollTick, UserConnect, ResetDevice, Drop, Replug, BootDrop, vars
    <2> QED BY <2>1, QuietInv
  <1>2. CASE AttachOk
    <2>1. UNCHANGED <<op, deferred, closing, preBoot>> /\ preLink' = closing
      BY <1>2 DEF AttachOk
    <2> QED BY <2>1 DEF Inv, NothingLeftDeferred, BootShields, SessionShields, Booting
  <1>3. CASE AttachFail \/ Disconnect \/ ResetGo
    BY <1>3, TeardownInv DEF AttachFail, Disconnect, ResetGo, Tasks
  <1>4. CASE PingLapsed \/ UsbDisconnect
    <2>1. UNCHANGED <<op, preBoot, preLink>>
      BY <1>4 DEF PingLapsed, UsbDisconnect
    <2>2. HandleLost("tick") \/ HandleLost("event") \/ UNCHANGED tearTouches
      BY <1>4 DEF PingLapsed, UsbDisconnect
    <2>3. CASE UNCHANGED tearTouches
      BY <2>1, <2>3, QuietInv DEF tearTouches
    <2> QED BY <2>1, <2>2, <2>3, LossInv DEF Tasks
  <1>5. CASE \E t \in Tasks : TearEnd(t)
    <2>1. UNCHANGED <<op, deferred, closing, preBoot, preLink>> /\ link' = NoHandle
      BY <1>5 DEF TearEnd, TearDone
    <2> QED BY <2>1 DEF Inv, NothingLeftDeferred, BootShields, SessionShields, Booting
  <1>6. CASE \E c \in closing : Closed(c)
    <2>1. PICK c \in closing : Closed(c)
      BY <1>6
    <2>2. /\ UNCHANGED <<op, deferred, link>> /\ closing' = closing \ {c}
          /\ preLink' = preLink \ {c}
          /\ \A o \in Operations : preBoot'[o] = preBoot[o] \ {c}
      BY <2>1 DEF Closed
    <2> QED BY <2>2 DEF Inv, NothingLeftDeferred, BootShields, SessionShields, Booting
  <1>7. CASE \E o \in Operations : OpStep(o) \/ OpStart(o)
    BY <1>7, FlowInv
  <1> QED BY <1>1, <1>2, <1>3, <1>4, <1>5, <1>6, <1>7 DEF Next, AppStep

\* Only a dispose closes the device.
LEMMA OnlyDisposesClose ==
  ASSUME TypeOK, [Next]_vars, Closes
  PROVE  \E c \in closing : Closed(c)
  <1> USE DEF storeVars, pollVars, attachVars, retryVars, closeVars, bootVars, opVars, usbVars
  <1>1. ASSUME opened' = opened \/ opened' \/ usb' # usb
        PROVE  FALSE
    BY <1>1 DEF Closes
  <1>2. CASE \/ SilentGo \/ LoopWake \/ AttachOk \/ AttachDone \/ AttachEnd \/ PingAnswered
             \/ SilentStart \/ Scan \/ PollTick \/ UserConnect \/ ResetDevice \/ Replug \/ BootDrop
             \/ UNCHANGED vars \/ AttachFail \/ Disconnect \/ ResetGo \/ PingLapsed
             \/ UsbDisconnect \/ \E t \in Tasks : TearEnd(t)
    <2>1. opened' = opened \/ opened'
      BY <1>2 DEF SilentGo, LoopWake, AttachOk, AttachDone, AttachEnd, PingAnswered, SilentStart,
                  Scan, PollTick, UserConnect, ResetDevice, Replug, BootDrop, vars, AttachFail,
                  Disconnect, ResetGo, PingLapsed, UsbDisconnect, TearEnd
    <2> QED BY <1>1, <2>1
  <1>3. CASE Drop
    BY <1>1, <1>3 DEF Drop, TypeOK
  <1>4. CASE \E o \in Operations : OpStep(o) \/ OpStart(o)
    <2>1. opened' = opened
      BY <1>4 DEF OpStep, OpStart, Acquire, AcquireFail, CheckReuse, CheckReboot, BootOk, BootFail,
                  FlashOk, FlashFail, OpEnd
    <2> QED BY <1>1, <2>1
  <1> QED BY <1>2, <1>3, <1>4 DEF Next, AppStep

LEMMA ConnectionInv == Spec => [](TypeOK /\ Tried /\ Inv)
  <1>1. Init => TypeOK /\ Tried /\ Inv
    <2>1. Init => Tried
      BY ConnectionAssumption DEF Init, Tried
    <2> QED BY <2>1, TypeInit, InvInit
  <1>2. TypeOK /\ Tried /\ Inv /\ [Next]_vars => (TypeOK /\ Tried /\ Inv)'
    BY TypeNext, NextInv
  <1> QED BY <1>1, <1>2, PTL DEF Spec

\* Whatever teardowns a boot outlives, the disposes they left to it are begun, or given up as
\* the live session's, when the last boot settles (_flushDeferredDispose).
THEOREM DeferredCloseHappens == Spec => []NothingLeftDeferred
  <1>1. Inv => NothingLeftDeferred
    BY DEF Inv
  <1> QED BY ConnectionInv, <1>1, PTL

\* No teardown, flush or failing boot begins a dispose while a boot is writing, with any number
\* of flows: what closes the device under a boot began before it (_stubBootDepth).
THEOREM BootOwnsItsHandle == Spec => BootKeepsItsHandle
  <1> DEFINE Kept == Closes => \A o \in Operations : op[o] = "boot" /\ op'[o] = "boot" =>
                                 closing \ closing' \subseteq preBoot[o]
  <1>1. TypeOK /\ Inv /\ [Next]_vars => [Kept]_vars
    BY DEF Inv, BootShields, Booting
  <1> QED BY ConnectionInv, <1>1, PTL DEF Spec, BootKeepsItsHandle

\* A deferred dispose that begins late, or twice, never aims at the device of the session that
\* is live by then, which may wrap it in another handle (_flushDeferredDispose); nor does any
\* other but the session's own teardown.
THEOREM DeferredCloseSparesTheLive == Spec => LiveHandleStaysOpen
  <1> DEFINE Stays == Closes /\ link' # NoHandle /\ DeviceOf(link') = usb =>
                        \A c \in closing \ closing' :
                          (c[1] \in Tasks /\ c[2] = link) \/ c \in preLink
  <1>1. TypeOK /\ Inv /\ [Next]_vars => [Stays]_vars
    <2> SUFFICES ASSUME TypeOK, Inv, [Next]_vars, Closes, link' # NoHandle,
                        DeviceOf(link') = usb, NEW c \in closing \ closing'
                 PROVE  (c[1] \in Tasks /\ c[2] = link) \/ c \in preLink
      OBVIOUS
    <2>1. PICK d \in closing : Closed(d)
      BY OnlyDisposesClose
    <2>2. c = d /\ link' = link
      BY <2>1 DEF Closed, storeVars
    <2>3. DeviceOf(c[2]) = usb
      BY <2>1, <2>2 DEF Closed, Closes
    <2> QED BY <2>2, <2>3 DEF Inv, SessionShields
  <1> QED BY ConnectionInv, <1>1, PTL DEF Spec, LiveHandleStaysOpen

-----------------------------------------------------------------------------
(* The liveness poll and its suspensions.                                  *)

\* The flows inside ensureStub(), whose suspension nests in that of their flow.
Nested == {o \in Operations : op[o] \in {"check", "boot"}}

\* How many suspensions the flows hold.
Suspensions == Cardinality(Writing) + Cardinality(Nested)

Weight(s) == IF s \in {"idle", "done"} THEN 0 ELSE IF s \in {"check", "boot"} THEN 2 ELSE 1

LEMMA Finite ==
  /\ IsFiniteSet(Writing) /\ IsFiniteSet(Nested)
  /\ Cardinality(Writing) \in Nat /\ Cardinality(Nested) \in Nat
  <1>1. Writing \in SUBSET Operations /\ Nested \in SUBSET Operations
    BY DEF Writing, Nested
  <1>2. IsFiniteSet(Writing) /\ IsFiniteSet(Nested)
    BY <1>1, ConnectionAssumption, FS_Subset
  <1> QED BY <1>2, FS_CardinalityType

LEMMA Counted == Suspensions \in Nat /\ Suspensions' \in Nat
  <1>1. Writing' \in SUBSET Operations /\ Nested' \in SUBSET Operations
    BY DEF Writing, Nested
  <1>2. IsFiniteSet(Writing') /\ IsFiniteSet(Nested')
    BY <1>1, ConnectionAssumption, FS_Subset
  <1>3. Cardinality(Writing') \in Nat /\ Cardinality(Nested') \in Nat
    BY <1>2, FS_CardinalityType
  <1>4. Suspensions' = Cardinality(Writing') + Cardinality(Nested')
    BY DEF Suspensions
  <1> QED BY <1>3, <1>4, Finite DEF Suspensions

\* A flow that goes on to another stage gives up the suspensions of the one and takes those of
\* the other.
LEMMA FlowWeighs ==
  ASSUME op \in [Operations -> Stages], NEW o \in Operations, NEW s \in Stages,
         op' = [op EXCEPT ![o] = s]
  PROVE  Suspensions' = Suspensions - Weight(op[o]) + Weight(s)
  <1>1. op'[o] = s /\ \A p \in Operations \ {o} : op'[p] = op[p]
    OBVIOUS
  <1>2. Cardinality(Writing') = Cardinality(Writing)
           - (IF op[o] \in {"idle", "done"} THEN 0 ELSE 1)
           + (IF s \in {"idle", "done"} THEN 0 ELSE 1)
    <2>1. CASE (op[o] \in {"idle", "done"}) = (s \in {"idle", "done"})
      <3>1. Writing' = Writing
        BY <1>1, <2>1 DEF Writing
      <3> QED BY <2>1, <3>1, Finite
    <2>2. CASE op[o] \in {"idle", "done"} /\ s \notin {"idle", "done"}
      <3>0. o \notin Writing => Cardinality(Writing \cup {o}) = Cardinality(Writing) + 1
        BY Finite, FS_AddElement
      <3>1. Writing' = Writing \cup {o} /\ o \notin Writing
        BY <1>1, <2>2 DEF Writing
      <3> QED BY <2>2, <3>0, <3>1, Finite
    <2>3. CASE op[o] \notin {"idle", "done"} /\ s \in {"idle", "done"}
      <3>0. o \in Writing => Cardinality(Writing \ {o}) = Cardinality(Writing) - 1
        BY Finite, FS_RemoveElement
      <3>1. Writing' = Writing \ {o} /\ o \in Writing
        BY <1>1, <2>3 DEF Writing
      <3> QED BY <2>3, <3>0, <3>1, Finite
    <2> QED BY <2>1, <2>2, <2>3
  <1>3. Cardinality(Nested') = Cardinality(Nested)
           - (IF op[o] \in {"check", "boot"} THEN 1 ELSE 0)
           + (IF s \in {"check", "boot"} THEN 1 ELSE 0)
    <2>1. CASE (op[o] \in {"check", "boot"}) = (s \in {"check", "boot"})
      <3>1. Nested' = Nested
        BY <1>1, <2>1 DEF Nested
      <3> QED BY <2>1, <3>1, Finite
    <2>2. CASE op[o] \notin {"check", "boot"} /\ s \in {"check", "boot"}
      <3>0. o \notin Nested => Cardinality(Nested \cup {o}) = Cardinality(Nested) + 1
        BY Finite, FS_AddElement
      <3>1. Nested' = Nested \cup {o} /\ o \notin Nested
        BY <1>1, <2>2 DEF Nested
      <3> QED BY <2>2, <3>0, <3>1, Finite
    <2>3. CASE op[o] \in {"check", "boot"} /\ s \notin {"check", "boot"}
      <3>0. o \in Nested => Cardinality(Nested \ {o}) = Cardinality(Nested) - 1
        BY Finite, FS_RemoveElement
      <3>1. Nested' = Nested \ {o} /\ o \in Nested
        BY <1>1, <2>3 DEF Nested
      <3> QED BY <2>3, <3>0, <3>1, Finite
    <2> QED BY <2>1, <2>2, <2>3
  <1>4. Cardinality(Writing) \in Nat /\ Cardinality(Nested) \in Nat
    BY Finite
  <1>5. Suspensions' = Cardinality(Writing') + Cardinality(Nested')
    BY DEF Suspensions
  <1> QED BY <1>2, <1>3, <1>4, <1>5 DEF Weight, Suspensions, Stages

\* No more suspensions are counted than the flows hold.
Bounded == depth <= Suspensions

\* The poll runs whenever a session is up that nothing suspends, tears down or reports lost.
Polls ==
  connection = "connected" /\ link # NoHandle /\ ~rejoin /\ depth = 0 /\ tear = {} => poll

\* An attempt that has not attached yet has not connected either.
Attaching == attach \in {"probing", "checking"} => connection # "connected"

PollInv == Bounded /\ Polls /\ Attaching

LEMMA PollInit == Init => PollInv
  <1> SUFFICES ASSUME Init PROVE PollInv
    OBVIOUS
  <1>1. Suspensions \in Nat
    BY Finite DEF Suspensions
  <1> QED BY <1>1 DEF Init, PollInv, Bounded, Polls, Attaching

\* A teardown zeroes the count and ends the session, now or when its handle is closed.
LEMMA TearPolls ==
  ASSUME TypeOK, PollInv, NEW t \in Tasks, TearStart(t), UNCHANGED op
  PROVE  PollInv'
  <1>1. Suspensions' \in Nat
    BY Finite DEF Suspensions, Writing, Nested
  <1>2. depth' = 0 /\ (tear' # {} \/ link' = NoHandle)
    BY DEF TearStart, TearDone
  <1>3. Attaching'
    BY DEF TearStart, TearDone, PollInv, Attaching, Tasks
  <1> QED BY <1>1, <1>2, <1>3 DEF PollInv, Bounded, Polls

LEMMA LossPolls ==
  ASSUME TypeOK, PollInv, NEW t \in Tasks, HandleLost(t), UNCHANGED op
  PROVE  PollInv'
  <1>1. CASE TearStart(t)
    BY <1>1, TearPolls
  <1>2. CASE UNCHANGED <<poll, depth, rejoin, tearTouches>>
    BY <1>2 DEF tearTouches, PollInv, Bounded, Suspensions, Writing, Nested, Polls, Attaching
  <1>3. CASE rejoin' = TRUE /\ UNCHANGED <<depth, tearTouches>>
    BY <1>3 DEF tearTouches, PollInv, Bounded, Suspensions, Writing, Nested, Polls, Attaching
  <1> QED BY <1>1, <1>2, <1>3 DEF HandleLost

LEMMA ConnectPolls ==
  ASSUME TypeOK, PollInv, Connect, UNCHANGED <<op, link, depth, tear, poll>>
  PROVE  PollInv'
  <1>1. Bounded'
    BY DEF PollInv, Bounded, Suspensions, Writing, Nested
  <1> QED BY <1>1 DEF Connect, PollInv, Polls, Attaching

LEMMA ConnectionPolls ==
  ASSUME TypeOK, PollInv,
         \/ SilentGo \/ LoopWake \/ AttachOk \/ AttachDone \/ AttachEnd \/ AttachFail
         \/ PingAnswered \/ PingLapsed \/ UsbDisconnect \/ SilentStart \/ Scan \/ PollTick
         \/ UserConnect \/ Disconnect \/ ResetDevice \/ ResetGo
         \/ (\E t \in Tasks : TearEnd(t)) \/ (\E c \in closing : Closed(c))
         \/ Drop \/ Replug \/ BootDrop \/ UNCHANGED vars
  PROVE  PollInv'
  <1> USE DEF storeVars, pollVars, attachVars, retryVars, closeVars, bootVars, opVars, usbVars
  <1>0. op' = op
    BY FlowsStay
  <1>1. ASSUME UNCHANGED <<connection, link, rejoin, depth, tear, poll, attach>>
        PROVE  PollInv'
    BY <1>0, <1>1 DEF PollInv, Bounded, Suspensions, Writing, Nested, Polls, Attaching
  <1>2. CASE SilentGo \/ LoopWake \/ UserConnect
    <2>1. /\ UNCHANGED <<op, link, depth, tear, poll>>
          /\ Connect \/ UNCHANGED <<connection, rejoin, attach>>
      BY <1>2 DEF SilentGo, LoopWake, UserConnect
    <2> QED BY <1>1, <2>1, ConnectPolls
  <1>3. CASE AttachOk
    <2>1. Bounded'
      BY <1>0, <1>3 DEF AttachOk, PollInv, Bounded, Suspensions, Writing, Nested
    <2> QED BY <1>3, <2>1 DEF AttachOk, PollInv, Polls, Attaching
  <1>4. CASE AttachDone
    <2>1. Bounded'
      BY <1>0, <1>4 DEF AttachDone, PollInv, Bounded, Suspensions, Writing, Nested
    <2>2. depth' = 0 => poll'
      BY <1>4 DEF AttachDone, StartPoll
    <2>3. attach' \notin {"probing", "checking"}
      BY <1>4 DEF AttachDone
    <2> QED BY <2>1, <2>2, <2>3 DEF PollInv, Polls, Attaching
  <1>5. CASE AttachEnd
    <2>1. Bounded'
      BY <1>0, <1>5 DEF AttachEnd, PollInv, Bounded, Suspensions, Writing, Nested
    <2> QED BY <1>5, <2>1 DEF AttachEnd, PollInv, Polls, Attaching
  <1>6. CASE AttachFail \/ Disconnect \/ ResetGo
    BY <1>0, <1>6, TearPolls DEF AttachFail, Disconnect, ResetGo, Tasks
  <1>7. CASE PingLapsed \/ UsbDisconnect
    <2>1. \/ HandleLost("tick") \/ HandleLost("event")
          \/ UNCHANGED <<connection, link, rejoin, depth, tear, poll, attach>>
      BY <1>7 DEF PingLapsed, UsbDisconnect, tearTouches
    <2> QED BY <1>0, <1>1, <2>1, LossPolls DEF Tasks
  <1>8. CASE \E t \in Tasks : TearEnd(t)
    <2>1. PICK t \in Tasks : TearEnd(t)
      BY <1>8
    <2>2. Bounded'
      BY <1>0, <2>1 DEF TearEnd, PollInv, Bounded, Suspensions, Writing, Nested
    <2>3. link' = NoHandle /\ Attaching'
      BY <2>1 DEF TearEnd, TearDone, PollInv, Attaching, Tasks
    <2> QED BY <2>2, <2>3 DEF PollInv, Polls
  <1>9. CASE \/ PingAnswered \/ SilentStart \/ Scan \/ PollTick \/ Drop \/ Replug \/ BootDrop
             \/ UNCHANGED vars \/ ResetDevice \/ \E c \in closing : Closed(c)
    BY <1>1, <1>9 DEF PingAnswered, SilentStart, Scan, PollTick, Drop, Replug, BootDrop, vars,
                      ResetDevice, Closed
  <1> QED BY <1>2, <1>3, <1>4, <1>5, <1>6, <1>7, <1>8, <1>9

LEMMA AgainWeighs ==
  ASSUME NEW n
  PROVE  Again(n) \in Stages /\ Weight(Again(n)) = 1
  BY DEF Again, Stages, Weight

\* resumePoll() by a flow that gives up one suspension.
LEMMA ResumePolls ==
  ASSUME TypeOK, PollInv, ResumePoll, Suspensions' = Suspensions - 1,
         UNCHANGED <<connection, link, rejoin, tear, attach>>
  PROVE  PollInv'
  <1>1. Suspensions \in Nat /\ Suspensions' \in Nat
    BY Counted
  <1>2. depth \in Nat /\ depth <= Suspensions
    BY DEF TypeOK, PollInv, Bounded
  <1>3. depth' = (IF depth = 0 THEN 0 ELSE depth - 1) /\ (poll \/ depth = 1 => poll')
    BY DEF ResumePoll
  <1>4. Bounded'
    BY <1>1, <1>2, <1>3 DEF Bounded
  <1>5. Polls'
    BY <1>2, <1>3 DEF PollInv, Polls
  <1> QED BY <1>4, <1>5 DEF PollInv, Attaching

LEMMA FailurePolls ==
  ASSUME TypeOK, PollInv, NEW o \in Operations, NEW instant, BootFailed(o, instant),
         op[o] \in {"check", "boot"}, UNCHANGED <<tear, attach>>
  PROVE  PollInv'
  <1>1. op \in [Operations -> Stages] /\ Weight(op[o]) = 2
    BY DEF TypeOK, Stages, Weight
  <1>2. Suspensions' = Suspensions - 1
    <2>1. op' = [op EXCEPT ![o] = Again(tries[o])]
      BY DEF BootFailed
    <2>2. Suspensions' = Suspensions - 2 + 1
      BY <1>1, <2>1, AgainWeighs, FlowWeighs
    <2>3. Suspensions \in Nat
      BY Finite DEF Suspensions
    <2> QED BY <2>2, <2>3
  <1>3. CASE rejoin
    <2>1. depth' = 0 /\ link' = NoHandle /\ connection' = "lost"
      BY <1>3 DEF BootFailed
    <2>2. Suspensions' \in Nat
      BY Counted
    <2> QED BY <2>1, <2>2 DEF PollInv, Bounded, Polls, Attaching
  <1>4. CASE ~rejoin
    BY <1>2, <1>4, ResumePolls DEF BootFailed
  <1> QED BY <1>3, <1>4

LEMMA FlowPolls ==
  ASSUME TypeOK, PollInv, NEW o \in Operations, OpStep(o) \/ OpStart(o)
  PROVE  PollInv'
  <1> USE DEF storeVars, pollVars, attachVars, retryVars, closeVars, bootVars, opVars, usbVars
  <1>0. /\ op \in [Operations -> Stages] /\ depth \in Nat /\ Suspensions \in Nat
        /\ depth <= Suspensions
    BY Finite DEF TypeOK, Stages, Suspensions, PollInv, Bounded
  <1>1. CASE Acquire(o) \/ OpStart(o)
    <2>1. depth' = depth + 1 /\ UNCHANGED <<connection, attach>>
      BY <1>1 DEF Acquire, OpStart
    <2>2. Suspensions' = Suspensions + 1
      <3>1. CASE OpStart(o)
        <4>1. op' = [op EXCEPT ![o] = "acquire"] /\ op[o] = "idle"
          BY <3>1 DEF OpStart
        <4>2. Suspensions' = Suspensions - 0 + 1
          BY <1>0, <4>1, FlowWeighs DEF Weight, Stages
        <4> QED BY <1>0, <4>2
      <3>2. CASE Acquire(o)
        <4>1. op' = [op EXCEPT ![o] = "check"] \/ op' = [op EXCEPT ![o] = "boot"]
          BY <3>2 DEF Acquire, BootStart
        <4>2. op[o] = "acquire"
          BY <3>2 DEF Acquire
        <4>3. Suspensions' = Suspensions - 1 + 2
          BY <1>0, <4>1, <4>2, FlowWeighs DEF Weight, Stages
        <4> QED BY <1>0, <4>3
      <3> QED BY <1>1, <3>1, <3>2
    <2> QED BY <1>0, <2>1, <2>2 DEF PollInv, Bounded, Polls, Attaching
  <1>2. CASE AcquireFail(o) \/ FlashOk(o) \/ FlashFail(o)
    <2>1. UNCHANGED <<connection, link, rejoin, depth, tear, poll, attach>>
      BY <1>2 DEF AcquireFail, FlashOk, FlashFail
    <2>2. op[o] \in {"acquire", "flash"}
      BY <1>2 DEF AcquireFail, FlashOk, FlashFail
    <2>3. PICK s \in Stages : op' = [op EXCEPT ![o] = s] /\ Weight(s) = 1
      <3>1. CASE FlashOk(o)
        BY <3>1 DEF FlashOk, Stages, Weight
      <3>2. CASE AcquireFail(o) \/ FlashFail(o)
        BY <3>2, AgainWeighs DEF AcquireFail, FlashFail
      <3> QED BY <1>2, <3>1, <3>2
    <2>4. Suspensions' = Suspensions - 1 + 1
      BY <1>0, <2>2, <2>3, FlowWeighs DEF Weight
    <2> QED BY <1>0, <2>1, <2>4 DEF PollInv, Bounded, Polls, Attaching
  <1>3. CASE CheckReuse(o) \/ OpEnd(o)
    <2>1. ResumePoll /\ UNCHANGED <<connection, link, rejoin, tear, attach>>
      BY <1>3 DEF CheckReuse, OpEnd
    <2>2. \/ op[o] = "check" /\ op' = [op EXCEPT ![o] = "flash"]
          \/ op[o] = "end" /\ op' = [op EXCEPT ![o] = "done"]
      BY <1>3 DEF CheckReuse, OpEnd
    <2>3. Suspensions' = Suspensions - 2 + 1 \/ Suspensions' = Suspensions - 1 + 0
      BY <1>0, <2>2, FlowWeighs DEF Weight, Stages
    <2>4. Suspensions' = Suspensions - 1
      BY <1>0, <2>3
    <2> QED BY <2>1, <2>4, ResumePolls
  <1>4. CASE CheckReboot(o)
    <2>1. CASE link = NoHandle
      BY <1>4, <2>1, FailurePolls DEF CheckReboot
    <2>2. CASE link # NoHandle
      <3>1. /\ op[o] = "check" /\ op' = [op EXCEPT ![o] = "boot"]
            /\ UNCHANGED <<connection, link, rejoin, depth, tear, poll, attach>>
        BY <1>4, <2>2 DEF CheckReboot, BootStart
      <3>2. Suspensions' = Suspensions - 2 + 2
        BY <1>0, <3>1, FlowWeighs DEF Weight, Stages
      <3> QED BY <1>0, <3>1, <3>2 DEF PollInv, Bounded, Polls, Attaching
    <2> QED BY <2>1, <2>2
  <1>5. CASE BootOk(o)
    <2>1. /\ depth' = IF depth = 0 THEN 0 ELSE depth - 1
          /\ poll' = (poll \/ depth = 1 \/ (bootFresh[o] /\ rejoin /\ depth = 0))
          /\ UNCHANGED <<connection, link, tear, attach>>
          /\ ~bootFresh[o] => rejoin' = rejoin
      BY <1>5 DEF BootOk
    <2>2. PICK s \in Stages : op' = [op EXCEPT ![o] = s] /\ Weight(s) = 1
      <3>1. CASE bootFresh[o]
        BY <1>5, <3>1 DEF BootOk, Stages, Weight
      <3>2. CASE ~bootFresh[o]
        BY <1>5, <3>2, AgainWeighs DEF BootOk
      <3> QED BY <3>1, <3>2
    <2>3. Suspensions' = Suspensions - 2 + 1
      BY <1>0, <1>5, <2>2, FlowWeighs DEF BootOk, Weight
    <2>4. Bounded'
      BY <1>0, <2>1, <2>3, Counted DEF Bounded
    <2>5. Polls'
      <3> SUFFICES ASSUME connection = "connected", link # NoHandle, ~rejoin', depth' = 0,
                          tear = {}
                   PROVE  poll'
        BY <2>1 DEF Polls
      <3>1. CASE depth = 1 \/ (bootFresh[o] /\ rejoin /\ depth = 0)
        BY <2>1, <3>1
      <3>2. CASE depth = 0 /\ ~rejoin
        BY <2>1, <3>2 DEF PollInv, Polls
      <3> QED BY <1>0, <2>1, <3>1, <3>2
    <2> QED BY <2>1, <2>4, <2>5 DEF PollInv, Attaching
  <1>6. CASE BootFail(o)
    BY <1>6, FailurePolls DEF BootFail
  <1> QED BY <1>1, <1>2, <1>3, <1>4, <1>5, <1>6 DEF OpStep

LEMMA PollNext ==
  ASSUME TypeOK, PollInv, [Next]_vars
  PROVE  PollInv'
  <1>1. CASE \E o \in Operations : OpStep(o) \/ OpStart(o)
    BY <1>1, FlowPolls
  <1>2. CASE ~\E o \in Operations : OpStep(o) \/ OpStart(o)
    BY <1>2, StepCases, ConnectionPolls
  <1> QED BY <1>1, <1>2

LEMMA NoneSuspends ==
  ASSUME TypeOK, Bounded, Writing = {}
  PROVE  depth = 0
  <1>1. Nested = {}
    BY DEF Nested, Writing
  <1>2. Suspensions = 0
    BY <1>1, FS_EmptySet DEF Suspensions
  <1> QED BY <1>2 DEF TypeOK, Bounded

\* With any number of flows, drops, teardowns and boots, whichever of them zero the count in
\* between: once no flow is writing nothing suspends the poll (suspendPoll, resumePoll).
THEOREM NoSuspensionSurvives == Spec => []SuspensionsEnd
  <1>1. Init => TypeOK /\ Tried /\ PollInv
    <2>1. Init => Tried
      BY ConnectionAssumption DEF Init, Tried
    <2> QED BY <2>1, TypeInit, PollInit
  <1>2. TypeOK /\ Tried /\ PollInv /\ [Next]_vars => (TypeOK /\ Tried /\ PollInv)'
    BY TypeNext, PollNext
  <1>3. TypeOK /\ PollInv => SuspensionsEnd
    BY NoneSuspends DEF PollInv, SuspensionsEnd
  <1> QED BY <1>1, <1>2, <1>3, PTL DEF Spec

\* ... and a session that is up, with no drop left to report, is being polled: a lost link
\* is always noticed (startPoll, resumePoll, ensureStub's finally).
THEOREM PollRuns == Spec => []PollComesBack
  <1>1. Init => TypeOK /\ Tried /\ PollInv
    <2>1. Init => Tried
      BY ConnectionAssumption DEF Init, Tried
    <2> QED BY <2>1, TypeInit, PollInit
  <1>2. TypeOK /\ Tried /\ PollInv /\ [Next]_vars => (TypeOK /\ Tried /\ PollInv)'
    BY TypeNext, PollNext
  <1>3. TypeOK /\ PollInv => PollComesBack
    BY NoneSuspends DEF PollInv, Polls, PollComesBack, Quiescent
  <1> QED BY <1>1, <1>2, <1>3, PTL DEF Spec

=============================================================================
