-------------------------- MODULE FlashRetryProofs --------------------------
(***************************************************************************)
(* What TLAPS proves of FlashRetry, for any number of operations, regions, *)
(* attempts and faults: the warning stands while something is written, it  *)
(* comes down on the device's word only, and a retry flashes through a new *)
(* flasher.                                                                *)
(***************************************************************************)
EXTENDS FlashRetry, TLAPS

-----------------------------------------------------------------------------
(* Types. *)

Safeties == [holds : Nat, state : {"safe", "writing", "settling"}]

LEMMA SafetyOps ==
  ASSUME NEW s \in Safeties, NEW l
  PROVE  /\ Hold(s) \in Safeties /\ Release(s, l) \in Safeties
         /\ MarkQuiet(s) \in Safeties /\ LinkGone(s) \in Safeties
  BY DEF Safeties, Hold, Release, MarkQuiet, LinkGone

Polls == [depth : Nat, timer : BOOLEAN, pinging : BOOLEAN]

LEMMA PollOps ==
  ASSUME NEW p \in Polls
  PROVE  /\ Suspend(p) \in Polls /\ StartPoll(p) \in Polls /\ Resume(p) \in Polls
         /\ Unsuspended(p) \in Polls
         /\ [p EXCEPT !.timer = FALSE] \in Polls
         /\ [p EXCEPT !.pinging = TRUE] \in Polls /\ [p EXCEPT !.pinging = FALSE] \in Polls
  <1>1. ASSUME NEW q \in Polls PROVE StartPoll(q) \in Polls
    BY DEF Polls, StartPoll
  <1>2. p.depth # 0 => [p EXCEPT !.depth = @ - 1] \in Polls
    BY DEF Polls
  <1>3. Resume(p) \in Polls
    BY <1>1, <1>2 DEF Resume
  <1>4. p.depth + 1 \in Nat
    BY DEF Polls
  <1>5. Suspend(p) \in Polls
    BY <1>4 DEF Polls, Suspend
  <1> QED BY <1>1, <1>3, <1>5 DEF Polls, Unsuspended

\* What the end of an operation and the catch of flashImage leave in their variables.
LoopTypes ==
  /\ modalPhase \in {"none", "running", "done", "error", "cancelled"}
  /\ pc \in {"idle", "acquire", "boot", "info", "flash", "settle", "wait"}
  /\ region \in 1..Regions
  /\ attempt \in 1..maxAttempts
  /\ deadHandleRetries \in 0..MAX_DEAD_HANDLE_RETRIES
  /\ forceFreshStub \in BOOLEAN
  /\ safety \in Safeties /\ poll \in Polls

LEMMA FinishTypes ==
  ASSUME TypeOK, NEW s \in Safeties, NEW l, NEW threw, NEW p \in Polls,
         Finish(s, l, threw, p)
  PROVE  LoopTypes'
  BY SafetyOps, PollOps DEF TypeOK, LoopTypes, Finish, flowVars

\* The three ways out of the catch.
LEMMA CatchCases ==
  ASSUME TypeOK, NEW error, NEW s, NEW l, NEW p, Catch(error, s, l, p)
  PROVE  \/ Finish(s, l, TRUE, p)
         \/ /\ kind # "boot" /\ error = "dead"
            /\ deadHandleRetries < MAX_DEAD_HANDLE_RETRIES /\ WaitForLink(s, p)
         \/ /\ kind # "boot" /\ error # "dead" /\ attempt < maxAttempts
            /\ attempt' = attempt + 1 /\ pc' = "acquire" /\ safety' = s /\ poll' = p
            /\ UNCHANGED <<region, deadHandleRetries, forceFreshStub, modalPhase>>
  <1>1. /\ ~(attempt >= maxAttempts) => attempt < maxAttempts
        /\ ~(deadHandleRetries >= MAX_DEAD_HANDLE_RETRIES)
             => deadHandleRetries < MAX_DEAD_HANDLE_RETRIES
    BY FlashRetryAssumption DEF TypeOK
  <1>2. CASE kind = "boot" \/ error = "verify"
    BY <1>2 DEF Catch
  <1>3. CASE ~(kind = "boot" \/ error = "verify") /\ error = "dead"
    BY <1>1, <1>3, Zenon DEF Catch
  <1>4. CASE ~(kind = "boot" \/ error = "verify") /\ error # "dead"
    BY <1>1, <1>4, Zenon DEF Catch, GivesUp
  <1> QED BY <1>2, <1>3, <1>4

LEMMA CatchTypes ==
  ASSUME TypeOK, NEW error, NEW s \in Safeties, NEW l, NEW p \in Polls,
         Catch(error, s, l, p)
  PROVE  LoopTypes'
  <1>1. CASE Finish(s, l, TRUE, p)
    BY <1>1, FinishTypes
  <1>2. CASE deadHandleRetries < MAX_DEAD_HANDLE_RETRIES /\ WaitForLink(s, p)
    BY <1>2, FlashRetryAssumption DEF TypeOK, LoopTypes, WaitForLink
  <1>3. CASE /\ attempt < maxAttempts
             /\ attempt' = attempt + 1 /\ pc' = "acquire" /\ safety' = s /\ poll' = p
             /\ UNCHANGED <<region, deadHandleRetries, forceFreshStub, modalPhase>>
    BY <1>3, FlashRetryAssumption DEF TypeOK, LoopTypes
  <1> QED BY <1>1, <1>2, <1>3, CatchCases

LEMMA GotTypes ==
  ASSUME TypeOK, NEW s \in Safeties, NEW p \in Polls, Got(s, p)
  PROVE  LoopTypes' /\ cur' \in Call
  <1>1. CASE kind = "boot"
    BY <1>1, FinishTypes DEF Got, TypeOK
  <1>2. CASE kind # "boot"
    <2>1. /\ pc' = "flash" /\ forceFreshStub' = FALSE /\ safety' = s /\ poll' = p
          /\ cur' = [run |-> run, done |-> 0, sent |-> FALSE]
          /\ UNCHANGED <<region, attempt, deadHandleRetries, modalPhase>>
      BY <1>2 DEF Got
    <2>2. LoopTypes'
      BY <2>1 DEF TypeOK, LoopTypes
    <2>3. run \in 0..MAX_RUNS /\ 0 \in 0..(Chunks - 1)
      BY FlashRetryAssumption DEF TypeOK
    <2>4. cur' \in Call
      BY <2>1, <2>3 DEF Call
    <2> QED BY <2>2, <2>4
  <1> QED BY <1>1, <1>2

\* The rest of the state: the session, the FIFO, the flashes, the histories.
RestTypes ==
  /\ run \in 0..MAX_RUNS
  /\ kind \in {"modal", "browser", "boot"}
  /\ stops \subseteq 0..MAX_RUNS
  /\ cur \in Call /\ old \in Call
  /\ sock \in BOOLEAN
  /\ link \in {"up", "closed", "lost"}
  /\ flasher \in {"none", "good", "spent"}
  /\ wedged \in BOOLEAN /\ reconnectAfterBoot \in BOOLEAN
  /\ queue \in Seq(Owners) /\ stalled \in BOOLEAN
  /\ wrote \in BOOLEAN /\ overrun \in BOOLEAN
  /\ faults \in 0..MAX_FAULTS

LEMMA Parts ==
  /\ TypeOK <=> LoopTypes /\ RestTypes
  /\ LoopTypes' /\ RestTypes' => TypeOK'
  BY DEF TypeOK, LoopTypes, RestTypes, Safeties, Polls

LEMMA FaultTypes ==
  ASSUME TypeOK, NEW f, Fault(f)
  PROVE  faults' \in 0..MAX_FAULTS
  BY FlashRetryAssumption DEF TypeOK, Fault

LEMMA QueueTypes ==
  ASSUME TypeOK
  PROVE  /\ \A o \in Owners : Append(queue, o) \in Seq(Owners) /\ Rejected(o) \in Seq(Owners)
         /\ queue # <<>> => Tail(queue) \in Seq(Owners)
         /\ <<>> \in Seq(Owners)
         /\ <<"ping">> \in Seq(Owners)
         /\ [i \in DOMAIN queue |-> IF queue[i] = "cur" THEN "old" ELSE queue[i]]
              \in Seq(Owners)
  <1> DEFINE r == [i \in DOMAIN queue |-> IF queue[i] = "cur" THEN "old" ELSE queue[i]]
  <1>1. r \in [1..Len(queue) -> Owners]
    BY DEF TypeOK, Owners
  <1>2. r \in Seq(Owners)
    BY <1>1 DEF TypeOK
  <1>3. \A o \in Owners : Append(queue, o) \in Seq(Owners) /\ Rejected(o) \in Seq(Owners)
    BY DEF TypeOK, Rejected, InFlight
  <1> QED BY <1>2, <1>3 DEF TypeOK, Owners

LEMMA NoCallIsCall == NoCall \in Call
  BY FlashRetryAssumption DEF NoCall, Call

LEMMA TypeInit == Init => TypeOK
  <1> SUFFICES ASSUME Init PROVE TypeOK
    OBVIOUS
  <1>1. 0 \in 0..MAX_RUNS /\ 0 \in 0..MAX_FAULTS /\ 1 \in 1..Regions /\ 1 \in 1..maxAttempts
        /\ 0 \in 0..MAX_DEAD_HANDLE_RETRIES
    BY FlashRetryAssumption
  <1>2. /\ safety \in [holds : Nat, state : {"safe", "writing", "settling"}]
        /\ poll \in [depth : Nat, timer : BOOLEAN, pinging : BOOLEAN]
    BY DEF Init
  <1>3. queue \in Seq(Owners)
    BY DEF Init
  <1> QED BY <1>1, <1>2, <1>3, NoCallIsCall DEF Init, TypeOK

\* A call with its next chunk out, and with one more done.
LEMMA CallTypes ==
  ASSUME NEW c \in Call
  PROVE  /\ [c EXCEPT !.sent = TRUE] \in Call
         /\ (IF c.done + 1 = Chunks THEN NoCall
             ELSE [c EXCEPT !.done = @ + 1, !.sent = FALSE]) \in Call
  <1>1. [c EXCEPT !.sent = TRUE] \in Call
    BY DEF Call
  <1>2. ASSUME c.done + 1 # Chunks
        PROVE  [c EXCEPT !.done = @ + 1, !.sent = FALSE] \in Call
    <2>1. c.done + 1 \in 0..(Chunks - 1)
      BY <1>2, FlashRetryAssumption DEF Call
    <2> QED BY <2>1 DEF Call
  <1> QED BY <1>1, <1>2, NoCallIsCall

LEMMA LostTypes ==
  ASSUME TypeOK, NEW p \in Polls, HandleLost(p)
  PROVE  /\ link' \in {"up", "closed", "lost"} /\ flasher' \in {"none", "good", "spent"}
         /\ wedged' \in BOOLEAN /\ reconnectAfterBoot' \in BOOLEAN
         /\ queue' \in Seq(Owners) /\ stalled' \in BOOLEAN /\ old' \in Call
         /\ sock' \in BOOLEAN /\ safety' \in Safeties /\ poll' \in Polls
  BY SafetyOps, PollOps, NoCallIsCall, QueueTypes DEF TypeOK, HandleLost, Safeties

LEMMA FlowTypes == TypeOK /\ Flow => TypeOK'
  <1> SUFFICES ASSUME TypeOK, Flow PROVE LoopTypes' /\ RestTypes'
    BY Parts
  <1>0. safety \in Safeties /\ poll \in Polls /\ LoopTypes /\ RestTypes
    BY Parts DEF LoopTypes
  <1>p. Resume(poll) \in Polls /\ Suspend(poll) \in Polls
    BY <1>0, PollOps
  <1>1. CASE WaitOver
    BY <1>0, <1>1 DEF WaitOver, LoopTypes, RestTypes, flowVars, sessionVars
  <1>2. CASE NotConnected
    <2>1. LoopTypes'
      BY <1>0, <1>2, CatchTypes DEF NotConnected
    <2> QED BY <1>0, <1>2, <2>1 DEF NotConnected, RestTypes, sessionVars
  <1>3. CASE Reuse
    <2>0. Resume(Suspend(poll)) \in Polls
      BY <1>p, PollOps
    <2>1. LoopTypes' /\ cur' \in Call
      BY <1>0, <1>3, <2>0, GotTypes DEF Reuse
    <2> QED BY <1>0, <1>3, <2>1 DEF Reuse, RestTypes, sessionVars
  <1>4. CASE RefuseReboot
    <2>0. Resume(Suspend(poll)) \in Polls
      BY <1>p, PollOps
    <2>1. LoopTypes'
      BY <1>0, <1>4, <2>0, CatchTypes DEF RefuseReboot
    <2> QED BY <1>0, <1>4, <2>1 DEF RefuseReboot, RestTypes
  <1>5. CASE BootStart
    <2>1. queue' \in Seq(Owners)
      BY <1>5, QueueTypes DEF BootStart, Owners, TypeOK
    <2>2. safety' \in Safeties /\ poll' \in Polls
      BY <1>0, <1>p, <1>5, SafetyOps DEF BootStart
    <2> QED BY <1>0, <1>5, <2>1, <2>2
         DEF BootStart, LoopTypes, RestTypes, flowVars, sessionVars
  <1>6. CASE BootFails
    <2>1. faults' \in 0..MAX_FAULTS
      BY <1>0, <1>6, FaultTypes DEF BootFails, RestTypes
    <2>2. CASE reconnectAfterBoot
      <3>1. Release(LinkGone(safety), "lost") \in Safeties
            /\ Resume(Unsuspended(poll)) \in Polls
        BY <1>0, SafetyOps, PollOps
      <3>2. LoopTypes'
        BY <1>6, <2>2, <3>1, CatchTypes DEF BootFails
      <3> QED BY <1>0, <1>6, <2>1, <2>2, <3>2, NoCallIsCall, QueueTypes
           DEF BootFails, RestTypes
    <2>3. CASE ~reconnectAfterBoot
      <3>1. Release(safety, link) \in Safeties
        BY <1>0, SafetyOps
      <3>2. LoopTypes'
        BY <1>6, <1>p, <2>3, <3>1, CatchTypes DEF BootFails
      <3>3. queue' \in Seq(Owners)
        BY <1>6, <2>3, QueueTypes DEF BootFails, Owners
      <3> QED BY <1>0, <1>6, <2>1, <2>3, <3>2, <3>3 DEF BootFails, RestTypes
    <2> QED BY <2>2, <2>3
  <1>7. CASE InfoFails
    <2>1. LoopTypes'
      BY <1>0, <1>p, <1>7, CatchTypes DEF InfoFails
    <2> QED BY <1>0, <1>7, <2>1 DEF InfoFails, RestTypes, sessionVars
  <1>8. CASE NextChunk
    <2>1. CASE cur.run \in stops
      <3>1. LoopTypes'
        BY <1>0, <1>8, <2>1, CatchTypes DEF NextChunk
      <3> QED BY <1>0, <1>8, <2>1, <3>1, NoCallIsCall DEF NextChunk, RestTypes, sessionVars
    <2>2. CASE cur.run \notin stops
      <3>1. cur' \in Call /\ queue' \in Seq(Owners)
        BY <1>0, <1>8, <2>2, CallTypes, QueueTypes DEF NextChunk, Owners, RestTypes
      <3> QED BY <1>0, <1>8, <2>2, <3>1
           DEF NextChunk, LoopTypes, RestTypes, flowVars, sessionVars
    <2> QED BY <2>1, <2>2
  <1>9. CASE FlashFails
    <2>1. PICK error \in {"other", "verify", "dead"} : Catch(error, safety, link, poll)
      BY <1>9 DEF FlashFails
    <2>2. LoopTypes'
      BY <1>0, <2>1, CatchTypes
    <2>3. faults' \in 0..MAX_FAULTS /\ wedged' \in BOOLEAN
      BY <1>0, <1>9, FaultTypes DEF FlashFails, RestTypes
    <2>4. queue' \in Seq(Owners) /\ cur' \in Call /\ flasher' \in {"none", "good", "spent"}
      BY <1>9, QueueTypes, NoCallIsCall DEF FlashFails, Owners, Discredited
    <2> QED BY <1>0, <1>9, <2>2, <2>3, <2>4 DEF FlashFails, RestTypes
  <1>10. CASE Watchdog
    <2>1. LoopTypes'
      BY <1>0, <1>10, CatchTypes DEF Watchdog
    <2>2. queue' \in Seq(Owners) /\ flasher' \in {"none", "good", "spent"}
      BY <1>10, QueueTypes DEF Watchdog, Discredited
    <2> QED BY <1>0, <1>10, <2>1, <2>2, NoCallIsCall DEF Watchdog, RestTypes
  <1>11. CASE SettleOver
    <2>1. CASE region < Regions
      <3>1. forceFreshStub' \in BOOLEAN
        BY <1>11, <2>1, Zenon DEF SettleOver, BeginImage
      <3> QED BY <1>0, <1>11, <2>1, <3>1, FlashRetryAssumption
           DEF SettleOver, BeginImage, LoopTypes, RestTypes
    <2>2. CASE ~(region < Regions)
      <3>1. LoopTypes'
        BY <1>0, <1>11, <2>2, FinishTypes DEF SettleOver
      <3> QED BY <1>0, <1>11, <2>2, <3>1 DEF SettleOver, RestTypes
    <2> QED BY <2>1, <2>2
  <1> QED BY <1>1, <1>2, <1>3, <1>4, <1>5, <1>6, <1>7, <1>8, <1>9, <1>10, <1>11 DEF Flow

LEMMA UsbTypes == TypeOK /\ Usb => TypeOK'
  <1> SUFFICES ASSUME TypeOK, Usb PROVE LoopTypes' /\ RestTypes'
    BY Parts
  <1>0. safety \in Safeties /\ poll \in Polls /\ LoopTypes /\ RestTypes
    BY Parts DEF LoopTypes
  <1>p. Resume(poll) \in Polls /\ Suspend(poll) \in Polls
    BY <1>0, PollOps
  <1>1. CASE BootOk
    <2>1. queue' \in Seq(Owners)
      BY <1>0, <1>1 DEF BootOk, InFlight, RestTypes, Owners
    <2>2. safety' \in Safeties /\ poll' \in Polls
      BY <1>0, <1>1, SafetyOps, PollOps DEF BootOk
    <2> QED BY <1>0, <1>1, <2>1, <2>2 DEF BootOk, LoopTypes, RestTypes, flowVars
  <1>2. CASE InfoOk
    <2>1. MarkQuiet(safety) \in Safeties
      BY <1>0, SafetyOps
    <2>2. LoopTypes' /\ cur' \in Call
      BY <1>2, <1>p, <2>1, GotTypes DEF InfoOk
    <2>3. queue' \in Seq(Owners)
      BY <1>2, QueueTypes DEF InfoOk, InFlight
    <2> QED BY <1>0, <1>2, <2>2, <2>3 DEF InfoOk, RestTypes, sessionVars
  <1>3. CASE ChunkDone
    <2>1. queue' \in Seq(Owners)
      BY <1>3, QueueTypes DEF ChunkDone, InFlight
    <2>2. cur' \in Call
      BY <1>0, <1>3, CallTypes DEF ChunkDone, RestTypes
    <2>3. pc' \in {"idle", "acquire", "boot", "info", "flash", "settle", "wait"}
      BY <1>0, <1>3 DEF ChunkDone, LoopTypes
    <2> QED BY <1>0, <1>3, <2>1, <2>2, <2>3
         DEF ChunkDone, LoopTypes, RestTypes, flowVars, sessionVars
  <1>4. CASE OldDone
    <2>1. queue' \in Seq(Owners)
      BY <1>4, QueueTypes DEF OldDone, InFlight
    <2>2. old' \in Call
      BY <1>0, <1>4, CallTypes DEF OldDone, RestTypes
    <2> QED BY <1>0, <1>4, <2>1, <2>2 DEF OldDone, LoopTypes, RestTypes, flowVars, sessionVars
  <1>5. CASE OldContinues
    <2>1. queue' \in Seq(Owners)
      BY <1>0, <1>5, QueueTypes DEF OldContinues, Owners, RestTypes
    <2>2. old' \in Call
      BY <1>0, <1>5, CallTypes, NoCallIsCall DEF OldContinues, RestTypes
    <2> QED BY <1>0, <1>5, <2>1, <2>2
         DEF OldContinues, LoopTypes, RestTypes, flowVars, sessionVars
  <1>6. CASE PingLate
    <2>1. queue' \in Seq(Owners)
      BY <1>6, QueueTypes DEF PingLate, InFlight
    <2> QED BY <1>0, <1>6, <2>1 DEF PingLate, LoopTypes, RestTypes, flowVars, sessionVars
  <1> QED BY <1>1, <1>2, <1>3, <1>4, <1>5, <1>6 DEF Usb

LEMMA PollTypes == TypeOK /\ Poll => TypeOK'
  <1> SUFFICES ASSUME TypeOK, Poll PROVE LoopTypes' /\ RestTypes'
    BY Parts
  <1>0. safety \in Safeties /\ poll \in Polls /\ LoopTypes /\ RestTypes
    BY Parts DEF LoopTypes
  <1>1. CASE Ping
    <2>1. queue' \in Seq(Owners) /\ poll' \in Polls
      BY <1>0, <1>1, QueueTypes, PollOps DEF Ping, RestTypes
    <2> QED BY <1>0, <1>1, <2>1 DEF Ping, LoopTypes, RestTypes, flowVars, sessionVars
  <1>2. CASE PingOk
    <2>1. queue' \in Seq(Owners)
      BY <1>2, QueueTypes DEF PingOk, InFlight
    <2>2. safety' \in Safeties
      BY <1>0, <1>2, SafetyOps DEF PingOk
    <2>3. wrote' \in BOOLEAN
      BY <1>2, Zenon DEF PingOk
    <2>4. poll' \in Polls
      BY <1>0, <1>2, PollOps DEF PingOk
    <2> QED BY <1>0, <1>2, <2>1, <2>2, <2>3, <2>4
         DEF PingOk, LoopTypes, RestTypes, flowVars, sessionVars
  <1>3. CASE PingLost
    <2>0. [poll EXCEPT !.pinging = FALSE] \in Polls
      BY <1>0, PollOps
    <2>1. CASE link = "lost"
      <3>1. poll' \in Polls
        BY <1>3, <2>0, <2>1, Zenon DEF PingLost
      <3> QED BY <1>0, <1>3, <2>1, <3>1
           DEF PingLost, LoopTypes, RestTypes, flowVars, sessionVars
    <2>2. CASE link # "lost"
      BY <1>0, <1>3, <2>0, <2>2, LostTypes DEF PingLost, LoopTypes, RestTypes, flowVars
    <2> QED BY <2>1, <2>2
  <1> QED BY <1>1, <1>2, <1>3 DEF Poll

LEMMA LinkTypes ==
  TypeOK /\ (Stall \/ LateAnswer \/ Close \/ UsbDisconnect \/ Reattach \/ AttachFails)
    => TypeOK'
  <1> SUFFICES ASSUME TypeOK,
                      Stall \/ LateAnswer \/ Close \/ UsbDisconnect \/ Reattach \/ AttachFails
               PROVE  LoopTypes' /\ RestTypes'
    BY Parts
  <1>0. safety \in Safeties /\ poll \in Polls /\ LoopTypes /\ RestTypes
    BY Parts DEF LoopTypes
  <1>p. StartPoll(poll) \in Polls /\ Unsuspended(poll) \in Polls
    BY <1>0, PollOps
  <1>1. CASE Stall
    BY <1>0, <1>1, FaultTypes DEF Stall, LoopTypes, RestTypes, flowVars, sessionVars
  <1>2. CASE LateAnswer
    <2>1. stalled' \in BOOLEAN
      BY <1>2, Zenon DEF LateAnswer
    <2> QED BY <1>0, <1>2, <2>1 DEF LateAnswer, LoopTypes, RestTypes, flowVars, sessionVars
  <1>3. CASE Close
    <2>1. stalled' \in BOOLEAN
      BY <1>3, Zenon DEF Close
    <2>2. queue' \in Seq(Owners)
      BY <1>3, QueueTypes DEF Close
    <2> QED BY <1>0, <1>3, <2>1, <2>2, FaultTypes, NoCallIsCall
         DEF Close, LoopTypes, RestTypes, flowVars
  <1>4. CASE UsbDisconnect
    <2>1. faults' \in 0..MAX_FAULTS
      BY <1>0, <1>4, FaultTypes DEF UsbDisconnect, RestTypes
    <2> QED BY <1>0, <1>4, <2>1, LostTypes DEF UsbDisconnect, LoopTypes, RestTypes, flowVars
  <1>5. CASE Reattach
    <2>1. wrote' \in BOOLEAN
      BY <1>5, Zenon DEF Reattach
    <2> QED BY <1>0, <1>p, <1>5, <2>1 DEF Reattach, LoopTypes, RestTypes, flowVars
  <1>6. CASE AttachFails
    BY <1>0, <1>p, <1>6 DEF AttachFails, LoopTypes, RestTypes, flowVars, sessionVars
  <1> QED BY <1>1, <1>2, <1>3, <1>4, <1>5, <1>6

LEMMA UserTypes == TypeOK /\ ((\E k \in Kinds : Start(k)) \/ ConfirmCancel) => TypeOK'
  <1> SUFFICES ASSUME TypeOK, (\E k \in Kinds : Start(k)) \/ ConfirmCancel
               PROVE  LoopTypes' /\ RestTypes'
    BY Parts
  <1>0. safety \in Safeties /\ poll \in Polls /\ LoopTypes /\ RestTypes
    BY Parts DEF LoopTypes
  <1>p. Resume(poll) \in Polls /\ Suspend(poll) \in Polls
    BY <1>0, PollOps
  <1>1. CASE \E k \in Kinds : Start(k)
    <2>1. PICK k \in Kinds : Start(k)
      BY <1>1
    <2>2. safety' \in Safeties /\ poll' \in Polls
      BY <1>0, <1>p, <2>1, SafetyOps DEF Start
    <2>3. run' \in 0..MAX_RUNS /\ kind' \in {"modal", "browser", "boot"}
      BY <1>0, <2>1, FlashRetryAssumption DEF Start, RestTypes
    <2>4. region' \in 1..Regions /\ attempt' \in 1..maxAttempts
          /\ deadHandleRetries' \in 0..MAX_DEAD_HANDLE_RETRIES
      BY <2>1, FlashRetryAssumption DEF Start, BeginImage
    <2> QED BY <1>0, <2>1, <2>2, <2>3, <2>4 DEF Start, BeginImage, LoopTypes, RestTypes
  <1>2. CASE ConfirmCancel
    BY <1>0, <1>2 DEF ConfirmCancel, LoopTypes, RestTypes, flowVars, sessionVars
  <1> QED BY <1>1, <1>2

LEMMA TypeStep == TypeOK /\ [Next]_vars => TypeOK'
  <1>1. TypeOK /\ UNCHANGED vars => TypeOK'
    BY DEF TypeOK, vars, flowVars, sessionVars
  <1> QED BY <1>1, FlowTypes, UsbTypes, PollTypes, LinkTypes, UserTypes DEF Next

\* Every variable keeps its type: no counter of flashImage leaves its budget, and no
\* release takes the count of holds below zero.
THEOREM TypeCorrect == Spec => []TypeOK
  BY TypeInit, TypeStep, PTL DEF Spec

-----------------------------------------------------------------------------
(* The warning and the retries. *)

\* The holds are those of the operation and of the boot nested in it.
WarnInv ==
  /\ safety.holds = (IF pc # "idle" /\ kind # "boot" THEN 1 ELSE 0)
                     + (IF pc = "boot" THEN 1 ELSE 0)
  /\ safety.holds > 0 => safety.state = "writing"
  /\ pc \in {"flash", "settle", "wait"} => kind # "boot"

\* A flasher that failed is not asked for again without force.
SpentInv ==
  /\ pc \in {"flash", "info"} => flasher # "spent"
  /\ pc = "wait" => forceFreshStub
  /\ pc = "acquire" /\ flasher = "spent" => Forced

Inv == WarnInv /\ SpentInv /\ Attested

\* The warning as the code of an operation sees it outside a boot.
Balanced(s) ==
  /\ s \in Safeties
  /\ s.holds = IF kind = "boot" THEN 0 ELSE 1
  /\ s.holds > 0 => s.state = "writing"

\* The warning s may be shown after this step.
Honest(s) == s.state = "safe" /\ link' = "up" /\ ~overrun' => ~wrote'

LEMMA SafetyType == TypeOK => safety \in Safeties
  BY DEF TypeOK, Safeties

LEMMA BalancedOutsideBoot ==
  ASSUME TypeOK, WarnInv, pc \notin {"idle", "boot"}
  PROVE  Balanced(safety)
  BY SafetyType DEF WarnInv, Balanced

LEMMA BalancedAfterBoot ==
  ASSUME TypeOK, WarnInv, pc = "boot", NEW l
  PROVE  /\ Balanced(Release(safety, l))
         /\ Release(safety, l).state = "safe" => l = "lost"
         /\ LinkGone(safety) = safety
  <1>1. safety \in Safeties /\ safety.state = "writing"
        /\ safety.holds = IF kind # "boot" THEN 2 ELSE 1
    BY SafetyType DEF WarnInv
  <1>2. Release(safety, l) =
          [holds |-> IF kind # "boot" THEN 1 ELSE 0,
           state |-> IF kind # "boot" THEN "writing"
                     ELSE IF l = "lost" THEN "safe" ELSE "settling"]
    BY <1>1 DEF Release
  <1>3. LinkGone(safety) = safety
    BY <1>1 DEF LinkGone
  <1>4. Balanced(Release(safety, l))
    BY <1>2 DEF Balanced, Safeties
  <1>5. Release(safety, l).state = "safe" => l = "lost"
    BY <1>2
  <1> QED BY <1>3, <1>4, <1>5

LEMMA FinishKeeps ==
  ASSUME NEW s, Balanced(s), Honest(s), NEW threw, NEW p, kind' = kind,
         Finish(s, link', threw, p)
  PROVE  Inv'
  <1>1. pc' = "idle"
    BY DEF Finish
  <1>2. CASE kind = "boot"
    BY <1>1, <1>2 DEF Finish, Inv, WarnInv, SpentInv, Attested, Balanced, Honest, Safeties
  <1>3. CASE kind # "boot"
    <2>1. safety' = Release(s, link') /\ s.holds = 1
      BY <1>3 DEF Finish, Balanced
    <2>2. safety'.holds = 0 /\ (safety'.state = "safe" => link' = "lost")
      BY <2>1 DEF Release
    <2> QED BY <1>1, <2>2 DEF Inv, WarnInv, SpentInv, Attested
  <1> QED BY <1>2, <1>3

LEMMA CatchKeeps ==
  ASSUME TypeOK, NEW s, Balanced(s), Honest(s), NEW error, NEW p, kind' = kind,
         Catch(error, s, link', p)
  PROVE  Inv'
  <1>1. CASE Finish(s, link', TRUE, p)
    BY <1>1, FinishKeeps
  <1>2. CASE kind # "boot" /\ WaitForLink(s, p)
    BY <1>2 DEF WaitForLink, Inv, WarnInv, SpentInv, Attested, Balanced, Honest
  <1>3. CASE kind # "boot" /\ attempt' = attempt + 1 /\ pc' = "acquire" /\ safety' = s
    <2>1. attempt' > 1
      BY <1>3, FlashRetryAssumption DEF TypeOK
    <2> QED BY <1>3, <2>1 DEF Inv, WarnInv, SpentInv, Attested, Balanced, Honest, Forced
  <1> QED BY <1>1, <1>2, <1>3, CatchCases

LEMMA GotKeeps ==
  ASSUME TypeOK, NEW s, Balanced(s), Honest(s), NEW p, kind' = kind, link' = link,
         flasher' # "spent", Got(s, p)
  PROVE  Inv'
  <1>1. CASE kind = "boot"
    BY <1>1, FinishKeeps DEF Got
  <1>2. CASE kind # "boot"
    BY <1>2 DEF Got, Inv, WarnInv, SpentInv, Attested, Balanced, Honest
  <1> QED BY <1>1, <1>2

\* A step that leaves the operation alone and touches neither the warning nor the history.
LEMMA QuietStep ==
  ASSUME Inv,
         UNCHANGED <<kind, pc, attempt, forceFreshStub, safety>>,
         flasher' = flasher \/ flasher' = "none",
         Honest(safety)
  PROVE  Inv'
  BY DEF Inv, WarnInv, SpentInv, Attested, Honest, Forced

LEMMA FlowKeeps == TypeOK /\ Inv /\ Flow => Inv'
  <1> SUFFICES ASSUME TypeOK, Inv, Flow PROVE Inv'
    OBVIOUS
  <1>0. WarnInv /\ SpentInv /\ Attested
    BY DEF Inv
  <1>h. link' = link /\ wrote' = wrote /\ overrun' = overrun => Honest(safety)
    BY <1>0 DEF Attested, Honest
  <1>1. CASE WaitOver
    BY <1>1, <1>0 DEF WaitOver, Inv, WarnInv, SpentInv, Attested, Forced, flowVars, sessionVars
  <1>2. CASE NotConnected
    <2>1. Balanced(safety) /\ Honest(safety)
      BY <1>0, <1>2, <1>h, BalancedOutsideBoot DEF NotConnected, sessionVars
    <2>2. Catch("other", safety, link', poll) /\ kind' = kind
      BY <1>2 DEF NotConnected, sessionVars
    <2> QED BY <2>1, <2>2, CatchKeeps
  <1>3. CASE Reuse
    <2>1. Balanced(safety) /\ Honest(safety)
      BY <1>0, <1>3, <1>h, BalancedOutsideBoot DEF Reuse, sessionVars
    <2>2. flasher' # "spent"
      BY <1>0, <1>3 DEF Reuse, SpentInv, sessionVars
    <2> QED BY <1>3, <2>1, <2>2, GotKeeps DEF Reuse, sessionVars
  <1>4. CASE RefuseReboot
    <2>1. Balanced(safety) /\ Honest(safety)
      BY <1>0, <1>4, <1>h, BalancedOutsideBoot DEF RefuseReboot
    <2>2. Catch("other", safety, link', Resume(Suspend(poll))) /\ kind' = kind
      BY <1>4 DEF RefuseReboot
    <2> QED BY <2>1, <2>2, CatchKeeps
  <1>5. CASE BootStart
    <2>1. Balanced(safety)
      BY <1>0, <1>5, BalancedOutsideBoot DEF BootStart
    <2>2. safety' = [holds |-> safety.holds + 1, state |-> "writing"] /\ pc' = "boot"
          /\ kind' = kind
      BY <1>5 DEF BootStart, Hold
    <2>3. WarnInv'
      BY <2>1, <2>2 DEF WarnInv, Balanced, Safeties
    <2> QED BY <2>2, <2>3 DEF Inv, SpentInv, Attested
  <1>6. CASE BootFails
    <2>1. pc = "boot" /\ kind' = kind /\ wrote' = wrote /\ overrun' = overrun
      BY <1>6 DEF BootFails
    <2>2. CASE reconnectAfterBoot
      <3>1. Catch("other", Release(safety, "lost"), link', Resume(Unsuspended(poll)))
            /\ link' = "lost"
        BY <1>0, <1>6, <2>1, <2>2, BalancedAfterBoot DEF BootFails
      <3>2. Honest(Release(safety, "lost"))
        BY <3>1 DEF Honest
      <3> QED BY <1>0, <2>1, <3>1, <3>2, BalancedAfterBoot, CatchKeeps
    <2>3. CASE ~reconnectAfterBoot
      <3>1. PICK error : /\ Catch(error, Release(safety, link), link', Resume(poll))
                         /\ link' = link
        BY <1>6, <2>3 DEF BootFails
      <3>2. Honest(Release(safety, link))
        BY <1>0, <2>1, <3>1, BalancedAfterBoot DEF Honest
      <3> QED BY <1>0, <2>1, <3>1, <3>2, BalancedAfterBoot, CatchKeeps
    <2> QED BY <2>2, <2>3
  <1>7. CASE InfoFails
    <2>1. Balanced(safety) /\ Honest(safety)
      BY <1>0, <1>7, <1>h, BalancedOutsideBoot DEF InfoFails, sessionVars
    <2>2. Catch("dead", safety, link', Resume(poll)) /\ kind' = kind
      BY <1>7 DEF InfoFails, sessionVars
    <2> QED BY <2>1, <2>2, CatchKeeps
  <1>8. CASE NextChunk
    <2>1. Balanced(safety) /\ Honest(safety)
      BY <1>0, <1>8, <1>h, BalancedOutsideBoot DEF NextChunk, sessionVars
    <2>2. CASE cur.run \in stops
      <3>1. Catch("other", safety, link', poll) /\ kind' = kind
        BY <1>8, <2>2 DEF NextChunk, sessionVars
      <3> QED BY <2>1, <3>1, CatchKeeps
    <2>3. CASE cur.run \notin stops
      BY <1>8, <2>1, <2>3, QuietStep DEF NextChunk, flowVars, sessionVars
    <2> QED BY <2>2, <2>3
  <1>9. CASE FlashFails
    <2>1. Balanced(safety) /\ Honest(safety)
      BY <1>0, <1>9, <1>h, BalancedOutsideBoot DEF FlashFails
    <2>2. PICK error \in {"other", "verify", "dead"} : Catch(error, safety, link', poll)
      BY <1>9 DEF FlashFails
    <2> QED BY <1>9, <2>1, <2>2, CatchKeeps DEF FlashFails
  <1>10. CASE Watchdog
    <2>1. Balanced(safety) /\ Honest(safety)
      BY <1>0, <1>10, <1>h, BalancedOutsideBoot DEF Watchdog
    <2>2. Catch("other", safety, link', poll) /\ kind' = kind
      BY <1>10 DEF Watchdog
    <2> QED BY <2>1, <2>2, CatchKeeps
  <1>11. CASE SettleOver
    <2>1. Balanced(safety) /\ Honest(safety)
      BY <1>0, <1>11, <1>h, BalancedOutsideBoot DEF SettleOver
    <2>2. CASE region < Regions
      <3>1. pc' = "acquire" /\ kind' = kind /\ safety' = safety /\ flasher' # "spent"
        BY <1>11, <2>2 DEF SettleOver
      <3> QED BY <2>1, <3>1 DEF Inv, WarnInv, SpentInv, Attested, Balanced, Honest
    <2>3. CASE ~(region < Regions)
      <3>1. Finish(safety, link', FALSE, poll) /\ kind' = kind
        BY <1>11, <2>3 DEF SettleOver
      <3> QED BY <2>1, <3>1, FinishKeeps
    <2> QED BY <2>2, <2>3
  <1> QED BY <1>1, <1>2, <1>3, <1>4, <1>5, <1>6, <1>7, <1>8, <1>9, <1>10, <1>11 DEF Flow

\* The chunks and the boots write under a hold; the readInfo after a boot attests.
LEMMA UsbKeeps == TypeOK /\ Inv /\ Usb => Inv'
  <1> SUFFICES ASSUME TypeOK, Inv, Usb PROVE Inv'
    OBVIOUS
  <1>0. WarnInv /\ SpentInv /\ Attested
    BY DEF Inv
  <1>1. CASE BootOk
    <2>1. pc = "boot" /\ link = "up" /\ link' = link /\ pc' = "info" /\ kind' = kind
          /\ flasher' = "good" /\ safety' = Release(safety, link)
      BY <1>1 DEF BootOk, InFlight
    <2>2. Balanced(safety') /\ safety'.state # "safe"
      BY <1>0, <2>1, BalancedAfterBoot
    <2> QED BY <2>1, <2>2 DEF Inv, WarnInv, SpentInv, Attested, Balanced
  <1>2. CASE InfoOk
    <2>1. pc = "info" /\ link' = link /\ kind' = kind /\ flasher' = flasher /\ ~wrote'
          /\ Got(MarkQuiet(safety), Resume(poll))
      BY <1>2 DEF InfoOk, sessionVars
    <2>2. Balanced(MarkQuiet(safety))
      BY <1>0, <2>1, BalancedOutsideBoot DEF MarkQuiet, Balanced, Safeties
    <2>3. Honest(MarkQuiet(safety)) /\ flasher' # "spent"
      BY <1>0, <2>1 DEF Honest, SpentInv
    <2> QED BY <2>1, <2>2, <2>3, GotKeeps
  <1>3. CASE ChunkDone
    <2>1. pc = "flash" /\ pc' \in {"flash", "settle"} /\ kind' = kind
          /\ safety' = safety /\ flasher' = flasher
      BY <1>3 DEF ChunkDone, sessionVars
    <2>2. safety.state = "writing" /\ safety.holds = 1 /\ kind # "boot"
      BY <1>0, <2>1 DEF WarnInv
    <2> QED BY <1>0, <2>1, <2>2 DEF Inv, WarnInv, SpentInv, Attested
  <1>4. CASE OldDone
    BY <1>4, QuietStep DEF OldDone, Honest, flowVars, sessionVars
  <1>5. CASE OldContinues
    BY <1>0, <1>5, QuietStep DEF OldContinues, Honest, Attested, flowVars, sessionVars
  <1>6. CASE PingLate
    BY <1>0, <1>6, QuietStep DEF PingLate, Honest, Attested, flowVars, sessionVars
  <1> QED BY <1>1, <1>2, <1>3, <1>4, <1>5, <1>6 DEF Usb

\* What lowers the warning outside an operation's own release.
LEMMA LoweredKeeps ==
  ASSUME TypeOK, Inv,
         UNCHANGED <<kind, pc, attempt, forceFreshStub>>,
         flasher' = flasher \/ flasher' = "none",
         safety' = MarkQuiet(safety) \/ safety' = LinkGone(safety),
         link' # "up" \/ ~wrote'
  PROVE  Inv'
  <1>1. safety'.holds = safety.holds /\ (safety.holds > 0 => safety' = safety)
    BY SafetyType DEF MarkQuiet, LinkGone, Safeties
  <1> QED BY <1>1 DEF Inv, WarnInv, SpentInv, Attested, Forced

LEMMA LostKeeps ==
  ASSUME TypeOK, Inv, NEW p, HandleLost(p),
         UNCHANGED <<kind, pc, attempt, forceFreshStub, wrote, overrun>>
  PROVE  Inv'
  <1>1. CASE pc = "boot"
    BY <1>1, QuietStep DEF HandleLost, Honest, Inv, Attested
  <1>2. CASE pc # "boot"
    BY <1>2, LoweredKeeps DEF HandleLost
  <1> QED BY <1>1, <1>2

LEMMA PollKeeps == TypeOK /\ Inv /\ Poll => Inv'
  <1> SUFFICES ASSUME TypeOK, Inv, Poll PROVE Inv'
    OBVIOUS
  <1>1. CASE Ping
    BY <1>1, QuietStep DEF Ping, Honest, Inv, Attested, flowVars, sessionVars
  <1>2. CASE PingOk
    BY <1>2, LoweredKeeps DEF PingOk, flowVars, sessionVars
  <1>3. CASE PingLost
    <2>1. CASE link = "lost"
      BY <1>3, <2>1, QuietStep DEF PingLost, Honest, Inv, Attested, flowVars, sessionVars
    <2>2. CASE link # "lost"
      BY <1>3, <2>2, LostKeeps DEF PingLost, flowVars
    <2> QED BY <2>1, <2>2
  <1> QED BY <1>1, <1>2, <1>3 DEF Poll

LEMMA LinkKeeps ==
  TypeOK /\ Inv /\ (Stall \/ LateAnswer \/ Close \/ UsbDisconnect \/ Reattach \/ AttachFails)
     => Inv'
  <1> SUFFICES ASSUME TypeOK, Inv,
                      Stall \/ LateAnswer \/ Close \/ UsbDisconnect \/ Reattach
                        \/ AttachFails
               PROVE  Inv'
    OBVIOUS
  <1>1. CASE Stall
    BY <1>1, QuietStep DEF Stall, Honest, Inv, Attested, flowVars, sessionVars
  <1>2. CASE LateAnswer
    BY <1>2, QuietStep DEF LateAnswer, Honest, Inv, Attested, flowVars, sessionVars
  <1>3. CASE Close
    BY <1>3, QuietStep DEF Close, Honest, flowVars
  <1>4. CASE UsbDisconnect
    BY <1>4, LostKeeps DEF UsbDisconnect, flowVars
  <1>5. CASE Reattach
    BY <1>5, QuietStep DEF Reattach, Honest, flowVars
  <1>6. CASE AttachFails
    BY <1>6, QuietStep DEF AttachFails, Honest, Inv, Attested, flowVars, sessionVars
  <1> QED BY <1>1, <1>2, <1>3, <1>4, <1>5, <1>6

LEMMA UserKeeps == TypeOK /\ Inv /\ ((\E k \in Kinds : Start(k)) \/ ConfirmCancel) => Inv'
  <1> SUFFICES ASSUME TypeOK, Inv, (\E k \in Kinds : Start(k)) \/ ConfirmCancel
               PROVE  Inv'
    OBVIOUS
  <1>1. CASE \E k \in Kinds : Start(k)
    <2>1. PICK k \in Kinds : Start(k)
      BY <1>1
    <2>2. pc = "idle" /\ pc' = "acquire" /\ kind' = k /\ flasher' # "spent"
          /\ safety' = (IF k = "boot" THEN safety ELSE Hold(safety))
          /\ UNCHANGED <<link, wrote, overrun>>
      BY <2>1 DEF Start
    <2>3. safety.holds = 0
      BY <2>2 DEF Inv, WarnInv
    <2> QED BY <2>2, <2>3 DEF Inv, WarnInv, SpentInv, Attested, Hold
  <1>2. CASE ConfirmCancel
    BY <1>2, QuietStep DEF ConfirmCancel, Honest, Inv, Attested, flowVars, sessionVars
  <1> QED BY <1>1, <1>2

LEMMA InvInit == Init => Inv
  BY DEF Init, Inv, WarnInv, SpentInv, Attested

LEMMA InvStep == TypeOK /\ Inv /\ [Next]_vars => Inv'
  <1>1. TypeOK /\ Inv /\ UNCHANGED vars => Inv'
    BY DEF Inv, WarnInv, SpentInv, Attested, Forced, vars, flowVars, sessionVars
  <1> QED BY <1>1, FlowKeeps, UsbKeeps, PollKeeps, LinkKeeps, UserKeeps DEF Next

LEMMA InvHolds == Spec => []Inv
  BY TypeInit, TypeStep, InvInit, InvStep, PTL DEF Spec

\* The disconnect warning stands as long as a boot or an awaited flash runs.
THEOREM WarningStands == Spec => []WarnedWhileWriting
  <1>1. Inv => WarnedWhileWriting
    BY DEF Inv, WarnInv, WarnedWhileWriting, Writing
  <1> QED BY <1>1, InvHolds, PTL

\* On a session that stands, the warning is down only if the device attested after the
\* last write of a flash that somebody awaits.
THEOREM WarningIsHonest == Spec => []Attested
  <1>1. Inv => Attested
    BY DEF Inv
  <1> QED BY <1>1, InvHolds, PTL

\* A retry never flashes through a flasher that failed.
THEOREM RetriesOnAFreshFlasher == Spec => []NeverTheSameFlasher
  <1>1. Inv => NeverTheSameFlasher
    BY DEF Inv, SpentInv, NeverTheSameFlasher
  <1> QED BY <1>1, InvHolds, PTL
=============================================================================
