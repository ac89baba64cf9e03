----------------------------- MODULE FlashRetry -----------------------------
(***************************************************************************)
(* One device operation of the web builder over a link that may fail:      *)
(* InstallProgressStore.confirm (or an edit of the file browser, or the    *)
(* header's Start Recovery Mode) holds the disconnect warning and calls    *)
(* flashImage once per region.  flashImage retries under two budgets: an   *)
(* attempt for a wedged stub, a dead-handle retry for a dropped link.  Its *)
(* watchdog rejects while the flash it guards goes on, on the same FIFO of *)
(* transfers (serialTransport).  The liveness poll, once it runs again,    *)
(* takes the warning down.                                                 *)
(*                                                                         *)
(* One transfer stands for a chunk of a flash, one for a whole stub boot,  *)
(* one for the readInfo after it.  Attaching and detaching a session are   *)
(* DeviceConnection's; here the link is up, closed under the session, or   *)
(* lost (torn down).                                                       *)
(***************************************************************************)
EXTENDS Integers, Sequences

CONSTANTS
  Kinds,                    \* operations: "modal", "browser", "boot"
  Faults,                   \* of "wedge", "verify", "blip", "stall", "close", "drop"
  MAX_FAULTS,               \* bound: faults per behaviour
  MAX_RUNS,                 \* bound: operations per behaviour
  Regions,                  \* flashImage calls of one operation
  Chunks,                   \* transfers of one flash
  maxAttempts,
  MAX_DEAD_HANDLE_RETRIES

ASSUME FlashRetryAssumption ==
  /\ Kinds \subseteq {"modal", "browser", "boot"}
  /\ Faults \subseteq {"wedge", "verify", "blip", "stall", "close", "drop"}
  /\ MAX_FAULTS \in Nat /\ MAX_RUNS \in Nat
  /\ Regions \in Nat \ {0} /\ Chunks \in Nat \ {0}
  /\ maxAttempts \in Nat \ {0} /\ MAX_DEAD_HANDLE_RETRIES \in Nat

VARIABLES
  run,                \* operations begun
  kind,               \* what the current, or last, operation is
  modalPhase,         \* of the progress modal
  stops,              \* operations whose AbortController was aborted
  pc,                 \* where the operation is
  region, attempt, deadHandleRetries, forceFreshStub,   \* of flashImage
  cur,                \* the flash that is awaited: chunks done, a transfer out
  old,                \* a flash the watchdog gave up on, still running
  sock,               \* the operation's transport is still the session's
  link, flasher, wedged, reconnectAfterBoot,            \* the session
  queue, stalled,     \* the FIFO of transfers; its head does not answer
  poll,               \* the liveness poll: suspensions, its timer, a ping awaited
  safety,             \* DeviceSafetyStore: the holds and the state shown
  wrote,              \* history: written to since the device last attested
  overrun,            \* history: an abandoned flash came back and wrote
  faults              \* faults so far

flowVars == <<region, attempt, deadHandleRetries, forceFreshStub>>
sessionVars == <<link, flasher, wedged, reconnectAfterBoot>>
vars == <<run, kind, modalPhase, stops, pc, flowVars, cur, old, sock,
          sessionVars, queue, stalled, poll, safety, wrote, overrun, faults>>

Owners == {"cur", "old", "boot", "info", "ping"}
NoCall == [run |-> 0, done |-> 0, sent |-> FALSE]
Call == [run : 0..MAX_RUNS, done : 0..(Chunks - 1), sent : BOOLEAN]

\* The types of the variables.
TypeOK ==
  /\ run \in 0..MAX_RUNS
  /\ kind \in {"modal", "browser", "boot"}
  /\ modalPhase \in {"none", "running", "done", "error", "cancelled"}
  /\ stops \subseteq 0..MAX_RUNS
  /\ pc \in {"idle", "acquire", "boot", "info", "flash", "settle", "wait"}
  /\ region \in 1..Regions
  /\ attempt \in 1..maxAttempts
  /\ deadHandleRetries \in 0..MAX_DEAD_HANDLE_RETRIES
  /\ forceFreshStub \in BOOLEAN
  /\ cur \in Call /\ old \in Call
  /\ sock \in BOOLEAN
  /\ link \in {"up", "closed", "lost"}
  /\ flasher \in {"none", "good", "spent"}
  /\ wedged \in BOOLEAN /\ reconnectAfterBoot \in BOOLEAN
  /\ queue \in Seq(Owners) /\ stalled \in BOOLEAN
  /\ poll \in [depth : Nat, timer : BOOLEAN, pinging : BOOLEAN]
  /\ safety \in [holds : Nat, state : {"safe", "writing", "settling"}]
  /\ wrote \in BOOLEAN /\ overrun \in BOOLEAN
  /\ faults \in 0..MAX_FAULTS

Init ==
  /\ run = 0 /\ kind = "modal" /\ modalPhase = "none" /\ stops = {}
  /\ pc = "idle"
  /\ region = 1 /\ attempt = 1 /\ deadHandleRetries = 0 /\ forceFreshStub = FALSE
  /\ cur = NoCall /\ old = NoCall /\ sock = TRUE
  /\ link = "up" /\ flasher = "none" /\ wedged = FALSE /\ reconnectAfterBoot = FALSE
  /\ queue = <<>> /\ stalled = FALSE
  /\ poll = [depth |-> 0, timer |-> TRUE, pinging |-> FALSE]
  /\ safety = [holds |-> 0, state |-> "safe"]
  /\ wrote = FALSE /\ overrun = FALSE /\ faults = 0

-----------------------------------------------------------------------------
(* DeviceSafetyStore. *)

Hold(s) == [holds |-> s.holds + 1, state |-> "writing"]

\* Mutant: the inner release of a nested hold lowers the warning.
ReleaseEager(s, lnk) ==
  [holds |-> IF s.holds > 0 THEN s.holds - 1 ELSE 0,
   state |-> IF lnk = "lost" THEN "safe" ELSE "settling"]
\* Mutant: the write path is trusted as soon as it returns.
ReleaseTrusting(s, lnk) ==
  [holds |-> IF s.holds > 0 THEN s.holds - 1 ELSE 0,
   state |-> IF s.holds > 1 THEN s.state ELSE "safe"]
\* Mutant: noLinkProbe is never installed.
ReleaseUnprobed(s, lnk) ==
  [holds |-> IF s.holds > 0 THEN s.holds - 1 ELSE 0,
   state |-> IF s.holds > 1 THEN s.state ELSE "settling"]
\* noLinkProbe answers by the session, which a closed handle has not ended yet.
Release(s, lnk) ==
  [holds |-> IF s.holds > 0 THEN s.holds - 1 ELSE 0,
   state |-> IF s.holds > 1 THEN s.state
             ELSE IF lnk = "lost" THEN "safe" ELSE "settling"]

MarkQuiet(s) ==
  IF s.holds = 0 /\ s.state = "settling" THEN [s EXCEPT !.state = "safe"] ELSE s

LinkGone(s) == IF s.holds > 0 THEN s ELSE [s EXCEPT !.state = "safe"]

-----------------------------------------------------------------------------
(* The counted suspension of the liveness poll. *)

Suspend(p) == [p EXCEPT !.depth = @ + 1, !.timer = FALSE]
StartPoll(p) == IF p.depth > 0 THEN p ELSE [p EXCEPT !.timer = TRUE]
Resume(p) == IF p.depth = 0 THEN p ELSE StartPoll([p EXCEPT !.depth = @ - 1])

\* A teardown forgets the suspensions of flows that are still running.
Unsuspended(p) == [p EXCEPT !.depth = 0, !.timer = FALSE]

-----------------------------------------------------------------------------
(* The operation and flashImage's loop. *)

Fault(f) == f \in Faults /\ faults < MAX_FAULTS /\ faults' = faults + 1

InFlight(o) == queue # <<>> /\ Head(queue) = o /\ ~stalled /\ link = "up"
Rejected(o) == IF InFlight(o) THEN Tail(queue) ELSE queue

\* The awaited transfer of the operation is rejected: its handle was closed.
Severed == ~sock \/ link = "closed"

BeginImage ==
  /\ attempt' = 1 /\ deadHandleRetries' = 0 /\ forceFreshStub' = FALSE

Start(k) ==
  /\ k \in Kinds
  /\ pc = "idle" /\ run < MAX_RUNS
  /\ run' = run + 1 /\ kind' = k /\ pc' = "acquire"
  /\ region' = 1 /\ BeginImage
  /\ flasher' = IF flasher = "spent" THEN "good" ELSE flasher
  /\ modalPhase' = IF k = "modal" THEN "running" ELSE modalPhase
  /\ safety' = IF k = "boot" THEN safety ELSE Hold(safety)
  /\ poll' = IF k = "modal" THEN Suspend(poll) ELSE poll
  /\ UNCHANGED <<stops, cur, old, sock, link, wedged, reconnectAfterBoot,
                 queue, stalled, wrote, overrun, faults>>

\* requestCancel and confirmCancel.
ConfirmCancel ==
  /\ modalPhase = "running" /\ run \notin stops
  /\ stops' = stops \cup {run}
  /\ UNCHANGED <<run, kind, modalPhase, pc, flowVars, cur, old, sock, sessionVars,
                 queue, stalled, poll, safety, wrote, overrun, faults>>

\* The operation returns, or throws, with the warning at s, the session at lnk and the
\* poll at p; the flows that show the modal suspended it themselves.
Finish(s, lnk, threw, p) ==
  /\ pc' = "idle"
  /\ poll' = IF kind = "modal" THEN Resume(p) ELSE p
  /\ safety' = IF kind = "boot" THEN s ELSE Release(s, lnk)
  /\ modalPhase' = IF kind # "modal" THEN modalPhase
                   ELSE IF ~threw THEN "done"
                   ELSE IF run \in stops THEN "cancelled" ELSE "error"
  /\ UNCHANGED flowVars

\* Mutant: the dead-handle budget is not counted.
WaitForLinkUnbudgeted(s, p) ==
  /\ pc' = "wait" /\ forceFreshStub' = TRUE /\ safety' = s /\ poll' = p
  /\ UNCHANGED <<region, attempt, deadHandleRetries, modalPhase>>
\* A dropped link: not a failed attempt, but the next one needs a new stub.
WaitForLink(s, p) ==
  /\ pc' = "wait" /\ forceFreshStub' = TRUE /\ safety' = s /\ poll' = p
  /\ deadHandleRetries' = deadHandleRetries + 1
  /\ UNCHANGED <<region, attempt, modalPhase>>

\* Mutant: one attempt too many.
GivesUpLate == run \in stops \/ attempt > maxAttempts
GivesUp == run \in stops \/ attempt >= maxAttempts

\* The catch of flashImage; the header's boot has none.
Catch(error, s, lnk, p) ==
  IF kind = "boot" \/ error = "verify" THEN Finish(s, lnk, TRUE, p)
  ELSE IF error = "dead"
  THEN IF deadHandleRetries >= MAX_DEAD_HANDLE_RETRIES
       THEN Finish(s, lnk, TRUE, p) ELSE WaitForLink(s, p)
  ELSE IF GivesUp THEN Finish(s, lnk, TRUE, p)
  ELSE /\ attempt' = attempt + 1 /\ pc' = "acquire" /\ safety' = s /\ poll' = p
       /\ UNCHANGED <<region, deadHandleRetries, forceFreshStub, modalPhase>>

WaitOver ==
  /\ pc = "wait" /\ pc' = "acquire"
  /\ UNCHANGED <<run, kind, modalPhase, stops, flowVars, cur, old, sock, sessionVars,
                 queue, stalled, poll, safety, wrote, overrun, faults>>

-----------------------------------------------------------------------------
(* The flasher getter: ensureStub. *)

Forced == attempt > 1 \/ forceFreshStub

\* The cached flasher is on this session's open handle, its stub answers the
\* time-boxed probes and has a free context.
Reusable == flasher # "none" /\ link = "up" /\ ~wedged /\ ~stalled

\* The getter has returned: a flash begins, or the header's boot is done.
Got(s, p) ==
  IF kind = "boot"
  THEN Finish(s, link, FALSE, p) /\ UNCHANGED cur
  ELSE /\ pc' = "flash" /\ forceFreshStub' = FALSE /\ safety' = s /\ poll' = p
       /\ cur' = [run |-> run, done |-> 0, sent |-> FALSE]
       /\ UNCHANGED <<region, attempt, deadHandleRetries, modalPhase>>

NotConnected ==
  /\ pc = "acquire" /\ link = "lost"
  /\ Catch("other", safety, link, poll)
  /\ UNCHANGED <<run, kind, stops, cur, old, sock, sessionVars, queue, stalled,
                 wrote, overrun, faults>>

Reuse ==
  /\ pc = "acquire" /\ Reusable /\ ~Forced
  /\ Got(safety, Resume(Suspend(poll)))
  /\ sock' = TRUE
  /\ UNCHANGED <<run, kind, stops, old, sessionVars, queue, stalled, wrote, overrun, faults>>

\* The file browser passes allowReboot = force: an unusable cached stub fails.
RefuseReboot ==
  /\ pc = "acquire" /\ link # "lost" /\ kind = "browser"
  /\ flasher # "none" /\ ~Reusable /\ ~Forced
  /\ flasher' = "none"
  /\ Catch("other", safety, link, Resume(Suspend(poll)))
  /\ UNCHANGED <<run, kind, stops, cur, old, sock, link, wedged, reconnectAfterBoot,
                 queue, stalled, wrote, overrun, faults>>

BootStart ==
  /\ pc = "acquire" /\ link # "lost"
  /\ \/ Forced
     \/ flasher = "none"
     \/ ~Reusable /\ kind # "browser"
  /\ pc' = "boot" /\ sock' = TRUE
  /\ safety' = Hold(safety) /\ poll' = Suspend(poll)
  /\ queue' = IF link = "up" THEN Append(queue, "boot") ELSE queue
  /\ UNCHANGED <<run, kind, modalPhase, stops, flowVars, cur, old, sessionVars,
                 stalled, wrote, overrun, faults>>

\* bootStub returns, the boot's hold is released, readInfo is posted.
BootOk ==
  /\ pc = "boot" /\ InFlight("boot")
  /\ pc' = "info" /\ queue' = Append(Tail(queue), "info")
  /\ flasher' = "good" /\ wedged' = FALSE /\ reconnectAfterBoot' = FALSE
  /\ safety' = Release(safety, link)
  /\ poll' = IF reconnectAfterBoot THEN StartPoll(poll) ELSE poll
  /\ wrote' = TRUE
  /\ UNCHANGED <<run, kind, modalPhase, stops, flowVars, cur, old, sock, link,
                 stalled, overrun, faults>>

\* A drop seen during the boot becomes "Recovery Mode boot was interrupted", which
\* is no dead-handle error; otherwise what the transport threw is rethrown.
BootFails ==
  /\ pc = "boot"
  /\ \/ Severed /\ UNCHANGED faults
     \/ InFlight("boot") /\ Fault("wedge")
  /\ flasher' = "none"
  /\ IF reconnectAfterBoot
     THEN /\ link' = "lost" /\ reconnectAfterBoot' = FALSE
          /\ queue' = <<>> /\ stalled' = FALSE /\ old' = NoCall /\ sock' = FALSE
          /\ Catch("other", Release(LinkGone(safety), "lost"), "lost",
                 Resume(Unsuspended(poll)))
     ELSE /\ queue' = Rejected("boot")
          /\ Catch(IF Severed THEN "dead" ELSE "other", Release(safety, link), link,
                 Resume(poll))
          /\ UNCHANGED <<link, reconnectAfterBoot, stalled, old, sock>>
  /\ UNCHANGED <<run, kind, stops, cur, wedged, wrote, overrun>>

InfoOk ==
  /\ pc = "info" /\ InFlight("info")
  /\ queue' = Tail(queue)
  /\ wrote' = FALSE
  /\ Got(MarkQuiet(safety), Resume(poll))
  /\ UNCHANGED <<run, kind, stops, old, sock, sessionVars, stalled, overrun, faults>>

InfoFails ==
  /\ pc = "info" /\ Severed
  /\ Catch("dead", safety, link, Resume(poll))
  /\ UNCHANGED <<run, kind, stops, cur, old, sock, sessionVars, queue, stalled,
                 wrote, overrun, faults>>

-----------------------------------------------------------------------------
(* The flash that is awaited, and the one the watchdog gave up on. *)

Discredited == IF flasher = "none" THEN "none" ELSE "spent"

\* The abort check at the top of a chunk, then the chunk's transfer.
NextChunk ==
  /\ pc = "flash" /\ ~cur.sent
  /\ IF cur.run \in stops
     THEN /\ Catch("other", safety, link, poll)
          /\ cur' = NoCall /\ UNCHANGED queue
     ELSE /\ cur' = [cur EXCEPT !.sent = TRUE]
          /\ queue' = IF Severed THEN queue ELSE Append(queue, "cur")
          /\ UNCHANGED <<pc, poll, safety, modalPhase, flowVars>>
  /\ UNCHANGED <<run, kind, stops, old, sock, sessionVars, stalled, wrote,
                 overrun, faults>>

ChunkDone ==
  /\ pc = "flash" /\ InFlight("cur")
  /\ queue' = Tail(queue) /\ wrote' = TRUE
  /\ cur' = IF cur.done + 1 = Chunks THEN NoCall
            ELSE [cur EXCEPT !.done = @ + 1, !.sent = FALSE]
  /\ pc' = IF cur.done + 1 = Chunks THEN "settle" ELSE pc
  /\ UNCHANGED <<run, kind, modalPhase, stops, flowVars, old, sock, sessionVars,
                 stalled, poll, safety, overrun, faults>>

\* The device reports an error, the blocks fail their hash three times, or the
\* handle was closed and reopened under the transfer.
FlashFails ==
  /\ pc = "flash" /\ cur.sent
  /\ \E error \in {"other", "verify", "dead"} :
       /\ \/ error = "other" /\ InFlight("cur") /\ Fault("wedge")
          \/ error = "verify" /\ InFlight("cur") /\ Fault("verify")
          \/ error = "dead" /\ InFlight("cur") /\ Fault("blip")
          \/ error = "dead" /\ Severed /\ UNCHANGED faults
       /\ wedged' = (wedged \/ error = "other")
       /\ Catch(error, safety, link, poll)
  /\ flasher' = Discredited
  /\ cur' = NoCall /\ queue' = Rejected("cur")
  /\ UNCHANGED <<run, kind, stops, old, sock, link, reconnectAfterBoot, stalled,
                 wrote, overrun>>

\* 15 s without progress: the race rejects, the flash itself goes on.
Watchdog ==
  /\ pc = "flash" /\ cur.sent /\ stalled /\ ~Severed /\ old = NoCall
  /\ old' = cur /\ cur' = NoCall
  /\ queue' = [i \in DOMAIN queue |-> IF queue[i] = "cur" THEN "old" ELSE queue[i]]
  /\ flasher' = Discredited /\ wedged' = TRUE
  /\ Catch("other", safety, link, poll)
  /\ UNCHANGED <<run, kind, stops, sock, link, reconnectAfterBoot, stalled, wrote,
                 overrun, faults>>

\* What nobody awaits any more ends, by its signal or what it reads, or sends on.
OldContinues ==
  /\ old # NoCall /\ ~old.sent
  /\ \/ old' = NoCall /\ UNCHANGED queue
     \/ /\ old.run \notin stops
        /\ old' = [old EXCEPT !.sent = TRUE]
        /\ queue' = Append(queue, "old")
  /\ UNCHANGED <<run, kind, modalPhase, stops, pc, flowVars, cur, sock, sessionVars,
                 stalled, poll, safety, wrote, overrun, faults>>

OldDone ==
  /\ InFlight("old")
  /\ queue' = Tail(queue)
  /\ wrote' = TRUE /\ overrun' = TRUE
  /\ old' = IF old.done + 1 = Chunks THEN NoCall
            ELSE [old EXCEPT !.done = @ + 1, !.sent = FALSE]
  /\ UNCHANGED <<run, kind, modalPhase, stops, pc, flowVars, cur, sock, sessionVars,
                 stalled, poll, safety, faults>>

\* 500 ms for the adapter to settle, then the next region or the end.
SettleOver ==
  /\ pc = "settle"
  /\ IF region < Regions
     THEN /\ region' = region + 1 /\ BeginImage /\ pc' = "acquire"
          /\ flasher' = IF flasher = "spent" THEN "good" ELSE flasher
          /\ UNCHANGED <<poll, safety, modalPhase>>
     ELSE /\ Finish(safety, link, FALSE, poll) /\ UNCHANGED flasher
  /\ UNCHANGED <<run, kind, stops, cur, old, sock, link, wedged, reconnectAfterBoot,
                 queue, stalled, wrote, overrun, faults>>

-----------------------------------------------------------------------------
(* The link, the FIFO and the poll. *)

Stall ==
  /\ queue # <<>> /\ ~stalled /\ link = "up" /\ old = NoCall
  /\ Fault("stall")
  /\ stalled' = TRUE
  /\ UNCHANGED <<run, kind, modalPhase, stops, pc, flowVars, cur, old, sock,
                 sessionVars, queue, poll, safety, wrote, overrun>>

LateAnswer ==
  /\ stalled /\ stalled' = FALSE
  /\ UNCHANGED <<run, kind, modalPhase, stops, pc, flowVars, cur, old, sock,
                 sessionVars, queue, poll, safety, wrote, overrun, faults>>

\* The USB handle closes; every transfer on it is rejected.
Close ==
  /\ link = "up" /\ Fault("close")
  /\ link' = "closed"
  /\ queue' = <<>> /\ stalled' = FALSE /\ old' = NoCall
  /\ UNCHANGED <<run, kind, modalPhase, stops, pc, flowVars, cur, sock, flasher,
                 wedged, reconnectAfterBoot, poll, safety, wrote, overrun>>

\* The session is torn down; during a boot the drop is remembered instead.
HandleLost(p) ==
  IF pc = "boot"
  THEN /\ reconnectAfterBoot' = TRUE
       /\ poll' = [p EXCEPT !.timer = FALSE]
       /\ UNCHANGED <<link, flasher, wedged, queue, stalled, old, sock, safety>>
  ELSE /\ link' = "lost" /\ flasher' = "none"
       /\ queue' = <<>> /\ stalled' = FALSE /\ old' = NoCall /\ sock' = FALSE
       /\ poll' = Unsuspended(p) /\ safety' = LinkGone(safety)
       /\ UNCHANGED <<wedged, reconnectAfterBoot>>

\* The disconnect event of WebUSB: the probe is gone, its handle was closed
\* before, or (the re-enumeration of a boot) it still answers.
UsbDisconnect ==
  /\ link # "lost" /\ ~reconnectAfterBoot
  /\ IF link = "up" /\ pc # "boot" THEN Fault("drop") ELSE UNCHANGED faults
  /\ HandleLost(poll)
  /\ UNCHANGED <<run, kind, modalPhase, stops, pc, flowVars, cur, wrote,
                 overrun>>

Reattach ==
  /\ link = "lost" /\ link' = "up"
  /\ poll' = StartPoll(poll)
  /\ wrote' = FALSE
  /\ UNCHANGED <<run, kind, modalPhase, stops, pc, flowVars, cur, old, sock, flasher,
                 wedged, reconnectAfterBoot, queue, stalled, safety, overrun, faults>>

\* An attach of the reconnect cadence fails: its teardown forgets the suspensions too.
AttachFails ==
  /\ link = "lost"
  /\ poll' = Unsuspended(poll)
  /\ UNCHANGED <<run, kind, modalPhase, stops, pc, flowVars, cur, old, sock,
                 sessionVars, queue, stalled, safety, wrote, overrun, faults>>

Ping ==
  /\ poll.timer /\ ~poll.pinging /\ link # "lost" /\ queue = <<>>
  /\ poll' = [poll EXCEPT !.pinging = TRUE]
  /\ queue' = IF link = "up" THEN <<"ping">> ELSE queue
  /\ UNCHANGED <<run, kind, modalPhase, stops, pc, flowVars, cur, old, sock,
                 sessionVars, stalled, safety, wrote, overrun, faults>>

PingOk ==
  /\ poll.pinging /\ InFlight("ping")
  /\ poll' = [poll EXCEPT !.pinging = FALSE] /\ queue' = Tail(queue)
  /\ wrote' = FALSE
  /\ safety' = MarkQuiet(safety)
  /\ UNCHANGED <<run, kind, modalPhase, stops, pc, flowVars, cur, old, sock,
                 sessionVars, stalled, overrun, faults>>

\* A ping whose time box has passed leaves the FIFO all the same.
PingLate ==
  /\ ~poll.pinging /\ InFlight("ping")
  /\ queue' = Tail(queue)
  /\ UNCHANGED <<run, kind, modalPhase, stops, pc, flowVars, cur, old, sock,
                 sessionVars, stalled, poll, safety, wrote, overrun, faults>>

\* No answer within 300 ms, or a rejected read.
PingLost ==
  /\ poll.pinging /\ (stalled \/ "ping" \notin {queue[i] : i \in DOMAIN queue})
  /\ IF link = "lost"
     THEN /\ poll' = [poll EXCEPT !.pinging = FALSE]
          /\ UNCHANGED <<sessionVars, queue, stalled, old, sock, safety>>
     ELSE HandleLost([poll EXCEPT !.pinging = FALSE])
  /\ UNCHANGED <<run, kind, modalPhase, stops, pc, flowVars, cur, wrote, overrun,
                 faults>>

-----------------------------------------------------------------------------
Flow ==
  \/ WaitOver \/ NotConnected \/ Reuse \/ RefuseReboot \/ BootStart
  \/ BootFails \/ InfoFails \/ NextChunk \/ FlashFails \/ Watchdog \/ SettleOver
Usb == BootOk \/ InfoOk \/ ChunkDone \/ OldDone \/ OldContinues \/ PingLate
Poll == Ping \/ PingOk \/ PingLost

Next ==
  \/ \E k \in Kinds : Start(k)
  \/ ConfirmCancel
  \/ Flow \/ Usb \/ Poll
  \/ Stall \/ LateAnswer \/ Close \/ UsbDisconnect \/ Reattach \/ AttachFails

Spec == Init /\ [][Next]_vars

\* Timers fire and promises settle, except that of a transfer that stalled: "a wedged
\* probe/target leaves that read pending forever", so LateAnswer has no fairness.
\* Nothing makes the adapter come back, and nothing makes the user stop or begin an
\* operation.
FairSpec == Spec /\ WF_vars(Flow) /\ WF_vars(Usb) /\ WF_vars(Poll)

-----------------------------------------------------------------------------
(* Properties. *)

Writing == pc \in {"boot", "flash"}

\* "It must never pull the warning down out from under a hold": as long as a boot
\* or an awaited flash runs, through the nested hold and release of each boot, the
\* pings of the poll, drops and teardowns, the header says writing.
WarnedWhileWriting == Writing => safety.state = "writing"

\* "safe: the device answered AFTER the last hold was released": on a session that
\* stands, the warning is down only if the device attested after the last write.
\* A flash that came back after the watchdog gave up on it is outside the promise.
Attested == safety.state = "safe" /\ link = "up" /\ ~overrun => ~wrote

\* "It IS retryable once a NEW one exists": a retry never flashes through the
\* flasher on which an earlier attempt of the same flashImage failed.
NeverTheSameFlasher == pc = "flash" => flasher # "spent"

\* Every operation ends, and the modal with it, whatever fails, with one exception: the
\* boot and the readInfo of the getter have no watchdog, so behind a transfer that never
\* settles they wait for ever.  A flash does not, and neither do the probes of a cached
\* stub, which have time boxes of their own.
HungBoot == stalled /\ pc \in {"boot", "info"}
RunsEnd == (pc # "idle") ~> (pc = "idle" /\ modalPhase # "running") \/ []HungBoot

\* "Otherwise the warning would hang on settling forever": after an operation the
\* warning comes down, by the poll's ping, or because no link is left; only a transfer
\* that never settles can keep it up, one of an abandoned flash, at which the busy link
\* is not polled, or the readInfo after the header's boot.
HungLink == stalled /\ (old # NoCall \/ pc = "info")
WarningClears == (safety.state = "settling") ~> (safety.state # "settling") \/ []HungLink

\* "A dropped link is not a failed attempt; it spends its own budget": once
\* flashImage waits for a link to come back, it spends no attempt without one.
DropsSpendNoAttempt ==
  [][attempt' > attempt /\ deadHandleRetries > 0 => link = "up"]_vars
=============================================================================
