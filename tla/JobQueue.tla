------------------------------ MODULE JobQueue ------------------------------
(***************************************************************************)
(* What the mailbox protocol promises: jobs are taken one at a time, in    *)
(* the order in which they were posted, each of them once, and no more     *)
(* than Capacity of them are waiting.                                      *)
(***************************************************************************)
EXTENDS Naturals, Sequences

CONSTANTS Jobs, Capacity, NoJob

VARIABLES queue, active

Init == queue = << >> /\ active = NoJob

Enqueue(j) ==
  /\ Len(queue) < Capacity
  /\ queue' = Append(queue, j)
  /\ UNCHANGED active

Take ==
  /\ active = NoJob /\ queue # << >>
  /\ active' = Head(queue)
  /\ queue' = Tail(queue)

Finish ==
  /\ active # NoJob
  /\ active' = NoJob
  /\ UNCHANGED queue

Next == (\E j \in Jobs : Enqueue(j)) \/ Take \/ Finish

Spec == Init /\ [][Next]_<<queue, active>>

=============================================================================
