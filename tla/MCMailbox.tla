----------------------------- MODULE MCMailbox -----------------------------
(* The instances of Mailbox that TLC checks.                               *)
EXTENDS Mailbox, TLC

CONSTANTS f1, f2, h1, h2, A, B

\* f1, h1 and h2 run on the stub that is up first, f2 on the next one.
MCOwner == [op \in Ops |-> IF op = f2 THEN B ELSE A]

=============================================================================
