-------------------------- MODULE MCKeyedBlobStore --------------------------
(* The instances of KeyedBlobStore that TLC checks.                         *)
EXTENDS KeyedBlobStore

CONSTANTS k1, k2, a, b, big, caller, drain

=============================================================================
