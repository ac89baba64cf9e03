--------------------------- MODULE MCPrepareState ---------------------------
(* The instances of PrepareState that TLC checks.                          *)
EXTENDS PrepareState, TLC

CONSTANTS t1, t2, f1, f2, c1, c2
Interchangeable == Permutations({c1, c2})

\* Bounds: a behaviour ends with its first disturbance, and after an eviction with the first
\* overlap.
InFlight == {c \in Calls : calls[c].at # "idle"}
Bounds == Undisturbed /\ (lossy => Cardinality(InFlight) # 2)

=============================================================================
