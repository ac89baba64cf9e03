--------------------------- MODULE MCSdMigration ---------------------------
(* The instances of SdMigration that TLC checks.                            *)
EXTENDS SdMigration

CONSTANTS f1, f2, a, b

=============================================================================
