------------------------- MODULE MCDeviceConnection -------------------------
(* The instances of DeviceConnection that TLC checks.                      *)
EXTENDS DeviceConnection, TLC

CONSTANTS o1, o2

=============================================================================
