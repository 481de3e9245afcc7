------------------------------ MODULE MCScanLoop ------------------------------
(* Instances of ScanLoop, and of KalshiClient within it, for TLC. *)
EXTENDS ScanLoop

TwoItems == {1, 2}
=============================================================================
