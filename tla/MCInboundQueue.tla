--------------------------- MODULE MCInboundQueue ---------------------------
(* Instances of InboundQueue for TLC. *)
EXTENDS InboundQueue, TLC

CONSTANTS m1, m2, m3, paused

\* two commands replace one setting; a third only reads
TwoOfOneSetting == (m1 :> paused) @@ (m2 :> paused) @@ (m3 :> NoSetting)
=============================================================================
