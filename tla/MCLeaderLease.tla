--------------------------- MODULE MCLeaderLease ---------------------------
(* Instances of LeaderLease for TLC. *)
EXTENDS LeaderLease, TLC

CONSTANTS i1, i2, i3

\* i2's clock runs one unit ahead of the others
SkewedClocks == (i1 :> 0) @@ (i2 :> 1) @@ (i3 :> 0)
TwoClocks == (i1 :> 0) @@ (i2 :> 1)
=============================================================================
