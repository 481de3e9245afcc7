------------------------------- MODULE MCDigest -------------------------------
(* An instance of Digest for TLC: two markets of one series and one of another. *)
EXTENDS Digest

CONSTANTS m1, m2, m3

ThreeMarkets == {m1, m2, m3}
TwoSeries == [m \in ThreeMarkets |-> IF m = m3 THEN "b" ELSE "a"]
=============================================================================
