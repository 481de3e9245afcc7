-------------------------- MODULE MCAlertPipeline --------------------------
(* Instances of AlertPipeline for TLC. *)
EXTENDS AlertPipeline, TLC

CONSTANTS t1, t2, web1, web2

\* a market as it opens, cheaper by the drop, and traded twice as much
Quote(ask, volume) == [ask |-> ask, volume |-> volume]
OneQuote == {Quote(2, 1)}
ThreeQuotes == {Quote(2, 1), Quote(1, 1), Quote(2, 2)}

\* Where both or neither is watched the markets are interchangeable; only
\* safety is checked there.
MarketSymmetry == Permutations({t1, t2})
=============================================================================
