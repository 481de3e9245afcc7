---------------------------- MODULE MCUserStore ----------------------------
(* Instances of UserStore for TLC. *)
EXTENDS UserStore, TLC

CONSTANTS i1, i2, scanner, web, u1, u2, u3, alice, bob

\* one replica: the scanner goroutine and an HTTP handler
OneReplica == [t \in {scanner, web} |-> i1]
\* two replicas: the leader's scanner, and a handler served by the other
TwoReplicas == (scanner :> i1) @@ (web :> i2)
\* two updates compete for alice's row; bob's is independent
ThreePhoneOf == (u1 :> alice) @@ (u2 :> alice) @@ (u3 :> bob)
TwoPhoneOf == (u1 :> alice) @@ (u2 :> alice)
=============================================================================
