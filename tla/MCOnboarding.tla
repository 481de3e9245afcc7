---------------------------- MODULE MCOnboarding ----------------------------
(* Two categories, two goroutines serving forms. *)
EXTENDS Onboarding
CONSTANTS c1, c2, web1, web2
=============================================================================
