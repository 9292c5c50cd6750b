---------------------------- MODULE MCConformance ----------------------------
(* Instances of Conformance for TLC; the configurations give the constants. *)
EXTENDS Conformance
=============================================================================
