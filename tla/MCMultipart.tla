----------------------------- MODULE MCMultipart -----------------------------
(* An instance of Multipart for TLC. *)
EXTENDS Multipart

SmallLimits == [minPartBytes |-> 2, maxPartBytes |-> 3, maxParts |-> 3]
=============================================================================
