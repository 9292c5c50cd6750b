------------------------ MODULE MCRegistryComposition ------------------------
(* Instances of RegistryComposition for TLC; the configurations give the     *)
(* constants.                                                                *)
EXTENDS RegistryComposition

CONSTANTS d, e1, p1, consumer, adapter, t1, t2
=============================================================================
