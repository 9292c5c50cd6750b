--------------------------- MODULE MCObjectPolicy ---------------------------
(* Instances of ObjectPolicy for TLC. *)
EXTENDS ObjectPolicy, TLC

CONSTANTS alice, bob, r1

TwoVersions == {<<1>>, <<2>>}
NoLimits == [object |-> 9, range |-> 9, page |-> 9]

Intent(m, once) == [mutability |-> m, publishOnce |-> once]
SomeImmutabilities ==
  {Intent("immutable", TRUE), Intent("immutable", FALSE),
   Intent("mutable", FALSE), Intent("mutable", TRUE)}

Retain(until, policy, enforce) ==
  [retainUntil |-> until, policy |-> policy, requireEnforcement |-> enforce]
SomeRetentions ==
  {Retain(1, FALSE, TRUE), Retain(2, TRUE, TRUE), Retain(2, FALSE, FALSE),
   Retain(None, TRUE, TRUE), Retain(None, FALSE, TRUE)}

Profile(p, m) == [profile |-> p, mutability |-> m]
SomeProfiles ==
  {Profile("object", "mutable"), Profile("media", "immutable"),
   Profile("artifact", "immutable")}

ClientSymmetry == Permutations(Clients)
=============================================================================
