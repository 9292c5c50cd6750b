--------------------------- MODULE MCObjectService ---------------------------
(* Instances of ObjectService for TLC. *)
EXTENDS ObjectService, TLC

CONSTANTS alice, bob, r1, r2

TwoVersions == {<<1>>, <<1, 2>>}
EmptyOrThree == {<< >>, <<1, 2, 3>>}

Span(a, b) == [start |-> a, end |-> b, suffixLength |-> None]
Suffix(n) == [start |-> None, end |-> None, suffixLength |-> n]

\* On an object of one byte the first ends past it, the second starts past it
\* and the last is longer than it.
FewRanges == {Span(0, 1), Span(1, None), Suffix(1), Suffix(2)}

\* Ranges around objects of up to three bytes, invalid ones among them.
AllRanges ==
  {Span(a, b) : a \in 0 .. 3, b \in (0 .. 3) \cup {None}}
  \cup {Suffix(n) : n \in 0 .. 4}
  \cup {Span(None, None), [start |-> 0, end |-> None, suffixLength |-> 1]}

SmallLimits == [object |-> 2, range |-> 2, page |-> 1]

ClientSymmetry == Permutations(Clients)
=============================================================================
