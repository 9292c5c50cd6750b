------------------------------ MODULE ByteRange ------------------------------
(***************************************************************************)
(* The byte ranges of contracts/ranges.py: zero-based, inclusive, given by *)
(* a start and an optional end, or by a suffix length.                     *)
(***************************************************************************)
EXTENDS Integers

CONSTANT None  \* Python's None

ResolvedRanges == [start : Int, end : Int, totalLength : Int]

ASSUME NoneAssumption == None \notin Int /\ None \notin ResolvedRanges

\* ByteRange.__post_init__ and from_mapping: the mappings that make a range.
ValidRange(r) ==
  \/ /\ r.suffixLength # None
     /\ r.start = None
     /\ r.end = None
     /\ r.suffixLength > 0
  \/ /\ r.suffixLength = None
     /\ r.start # None
     /\ r.end # None => r.end >= r.start

\* Mutant: the inclusive end is not counted.
RequestedLengthExclusive(r) ==
  IF r.suffixLength # None THEN r.suffixLength
  ELSE IF r.end = None THEN None ELSE r.end - r.start

\* requested_length, which becomes the limit a target must support; an
\* open-ended range asks for none.
RequestedLength(r) ==
  IF r.suffixLength # None THEN r.suffixLength
  ELSE IF r.end = None THEN None ELSE r.end - r.start + 1

Lesser(a, b) == IF a <= b THEN a ELSE b

\* ResolvedByteRange; None stands for RangeNotSatisfiable.
ResolvedRange(start, end, total) ==
  IF total = 0 \/ start > end \/ end >= total THEN None
  ELSE [start |-> start, end |-> end, totalLength |-> total]

\* Mutant: a suffix is taken from the front of the object.
ResolveSuffixAsPrefix(r, total) ==
  IF total = 0 THEN None
  ELSE IF r.suffixLength # None
    THEN ResolvedRange(0, Lesser(r.suffixLength, total) - 1, total)
  ELSE IF r.start >= total THEN None
  ELSE ResolvedRange(r.start,
                     IF r.end = None THEN total - 1 ELSE Lesser(r.end, total - 1),
                     total)

\* Mutant: an end past the object is refused, not cut.
ResolveRefusesPastEnd(r, total) ==
  IF total = 0 THEN None
  ELSE IF r.suffixLength # None
    THEN ResolvedRange(total - Lesser(r.suffixLength, total), total - 1, total)
  ELSE IF r.start >= total THEN None
  ELSE ResolvedRange(r.start, IF r.end = None THEN total - 1 ELSE r.end, total)

\* ByteRange.resolve against an object of total bytes.
Resolve(r, total) ==
  IF total = 0 THEN None
  ELSE IF r.suffixLength # None
    THEN ResolvedRange(total - Lesser(r.suffixLength, total), total - 1, total)
  ELSE IF r.start >= total THEN None
  ELSE ResolvedRange(r.start,
                     IF r.end = None THEN total - 1 ELSE Lesser(r.end, total - 1),
                     total)

ResolvedLength(v) == v.end - v.start + 1

-----------------------------------------------------------------------------
(* What a range means, without arithmetic on its ends. *)

\* The positions of an object of total bytes that r asks for: those from its
\* start up to its end, or the last suffixLength ones.
Wanted(r, total) ==
  {i \in 0 .. total - 1 :
     IF r.suffixLength # None THEN i + r.suffixLength >= total
     ELSE r.start <= i /\ (r.end # None => i <= r.end)}

\* The positions that a resolved range covers.
Covered(v) == IF v = None THEN {} ELSE v.start .. v.end

=============================================================================
