------------------------------ MODULE Multipart ------------------------------
(***************************************************************************)
(* Multipart uploads (contracts/multipart.py): an uploader plans parts     *)
(* with MultipartLimits.validate, uploads them in any order and again when *)
(* it likes, and completes with the MultipartParts it holds, which         *)
(* MultipartCompletion checks.  The adapter behind the MultipartAdapter    *)
(* protocol is external: it keeps the last upload of each number and       *)
(* completes only with the verification tokens it gave for these.          *)
(*                                                                         *)
(* The bytes of the Object are its positions 1 .. total, a digest is       *)
(* represented by the bytes.                                               *)
(***************************************************************************)
EXTENDS Integers, SequencesExt

CONSTANTS
  Limits,      \* [minPartBytes, maxPartBytes, maxParts], advertised
  Totals,      \* lengths of Objects
  PartSizes,   \* part sizes that an uploader may ask for
  MaxUploads,  \* bound on the uploads of a session
  None

ASSUME MultipartAssumption ==
  /\ Limits \in [minPartBytes : Nat \ {0}, maxPartBytes : Nat \ {0}, maxParts : Nat \ {0}]
  /\ Limits.minPartBytes <= Limits.maxPartBytes
  /\ Totals \subseteq Nat
  /\ PartSizes \subseteq Nat
  /\ MaxUploads \in Nat

ASSUME NoneAssumption ==
  /\ None \notin [total : Nat, size : Nat, count : Nat]
  /\ None \notin [bytes : Seq(Nat), token : Nat]

VARIABLES
  plan,      \* of the session: [total, size, count], or None
  stored,    \* the adapter's part of each number: [bytes, token], or None
  receipts,  \* the MultipartParts that reached the uploader
  uploads,   \* number of uploads, from which tokens are made
  object     \* the bytes of the completed Object, or None

vars == <<plan, stored, receipts, uploads, object>>

-----------------------------------------------------------------------------
(* MultipartLimits.validate *)

\* An empty Object has one part, too.
PartCount(total, size) ==
  IF total = 0 THEN 1 ELSE (total + size - 1) \div size

\* Mutant: the part count is not limited.
ValidPlanAnyCount(total, size) ==
  size > 0 /\ size \in Limits.minPartBytes .. Limits.maxPartBytes

ValidPlan(total, size) ==
  /\ size > 0
  /\ size \in Limits.minPartBytes .. Limits.maxPartBytes
  /\ PartCount(total, size) <= Limits.maxParts

\* The positions that part n of a plan carries: size bytes, the last part the
\* rest.
FirstByte(p, n) == (n - 1) * p.size + 1
LastByte(p, n) == IF n * p.size < p.total THEN n * p.size ELSE p.total
PartBytes(p, n) == [i \in 1 .. LastByte(p, n) - FirstByte(p, n) + 1 |-> FirstByte(p, n) + i - 1]

-----------------------------------------------------------------------------
(* MultipartCompletion *)

\* Mutant: parts are taken in the order given.
InOrderAsGiven(parts) == parts

\* The parts sorted by number; the sort is stable.
Before(parts, j, i) ==
  parts[j].number < parts[i].number \/ (parts[j].number = parts[i].number /\ j < i)

Ranks(parts) ==
  [i \in DOMAIN parts |-> Cardinality({j \in DOMAIN parts : Before(parts, j, i)}) + 1]

InOrder(parts) ==
  LET rank == Ranks(parts) IN
  [n \in DOMAIN parts |-> parts[CHOOSE i \in DOMAIN parts : rank[i] = n]]

\* Mutant: numbers must start at one and leave no gap, but may repeat.
ContiguousSet(parts) ==
  {parts[i].number : i \in DOMAIN parts} =
    1 .. Max({parts[i].number : i \in DOMAIN parts})

Contiguous(parts) == \A i \in DOMAIN parts : parts[i].number = i

ByteLength(parts) ==
  LET sum[n \in 0 .. Len(parts)] ==
        IF n = 0 THEN 0 ELSE sum[n - 1] + Len(parts[n].bytes)
  IN sum[Len(parts)]

CompletionAccepts(parts, length) ==
  LET ordered == InOrder(parts) IN
  /\ parts # << >>
  /\ Contiguous(ordered)
  /\ ByteLength(ordered) = length

-----------------------------------------------------------------------------
Init ==
  /\ plan = None
  /\ stored = << >>
  /\ receipts = {}
  /\ uploads = 0
  /\ object = None

\* begin_multipart, with a part size that the limits admit.
Begin(total, size) ==
  /\ plan = None \/ object # None
  /\ ValidPlan(total, size)
  /\ plan' = [total |-> total, size |-> size, count |-> PartCount(total, size)]
  /\ stored' = [n \in 1 .. PartCount(total, size) |-> None]
  /\ receipts' = {}
  /\ uploads' = 0
  /\ object' = None

Truncated(bytes) == SubSeq(bytes, 1, Len(bytes) - 1)

\* upload_part: the stream may end early when no length is declared for it, and
\* the answer may be lost.
Upload(n) ==
  /\ plan # None
  /\ object = None
  /\ uploads < MaxUploads
  /\ uploads' = uploads + 1
  /\ \E bytes \in {PartBytes(plan, n), Truncated(PartBytes(plan, n))} :
       /\ stored' = [stored EXCEPT ![n] = [bytes |-> bytes, token |-> uploads]]
       /\ \E arrived \in
               {{}, {[number |-> n, bytes |-> bytes, verificationToken |-> uploads]}} :
            receipts' = receipts \cup arrived
  /\ UNCHANGED <<plan, object>>

\* The adapter knows the tokens of the parts it holds.
Current(part) ==
  /\ stored[part.number] # None
  /\ stored[part.number].token = part.verificationToken

Accepted(parts) ==
  /\ CompletionAccepts(parts, plan.total)
  /\ \A i \in DOMAIN parts : Current(parts[i])

\* The lists of parts that an uploader may complete with: any of its receipts
\* in any order, some of them perhaps twice.
Manifests == BoundedSeq(receipts, plan.count + 1)

\* The bytes of several parts, one after the other.
Joined(chunks) ==
  LET joined[n \in 0 .. Len(chunks)] ==
        IF n = 0 THEN << >> ELSE joined[n - 1] \o chunks[n]
  IN joined[Len(chunks)]

\* complete_multipart; a rejected one changes nothing.
Complete(parts) ==
  /\ object = None
  /\ Accepted(parts)
  /\ object' = LET ordered == InOrder(parts)
                IN Joined([n \in DOMAIN parts |-> stored[ordered[n].number].bytes])
  /\ UNCHANGED <<plan, stored, receipts, uploads>>

\* abort_multipart
Abort ==
  /\ plan # None
  /\ object = None
  /\ plan' = None
  /\ stored' = << >>
  /\ receipts' = {}
  /\ uploads' = 0
  /\ UNCHANGED object

Next ==
  \/ \E total \in Totals, size \in PartSizes : Begin(total, size)
  \/ plan # None /\ \E n \in 1 .. plan.count : Upload(n)
  \/ plan # None /\ \E parts \in Manifests : Complete(parts)
  \/ Abort

Spec == Init /\ [][Next]_vars

-----------------------------------------------------------------------------
(* Properties *)

\* A session is planned within the advertised limits, and its parts carry every
\* byte of the Object once: no part is too long, only the last one may be short,
\* and none but that of an empty Object is empty.
PlanCovers ==
  plan # None =>
    /\ plan.count <= Limits.maxParts
    /\ \A n \in 1 .. plan.count :
         Len(PartBytes(plan, n)) \in
           (IF n < plan.count THEN Limits.minPartBytes
            ELSE IF plan.total = 0 THEN 0 ELSE 1) .. Limits.maxPartBytes
    /\ \A b \in 1 .. plan.total :
         \E n \in 1 .. plan.count :
           b \in FirstByte(plan, n) .. LastByte(plan, n)
           /\ \A m \in 1 .. plan.count :
                b \in FirstByte(plan, m) .. LastByte(plan, m) => m = n

\* Each planned part once, in full, as the adapter has it.
Whole(parts) ==
  /\ Len(parts) = plan.count
  /\ \A n \in 1 .. plan.count : \E i \in DOMAIN parts :
       /\ parts[i].number = n
       /\ parts[i].bytes = PartBytes(plan, n)
       /\ stored[n].token = parts[i].verificationToken

\* A completion is accepted exactly when the parts are the whole Object: lengths
\* that add up and numbers without a gap rule out missing, repeated, truncated
\* and replaced parts, and parts in another order than they were numbered are no
\* reason to reject.
AcceptsExactlyWhole ==
  plan # None => \A parts \in Manifests : Accepted(parts) <=> Whole(parts)

\* A completed Object is the uploader's, byte for byte, although parts came out
\* of order, more than once, truncated, or with their answers lost.
ObjectIntact == object # None => object = [i \in 1 .. plan.total |-> i]

=============================================================================
