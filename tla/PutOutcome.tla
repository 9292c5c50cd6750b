------------------------------ MODULE PutOutcome ------------------------------
(***************************************************************************)
(* What the put state machine promises: the outcome of a put is decided    *)
(* once and for all, and an outcome under which bytes may exist (committed *)
(* or an orphan candidate) only once uploading has started.                *)
(***************************************************************************)
CONSTANT Undecided

VARIABLES started, outcome

Init ==
  /\ started = FALSE
  /\ outcome = Undecided

Start ==
  /\ outcome = Undecided
  /\ started' = TRUE
  /\ UNCHANGED outcome

Decide(o) ==
  /\ outcome = Undecided
  /\ o \in {"COMMITTED", "ORPHAN_CANDIDATE"} => started
  /\ outcome' = o
  /\ UNCHANGED started

Next == Start \/ \E o \in {"COMMITTED", "ABORTED", "ORPHAN_CANDIDATE"} : Decide(o)

Spec == Init /\ [][Next]_<<started, outcome>>

=============================================================================
