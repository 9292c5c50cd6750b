--------------------------- MODULE PutStateMachine ---------------------------
(***************************************************************************)
(* PutStateMachine of contracts/state.py: one machine shared by the        *)
(* threads of an adapter (uploader, canceller, reaper...), which read its  *)
(* state and its history and request transitions in any order.  Each       *)
(* method is one lock region, so one step.                                 *)
(***************************************************************************)
EXTENDS Naturals, Sequences

CONSTANTS
  Callers,  \* threads sharing the machine
  Unknown,  \* a requested value that is no PutState
  None      \* a caller has seen nothing yet

PutStates ==
  {"NEW", "UPLOADING", "VERIFYING", "COMMITTED", "ABORTED", "ORPHAN_CANDIDATE"}

ASSUME PutAssumption == Unknown \notin PutStates /\ None \notin PutStates

\* Mutant: a verified put that must be undone is moved on to ABORTED.
TransitionsAfterCommit ==
  [s \in PutStates |->
    CASE s = "NEW"       -> {"UPLOADING", "ABORTED"}
      [] s = "UPLOADING" -> {"VERIFYING", "ABORTED", "ORPHAN_CANDIDATE"}
      [] s = "VERIFYING" -> {"COMMITTED", "ABORTED", "ORPHAN_CANDIDATE"}
      [] s = "COMMITTED" -> {"ABORTED"}
      [] OTHER           -> {}]

\* Mutant: small payloads skip verification.
TransitionsUnverified ==
  [s \in PutStates |->
    CASE s = "NEW"       -> {"UPLOADING", "ABORTED"}
      [] s = "UPLOADING" -> {"VERIFYING", "COMMITTED", "ABORTED", "ORPHAN_CANDIDATE"}
      [] s = "VERIFYING" -> {"COMMITTED", "ABORTED", "ORPHAN_CANDIDATE"}
      [] OTHER           -> {}]

\* Mutant: every live state may fail either way.
TransitionsOrphanFromNew ==
  [s \in PutStates |->
    CASE s = "NEW"       -> {"UPLOADING", "ABORTED", "ORPHAN_CANDIDATE"}
      [] s = "UPLOADING" -> {"VERIFYING", "ABORTED", "ORPHAN_CANDIDATE"}
      [] s = "VERIFYING" -> {"COMMITTED", "ABORTED", "ORPHAN_CANDIDATE"}
      [] OTHER           -> {}]

\* _TRANSITIONS
Transitions ==
  [s \in PutStates |->
    CASE s = "NEW"       -> {"UPLOADING", "ABORTED"}
      [] s = "UPLOADING" -> {"VERIFYING", "ABORTED", "ORPHAN_CANDIDATE"}
      [] s = "VERIFYING" -> {"COMMITTED", "ABORTED", "ORPHAN_CANDIDATE"}
      [] OTHER           -> {}]

VARIABLES
  state,      \* _state
  history,    \* _history
  view,       \* the state a caller last read, or was returned by a transition
  snapshot,   \* the history tuple a caller last read
  reply       \* how a caller's last request ended

vars == <<state, history, view, snapshot, reply>>

Init ==
  /\ state = "NEW"
  /\ history = <<"NEW">>
  /\ view = [c \in Callers |-> None]
  /\ snapshot = [c \in Callers |-> << >>]
  /\ reply = [c \in Callers |-> None]

\* The state property.
ReadState(c) ==
  /\ view' = [view EXCEPT ![c] = state]
  /\ UNCHANGED <<state, history, snapshot, reply>>

\* The history property: a copy, not the live list.
ReadHistory(c) ==
  /\ snapshot' = [snapshot EXCEPT ![c] = history]
  /\ UNCHANGED <<state, history, view, reply>>

\* Mutant: the table is consulted with the state the caller last saw.
AllowedByView(c, requested) ==
  IF view[c] = None THEN requested \in Transitions[state]
                    ELSE requested \in Transitions[view[c]]

\* The table is consulted with the current state, under the lock.
Allowed(c, requested) == requested \in Transitions[state]

\* transition: PutState(requested) raises ValueError before the lock is taken.
Transition(c, requested) ==
  \/ /\ requested \notin PutStates
     /\ reply' = [reply EXCEPT ![c] = "ValueError"]
     /\ UNCHANGED <<state, history, view, snapshot>>
  \/ /\ requested \in PutStates
     /\ ~Allowed(c, requested)
     /\ reply' = [reply EXCEPT ![c] = "ObjectInvalidRequest"]
     /\ UNCHANGED <<state, history, view, snapshot>>
  \/ /\ requested \in PutStates
     /\ Allowed(c, requested)
     /\ state' = requested
     /\ history' = Append(history, requested)
     /\ view' = [view EXCEPT ![c] = requested]
     /\ reply' = [reply EXCEPT ![c] = "ok"]
     /\ UNCHANGED snapshot

\* fail(physical_commit_possible)
FailTarget(possible) == IF possible THEN "ORPHAN_CANDIDATE" ELSE "ABORTED"

Fail(c, possible) == Transition(c, FailTarget(possible))

Next ==
  \E c \in Callers :
    \/ ReadState(c)
    \/ ReadHistory(c)
    \/ \E requested \in PutStates \cup {Unknown} : Transition(c, requested)
    \/ \E possible \in BOOLEAN : Fail(c, possible)

Spec == Init /\ [][Next]_vars

-----------------------------------------------------------------------------
(* Properties *)

Terminal == {"COMMITTED", "ABORTED", "ORPHAN_CANDIDATE"}

\* Types of the state; a history never outgrows the longest path of the table.
TypeOK ==
  /\ state \in PutStates
  /\ history \in Seq(PutStates)
  /\ Len(history) \in 1 .. 4
  /\ view \in [Callers -> PutStates \cup {None}]
  /\ snapshot \in [Callers -> Seq(PutStates)]
  /\ reply \in [Callers -> {None, "ok", "ValueError", "ObjectInvalidRequest"}]

\* A put reaches COMMITTED through UPLOADING and VERIFYING, in that order and
\* whatever other callers requested meanwhile: "metadata can be committed" only
\* after verification.
CommittedOnlyAfterVerifying ==
  state = "COMMITTED" => history = <<"NEW", "UPLOADING", "VERIFYING", "COMMITTED">>

\* A terminal state that any caller has ever seen, in the state, in a history
\* tuple or as the answer to its own request, is still the machine's state:
\* two racing callers cannot both decide the put.
VerdictIsFinal ==
  \A c \in Callers :
    /\ view[c] \in Terminal => state = view[c]
    /\ \A i \in 1 .. Len(snapshot[c]) :
         snapshot[c][i] \in Terminal => state = snapshot[c][i]

Outcome == INSTANCE PutOutcome WITH
  Undecided <- None,
  started <- Len(history) >= 2 /\ history[2] = "UPLOADING",
  outcome <- IF state \in Terminal THEN state ELSE None

\* The shared machine decides the outcome of a put exactly as PutOutcome does.
DecidesOnce == Outcome!Spec

=============================================================================
