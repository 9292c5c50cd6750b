------------------------ MODULE PutStateMachineProofs ------------------------
(***************************************************************************)
(* Proofs about PutStateMachine, for any set of callers.  The history is a *)
(* path through the table, so its length tells the entries before the last *)
(* one; with that, types, the commit path, the finality of a verdict and the    *)
(* refinement of PutOutcome follow step by step.                           *)
(***************************************************************************)
EXTENDS PutStateMachine, TLAPS

\* The history is a path through the table, told by its length.
PathOK ==
  /\ history[Len(history)] = state
  /\ Len(history) >= 2 => history[1] = "NEW"
  /\ Len(history) >= 3 => history[2] = "UPLOADING"
  /\ Len(history) = 4 => history[3] = "VERIFYING"
  /\ Len(history) = 1 => state = "NEW"
  /\ Len(history) = 2 => state \in {"UPLOADING", "ABORTED"}
  /\ Len(history) = 3 => state \in {"VERIFYING", "ABORTED", "ORPHAN_CANDIDATE"}
  /\ Len(history) = 4 => state \in Terminal

IInv == TypeOK /\ PathOK /\ VerdictIsFinal

\* Arithmetic of the lengths and the indices of a history.
LEMMA SmallLength ==
  \A n \in 1 .. 4 :
    /\ n # 4 => n <= 3
    /\ \A i \in 1 .. n : i # n => i \in {1, 2, 3} /\ i < n
OBVIOUS

\* An entry of the history that is terminal is the current state.
LEMMA TerminalEntry ==
  ASSUME TypeOK, PathOK
  PROVE  \A i \in 1 .. Len(history) : history[i] \in Terminal => state = history[i]
<1> SUFFICES ASSUME NEW i \in 1 .. Len(history), i # Len(history)
             PROVE  history[i] \notin Terminal
  BY DEF PathOK
<1>1. i \in {1, 2, 3} /\ Len(history) \in 1 .. 4 /\ i < Len(history)
  BY SmallLength DEF TypeOK
<1>2. history[i] \in {"NEW", "UPLOADING", "VERIFYING"}
  BY <1>1 DEF PathOK
<1> QED BY <1>2 DEF Terminal

\* A new machine is on the empty path, and nobody has seen a verdict.
LEMMA InitIInv == Init => IInv
BY PutAssumption DEF Init, IInv, TypeOK, PathOK, VerdictIsFinal, Terminal, PutStates

\* An accepted request extends the path by one state and replaces no verdict.
LEMMA AcceptedStep ==
  ASSUME IInv, NEW c \in Callers, NEW requested \in PutStates,
         requested \in Transitions[state],
         state' = requested, history' = Append(history, requested),
         view' = [view EXCEPT ![c] = requested],
         reply' = [reply EXCEPT ![c] = "ok"], UNCHANGED snapshot
  PROVE  IInv'
<1>1. state \notin Terminal
  BY DEF Transitions, Terminal, PutStates, IInv, TypeOK
<1>2. Len(history) <= 3
  <2>1. Len(history) \in 1 .. 4
    BY DEF IInv, TypeOK
  <2>2. Len(history) # 4
    BY <1>1 DEF IInv, PathOK
  <2> QED BY <2>1, <2>2, SmallLength
<1>3. /\ Len(history') = Len(history) + 1
      /\ history'[Len(history) + 1] = requested
      /\ \A i \in 1 .. Len(history) : history'[i] = history[i]
      /\ history' \in Seq(PutStates)
  BY DEF IInv, TypeOK
<1>4. TypeOK'
  BY <1>2, <1>3 DEF IInv, TypeOK
<1>5. PathOK'
  <2>1. CASE Len(history) = 1
    BY <2>1, <1>3 DEF IInv, TypeOK, PathOK, Transitions, PutStates
  <2>2. CASE Len(history) = 2
    BY <2>2, <1>3, <1>1 DEF IInv, TypeOK, PathOK, Transitions, PutStates, Terminal
  <2>3. CASE Len(history) = 3
    BY <2>3, <1>3, <1>1 DEF IInv, TypeOK, PathOK, Transitions, PutStates, Terminal
  <2> QED BY <2>1, <2>2, <2>3, <1>2 DEF IInv, TypeOK
<1>6. VerdictIsFinal'
  BY <1>1 DEF IInv, TypeOK, VerdictIsFinal, Terminal
<1> QED BY <1>4, <1>5, <1>6 DEF IInv

\* transition, accepted or refused, keeps the invariant.
LEMMA TransitionStep ==
  ASSUME IInv, NEW c \in Callers, NEW requested, Transition(c, requested)
  PROVE  IInv'
<1>1. CASE requested \in PutStates /\ Allowed(c, requested)
  BY <1>1, AcceptedStep DEF Transition, Allowed
<1>2. CASE ~(requested \in PutStates /\ Allowed(c, requested))
  <2>1. UNCHANGED <<state, history, view, snapshot>>
    BY <1>2 DEF Transition
  <2>2. reply' \in [Callers -> {None, "ok", "ValueError", "ObjectInvalidRequest"}]
    BY <1>2 DEF Transition, IInv, TypeOK
  <2> QED BY <2>1, <2>2 DEF IInv, TypeOK, PathOK, VerdictIsFinal
<1> QED BY <1>1, <1>2

\* Reading, transition and fail keep the invariant.
LEMMA NextIInv == IInv /\ [Next]_vars => IInv'
<1> SUFFICES ASSUME IInv, [Next]_vars PROVE IInv'
  OBVIOUS
<1>1. ASSUME NEW c \in Callers, ReadState(c) PROVE IInv'
  BY <1>1 DEF ReadState, IInv, TypeOK, PathOK, VerdictIsFinal
<1>2. ASSUME NEW c \in Callers, ReadHistory(c) PROVE IInv'
  BY <1>2, TerminalEntry DEF ReadHistory, IInv, TypeOK, PathOK, VerdictIsFinal
<1>3. ASSUME NEW c \in Callers, NEW requested, Transition(c, requested) PROVE IInv'
  BY <1>3, TransitionStep
<1>4. ASSUME NEW c \in Callers, NEW possible \in BOOLEAN, Fail(c, possible) PROVE IInv'
  BY <1>4, TransitionStep DEF Fail
<1>5. CASE UNCHANGED vars
  BY <1>5 DEF vars, IInv, TypeOK, PathOK, VerdictIsFinal
<1> QED BY <1>1, <1>2, <1>3, <1>4, <1>5 DEF Next

\* The machine stays on the paths of its table, in every behaviour.
LEMMA Invariance == Spec => []IInv
BY InitIInv, NextIInv, PTL DEF Spec

\* Every reachable state of the machine is well typed, and its history never
\* exceeds four entries, for any number of threads.
THEOREM Typed == Spec => []TypeOK
BY Invariance, PTL DEF IInv

\* A committed put went through UPLOADING and VERIFYING.
THEOREM CommitPath == Spec => []CommittedOnlyAfterVerifying
<1>1. IInv => CommittedOnlyAfterVerifying
  <2> SUFFICES ASSUME IInv, state = "COMMITTED"
               PROVE  history = <<"NEW", "UPLOADING", "VERIFYING", "COMMITTED">>
    BY DEF CommittedOnlyAfterVerifying
  <2>1. history \in Seq(PutStates) /\ Len(history) \in 1 .. 4
    BY DEF IInv, TypeOK
  <2>2. Len(history) = 4
    BY <2>1, Z3 DEF IInv, PathOK
  <2>3. /\ history[1] = "NEW" /\ history[2] = "UPLOADING"
        /\ history[3] = "VERIFYING" /\ history[4] = "COMMITTED"
    BY <2>2 DEF IInv, PathOK
  <2> QED BY <2>1, <2>2, <2>3
<1> QED BY <1>1, Invariance, PTL

\* A terminal state that some thread has seen never changes.
THEOREM Final == Spec => []VerdictIsFinal
BY Invariance, PTL DEF IInv

-----------------------------------------------------------------------------
(* Refinement of PutOutcome *)

Started == Len(history) >= 2 /\ history[2] = "UPLOADING"
Decided == IF state \in Terminal THEN state ELSE None

\* An accepted request starts the upload, moves on without a decision, or
\* decides an undecided put.
LEMMA AcceptedStepRefines ==
  ASSUME IInv, NEW requested \in PutStates,
         requested \in Transitions[state],
         state' = requested, history' = Append(history, requested)
  PROVE  [Outcome!Next]_<<Started, Decided>>
<1>1. state \notin Terminal
  BY DEF Transitions, Terminal, PutStates, IInv, TypeOK
<1>2. Len(history) \in {1, 2, 3}
  <2>1. Len(history) \in 1 .. 4
    BY DEF IInv, TypeOK
  <2>2. Len(history) # 4
    BY <1>1 DEF IInv, PathOK
  <2> QED BY <2>1, <2>2
<1>3. /\ Len(history') = Len(history) + 1
      /\ history'[Len(history) + 1] = requested
      /\ \A i \in 1 .. Len(history) : history'[i] = history[i]
  BY DEF IInv, TypeOK
<1>4. Decided = None /\ Decided' = IF requested \in Terminal THEN requested ELSE None
  BY <1>1 DEF Decided
<1>5. CASE Len(history) = 1
  <2>1. state = "NEW" /\ requested \in {"UPLOADING", "ABORTED"}
    BY <1>5 DEF IInv, PathOK, Transitions, PutStates
  <2>2. Started = FALSE /\ Started' = (requested = "UPLOADING")
    BY <1>5, <1>3 DEF Started
  <2>3. CASE requested = "UPLOADING"
    BY <2>2, <2>3, <1>4, PutAssumption
    DEF Terminal, Outcome!Next, Outcome!Start, Started, Decided
  <2>4. CASE requested = "ABORTED"
    BY <2>2, <2>4, <1>4 DEF Terminal, Outcome!Next, Outcome!Decide, Started, Decided
  <2> QED BY <2>1, <2>3, <2>4
<1>6. CASE Len(history) \in {2, 3}
  <2>1. history[2] = "UPLOADING"
    <3>1. CASE Len(history) = 2
      BY <3>1, <1>1 DEF IInv, PathOK, Terminal
    <3>2. CASE Len(history) = 3
      BY <3>2 DEF IInv, PathOK
    <3> QED BY <1>6, <3>1, <3>2
  <2>2. Started = TRUE /\ Started' = TRUE
    BY <1>6, <1>3, <2>1 DEF Started
  <2>3. CASE requested \in Terminal
    BY <2>2, <2>3, <1>4 DEF Terminal, Outcome!Next, Outcome!Decide, Started, Decided
  <2>4. CASE requested \notin Terminal
    BY <2>2, <2>4, <1>4 DEF Started, Decided
  <2> QED BY <2>3, <2>4
<1> QED BY <1>2, <1>5, <1>6

\* Every step of the machine is a step of PutOutcome or leaves it unchanged.
LEMMA NextRefines == IInv /\ [Next]_vars => [Outcome!Next]_<<Started, Decided>>
<1> SUFFICES ASSUME IInv, [Next]_vars PROVE [Outcome!Next]_<<Started, Decided>>
  OBVIOUS
<1>1. ASSUME NEW c \in Callers, NEW requested, Transition(c, requested)
      PROVE  [Outcome!Next]_<<Started, Decided>>
  <2>1. CASE requested \in PutStates /\ Allowed(c, requested)
    BY <1>1, <2>1, AcceptedStepRefines DEF Transition, Allowed
  <2>2. CASE ~(requested \in PutStates /\ Allowed(c, requested))
    BY <1>1, <2>2 DEF Transition, Started, Decided
  <2> QED BY <2>1, <2>2
<1>2. CASE UNCHANGED <<state, history>>
  BY <1>2 DEF Started, Decided
<1>3. CASE UNCHANGED vars
  BY <1>3, <1>2 DEF vars
<1> QED BY <1>1, <1>2, <1>3 DEF Next, ReadState, ReadHistory, Fail

\* The shared machine implements PutOutcome: whatever any number of threads
\* request, the outcome is decided once, and bytes can be committed or orphaned
\* only after the upload started.
THEOREM Refinement == Spec => DecidesOnce
<1>1. Init => Outcome!Init
  BY DEF Init, Outcome!Init, Terminal
<1>2. IInv /\ [Next]_vars => [Outcome!Next]_<<Started, Decided>>
  BY NextRefines
<1> QED BY <1>1, <1>2, Invariance, PTL
        DEF Spec, DecidesOnce, Outcome!Spec, Started, Decided
=============================================================================
