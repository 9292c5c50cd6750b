------------------------- MODULE RegistryComposition -------------------------
(***************************************************************************)
(* Which PayloadRegistry the two ends of a composition use.  An end is     *)
(* constructed with a registry or none and keeps what registry or default  *)
(* yields (the released constructors that the comment in                   *)
(* _DefaultPayloadRegistry.__bool__ names are outside the repository).     *)
(* Python takes the truth of a PayloadRegistry from its __len__.           *)
(***************************************************************************)
EXTENDS Naturals, FiniteSets

CONSTANTS
  None,
  Default,   \* default_payload_registry()
  Explicit,  \* registries that the application constructs
  Private,   \* registries that constructors make when they get none
  Ends,      \* consumers and adapters
  Tokens

VARIABLES
  sources,  \* _sources: the tokens registered in each registry
  fallback, \* what an end falls back to
  given,    \* what an end was constructed with: a registry, or None
  held      \* the registry that it uses, or None before its construction

vars == <<sources, fallback, given, held>>

Registries == {Default} \cup Explicit \cup Private

Init ==
  /\ sources = [r \in Registries |-> {}]
  /\ fallback \in [Ends -> {Default} \cup Private]
  /\ given = [e \in Ends |-> None]
  /\ held = [e \in Ends |-> None]

\* bool(registry): __bool__ of the default registry, __len__ of the others.
Truthy(r) == r = Default \/ Cardinality(sources[r]) > 0

\* An end is constructed with the default or an explicit registry, or none.
Construct(e, r) ==
  /\ held[e] = None
  /\ given' = [given EXCEPT ![e] = r]
  /\ held' = [held EXCEPT ![e] = IF r # None /\ Truthy(r) THEN r ELSE fallback[e]]
  /\ UNCHANGED <<sources, fallback>>

\* The application registers a payload in a registry that it can name.
Register(r, t) ==
  /\ \A q \in Registries : t \notin sources[q]
  /\ sources' = [sources EXCEPT ![r] = @ \cup {t}]
  /\ UNCHANGED <<fallback, given, held>>

\* A payload is released, or consumed by its transfer.
Release(r, t) ==
  /\ t \in sources[r]
  /\ sources' = [sources EXCEPT ![r] = @ \ {t}]
  /\ UNCHANGED <<fallback, given, held>>

Next ==
  \/ \E e \in Ends, r \in {None, Default} \cup Explicit : Construct(e, r)
  \/ \E r \in {Default} \cup Explicit, t \in Tokens : Register(r, t) \/ Release(r, t)

Spec == Init /\ [][Next]_vars

-----------------------------------------------------------------------------
(* Properties *)

\* An end resolves every payload of registry r.
Resolves(e, r) == sources[r] \subseteq sources[held[e]]

\* A composition that is given one explicit registry at its ends resolves what
\* is registered in it ("share one instance at both ends of a custom
\* composition").
ExplicitShared ==
  \A r \in Explicit : (\A e \in Ends : given[e] = r) => \A e \in Ends : Resolves(e, r)

=============================================================================
