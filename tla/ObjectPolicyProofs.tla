------------------------- MODULE ObjectPolicyProofs -------------------------
(* Theorems about ObjectPolicy. *)
EXTENDS ObjectPolicy, TLAPS

\* A stored Object whose put required enforcement is on a target that enforces.
EnforcedInv ==
  \A k \in Keys :
    objects[k] # None /\ objects[k].retention # None
      /\ objects[k].retention.requireEnforcement =>
        "retention-enforcement" \in advertised

\* What is stored in a Resource with a strong profile is immutable.
ImmutableInv ==
  \A k \in Keys :
    objects[k] # None
      /\ (profile[k[1]].mutability = "immutable" \/ profile[k[1]].profile = "artifact") =>
        objects[k].immutability.mutability = "immutable"

IInv == TypeOK /\ EnforcedInv /\ ImmutableInv

\* Admitted Operations go into flight as they are.
LEMMA NormalizeKeeps ==
  ASSUME NEW x \in Puts \cup Deletes
  PROVE  Normalize(x) = x
<1>1. CASE x \in Puts
  BY <1>1 DEF Puts, Normalize
<1>2. CASE x \in Deletes
  BY <1>2 DEF Deletes, Normalize
<1> QED BY <1>1, <1>2

\* The intent that a put resolves to is at least as strong as the profile.
LEMMA SelectedStrong ==
  ASSUME NEW p \in Profiles, NEW i \in Immutabilities \cup {None},
         ~Weakens(p, Selected(p, i))
  PROVE  /\ Selected(p, i) \in {j \in [mutability : {"immutable", "mutable"},
                                       publishOnce : BOOLEAN] : ValidImmutability(j)}
         /\ p.mutability = "immutable" \/ p.profile = "artifact" =>
              Selected(p, i).mutability = "immutable"
  BY CatalogAssumption, PolicyAssumption DEF Selected, Weakens, ValidImmutability

LEMMA KeyOfType ==
  ASSUME NEW x \in Puts \cup Deletes
  PROVE  KeyOf(x) \in Keys
<1>1. CASE x \in Puts
  BY <1>1 DEF KeyOf, Keys, Puts
<1>2. CASE x \in Deletes
  BY <1>2 DEF KeyOf, Keys, Deletes
<1> QED BY <1>1, <1>2

LEMMA InitInv == Init => IInv
BY PolicyAssumption DEF Init, IInv, TypeOK, EnforcedInv, ImmutableInv

\* What a put in flight may store.
LEMMA StoredByPut ==
  ASSUME TypeOK, NEW c \in Clients, pending[c] # None, pending[c].method = "put",
         NEW d \in Contents,
         ~Weakens(profile[pending[c].resource],
                  Selected(profile[pending[c].resource], pending[c].immutability))
  PROVE  /\ pending[c] \in Puts
         /\ pending[c].resource \in Resources
         /\ pending[c].immutability \in Immutabilities \cup {None}
         /\ [content |-> d,
             immutability |-> Selected(profile[pending[c].resource], pending[c].immutability),
             retention |-> pending[c].retention] \in Objects
         /\ pending[c].retention # None /\ pending[c].retention.requireEnforcement =>
              "retention-enforcement" \in advertised
<1> DEFINE x == pending[c]
<1>1. x \in Puts /\ Accepts(x) /\ SupportedBy(x, advertised)
  BY DEF TypeOK, Deletes
<1>2. /\ x.resource \in Resources
      /\ x.immutability \in Immutabilities \cup {None}
      /\ x.retention \in Retentions \cup {None}
  BY <1>1 DEF Puts
<1>3. profile[x.resource] \in Profiles
  BY <1>2 DEF TypeOK
<1>4. x.retention \in {r \in Retentions : ValidRetention(r)} \cup {None}
  BY <1>1, <1>2 DEF Accepts, PutAccepts
<1>5. x.retention # None /\ x.retention.requireEnforcement =>
        "retention-enforcement" \in advertised
  BY <1>1 DEF SupportedBy, Guarantees, IntentGuarantees
<1> QED BY <1>1, <1>2, <1>3, <1>4, <1>5, SelectedStrong DEF Objects

LEMMA NextInv == IInv /\ [Next]_vars => IInv'
<1> SUFFICES ASSUME IInv, [Next]_vars PROVE IInv'
  OBVIOUS
<1> USE DEF IInv
<1>1. CASE UNCHANGED vars
  BY <1>1 DEF vars, target, TypeOK, EnforcedInv, ImmutableInv
<1>2. CASE Tick
  BY <1>2, PolicyAssumption DEF Tick, target, TypeOK, EnforcedInv, ImmutableInv
<1>3. ASSUME NEW c \in Clients, NEW x \in Puts \cup Deletes, Submit(c, x)
      PROVE  IInv'
  <2>1. /\ pending' = [pending EXCEPT ![c] = x]
        /\ UNCHANGED <<now, advertised, profile, objects>>
        /\ Accepts(x) /\ SupportedBy(x, advertised)
    BY <1>3, NormalizeKeeps DEF Submit, target
  <2>2. TypeOK'
    BY <2>1 DEF TypeOK
  <2> QED BY <2>1, <2>2 DEF EnforcedInv, ImmutableInv
<1>4. ASSUME NEW c \in Clients, ExecutePut(c)
      PROVE  IInv'
  <2> DEFINE x == pending[c]
             intent == Selected(profile[x.resource], x.immutability)
  <2>1. x # None /\ x.method = "put" /\ pending' = [pending EXCEPT ![c] = None]
        /\ UNCHANGED <<now, advertised, profile>>
    BY <1>4 DEF ExecutePut, target
  <2>2. CASE UNCHANGED objects
    BY <2>1, <2>2 DEF TypeOK, EnforcedInv, ImmutableInv
  <2>3. ASSUME NEW d \in Contents, ~Weakens(profile[x.resource], intent),
               objects' = [objects EXCEPT ![KeyOf(x)] =
                             [content |-> d, immutability |-> intent,
                              retention |-> x.retention]]
        PROVE  IInv'
    <3> DEFINE o == [content |-> d, immutability |-> intent, retention |-> x.retention]
    <3>1. /\ x \in Puts /\ x.resource \in Resources
          /\ x.immutability \in Immutabilities \cup {None}
          /\ o \in Objects
          /\ x.retention # None /\ x.retention.requireEnforcement =>
               "retention-enforcement" \in advertised
      BY <2>1, <2>3, StoredByPut
    <3>2. KeyOf(x) \in Keys /\ KeyOf(x)[1] = x.resource
      BY <3>1, KeyOfType DEF KeyOf
    <3>3. \A k \in Keys : objects'[k] = IF k = KeyOf(x) THEN o ELSE objects[k]
      BY <2>3, <3>2 DEF TypeOK
    <3>4. objects' \in [Keys -> Objects \cup {None}]
      BY <2>3, <3>1, <3>2 DEF TypeOK
    <3>5. TypeOK'
      BY <2>1, <3>4 DEF TypeOK
    <3>6. EnforcedInv'
      BY <2>1, <3>1, <3>3 DEF EnforcedInv
    <3>7. profile[x.resource] \in Profiles
      BY <3>1 DEF TypeOK
    <3>8. profile[x.resource].mutability = "immutable" \/ profile[x.resource].profile = "artifact"
            => o.immutability.mutability = "immutable"
      BY <2>3, <3>1, <3>7, SelectedStrong
    <3>9. ImmutableInv'
      BY <2>1, <3>2, <3>3, <3>8 DEF ImmutableInv
    <3> QED BY <3>5, <3>6, <3>9
  <2> QED BY <1>4, <2>2, <2>3 DEF ExecutePut, target
<1>5. ASSUME NEW c \in Clients, ExecuteDelete(c)
      PROVE  IInv'
  <2>1. /\ pending[c] # None /\ pending[c].method = "delete"
        /\ pending' = [pending EXCEPT ![c] = None]
        /\ UNCHANGED <<now, advertised, profile>>
        /\ objects' = objects \/ objects' = [objects EXCEPT ![KeyOf(pending[c])] = None]
    BY <1>5 DEF ExecuteDelete, target
  <2>2. TypeOK' /\ \A k \in Keys : objects'[k] \in {objects[k], None}
    BY <2>1 DEF TypeOK
  <2> QED BY <2>1, <2>2 DEF EnforcedInv, ImmutableInv
<1> QED BY <1>1, <1>2, <1>3, <1>4, <1>5 DEF Next, Execute

\* The state is well typed: stored intents are valid and only operations that the
\* target can meet are in flight.
THEOREM Typed == Spec => []TypeOK
<1>1. Spec => []IInv
  BY InitInv, NextInv, PTL DEF Spec
<1>2. IInv => TypeOK
  BY DEF IInv
<1> QED BY <1>1, <1>2, PTL

\* A step removes an Object only as an allowed delete of its own version.
LEMMA RemovedByDelete ==
  ASSUME IInv, [Next]_vars, NEW k \in Keys, objects[k] # None, objects'[k] = None
  PROVE  \E c \in Clients : /\ pending[c] # None /\ pending[c].method = "delete"
                            /\ k = KeyOf(pending[c]) /\ DeleteAllowed(pending[c])
<1> USE DEF IInv
<1>1. CASE UNCHANGED objects
  BY <1>1
<1>2. ASSUME NEW c \in Clients, ExecutePut(c), ~UNCHANGED objects
      PROVE  FALSE
  <2> DEFINE x == pending[c]
             intent == Selected(profile[x.resource], x.immutability)
  <2>1. PICK d \in Contents :
          /\ ~Weakens(profile[x.resource], intent)
          /\ objects' = [objects EXCEPT ![KeyOf(x)] =
                           [content |-> d, immutability |-> intent,
                            retention |-> x.retention]]
    BY <1>2 DEF ExecutePut, target
  <2>2. [content |-> d, immutability |-> intent, retention |-> x.retention] \in Objects
    BY <1>2, <2>1, StoredByPut DEF ExecutePut, target
  <2> QED BY <2>1, <2>2, ObjectAssumption DEF TypeOK
<1>3. ASSUME NEW c \in Clients, ExecuteDelete(c), ~UNCHANGED objects
      PROVE  k = KeyOf(pending[c]) /\ DeleteAllowed(pending[c])
             /\ pending[c] # None /\ pending[c].method = "delete"
  BY <1>3 DEF ExecuteDelete, TypeOK
<1>4. \A c \in Clients, x \in Puts \cup Deletes : Submit(c, x) => UNCHANGED objects
  BY DEF Submit, target
<1> QED BY <1>1, <1>2, <1>3, <1>4 DEF Next, Execute, Tick, vars

\* Retention that must be enforced is: whatever the target advertises, no step
\* removes an Object that Retained protects.
THEOREM RetentionHolds == Spec => RetentionHonoured
<1>1. IInv /\ [Next]_vars =>
        \A k \in Keys : Retained(objects[k], now) => objects'[k] # None
  <2> SUFFICES ASSUME IInv, [Next]_vars, NEW k \in Keys,
                      Retained(objects[k], now), objects'[k] = None
               PROVE  FALSE
    OBVIOUS
  <2>1. PICK c \in Clients : k = KeyOf(pending[c]) /\ DeleteAllowed(pending[c])
    BY RemovedByDelete DEF Retained
  <2>2. "retention-enforcement" \in advertised
    BY DEF IInv, EnforcedInv, Retained
  <2>3. PermitsDelete(objects[k].retention, now)
    BY <2>1, <2>2 DEF DeleteAllowed, Retained
  <2>4. objects[k] \in Objects
    BY DEF IInv, TypeOK, Retained
  <2>5. objects[k].retention.retainUntil \in Nat /\ now \in Nat
    BY <2>3, <2>4, CatalogAssumption, PolicyAssumption
    DEF Objects, Retained, PermitsDelete, IInv, TypeOK
  <2> QED BY <2>3, <2>5, NoneAssumption DEF Retained, PermitsDelete
<1> QED BY <1>1, InitInv, NextInv, PTL DEF Spec, RetentionHonoured

\* A delete of the stored version is refused only for a retention that has no
\* deadline or has not reached it.
THEOREM DenialsJustified == Spec => DenialJustified
<1>1. IInv /\ [Next]_vars =>
        \A c \in Clients :
          LET x == pending[c] IN
          x # None /\ pending'[c] = None /\ x.method = "delete" /\ Found(x)
            /\ objects'[KeyOf(x)] # None =>
              LET r == objects[KeyOf(x)].retention IN
              r # None /\ (r.retainUntil = None \/ now < r.retainUntil)
  <2> DEFINE x(c) == pending[c]
             r(c) == objects[KeyOf(x(c))].retention
  <2> SUFFICES ASSUME IInv, [Next]_vars, NEW c \in Clients, x(c) # None,
                      pending'[c] = None, x(c).method = "delete", Found(x(c)),
                      objects'[KeyOf(x(c))] # None
               PROVE  r(c) # None /\ (r(c).retainUntil = None \/ now < r(c).retainUntil)
    BY Zenon
  <2> USE DEF IInv
  <2>1. x(c) \in Puts \cup Deletes
    BY DEF TypeOK
  <2>2. KeyOf(x(c)) \in Keys
    BY <2>1, KeyOfType
  <2>3. ExecuteDelete(c)
    <3>1. ~UNCHANGED vars /\ ~Tick
      BY DEF vars, target, Tick
    <3>2. ~\E d \in Clients : \E y \in Puts \cup Deletes : Submit(d, y)
      BY NormalizeKeeps, ObjectAssumption DEF Submit, TypeOK
    <3>3. \A d \in Clients : Execute(d) => d = c
      BY DEF Execute, ExecutePut, ExecuteDelete, TypeOK
    <3> QED BY <3>1, <3>2, <3>3 DEF Next, Execute, ExecutePut
  <2>4. ~DeleteAllowed(x(c))
    BY <2>2, <2>3 DEF ExecuteDelete, TypeOK
  <2>5. r(c) # None /\ ~PermitsDelete(r(c), now)
    BY <2>4 DEF DeleteAllowed
  <2>6. objects[KeyOf(x(c))] \in Objects
    BY <2>2 DEF TypeOK, Found
  <2>7. r(c).retainUntil \in Nat \cup {None} /\ now \in Nat
    BY <2>5, <2>6, CatalogAssumption, PolicyAssumption DEF Objects, TypeOK
  <2> QED BY <2>5, <2>7 DEF PermitsDelete
<1> QED BY <1>1, InitInv, NextInv, PTL DEF Spec, DenialJustified

\* In a Resource with a strong profile no step replaces an Object.
THEOREM StrongProfilesHold == Spec => NeverReplaced
<1>1. IInv /\ [Next]_vars =>
        \A k \in Keys :
          /\ objects[k] # None
          /\ profile[k[1]].mutability = "immutable" \/ profile[k[1]].profile = "artifact"
          => objects'[k] \in {objects[k], None}
  <2> SUFFICES ASSUME IInv, [Next]_vars, NEW k \in Keys, objects[k] # None,
                      profile[k[1]].mutability = "immutable" \/ profile[k[1]].profile = "artifact",
                      objects'[k] # objects[k]
               PROVE  objects'[k] = None
    OBVIOUS
  <2> USE DEF IInv
  <2>1. ~UNCHANGED objects
    OBVIOUS
  <2>2. ASSUME NEW c \in Clients, ExecutePut(c)
        PROVE  FALSE
    <3>1. Replaceable(KeyOf(pending[c]))
          /\ \A j \in Keys : j # KeyOf(pending[c]) => objects'[j] = objects[j]
      BY <2>1, <2>2 DEF ExecutePut, TypeOK
    <3> QED BY <3>1 DEF Replaceable, ImmutableInv
  <2>3. ASSUME NEW c \in Clients, ExecuteDelete(c)
        PROVE  objects'[k] = None
    BY <2>1, <2>3 DEF ExecuteDelete, TypeOK
  <2>4. \A c \in Clients, x \in Puts \cup Deletes : Submit(c, x) => UNCHANGED objects
    BY DEF Submit, target
  <2> QED BY <2>1, <2>2, <2>3, <2>4 DEF Next, Execute, Tick, vars
<1> QED BY <1>1, InitInv, NextInv, PTL DEF Spec, NeverReplaced

=============================================================================
