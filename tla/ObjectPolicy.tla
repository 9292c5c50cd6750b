---------------------------- MODULE ObjectPolicy ----------------------------
(***************************************************************************)
(* Immutability and retention (immutability/policy.py) at work: consumers  *)
(* put Objects with intents into Resources with profiles, and delete them, *)
(* while the clock runs.  normalize turns intents into guarantees, and     *)
(* only a target that advertises these executes the put.  The target here  *)
(* advertises any of the guarantees in Advertised.                         *)
(*                                                                         *)
(* Adapters are not part of the repository.  The one modelled calls        *)
(* effective_immutability for a put, refuses to replace an immutable       *)
(* Object, and, if it advertises retention-enforcement, calls              *)
(* require_delete_allowed before a delete.                                 *)
(***************************************************************************)
EXTENDS ObjectCatalog

CONSTANTS
  Clients,
  Profiles,  \* [profile, mutability]: profiles that Resources may have
  MaxTime    \* bound on the clock

ASSUME PolicyAssumption ==
  /\ MaxTime \in Nat
  /\ Profiles \subseteq [profile : {"object", "artifact", "media"},
                         mutability : {"immutable", "mutable"}]

Keys == Resources \X ObjectIds

VARIABLES
  now,         \* the clock
  advertised,  \* the guarantees of the target's manifest
  profile,     \* the profile of each Resource
  objects,     \* [content, immutability, retention] of a key, or None
  pending      \* the admitted Operation of each client, not executed yet, or None

target == <<advertised, profile>>
vars == <<now, target, objects, pending>>

\* Puts whose declarations are empty, and exact deletes.
Puts ==
  [method : {"put"}, resource : Resources, objectId : ObjectIds,
   payload : [expectedLength : {None}, expectedDigest : {None}, replayable : {TRUE}],
   expectedLength : {None}, expectedDigest : {None}, createOnly : {FALSE},
   immutability : Immutabilities \cup {None}, retention : Retentions \cup {None}]

Deletes ==
  [method : {"delete"}, resource : Resources,
   reference : [resource : Resources, objectId : ObjectIds, digest : Contents,
                allowed : {None}]]

Init ==
  /\ now = 0
  /\ advertised \in SUBSET Advertised
  /\ profile \in [Resources -> Profiles]
  /\ objects = [k \in Keys |-> None]
  /\ pending = [c \in Clients |-> None]

-----------------------------------------------------------------------------
(* immutability/policy.py *)

\* Mutant: a retention without a deadline has nothing to wait for.
PermitsDeleteWithoutDeadline(r, t) == r.retainUntil # None => t >= r.retainUntil

\* Mutant: the deadline itself is still retained.
PermitsDeleteAfter(r, t) == r.retainUntil # None /\ t > r.retainUntil

\* permits_delete: a policy without a deadline never permits it, a deadline
\* does from its instant on, whatever the policy.
PermitsDelete(r, t) == r.retainUntil # None /\ t >= r.retainUntil

\* The intent of a put: its own, or what the profile says.
Selected(p, request) ==
  IF request = None
    THEN [mutability |-> p.mutability, publishOnce |-> p.profile = "artifact"]
    ELSE request

\* Mutant: only artifacts are protected from a weaker intent.
WeakensArtifactOnly(p, i) ==
  p.profile = "artifact" /\ (i.mutability # "immutable" \/ ~i.publishOnce)

\* effective_immutability raises ImmutableObjectConflict, or ValueError for an
\* intent that is none.
Weakens(p, i) ==
  \/ ~ValidImmutability(i)
  \/ p.profile = "artifact" /\ (i.mutability # "immutable" \/ ~i.publishOnce)
  \/ p.mutability = "immutable" /\ i.mutability # "immutable"

-----------------------------------------------------------------------------
Tick ==
  /\ now < MaxTime
  /\ now' = now + 1
  /\ UNCHANGED <<target, objects, pending>>

\* normalize and the negotiation of capabilities admit x, or nothing happens.
Submit(c, x) ==
  /\ pending[c] = None
  /\ Accepts(x)
  /\ SupportedBy(x, advertised)
  /\ pending' = [pending EXCEPT ![c] = Normalize(x)]
  /\ UNCHANGED <<now, target, objects>>

KeyOf(x) ==
  <<x.resource, IF x.method = "put" THEN x.objectId ELSE x.reference.objectId>>

Replaceable(k) == objects[k] # None => objects[k].immutability.mutability = "mutable"

ExecutePut(c) ==
  LET x == pending[c]
      intent == Selected(profile[x.resource], x.immutability)
      allowed == ~Weakens(profile[x.resource], intent) /\ Replaceable(KeyOf(x))
  IN
  /\ x # None
  /\ x.method = "put"
  /\ pending' = [pending EXCEPT ![c] = None]
  /\ \/ /\ allowed
        /\ \E d \in Contents :
             objects' = [objects EXCEPT ![KeyOf(x)] =
                           [content |-> d, immutability |-> intent,
                            retention |-> x.retention]]
     \/ /\ ~allowed
        /\ UNCHANGED objects
  /\ UNCHANGED <<now, target>>

Found(x) == objects[KeyOf(x)] # None /\ objects[KeyOf(x)].content = x.reference.digest

\* require_delete_allowed, by an adapter that enforces retention.
DeleteAllowed(x) ==
  "retention-enforcement" \in advertised /\ objects[KeyOf(x)].retention # None =>
    PermitsDelete(objects[KeyOf(x)].retention, now)

ExecuteDelete(c) ==
  LET x == pending[c] IN
  /\ x # None
  /\ x.method = "delete"
  /\ pending' = [pending EXCEPT ![c] = None]
  /\ \/ /\ Found(x)
        /\ DeleteAllowed(x)
        /\ objects' = [objects EXCEPT ![KeyOf(x)] = None]
     \/ /\ ~(Found(x) /\ DeleteAllowed(x))
        /\ UNCHANGED objects
  /\ UNCHANGED <<now, target>>

-----------------------------------------------------------------------------
Execute(c) == ExecutePut(c) \/ ExecuteDelete(c)

Next ==
  \/ Tick
  \/ \E c \in Clients : Execute(c) \/ \E x \in Puts \cup Deletes : Submit(c, x)

Spec == Init /\ [][Next]_vars

-----------------------------------------------------------------------------
(* Properties *)

Objects ==
  [content : Contents,
   immutability : {i \in [mutability : {"immutable", "mutable"}, publishOnce : BOOLEAN] :
                     ValidImmutability(i)},
   retention : {r \in Retentions : ValidRetention(r)} \cup {None}]

ASSUME ObjectAssumption == None \notin Objects /\ None \notin Puts \cup Deletes

\* Types of the state: stored intents are valid, and what is in flight is what
\* the target can meet.
TypeOK ==
  /\ now \in 0 .. MaxTime
  /\ advertised \subseteq Advertised
  /\ profile \in [Resources -> Profiles]
  /\ objects \in [Keys -> Objects \cup {None}]
  /\ pending \in [Clients -> Puts \cup Deletes \cup {None}]
  /\ \A c \in Clients : pending[c] # None =>
       Accepts(pending[c]) /\ SupportedBy(pending[c], advertised)

\* The retention of o binds the target at instant t: it requires enforcement,
\* and has no deadline or a later one.
Retained(o, t) ==
  /\ o # None
  /\ o.retention # None
  /\ o.retention.requireEnforcement
  /\ o.retention.retainUntil # None => t < o.retention.retainUntil

\* An Object whose put required retention to be enforced cannot be deleted
\* before its deadline, nor at all without one, by any client and on any
\* target: a target that does not enforce retention never got the put.
RetentionHonoured ==
  [][\A k \in Keys : Retained(objects[k], now) => objects'[k] # None]_vars

\* A delete of the stored version is refused only while a retention lasts: from
\* the instant of the deadline on it goes through, even under a named policy.
DenialJustified ==
  [][\A c \in Clients :
       LET x == pending[c] IN
       x # None /\ pending'[c] = None /\ x.method = "delete" /\ Found(x)
         /\ objects'[KeyOf(x)] # None =>
           LET r == objects[KeyOf(x)].retention IN
           r # None /\ (r.retainUntil = None \/ now < r.retainUntil)]_vars

\* In a Resource with an immutable or an artifact profile no put ever replaces
\* an Object, whatever its own intent and that of the puts before it: an intent
\* that would have left a replaceable Object behind was rejected.
NeverReplaced ==
  [][\A k \in Keys :
       /\ objects[k] # None
       /\ profile[k[1]].mutability = "immutable" \/ profile[k[1]].profile = "artifact"
       => objects'[k] \in {objects[k], None}]_vars

=============================================================================
