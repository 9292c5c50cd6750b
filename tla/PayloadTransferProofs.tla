------------------------ MODULE PayloadTransferProofs ------------------------
(***************************************************************************)
(* Proofs about PayloadTransfer, for any threads, tokens, sources, streams *)
(* and contents.                                                           *)
(***************************************************************************)
EXTENDS PayloadTransfer, SequenceTheorems, TLAPS

-----------------------------------------------------------------------------
(* Helpers on sequences *)

\* The first n bytes of a string are n bytes.
LEMMA TakeType ==
  ASSUME NEW s \in Seq(Bytes), NEW n \in 0 .. Len(s)
  PROVE  /\ Take(s, n) \in Seq(Bytes)
         /\ Len(Take(s, n)) = n
<1>1. \A i \in 1 .. n : s[i] \in Bytes
  BY ElementOfSeq
<1> QED BY <1>1, SubSeqProperties, LenProperties DEF Take

\* A write of the whole chunk hands over the chunk.
LEMMA TakeAll ==
  ASSUME NEW s \in Seq(Bytes)
  PROVE  Take(s, Len(s)) = s
BY DEF Take

\* What a read returns and what it leaves make up the stream.
LEMMA TakeDrop ==
  ASSUME NEW s \in Seq(Bytes), NEW n \in 0 .. Len(s)
  PROVE  Take(s, n) \o Drop(s, n) = s
<1>1. 1 \in 1 .. Len(s) + 1 /\ n \in 1 - 1 .. Len(s) /\ Len(s) \in n .. Len(s)
  BY LenProperties
<1> QED BY <1>1, ConcatAdjacentSubSeq, SubSeqFull DEF Take, Drop

\* Sink, chunk and rest of the stream can be put together in either order.
LEMMA BytesAssociative ==
  \A a, b, c \in Seq(Bytes) : (a \o b) \o c = a \o (b \o c)
BY ConcatAssociative

\* What a read leaves in a stream is bytes.
LEMMA DropType ==
  ASSUME NEW s \in Seq(Bytes), NEW n \in 0 .. Len(s)
  PROVE  Drop(s, n) \in Seq(Bytes)
BY DEF Drop

LEMMA LenOfDrop ==
  ASSUME NEW s \in Seq(Bytes), NEW n \in 1 .. Len(s)
  PROVE  Len(Drop(s, n)) = Len(s) - n
BY DEF Drop

-----------------------------------------------------------------------------
(* Types *)

\* A registry without sources and threads outside any call are well typed.
LEMMA InitTypeOK == Init => TypeOK
BY SourceAssumption, StreamAssumption
DEF Init, TypeOK, Factories, Sources, PCs, Results, Active, Reading

\* The part of TypeOK that the control of a call touches.
ControlOK ==
  /\ openStreams \subseteq Threads
  /\ pc \in [Threads -> PCs]
  /\ result \in [Threads -> Results]
  /\ \A t \in Threads : Active(t) => src[t] \in Sources
  /\ \A t \in Threads : pc[t] = "factory" => src[t] \in Factories

\* A running call goes on to q.
LEMMA GoControl ==
  ASSUME TypeOK, NEW t \in Threads, NEW q \in PCs, Active(t),
         q = "factory" => src[t] \in Factories,
         pc' = [pc EXCEPT ![t] = q], UNCHANGED src,
         openStreams' \subseteq Threads, result' \in [Threads -> Results]
  PROVE  ControlOK'
BY DEF TypeOK, ControlOK, Active, Reading, PCs

\* An exception that leaves the with block keeps control well typed.
LEMMA LeaveControl ==
  ASSUME TypeOK, NEW t \in Threads, NEW failure \in Results, Active(t),
         Leave(t, failure), UNCHANGED src
  PROVE  ControlOK'
<1>1. openStreams' \subseteq Threads /\ result' \in [Threads -> Results]
  BY DEF TypeOK, Leave, CloseStream, Results
<1>2. "ended" \in PCs /\ pc' = [pc EXCEPT ![t] = "ended"]
  BY DEF PCs, Leave
<1> QED BY <1>1, <1>2, GoControl

\* An exception ends the call that it leaves and no other.
LEMMA LeaveTypes ==
  ASSUME TypeOK, NEW t \in Threads, NEW e \in Results, Leave(t, e)
  PROVE  /\ pc' \in [Threads -> PCs] /\ result' \in [Threads -> Results]
         /\ openStreams' \subseteq Threads
         /\ \A u \in Threads : Active(u)' => Active(u)
         /\ \A u \in Threads : pc'[u] = "factory" => pc[u] = "factory"
<1>1. /\ openStreams' = openStreams \ {t}
      /\ pc' = [pc EXCEPT ![t] = "ended"]
      /\ \E f \in Results : result' = [result EXCEPT ![t] = f]
  BY DEF Leave, CloseStream, Results
<1> QED BY <1>1 DEF TypeOK, Active, Reading, PCs

\* Every step of the registry, of a source or of a transfer keeps the types.
LEMMA NextTypeOK == TypeOK /\ [Next]_vars => TypeOK'
<1> SUFFICES ASSUME TypeOK, [Next]_vars PROVE TypeOK'
  OBVIOUS
<1> USE SourceAssumption, StreamAssumption, ReferenceAssumption
<1>1. ASSUME NEW k \in Tokens, NEW s \in Sources, Register(k, s) PROVE TypeOK'
  BY <1>1 DEF Register, TypeOK, callVars, dataVars, Active, Reading
<1>2. ASSUME NEW k \in Tokens, Release(k) PROVE TypeOK'
  BY <1>2 DEF Release, TypeOK, sourceVars, callVars, dataVars, Active, Reading
<1>3. ASSUME NEW t \in Threads, NEW r \in References, NEW n \in ChunkSizes,
             BeginTransfer(t, r, n)
      PROVE  TypeOK'
  <2>0. /\ ref' \in [Threads -> References \cup {NoReference}] /\ size' \in [Threads -> Nat]
        /\ chunk' \in [Threads -> Seq(Bytes)] /\ sink' \in [Threads -> Seq(Bytes)]
        /\ hashed' \in [Threads -> Seq(Bytes)] /\ length' \in [Threads -> Nat]
        /\ cancelAt' \in [Threads -> Nat \cup {None}]
        /\ UNCHANGED <<issued, used, unread, opens>>
    BY <1>3, ReferenceAssumption DEF BeginTransfer, TypeOK, sourceVars
  <2>1. CASE Resolves(r)
    <3>1. registry[r.token] \in Sources /\ r.token \in Tokens
      BY <2>1 DEF Resolves, TypeOK, References
    <3>2. /\ registry' \in [Tokens -> Sources \cup {None}]
          /\ grants' \in [Tokens -> Nat]
      <4>1. registry' = AfterLookup(r.token, registry[r.token])
        BY <1>3, <2>1 DEF BeginTransfer
      <4>2. grants' = grants \/ grants' = [grants EXCEPT ![r.token] = @ + 1]
        BY <1>3, <2>1 DEF BeginTransfer
      <4> QED BY <3>1, <4>1, <4>2 DEF TypeOK, AfterLookup
    <3>3. /\ pc' = [pc EXCEPT ![t] = "open"]
          /\ src' = [src EXCEPT ![t] = registry[r.token]]
          /\ result' = [result EXCEPT ![t] = "pending"]
          /\ UNCHANGED openStreams
      BY <1>3, <2>1 DEF BeginTransfer
    <3>4. ControlOK' /\ src' \in [Threads -> Sources \cup {None}]
      BY <3>1, <3>3 DEF TypeOK, ControlOK, Active, Reading, PCs, Results
    <3> QED BY <2>0, <3>2, <3>4 DEF TypeOK, ControlOK
  <2>2. CASE ~Resolves(r)
    <3>1. /\ pc' = [pc EXCEPT ![t] = "ended"]
          /\ src' = [src EXCEPT ![t] = None]
          /\ result' = [result EXCEPT ![t] = "PayloadUnavailable"]
          /\ UNCHANGED <<openStreams, registry, grants>>
      BY <1>3, <2>2 DEF BeginTransfer
    <3>2. ControlOK' /\ src' \in [Threads -> Sources \cup {None}]
      BY <3>1 DEF TypeOK, ControlOK, Active, Reading, PCs, Results
    <3> QED BY <2>0, <3>1, <3>2 DEF TypeOK, ControlOK
  <2> QED BY <2>1, <2>2
<1>4. ASSUME NEW t \in Threads, Cancel(t) PROVE TypeOK'
  BY <1>4 DEF Cancel, TypeOK, registryVars, sourceVars, callVars, dataVars, Active, Reading
<1>5. ASSUME NEW t \in Threads, OpenSource(t) PROVE TypeOK'
  <2>1. Active(t) /\ UNCHANGED src
    BY <1>5 DEF OpenSource, Active, Reading, callVars
  <2>2. ControlOK'
    <3>1. PICK q \in {"ended", "read", "factory"} : pc' = [pc EXCEPT ![t] = q]
      BY <1>5 DEF OpenSource
    <3>2. q \in PCs /\ UNCHANGED openStreams /\ result' \in [Threads -> Results]
      BY <1>5 DEF OpenSource, PCs, Results, TypeOK
    <3>3. q = "factory" => src[t] \in Factories
      BY <1>5, <2>1, <3>1 DEF OpenSource, TypeOK, Sources
    <3> QED BY <2>1, <3>1, <3>2, <3>3, GoControl DEF TypeOK
  <2>3. used' \subseteq Sources /\ opens' \in [Sources -> Nat]
    <3>1. src[t] \in Sources
      BY <2>1 DEF TypeOK
    <3>2. \/ UNCHANGED <<used, opens>>
          \/ /\ used' = used \cup {src[t]}
             /\ opens' = opens \/ opens' = [opens EXCEPT ![src[t]] = @ + 1]
      BY <1>5 DEF OpenSource, sourceVars
    <3>3. used' \subseteq Sources
      BY <3>1, <3>2 DEF TypeOK
    <3>4. opens' \in [Sources -> Nat]
      <4>1. opens \in [Sources -> Nat]
        BY DEF TypeOK
      <4>2. [opens EXCEPT ![src[t]] = @ + 1] \in [Sources -> Nat]
        BY <4>1, <3>1
      <4> QED BY <3>2, <4>1, <4>2
    <3> QED BY <3>3, <3>4
  <2> QED BY <1>5, <2>2, <2>3 DEF OpenSource, TypeOK, ControlOK, registryVars, callVars,
                                dataVars
<1>6. ASSUME NEW t \in Threads, CallFactory(t) PROVE TypeOK'
  <2>1. Active(t) /\ UNCHANGED src
    BY <1>6 DEF CallFactory, Active, Reading, callVars
  <2>2. ControlOK'
    <3>1. PICK q \in {"ended", "read"} : pc' = [pc EXCEPT ![t] = q]
      BY <1>6 DEF CallFactory
    <3>2. /\ q \in PCs
          /\ openStreams' \subseteq Threads
          /\ result' \in [Threads -> Results]
      BY <1>6 DEF CallFactory, PCs, Results, TypeOK
    <3> QED BY <2>1, <3>1, <3>2, GoControl
  <2>3. Content[src[t]] \in Seq(Bytes)
    BY <1>6 DEF CallFactory, TypeOK
  <2>4. unread' \in [CallerStreams \cup Threads -> Seq(Bytes)]
    BY <1>6, <2>3 DEF CallFactory, TypeOK
  <2> QED BY <1>6, <2>2, <2>4 DEF CallFactory, TypeOK, ControlOK, registryVars, callVars,
                                dataVars, sourceVars
<1>7. ASSUME NEW t \in Threads, RejectSize(t) PROVE TypeOK'
  <2>1. SizeError(size[t]) \in Results
    BY DEF SizeError, Results
  <2>2. /\ pc' \in [Threads -> PCs] /\ result' \in [Threads -> Results]
        /\ openStreams' \subseteq Threads
        /\ \A u \in Threads : Active(u)' => Active(u)
        /\ \A u \in Threads : pc'[u] = "factory" => pc[u] = "factory"
    BY <1>7, <2>1, LeaveTypes DEF RejectSize
  <2> QED BY <1>7, <2>2 DEF RejectSize, TypeOK, registryVars, sourceVars, callVars, dataVars
<1>8. ASSUME NEW t \in Threads, ReadChunk(t) PROVE TypeOK'
  <2>1. Active(t) /\ UNCHANGED src
    BY <1>8 DEF ReadChunk, Active, Reading, callVars
  <2>2. ControlOK'
    <3>1. CASE Leave(t, "ObjectInvalidRequest")
      BY <2>1, <3>1, LeaveControl DEF Results
    <3>2. CASE pc' = [pc EXCEPT ![t] = "check"] /\ UNCHANGED <<openStreams, result>>
      BY <2>1, <3>2, GoControl DEF PCs, TypeOK
    <3> QED BY <1>8, <3>1, <3>2 DEF ReadChunk
  <2>3. StreamId(t) \in CallerStreams \cup Threads
    BY DEF StreamId
  <2>4. /\ unread' \in [CallerStreams \cup Threads -> Seq(Bytes)]
        /\ chunk' \in [Threads -> Seq(Bytes)]
    <3>1. PICK n \in 1 .. Len(unread[StreamId(t)]) :
            /\ unread' = [unread EXCEPT ![StreamId(t)] = Drop(@, n)]
            /\ chunk' = [chunk EXCEPT ![t] = Take(unread[StreamId(t)], n)]
      BY <1>8 DEF ReadChunk
    <3>2. unread[StreamId(t)] \in Seq(Bytes) /\ n \in 0 .. Len(unread[StreamId(t)])
      BY <2>3 DEF TypeOK
    <3> QED BY <3>1, <3>2, <2>3, TakeType, DropType DEF TypeOK
  <2> QED BY <1>8, <2>2, <2>4 DEF ReadChunk, TypeOK, ControlOK, registryVars, callVars,
                                sourceVars
<1>9. ASSUME NEW t \in Threads, ReadFails(t) PROVE TypeOK'
  <2>1. /\ pc' \in [Threads -> PCs] /\ result' \in [Threads -> Results]
        /\ openStreams' \subseteq Threads
        /\ \A u \in Threads : Active(u)' => Active(u)
        /\ \A u \in Threads : pc'[u] = "factory" => pc[u] = "factory"
    BY <1>9, LeaveTypes DEF ReadFails, Results
  <2> QED BY <1>9, <2>1 DEF ReadFails, TypeOK, registryVars, sourceVars, callVars, dataVars
<1>10. ASSUME NEW t \in Threads, EndOfStream(t) PROVE TypeOK'
  <2>1. Active(t) /\ UNCHANGED src
    BY <1>10 DEF EndOfStream, Active, Reading, callVars
  <2>2. ControlOK'
    <3>1. CASE Leave(t, "StreamError")
      BY <2>1, <3>1, LeaveControl DEF Results
    <3>2. CASE /\ pc' = [pc EXCEPT ![t] = "verify"]
               /\ openStreams' = CloseStream(t) /\ UNCHANGED result
      BY <2>1, <3>2, GoControl DEF PCs, TypeOK, CloseStream
    <3> QED BY <1>10, <3>1, <3>2 DEF EndOfStream
  <2> QED BY <1>10, <2>2 DEF EndOfStream, TypeOK, ControlOK, registryVars, callVars,
                           sourceVars, dataVars
<1>11. ASSUME NEW t \in Threads, CheckCancelled(t) PROVE TypeOK'
  <2>1. Active(t) /\ UNCHANGED src
    BY <1>11 DEF CheckCancelled, Active, Reading, callVars
  <2>2. ControlOK'
    <3>1. CASE Leave(t, "TransferCancelled") \/ Leave(t, "CallbackError")
      BY <2>1, <3>1, LeaveControl DEF Results
    <3>2. CASE pc' = [pc EXCEPT ![t] = "write"] /\ UNCHANGED <<openStreams, result>>
      BY <2>1, <3>2, GoControl DEF PCs, TypeOK
    <3> QED BY <1>11, <3>1, <3>2 DEF CheckCancelled
  <2> QED BY <1>11, <2>2 DEF CheckCancelled, TypeOK, ControlOK, registryVars, callVars,
                           sourceVars, dataVars
<1>12. ASSUME NEW t \in Threads, WriteChunk(t) PROVE TypeOK'
  <2>1. Active(t) /\ UNCHANGED src
    BY <1>12 DEF WriteChunk, Active, Reading, callVars
  <2>2. ControlOK'
    <3>1. CASE Leave(t, "IncompleteUpload")
      BY <2>1, <3>1, LeaveControl DEF Results
    <3>2. CASE pc' = [pc EXCEPT ![t] = "read"] /\ UNCHANGED <<openStreams, result>>
      BY <2>1, <3>2, GoControl DEF PCs, TypeOK
    <3> QED BY <1>12, <3>1, <3>2 DEF WriteChunk
  <2>3. sink' \in [Threads -> Seq(Bytes)]
    BY <1>12, TakeType DEF WriteChunk, TypeOK
  <2>4. hashed' \in [Threads -> Seq(Bytes)] /\ length' \in [Threads -> Nat]
    <3>1. chunk[t] \in Seq(Bytes) /\ Len(chunk[t]) \in Nat
      BY DEF TypeOK
    <3>2. \/ UNCHANGED <<hashed, length>>
          \/ /\ hashed' = [hashed EXCEPT ![t] = @ \o chunk[t]]
             /\ length' = [length EXCEPT ![t] = @ + Len(chunk[t])]
      BY <1>12 DEF WriteChunk
    <3>3. hashed' \in [Threads -> Seq(Bytes)]
      <4>1. hashed \in [Threads -> Seq(Bytes)]
        BY DEF TypeOK
      <4>2. hashed[t] \o chunk[t] \in Seq(Bytes)
        BY <3>1, <4>1
      <4> QED BY <3>2, <4>1, <4>2
    <3>4. length' \in [Threads -> Nat]
      BY <3>1, <3>2 DEF TypeOK
    <3> QED BY <3>3, <3>4
  <2> QED BY <1>12, <2>2, <2>3, <2>4 DEF WriteChunk, TypeOK, ControlOK, registryVars,
                                       callVars, sourceVars
<1>13. ASSUME NEW t \in Threads, WriteFails(t) PROVE TypeOK'
  <2>1. sink' \in [Threads -> Seq(Bytes)]
    <3>1. PICK n \in 0 .. Len(chunk[t]) : sink' = [sink EXCEPT ![t] = @ \o Take(chunk[t], n)]
      BY <1>13 DEF WriteFails
    <3>2. Take(chunk[t], n) \in Seq(Bytes)
      BY TakeType DEF TypeOK
    <3> QED BY <3>1, <3>2 DEF TypeOK
  <2>2. /\ pc' \in [Threads -> PCs] /\ result' \in [Threads -> Results]
        /\ openStreams' \subseteq Threads
        /\ \A u \in Threads : Active(u)' => Active(u)
        /\ \A u \in Threads : pc'[u] = "factory" => pc[u] = "factory"
    BY <1>13, LeaveTypes DEF WriteFails, Results
  <2> QED BY <1>13, <2>1, <2>2 DEF WriteFails, TypeOK, registryVars, sourceVars, callVars
<1>14. ASSUME NEW t \in Threads, Verify(t) PROVE TypeOK'
  BY <1>14 DEF Verify, TypeOK, registryVars, sourceVars, callVars, dataVars, Active,
              Reading, PCs, Results
<1>15. CASE UNCHANGED vars
  BY <1>15 DEF vars, TypeOK, Active, Reading
<1> QED
  BY <1>1, <1>2, <1>3, <1>4, <1>5, <1>6, <1>7, <1>8, <1>9, <1>10, <1>11, <1>12,
     <1>13, <1>14, <1>15 DEF Next, Step

\* Every reachable state is well typed, and a running call of transfer_payload
\* always holds a source that the registry resolved.
THEOREM Typed == Spec => []TypeOK
BY InitTypeOK, NextTypeOK, PTL DEF Spec

-----------------------------------------------------------------------------
(* Handles *)

\* HandleGrantedOnce is inductive once a registered token is known to be issued.
RegistryInv ==
  /\ HandleGrantedOnce
  /\ \A k \in Tokens : registry[k] # None => k \in issued

\* A running transfer touches neither the registry nor its own arguments.
LEMMA StepFrame ==
  ASSUME NEW t \in Threads, Step(t)
  PROVE  UNCHANGED registryVars /\ UNCHANGED callVars
BY DEF Step, OpenSource, CallFactory, RejectSize, ReadChunk, ReadFails, EndOfStream,
       CheckCancelled, WriteChunk, WriteFails, Verify

\* Registering, releasing and looking up keep grants and registry in accord.
LEMMA NextRegistryInv == TypeOK /\ RegistryInv /\ [Next]_vars => RegistryInv'
<1> SUFFICES ASSUME TypeOK, RegistryInv, [Next]_vars PROVE RegistryInv'
  OBVIOUS
<1> USE SourceAssumption
<1>1. ASSUME NEW k \in Tokens, NEW s \in Sources, Register(k, s) PROVE RegistryInv'
  BY <1>1 DEF Register, RegistryInv, HandleGrantedOnce, TypeOK
<1>2. ASSUME NEW k \in Tokens, Release(k) PROVE RegistryInv'
  <2>1. k \in issued /\ grants[k] = 0 /\ grants'[k] = 1 /\ registry'[k] = None
    BY <1>2 DEF Release, RegistryInv, HandleGrantedOnce, TypeOK
  <2>2. \A j \in Tokens \ {k} : grants'[j] = grants[j] /\ registry'[j] = registry[j]
    BY <1>2 DEF Release, TypeOK
  <2> QED BY <1>2, <2>1, <2>2 DEF Release, RegistryInv, HandleGrantedOnce
<1>3. ASSUME NEW t \in Threads, NEW r \in References, NEW n \in ChunkSizes,
             BeginTransfer(t, r, n)
      PROVE  RegistryInv'
  <2> DEFINE k == r.token
  <2>1. CASE Resolves(r) /\ ~Replayable(registry[k])
    <3>1. k \in Tokens /\ registry[k] # None
      BY <2>1 DEF Resolves, References
    <3>2. /\ registry' = [registry EXCEPT ![k] = None]
          /\ grants' = [grants EXCEPT ![k] = @ + 1]
          /\ UNCHANGED issued
      BY <1>3, <2>1 DEF BeginTransfer, AfterLookup
    <3>3. k \in issued /\ grants[k] = 0 /\ grants'[k] = 1 /\ registry'[k] = None
      BY <3>1, <3>2 DEF RegistryInv, HandleGrantedOnce, TypeOK
    <3>4. \A j \in Tokens \ {k} : grants'[j] = grants[j] /\ registry'[j] = registry[j]
      BY <3>1, <3>2 DEF TypeOK
    <3> QED BY <3>2, <3>3, <3>4 DEF RegistryInv, HandleGrantedOnce
  <2>2. CASE ~(Resolves(r) /\ ~Replayable(registry[k]))
    <3>1. UNCHANGED <<registry, grants, issued>>
      BY <1>3, <2>2 DEF BeginTransfer, AfterLookup
    <3> QED BY <3>1 DEF RegistryInv, HandleGrantedOnce
  <2> QED BY <2>1, <2>2
<1>4. ASSUME NEW t \in Threads, Cancel(t) PROVE RegistryInv'
  BY <1>4 DEF Cancel, RegistryInv, HandleGrantedOnce, registryVars
<1>5. ASSUME NEW t \in Threads, Step(t) PROVE RegistryInv'
  BY <1>5, StepFrame DEF RegistryInv, HandleGrantedOnce, registryVars
<1>6. CASE UNCHANGED vars
  BY <1>6 DEF vars, RegistryInv, HandleGrantedOnce
<1> QED BY <1>1, <1>2, <1>3, <1>4, <1>5, <1>6 DEF Next

\* However open and release calls race, each handle is given out exactly once
\* when it leaves the registry and never before.
THEOREM HandlesGrantedOnce == Spec => []HandleGrantedOnce
<1>1. Init => RegistryInv
  BY DEF Init, RegistryInv, HandleGrantedOnce
<1>2. RegistryInv => HandleGrantedOnce
  BY DEF RegistryInv
<1> QED BY <1>1, <1>2, NextRegistryInv, Typed, PTL DEF Spec

-----------------------------------------------------------------------------
(* Sources *)

\* The count of opens tells the flag of a one-shot source.
SourceInv ==
  /\ \A s \in Sources : opens[s] = IF s \in used /\ ~Replayable(s) THEN 1 ELSE 0
  /\ UnavailableOnlyWhenTaken

\* Every step but those of OpenSource and Register leaves the flags alone, and
\* none of them ends a call that has a source with PayloadUnavailable.
LEMMA OtherStepsKeepSources ==
  ASSUME TypeOK, NEW t \in Threads, Step(t), ~OpenSource(t)
  PROVE  /\ UNCHANGED sourceVars
         /\ \E e \in Results \ {"PayloadUnavailable"} :
              result' = result \/ result' = [result EXCEPT ![t] = e]
<1>1. ASSUME NEW e \in Results \ {"PayloadUnavailable"}, Leave(t, e)
      PROVE  \E f \in Results \ {"PayloadUnavailable"} :
               result' = [result EXCEPT ![t] = f]
  <2>1. "StreamError" \in Results \ {"PayloadUnavailable"}
    BY DEF Results
  <2> QED BY <1>1, <2>1 DEF Leave
<1>2. CASE CallFactory(t)
  BY <1>2 DEF CallFactory, Results
<1>3. CASE RejectSize(t)
  BY <1>3, <1>1 DEF RejectSize, SizeError, Results
<1>4. CASE ReadChunk(t)
  BY <1>4, <1>1 DEF ReadChunk, Results
<1>5. CASE ReadFails(t)
  BY <1>5, <1>1 DEF ReadFails, Results
<1>6. CASE EndOfStream(t)
  BY <1>6, <1>1 DEF EndOfStream, Results
<1>7. CASE CheckCancelled(t)
  BY <1>7, <1>1 DEF CheckCancelled, Results
<1>8. CASE WriteChunk(t)
  <2>1. UNCHANGED sourceVars /\ (Leave(t, "IncompleteUpload") \/ result' = result)
    BY <1>8 DEF WriteChunk
  <2>2. "IncompleteUpload" \in Results \ {"PayloadUnavailable"}
    BY DEF Results
  <2> QED BY <2>1, <2>2, <1>1
<1>9. CASE WriteFails(t)
  BY <1>9, <1>1 DEF WriteFails, Results
<1>10. CASE Verify(t)
  <2>1. /\ "IncompleteUpload" \in Results \ {"PayloadUnavailable"}
        /\ "DigestMismatch" \in Results \ {"PayloadUnavailable"}
        /\ "ok" \in Results \ {"PayloadUnavailable"}
    BY DEF Results
  <2> QED BY <1>10, <2>1 DEF Verify
<1> QED BY <1>2, <1>3, <1>4, <1>5, <1>6, <1>7, <1>8, <1>9, <1>10 DEF Step

\* Opening a source keeps its flag and its number of opens in accord.
LEMMA NextSourceInv == TypeOK /\ SourceInv /\ [Next]_vars => SourceInv'
<1> SUFFICES ASSUME TypeOK, SourceInv, [Next]_vars PROVE SourceInv'
  OBVIOUS
<1>1. ASSUME NEW k \in Tokens, NEW s \in Sources, Register(k, s) PROVE SourceInv'
  BY <1>1 DEF Register, SourceInv, UnavailableOnlyWhenTaken, callVars, Replayable
<1>2. ASSUME NEW k \in Tokens, Release(k) PROVE SourceInv'
  BY <1>2 DEF Release, SourceInv, UnavailableOnlyWhenTaken, callVars, sourceVars, Replayable
<1>3. ASSUME NEW t \in Threads, NEW r \in References, NEW n \in ChunkSizes,
             BeginTransfer(t, r, n)
      PROVE  SourceInv'
  <2>1. \/ src'[t] = None
        \/ result'[t] = "pending"
    BY <1>3 DEF BeginTransfer, TypeOK
  <2>2. \A u \in Threads \ {t} : src'[u] = src[u] /\ result'[u] = result[u]
    BY <1>3 DEF BeginTransfer, TypeOK
  <2> QED BY <1>3, <2>1, <2>2
          DEF BeginTransfer, SourceInv, UnavailableOnlyWhenTaken, sourceVars, Replayable
<1>4. ASSUME NEW t \in Threads, Cancel(t) PROVE SourceInv'
  BY <1>4 DEF Cancel, SourceInv, UnavailableOnlyWhenTaken, callVars, sourceVars, Replayable
<1>5. ASSUME NEW t \in Threads, OpenSource(t) PROVE SourceInv'
  <2>1. src[t] \in Sources /\ UNCHANGED src
    BY <1>5 DEF OpenSource, TypeOK, Active, callVars
  <2>2. CASE CanOpen(src[t])
    <3>1. used' = used \cup {src[t]} /\ UNCHANGED result
      BY <1>5, <2>2 DEF OpenSource
    <3>2. \A s \in Sources \ {src[t]} : opens'[s] = opens[s]
      BY <1>5, <2>1, <2>2 DEF OpenSource, TypeOK
    <3>3. opens'[src[t]] = IF Replayable(src[t]) THEN opens[src[t]] ELSE opens[src[t]] + 1
      BY <1>5, <2>1, <2>2 DEF OpenSource, TypeOK
    <3>4. opens[src[t]] = 0
      BY <2>1, <2>2 DEF CanOpen, SourceInv
    <3>5. \A s \in Sources : opens'[s] = IF s \in used' /\ ~Replayable(s) THEN 1 ELSE 0
      BY <2>1, <3>1, <3>2, <3>3, <3>4 DEF SourceInv
    <3>6. \A u \in Threads : result[u] = "PayloadUnavailable" /\ src[u] # None
                              => opens'[src[u]] = 1
      BY <3>2, <3>4 DEF SourceInv, UnavailableOnlyWhenTaken, TypeOK
    <3> QED BY <2>1, <3>1, <3>5, <3>6 DEF SourceInv, UnavailableOnlyWhenTaken, Replayable
  <2>3. CASE ~CanOpen(src[t])
    <3>1. UNCHANGED <<used, opens>> /\ result' = [result EXCEPT ![t] = "PayloadUnavailable"]
      BY <1>5, <2>3 DEF OpenSource, sourceVars
    <3>2. opens[src[t]] = 1
      BY <2>1, <2>3 DEF CanOpen, SourceInv
    <3> QED BY <2>1, <3>1, <3>2
            DEF SourceInv, UnavailableOnlyWhenTaken, TypeOK, Replayable
  <2> QED BY <2>2, <2>3
<1>6. ASSUME NEW t \in Threads, Step(t), ~OpenSource(t) PROVE SourceInv'
  <2>1. UNCHANGED <<used, opens, src>>
    BY <1>6, OtherStepsKeepSources, StepFrame DEF sourceVars, callVars
  <2>2. \A u \in Threads : result'[u] = "PayloadUnavailable" => result[u] = result'[u]
    BY <1>6, OtherStepsKeepSources DEF TypeOK
  <2> QED BY <2>1, <2>2 DEF SourceInv, UnavailableOnlyWhenTaken, Replayable
<1>7. CASE UNCHANGED vars
  BY <1>7 DEF vars, SourceInv, UnavailableOnlyWhenTaken, Replayable
<1> QED BY <1>1, <1>2, <1>3, <1>4, <1>5, <1>6, <1>7 DEF Next

\* The sources' flags record who opened them, in every behaviour.
LEMMA SourceInvariance == Spec => []SourceInv
<1>1. Init => SourceInv
  BY DEF Init, SourceInv, UnavailableOnlyWhenTaken
<1> QED BY <1>1, NextSourceInv, Typed, PTL DEF Spec

\* A one-shot source is opened at most once by any number of threads, through
\* any number of tokens.
THEOREM OneShotsOpenedOnce == Spec => []OneShotOpenedOnce
<1>1. SourceInv => OneShotOpenedOnce
  BY DEF SourceInv, OneShotOpenedOnce
<1> QED BY <1>1, SourceInvariance, PTL

\* PayloadUnavailable for a handle that resolved always means that another call
\* had opened the same one-shot source.
THEOREM RefusedOnlyWhenTaken == Spec => []UnavailableOnlyWhenTaken
BY SourceInvariance, PTL DEF SourceInv

-----------------------------------------------------------------------------
(* Data of a call *)

\* While a call runs its sink, its hash and its length agree, and a call that
\* succeeded was verified.
DataOK(t) ==
  /\ Active(t) => result[t] = "pending"
  /\ Active(t) \/ result[t] = "ok" => sink[t] = hashed[t] /\ length[t] = Len(sink[t])
  /\ result[t] = "ok" => ref[t].expectedLength \in {None, length[t]}
  /\ result[t] = "ok" => ref[t].expectedDigest \in {None, hashed[t]}

DataInv == \A t \in Threads : DataOK(t)

\* A step of one transfer leaves the locals of the others alone.
LEMMA OthersFrame ==
  ASSUME TypeOK, NEW t \in Threads, Step(t), NEW u \in Threads \ {t}
  PROVE  /\ pc'[u] = pc[u] /\ result'[u] = result[u] /\ chunk'[u] = chunk[u]
         /\ sink'[u] = sink[u] /\ hashed'[u] = hashed[u] /\ length'[u] = length[u]
<1>1. ASSUME NEW e, Leave(t, e) PROVE pc'[u] = pc[u] /\ result'[u] = result[u]
  BY <1>1 DEF Leave, TypeOK
<1>2. CASE OpenSource(t)
  BY <1>2 DEF OpenSource, TypeOK, dataVars
<1>3. CASE CallFactory(t)
  BY <1>3 DEF CallFactory, TypeOK, dataVars
<1>4. CASE RejectSize(t)
  BY <1>4, <1>1 DEF RejectSize, dataVars
<1>5. CASE ReadChunk(t)
  BY <1>5, <1>1 DEF ReadChunk, TypeOK
<1>6. CASE ReadFails(t)
  BY <1>6, <1>1 DEF ReadFails, dataVars
<1>7. CASE EndOfStream(t)
  BY <1>7, <1>1 DEF EndOfStream, TypeOK, dataVars
<1>8. CASE CheckCancelled(t)
  BY <1>8, <1>1 DEF CheckCancelled, TypeOK, dataVars
<1>9. CASE WriteChunk(t)
  BY <1>9, <1>1 DEF WriteChunk, TypeOK
<1>10. CASE WriteFails(t)
  BY <1>10, <1>1 DEF WriteFails, TypeOK
<1>11. CASE Verify(t)
  BY <1>11 DEF Verify, TypeOK, dataVars
<1> QED BY <1>2, <1>3, <1>4, <1>5, <1>6, <1>7, <1>8, <1>9, <1>10, <1>11 DEF Step

\* An exception ends the call without an identity.
LEMMA LeaveEnds ==
  ASSUME TypeOK, NEW t \in Threads, NEW e, e # "ok", Leave(t, e)
  PROVE  pc'[t] = "ended" /\ result'[t] # "ok"
BY DEF Leave, TypeOK

\* A call that left the with block with an exception has nothing to verify.
LEMMA EndedDataOK ==
  ASSUME NEW t \in Threads, pc'[t] = "ended", result'[t] # "ok"
  PROVE  DataOK(t)'
BY DEF DataOK, Active, Reading

\* A step that keeps the data of a running call running.
LEMMA RunningDataOK ==
  ASSUME NEW t \in Threads, DataOK(t), Active(t), result'[t] = result[t],
         sink'[t] = sink[t], hashed'[t] = hashed[t], length'[t] = length[t]
  PROVE  DataOK(t)'
BY DEF DataOK

\* A sink that reports the whole chunk has taken all of it.
LEMMA ReportedWrite ==
  ASSUME TypeOK, NEW t \in Threads, WriteChunk(t), ~Leave(t, "IncompleteUpload")
  PROVE  /\ sink' = [sink EXCEPT ![t] = @ \o Take(chunk[t], Len(chunk[t]))]
         /\ hashed' = [hashed EXCEPT ![t] = @ \o chunk[t]]
         /\ length' = [length EXCEPT ![t] = @ + Len(chunk[t])]
         /\ pc[t] = "write" /\ pc' = [pc EXCEPT ![t] = "read"]
         /\ UNCHANGED <<result, unread>>
<1>1. chunk[t] \in Seq(Bytes) /\ Len(chunk[t]) \in Nat
  BY DEF TypeOK
<1>2. PICK n \in 0 .. Len(chunk[t]) :
        /\ sink' = [sink EXCEPT ![t] = @ \o Take(chunk[t], n)]
        /\ \E told \in {n, Len(chunk[t]) + 1} : told = Len(chunk[t])
        /\ hashed' = [hashed EXCEPT ![t] = @ \o chunk[t]]
        /\ length' = [length EXCEPT ![t] = @ + Len(chunk[t])]
        /\ pc' = [pc EXCEPT ![t] = "read"]
        /\ UNCHANGED result
  BY Zenon DEF WriteChunk, WroteAll
<1>3. n = Len(chunk[t])
  BY <1>1, <1>2
<1>4. pc[t] = "write" /\ UNCHANGED unread
  BY DEF WriteChunk
<1> QED BY <1>2, <1>3, <1>4

\* A full write adds the same bytes to sink, hash and length.
LEMMA WriteDataOK ==
  ASSUME TypeOK, NEW t \in Threads, DataOK(t), WriteChunk(t)
  PROVE  DataOK(t)'
<1>1. CASE Leave(t, "IncompleteUpload")
  BY <1>1, LeaveEnds, EndedDataOK
<1>2. CASE ~Leave(t, "IncompleteUpload")
  <2>1. /\ sink' = [sink EXCEPT ![t] = @ \o Take(chunk[t], Len(chunk[t]))]
        /\ hashed' = [hashed EXCEPT ![t] = @ \o chunk[t]]
        /\ length' = [length EXCEPT ![t] = @ + Len(chunk[t])]
        /\ UNCHANGED result
    BY <1>2, ReportedWrite
  <2>2. chunk[t] \in Seq(Bytes) /\ sink[t] \in Seq(Bytes) /\ length[t] \in Nat
    BY DEF TypeOK
  <2>3. /\ sink'[t] = sink[t] \o chunk[t]
        /\ hashed'[t] = hashed[t] \o chunk[t]
        /\ length'[t] = length[t] + Len(chunk[t])
    BY <2>1, <2>2, TakeAll DEF TypeOK
  <2>4. Active(t) /\ result[t] = "pending" /\ result'[t] = "pending"
    BY <2>1 DEF DataOK, Active, Reading, WriteChunk
  <2>5. sink[t] = hashed[t] /\ length[t] = Len(sink[t])
    BY <2>4 DEF DataOK
  <2>6. Len(sink[t] \o chunk[t]) = Len(sink[t]) + Len(chunk[t])
    BY <2>2
  <2> QED BY <2>3, <2>4, <2>5, <2>6 DEF DataOK
<1> QED BY <1>1, <1>2

\* Every step of a transfer keeps its sink, hash and length in agreement.
LEMMA StepDataOK ==
  ASSUME TypeOK, NEW t \in Threads, DataOK(t), Step(t)
  PROVE  DataOK(t)'
<1>1. CASE OpenSource(t)
  <2>1. Active(t)
    BY <1>1 DEF OpenSource, Active
  <2>2. CASE CanOpen(src[t])
    BY <1>1, <2>1, <2>2, RunningDataOK DEF OpenSource, dataVars
  <2>3. CASE ~CanOpen(src[t])
    BY <1>1, <2>3, EndedDataOK DEF OpenSource, TypeOK
  <2> QED BY <2>2, <2>3
<1>2. CASE CallFactory(t)
  <2>1. Active(t)
    BY <1>2 DEF CallFactory, Active
  <2>2. CASE UNCHANGED result
    BY <1>2, <2>1, <2>2, RunningDataOK DEF CallFactory, dataVars
  <2>3. CASE /\ pc' = [pc EXCEPT ![t] = "ended"]
             /\ result' = [result EXCEPT ![t] = "FactoryError"]
    BY <2>3, EndedDataOK DEF TypeOK
  <2> QED BY <1>2, <2>2, <2>3 DEF CallFactory
<1>3. CASE RejectSize(t)
  BY <1>3, LeaveEnds, EndedDataOK DEF RejectSize, SizeError
<1>4. CASE ReadChunk(t)
  <2>1. CASE Leave(t, "ObjectInvalidRequest")
    BY <2>1, LeaveEnds, EndedDataOK
  <2>2. CASE UNCHANGED result
    BY <1>4, <2>2, RunningDataOK DEF ReadChunk, Active, Reading
  <2> QED BY <1>4, <2>1, <2>2 DEF ReadChunk
<1>5. CASE ReadFails(t)
  BY <1>5, LeaveEnds, EndedDataOK DEF ReadFails
<1>6. CASE EndOfStream(t)
  <2>1. CASE Leave(t, "StreamError")
    BY <2>1, LeaveEnds, EndedDataOK
  <2>2. CASE UNCHANGED result
    BY <1>6, <2>2, RunningDataOK DEF EndOfStream, Active, Reading, dataVars
  <2> QED BY <1>6, <2>1, <2>2 DEF EndOfStream
<1>7. CASE CheckCancelled(t)
  <2>1. CASE Leave(t, "TransferCancelled") \/ Leave(t, "CallbackError")
    BY <2>1, LeaveEnds, EndedDataOK
  <2>2. CASE UNCHANGED result
    BY <1>7, <2>2, RunningDataOK DEF CheckCancelled, Active, Reading, dataVars
  <2> QED BY <1>7, <2>1, <2>2 DEF CheckCancelled
<1>8. CASE WriteChunk(t)
  BY <1>8, WriteDataOK
<1>9. CASE WriteFails(t)
  BY <1>9, LeaveEnds, EndedDataOK DEF WriteFails
<1>10. CASE Verify(t)
  <2>1. sink[t] = hashed[t] /\ length[t] = Len(sink[t])
    BY <1>10 DEF Verify, DataOK, Active
  <2>2. pc'[t] = "ended" /\ UNCHANGED <<sink, hashed, length, ref>>
    BY <1>10 DEF Verify, TypeOK, dataVars, callVars
  <2>3. CASE LengthDiffers(t) \/ DigestDiffers(t)
    <3>1. result'[t] # "ok"
      BY <1>10, <2>3 DEF Verify, TypeOK
    <3> QED BY <2>2, <3>1, EndedDataOK
  <2>4. CASE ~LengthDiffers(t) /\ ~DigestDiffers(t)
    <3>1. /\ ref[t].expectedLength \in {None, length[t]}
          /\ ref[t].expectedDigest \in {None, hashed[t]}
      BY <2>4 DEF LengthDiffers, DigestDiffers
    <3> QED BY <2>1, <2>2, <3>1 DEF DataOK, Active, Reading
  <2> QED BY <2>3, <2>4
<1> QED BY <1>1, <1>2, <1>3, <1>4, <1>5, <1>6, <1>7, <1>8, <1>9, <1>10 DEF Step

\* Every step keeps the agreement of sink, hash and length in all calls.
LEMMA NextDataInv == TypeOK /\ DataInv /\ [Next]_vars => DataInv'
<1> SUFFICES ASSUME TypeOK, DataInv, [Next]_vars PROVE DataInv'
  OBVIOUS
<1>1. CASE UNCHANGED <<pc, ref, dataVars, result>>
  BY <1>1 DEF DataInv, DataOK, Active, Reading, dataVars
<1>2. ASSUME NEW t \in Threads, NEW r \in References, NEW n \in ChunkSizes,
             BeginTransfer(t, r, n)
      PROVE  DataInv'
  <2>1. /\ sink'[t] = << >> /\ hashed'[t] = << >> /\ length'[t] = 0
        /\ pc'[t] \in {"open", "ended"} /\ result'[t] # "ok"
        /\ pc'[t] = "open" => result'[t] = "pending"
    BY <1>2 DEF BeginTransfer, TypeOK
  <2>2. DataOK(t)'
    BY <2>1 DEF DataOK, Active, Reading
  <2>3. ASSUME NEW u \in Threads \ {t} PROVE DataOK(u)'
    <3>1. /\ pc'[u] = pc[u] /\ result'[u] = result[u] /\ ref'[u] = ref[u]
          /\ sink'[u] = sink[u] /\ hashed'[u] = hashed[u] /\ length'[u] = length[u]
      BY <1>2 DEF BeginTransfer, TypeOK
    <3> QED BY <3>1 DEF DataInv, DataOK, Active, Reading
  <2> QED BY <2>2, <2>3 DEF DataInv
<1>3. ASSUME NEW t \in Threads, Step(t) PROVE DataInv'
  <2>1. DataOK(t)'
    BY <1>3, StepDataOK DEF DataInv
  <2>2. ASSUME NEW u \in Threads \ {t} PROVE DataOK(u)'
    BY <1>3, OthersFrame, StepFrame DEF DataInv, DataOK, Active, Reading, callVars
  <2> QED BY <2>1, <2>2 DEF DataInv
<1> QED BY <1>1, <1>2, <1>3
        DEF Next, Register, Release, Cancel, vars, callVars, dataVars

\* Sink, hash and length agree in every behaviour.
LEMMA DataInvariance == Spec => []DataInv
<1>1. Init => DataInv
  BY DEF Init, DataInv, DataOK, Active, Reading
<1> QED BY <1>1, NextDataInv, Typed, PTL DEF Spec

\* transfer_payload returns an identity only for bytes its sink accepted and
\* that meet every expectation of the reference, for all contents and sizes.
THEOREM TransfersAreVerified == Spec => []VerifiedTransfer
<1>1. DataInv => VerifiedTransfer
  BY DEF DataInv, DataOK, VerifiedTransfer
<1> QED BY <1>1, DataInvariance, PTL

-----------------------------------------------------------------------------
(* Bounds on what reaches the sink, and the streams of factories *)

Running == {"open", "factory", "read", "check", "write", "verify"}

\* A call at q with expected length e and chunk size n, s bytes in its sink, k
\* in its chunk, cancelled when there were a: a chunk is no longer than it may
\* be, a running call has not passed the declared length, and the write of a
\* cancelled call is the one that the cancellation overtook.
Bounded(q, e, n, s, k, a) ==
  /\ q \in {"check", "write"} => k <= n
  /\ e # None => (q \in Running => s <= e) /\ s <= e + n
  /\ a # None => (q = "write" => s = a) /\ s <= a + n

BoundedAt(t) ==
  Bounded(pc[t], ref[t].expectedLength, size[t], Len(sink[t]), Len(chunk[t]), cancelAt[t])

BoundInv == \A t \in Threads : BoundedAt(t)

\* The numbers that BoundedAt speaks of.
LEMMA BoundTypes ==
  ASSUME TypeOK, NEW t \in Threads
  PROVE  /\ ref[t].expectedLength \in Nat \cup {None} /\ size[t] \in Nat
         /\ cancelAt[t] \in Nat \cup {None} /\ Len(sink[t]) \in Nat /\ Len(chunk[t]) \in Nat
<1>1. ref[t] \in References \cup {NoReference} /\ size[t] \in Nat
      /\ cancelAt[t] \in Nat \cup {None} /\ sink[t] \in Seq(Bytes) /\ chunk[t] \in Seq(Bytes)
  BY DEF TypeOK
<1>2. ref[t].expectedLength \in Nat \cup {None}
  <2>1. CASE ref[t] \in References
    BY <2>1, ReferenceAssumption DEF References
  <2>2. CASE ref[t] = NoReference
    BY <2>2 DEF NoReference
  <2> QED BY <1>1, <2>1, <2>2
<1> QED BY <1>1, <1>2, LenProperties

\* A move without a write, and no move to a write of a cancelled call.
LEMMA MoveBounded ==
  ASSUME NEW q \in Running, NEW p, NEW e, NEW n, NEW s, NEW k, NEW j, NEW a,
         Bounded(q, e, n, s, k, a),
         p \in {"check", "write"} => j <= n,
         p = "write" => a = None
  PROVE  Bounded(p, e, n, s, j, a)
BY DEF Bounded

\* A write of m bytes of the chunk, which stays within the declared length
\* unless it ends the call.
LEMMA WriteBounded ==
  ASSUME NEW p \in {"read", "ended"}, NEW e \in Nat \cup {None}, NEW n \in Nat,
         NEW s \in Nat, NEW k \in Nat, NEW a \in Nat \cup {None}, NEW m \in 0 .. k,
         Bounded("write", e, n, s, k, a),
         p = "read" /\ e # None => s + m <= e
  PROVE  Bounded(p, e, n, s + m, k, a)
<1>1. k <= n /\ m <= n
  BY DEF Bounded
<1>2. e # None => s <= e /\ e \in Nat
  BY DEF Bounded, Running
<1>3. a # None => s = a
  BY DEF Bounded
<1> QED BY <1>1, <1>2, <1>3 DEF Bounded, Running

\* The length of a sink after a write.
LEMMA WrittenLength ==
  ASSUME NEW s \in Seq(Bytes), NEW b \in Seq(Bytes), NEW m \in 0 .. Len(b)
  PROVE  Len(s \o Take(b, m)) = Len(s) + m
<1>1. Take(b, m) \in Seq(Bytes) /\ Len(Take(b, m)) = m
  BY TakeType
<1>2. ASSUME NEW c \in Seq(Bytes) PROVE Len(s \o c) = Len(s) + Len(c)
  OBVIOUS
<1> QED BY <1>1, <1>2

\* Every step of a transfer keeps its own bounds.
LEMMA StepBounded ==
  ASSUME TypeOK, NEW t \in Threads, DataOK(t), BoundedAt(t), Step(t)
  PROVE  BoundedAt(t)'
<1> DEFINE e == ref[t].expectedLength
           n == size[t]
           s == Len(sink[t])
           k == Len(chunk[t])
           a == cancelAt[t]
<1>1. UNCHANGED <<ref, size, cancelAt>>
  BY StepFrame DEF Step, OpenSource, CallFactory, RejectSize, ReadChunk, ReadFails,
     EndOfStream, CheckCancelled, WriteChunk, WriteFails, Verify, callVars
<1>2. /\ e \in Nat \cup {None} /\ n \in Nat /\ s \in Nat /\ k \in Nat /\ a \in Nat \cup {None}
      /\ Bounded(pc[t], e, n, s, k, a) /\ pc[t] \in Running
  BY BoundTypes DEF BoundedAt, Step, OpenSource, CallFactory, RejectSize, ReadChunk, ReadFails,
     EndOfStream, CheckCancelled, WriteChunk, WriteFails, Verify, Running
<1>3. ASSUME sink'[t] = sink[t], pc'[t] \notin {"check", "write"}
      PROVE  BoundedAt(t)'
  BY <1>1, <1>2, <1>3, MoveBounded DEF BoundedAt
<1>4. ASSUME NEW f, Leave(t, f) PROVE pc'[t] = "ended"
  BY <1>4 DEF Leave, TypeOK
<1>5. CASE OpenSource(t) \/ CallFactory(t)
  BY <1>5, <1>3 DEF OpenSource, CallFactory, TypeOK, dataVars
<1>6. CASE RejectSize(t) \/ ReadFails(t) \/ EndOfStream(t) \/ Verify(t)
  <2>1. UNCHANGED sink
    BY <1>6 DEF RejectSize, ReadFails, EndOfStream, Verify, dataVars
  <2>2. pc'[t] \in {"ended", "verify"}
    BY <1>4, <1>6 DEF RejectSize, ReadFails, EndOfStream, Verify, TypeOK
  <2> QED BY <1>3, <2>1, <2>2
<1>7. CASE ReadChunk(t)
  <2>1. UNCHANGED sink
    BY <1>7 DEF ReadChunk
  <2>2. CASE pc'[t] = "ended"
    BY <1>3, <2>1, <2>2
  <2>3. CASE pc'[t] # "ended"
    <3>1. PICK m \in 1 .. Len(unread[StreamId(t)]) :
            /\ chunk' = [chunk EXCEPT ![t] = Take(unread[StreamId(t)], m)]
            /\ m <= size[t]
            /\ pc' = [pc EXCEPT ![t] = "check"]
      BY <1>4, <1>7, <2>3 DEF ReadChunk
    <3>2. StreamId(t) \in CallerStreams \cup Threads /\ unread[StreamId(t)] \in Seq(Bytes)
      BY StreamAssumption DEF StreamId, TypeOK
    <3>3. pc'[t] = "check" /\ chunk'[t] = Take(unread[StreamId(t)], m)
      BY <3>1 DEF TypeOK
    <3>4. Len(chunk'[t]) = m
      BY <3>2, <3>3, TakeType
    <3> QED BY <1>1, <1>2, <2>1, <3>1, <3>3, <3>4, MoveBounded DEF BoundedAt
  <2> QED BY <2>2, <2>3
<1>8. CASE CheckCancelled(t)
  <2>1. UNCHANGED <<sink, chunk>>
    BY <1>8 DEF CheckCancelled, dataVars
  <2>2. CASE pc'[t] = "ended"
    BY <1>3, <2>1, <2>2
  <2>3. CASE pc'[t] # "ended"
    <3>1. pc'[t] = "write" /\ pc[t] = "check" /\ a = None
      BY <1>4, <1>8, <2>3 DEF CheckCancelled, Cancelled, TypeOK
    <3>2. k <= n
      BY <1>2, <3>1 DEF Bounded
    <3> QED BY <1>1, <1>2, <2>1, <3>1, <3>2, MoveBounded DEF BoundedAt
  <2> QED BY <2>2, <2>3
<1>9. CASE WriteChunk(t) \/ WriteFails(t)
  <2>1. PICK m \in 0 .. Len(chunk[t]) :
          /\ sink' = [sink EXCEPT ![t] = @ \o Take(chunk[t], m)]
          /\ WriteChunk(t) /\ pc'[t] # "ended" => m = Len(chunk[t])
    <3>1. CASE WriteChunk(t) /\ ~Leave(t, "IncompleteUpload")
      <4>1. sink' = [sink EXCEPT ![t] = @ \o Take(chunk[t], Len(chunk[t]))]
        BY <3>1, ReportedWrite
      <4>2. Len(chunk[t]) \in 0 .. Len(chunk[t])
        BY DEF TypeOK
      <4> QED BY <4>1, <4>2
    <3>2. CASE WriteChunk(t) /\ Leave(t, "IncompleteUpload")
      <4>1. pc'[t] = "ended"
        BY <3>2, LeaveEnds
      <4>2. \E m \in 0 .. Len(chunk[t]) : sink' = [sink EXCEPT ![t] = @ \o Take(chunk[t], m)]
        BY <3>2 DEF WriteChunk
      <4> QED BY <4>1, <4>2
    <3>3. CASE WriteFails(t)
      <4>1. pc'[t] = "ended"
        BY <3>3, LeaveEnds DEF WriteFails
      <4>2. \E m \in 0 .. Len(chunk[t]) : sink' = [sink EXCEPT ![t] = @ \o Take(chunk[t], m)]
        BY <3>3 DEF WriteFails
      <4> QED BY <4>1, <4>2
    <3> QED BY <1>9, <3>1, <3>2, <3>3
  <2>2. sink[t] \in Seq(Bytes) /\ chunk[t] \in Seq(Bytes) /\ pc[t] = "write" /\ UNCHANGED chunk
    BY <1>9 DEF TypeOK, WriteChunk, WriteFails
  <2>3. Len(sink'[t]) = s + m
    <3>1. sink'[t] = sink[t] \o Take(chunk[t], m)
      BY <2>1 DEF TypeOK
    <3>2. Len(sink[t] \o Take(chunk[t], m)) = Len(sink[t]) + m
      BY <2>2, WrittenLength
    <3> QED BY <3>1, <3>2
  <2>4. pc'[t] \in {"read", "ended"}
    BY <1>4, <1>9 DEF WriteChunk, WriteFails, TypeOK
  <2>5. pc'[t] = "read" /\ e # None => s + m <= e
    <3> SUFFICES ASSUME pc'[t] = "read", e # None PROVE s + m <= e
      OBVIOUS
    <3>1. /\ length' = [length EXCEPT ![t] = @ + Len(chunk[t])]
          /\ ~Exceeds(t, length'[t])
      BY <1>4, <1>9 DEF WriteChunk, WriteFails
    <3>2. length'[t] = length[t] + k /\ length[t] \in Nat
      BY <3>1 DEF TypeOK
    <3>3. length[t] = s
      BY <2>2 DEF DataOK, Active, Reading
    <3>4. ~(s + k > e)
      BY <3>1, <3>2, <3>3 DEF Exceeds
    <3>5. m \in 0 .. k /\ e \in Nat /\ s \in Nat /\ k \in Nat
      BY <1>2
    <3> HIDE DEF e, s, k
    <3> QED BY <3>4, <3>5
  <2>6. Bounded(pc'[t], e, n, s + m, k, a)
    BY <1>2, <2>2, <2>4, <2>5, WriteBounded
  <2> QED BY <1>1, <2>2, <2>3, <2>6 DEF BoundedAt
<1> QED BY <1>5, <1>6, <1>7, <1>8, <1>9 DEF Step

\* Every step keeps the bounds of all calls.
LEMMA NextBoundInv == TypeOK /\ DataInv /\ BoundInv /\ [Next]_vars => BoundInv'
<1> SUFFICES ASSUME TypeOK, DataInv, BoundInv, [Next]_vars PROVE BoundInv'
  OBVIOUS
<1>1. CASE UNCHANGED <<pc, ref, size, sink, chunk, cancelAt>>
  BY <1>1 DEF BoundInv, BoundedAt
<1>2. ASSUME NEW t \in Threads, NEW r \in References, NEW n \in ChunkSizes,
             BeginTransfer(t, r, n)
      PROVE  BoundInv'
  <2>1. /\ sink'[t] = << >> /\ chunk'[t] = << >> /\ cancelAt'[t] = None
        /\ pc'[t] \in {"open", "ended"} /\ ref'[t] = r /\ size'[t] = n
    BY <1>2 DEF BeginTransfer, TypeOK
  <2>2. r.expectedLength \in Nat \cup {None} /\ n \in Nat
    BY ReferenceAssumption DEF References
  <2>3. Bounded(pc'[t], r.expectedLength, n, 0, 0, None)
    BY <2>1, <2>2 DEF Bounded
  <2>4. BoundedAt(t)'
    BY <2>1, <2>3 DEF BoundedAt
  <2>5. ASSUME NEW u \in Threads \ {t} PROVE BoundedAt(u)'
    BY <1>2 DEF BeginTransfer, TypeOK, BoundInv, BoundedAt
  <2> QED BY <2>4, <2>5 DEF BoundInv
<1>3. ASSUME NEW t \in Threads, Step(t) PROVE BoundInv'
  <2>1. BoundedAt(t)'
    BY <1>3, StepBounded DEF BoundInv, DataInv
  <2>2. UNCHANGED <<ref, size, cancelAt>>
    BY <1>3, StepFrame DEF Step, OpenSource, CallFactory, RejectSize, ReadChunk, ReadFails,
       EndOfStream, CheckCancelled, WriteChunk, WriteFails, Verify, callVars
  <2>3. ASSUME NEW u \in Threads \ {t} PROVE BoundedAt(u)'
    BY <1>3, <2>2, OthersFrame DEF BoundInv, BoundedAt
  <2> QED BY <2>1, <2>3 DEF BoundInv
<1>4. ASSUME NEW t \in Threads, Cancel(t) PROVE BoundInv'
  <2>1. /\ cancelAt'[t] = Len(sink[t]) /\ \A u \in Threads \ {t} : cancelAt'[u] = cancelAt[u]
        /\ UNCHANGED <<pc, ref, size, sink, chunk>>
    BY <1>4 DEF Cancel, TypeOK, callVars, dataVars
  <2>2. Bounded(pc[t], ref[t].expectedLength, size[t], Len(sink[t]), Len(chunk[t]), Len(sink[t]))
    BY BoundTypes DEF BoundInv, BoundedAt, Bounded
  <2>3. BoundedAt(t)'
    BY <2>1, <2>2 DEF BoundedAt
  <2>4. ASSUME NEW u \in Threads \ {t} PROVE BoundedAt(u)'
    BY <2>1 DEF BoundInv, BoundedAt
  <2> QED BY <2>3, <2>4 DEF BoundInv
<1> QED BY <1>1, <1>2, <1>3, <1>4
        DEF Next, Register, Release, vars, callVars, dataVars

LEMMA BoundInvariance == Spec => []BoundInv
<1>1. Init => BoundInv
  <2> SUFFICES ASSUME Init, NEW t \in Threads PROVE BoundedAt(t)
    BY DEF BoundInv
  <2>1. /\ pc[t] = "idle" /\ ref[t].expectedLength = None /\ cancelAt[t] = None
    BY DEF Init, NoReference
  <2> QED BY <2>1 DEF BoundedAt, Bounded
<1> QED BY <1>1, NextBoundInv, Typed, DataInvariance, PTL DEF Spec

\* A transfer with a declared length never overshoots it by more than a chunk,
\* for any stream, chunk size and declared length.
THEOREM SinkBounded == Spec => []SinkBound
<1>1. BoundInv => SinkBound
  BY DEF BoundInv, BoundedAt, Bounded, SinkBound
<1> QED BY <1>1, BoundInvariance, PTL

\* At most one chunk reaches the sink after the cancellation, however the flag
\* and the loop interleave.
THEOREM CancelBounded == Spec => []CancelBound
<1>1. BoundInv => CancelBound
  BY DEF BoundInv, BoundedAt, Bounded, CancelBound
<1> QED BY <1>1, BoundInvariance, PTL

\* Each step opens or closes the stream of its own call only, and with the
\* call's way into or out of the with block.
StreamOK(t) == t \in openStreams <=> Reading(t) /\ src[t] \in Factories

StreamInv == \A t \in Threads : StreamOK(t)

LEMMA StepStreamOK ==
  ASSUME TypeOK, NEW t \in Threads, StreamOK(t), Step(t)
  PROVE  StreamOK(t)' /\ \A u \in Threads \ {t} : u \in openStreams' <=> u \in openStreams
<1>1. src' = src
  BY StepFrame DEF callVars
<1>2. ASSUME NEW f, Leave(t, f)
      PROVE  /\ pc'[t] = "ended" /\ openStreams' = openStreams \ {t}
  BY <1>2 DEF Leave, CloseStream, TypeOK
<1>3. ASSUME pc'[t] \notin {"read", "check", "write"}, openStreams' = openStreams \ {t}
      PROVE  StreamOK(t)' /\ \A u \in Threads \ {t} : u \in openStreams' <=> u \in openStreams
  BY <1>3 DEF StreamOK, Reading
<1>4. ASSUME pc[t] \in {"read", "check", "write"}, pc'[t] \in {"read", "check", "write"},
             UNCHANGED openStreams
      PROVE  StreamOK(t)' /\ \A u \in Threads \ {t} : u \in openStreams' <=> u \in openStreams
  BY <1>1, <1>4 DEF StreamOK, Reading
<1>5. CASE OpenSource(t)
  <2>1. UNCHANGED openStreams /\ pc[t] = "open"
    BY <1>5 DEF OpenSource
  <2>2. pc'[t] \in {"ended", "factory", "read"} /\ (pc'[t] = "read" => src[t] \in StreamSources)
    BY <1>5 DEF OpenSource, TypeOK
  <2> QED BY <1>1, <2>1, <2>2, SourceAssumption DEF StreamOK, Reading
<1>6. CASE CallFactory(t)
  <2>1. pc[t] = "factory" /\ src[t] \in Factories
    BY <1>6 DEF CallFactory, TypeOK
  <2>2. CASE pc'[t] = "read" /\ openStreams' = openStreams \cup {t}
    BY <1>1, <2>1, <2>2 DEF StreamOK, Reading
  <2>3. CASE pc'[t] = "ended" /\ UNCHANGED openStreams
    BY <1>1, <2>1, <2>3 DEF StreamOK, Reading
  <2> QED BY <1>6, <2>2, <2>3 DEF CallFactory, TypeOK
<1>7. CASE RejectSize(t) \/ ReadFails(t) \/ WriteFails(t)
  BY <1>2, <1>3, <1>7 DEF RejectSize, ReadFails, WriteFails
<1>8. CASE ReadChunk(t)
  BY <1>2, <1>3, <1>4, <1>8 DEF ReadChunk, TypeOK
<1>9. CASE EndOfStream(t)
  BY <1>2, <1>3, <1>9 DEF EndOfStream, CloseStream, TypeOK
<1>10. CASE CheckCancelled(t)
  BY <1>2, <1>3, <1>4, <1>10 DEF CheckCancelled, TypeOK
<1>11. CASE WriteChunk(t)
  BY <1>2, <1>3, <1>4, <1>11 DEF WriteChunk, TypeOK
<1>12. CASE Verify(t)
  <2>1. UNCHANGED openStreams /\ pc[t] = "verify" /\ pc'[t] = "ended"
    BY <1>12 DEF Verify, TypeOK
  <2> QED BY <2>1 DEF StreamOK, Reading
<1> QED BY <1>5, <1>6, <1>7, <1>8, <1>9, <1>10, <1>11, <1>12 DEF Step

LEMMA NextStreamInv == TypeOK /\ StreamInv /\ [Next]_vars => StreamInv'
<1> SUFFICES ASSUME TypeOK, StreamInv, [Next]_vars PROVE StreamInv'
  OBVIOUS
<1>1. CASE UNCHANGED <<pc, src, openStreams>>
  BY <1>1 DEF StreamInv, StreamOK, Reading
<1>2. ASSUME NEW t \in Threads, NEW r \in References, NEW n \in ChunkSizes,
             BeginTransfer(t, r, n)
      PROVE  StreamInv'
  <2>1. pc[t] \in {"idle", "ended"} /\ pc'[t] \in {"open", "ended"} /\ UNCHANGED openStreams
    BY <1>2 DEF BeginTransfer, TypeOK
  <2>2. \A u \in Threads \ {t} : pc'[u] = pc[u] /\ src'[u] = src[u]
    BY <1>2 DEF BeginTransfer, TypeOK
  <2>3. StreamOK(t)'
    BY <2>1 DEF StreamInv, StreamOK, Reading
  <2>4. ASSUME NEW u \in Threads \ {t} PROVE StreamOK(u)'
    BY <2>1, <2>2 DEF StreamInv, StreamOK, Reading
  <2> QED BY <2>3, <2>4 DEF StreamInv
<1>3. ASSUME NEW t \in Threads, Step(t) PROVE StreamInv'
  <2>1. StreamOK(t)' /\ \A u \in Threads \ {t} : u \in openStreams' <=> u \in openStreams
    BY <1>3, StepStreamOK DEF StreamInv
  <2>2. ASSUME NEW u \in Threads \ {t} PROVE StreamOK(u)'
    BY <1>3, <2>1, OthersFrame, StepFrame DEF StreamInv, StreamOK, Reading, callVars
  <2> QED BY <2>1, <2>2 DEF StreamInv
<1> QED BY <1>1, <1>2, <1>3 DEF Next, Register, Release, Cancel, vars, callVars

\* The stream that a factory made is open exactly while its call is inside the
\* with block: every way out closes it, for any number of concurrent calls.
THEOREM StreamsAreClosed == Spec => []FactoryStreamsClosed
<1>1. Init => StreamInv
  BY DEF Init, StreamInv, StreamOK, Reading
<1>2. TypeOK /\ StreamInv => FactoryStreamsClosed
  BY DEF TypeOK, StreamInv, StreamOK, FactoryStreamsClosed
<1> QED BY <1>1, <1>2, NextStreamInv, Typed, PTL DEF Spec

-----------------------------------------------------------------------------
(* Completeness of the content *)

\* The call has the source open (or is about to call its factory).
Holding(t) == Reading(t) \/ pc[t] \in {"factory", "verify"}

\* What the call still has to send.
Rest(t) ==
  IF pc[t] = "read" THEN unread[StreamId(t)]
  ELSE IF Reading(t) THEN chunk[t] \o unread[StreamId(t)]
  ELSE << >>

\* Only one call ever holds a one-shot source.
AloneInv ==
  /\ \A t \in Threads : Holding(t) => src[t] \in used
  /\ \A t, u \in Threads :
       t # u /\ Holding(t) /\ Holding(u) /\ src[t] = src[u] => Replayable(src[t])

\* A stream nobody has opened is untouched.
FreshInv ==
  \A s \in StreamSources \ used :
    Exclusive(s) => unread[StreamOf[s]] = ContentOf(s)

\* What was sent and what remains make up the content.
SentOK(t) ==
  /\ pc[t] \in {"open", "factory"} => sink[t] = << >>
  /\ (Reading(t) \/ pc[t] = "verify" \/ result[t] = "ok") /\ Exclusive(src[t])
       => sink[t] \o Rest(t) = ContentOf(src[t])

SentInv == \A t \in Threads : SentOK(t)

ContentInv == AloneInv /\ FreshInv /\ SentInv

\* No step lets a second call read a source that is not replayable.
LEMMA NextAloneInv == TypeOK /\ AloneInv /\ [Next]_vars => AloneInv'
<1> SUFFICES ASSUME TypeOK, AloneInv, [Next]_vars PROVE AloneInv'
  OBVIOUS
<1>1. CASE UNCHANGED <<pc, src, used>>
  BY <1>1 DEF AloneInv, Holding, Reading, Replayable
<1>2. ASSUME NEW t \in Threads, NEW r \in References, NEW n \in ChunkSizes,
             BeginTransfer(t, r, n)
      PROVE  AloneInv'
  <2>1. pc'[t] \in {"open", "ended"} /\ UNCHANGED used
    BY <1>2 DEF BeginTransfer, TypeOK, sourceVars
  <2>2. \A u \in Threads \ {t} : pc'[u] = pc[u] /\ src'[u] = src[u]
    BY <1>2 DEF BeginTransfer, TypeOK
  <2> QED BY <2>1, <2>2 DEF AloneInv, Holding, Reading, Replayable
<1>3. ASSUME NEW t \in Threads, OpenSource(t) PROVE AloneInv'
  <2>1. UNCHANGED src /\ \A u \in Threads \ {t} : pc'[u] = pc[u]
    BY <1>3 DEF OpenSource, TypeOK, callVars
  <2>2. CASE CanOpen(src[t])
    <3>1. used' = used \cup {src[t]}
      BY <1>3, <2>2 DEF OpenSource
    <3>2. \A u \in Threads : Holding(u) /\ src[u] = src[t] => Replayable(src[t])
      BY <2>2 DEF AloneInv, CanOpen
    <3> QED BY <2>1, <3>1, <3>2 DEF AloneInv, Holding, Reading, Replayable
  <2>3. CASE ~CanOpen(src[t])
    <3>1. pc'[t] = "ended" /\ UNCHANGED used
      BY <1>3, <2>3 DEF OpenSource, TypeOK, sourceVars
    <3> QED BY <2>1, <3>1 DEF AloneInv, Holding, Reading, Replayable
  <2> QED BY <2>2, <2>3
<1>4. ASSUME NEW t \in Threads, Step(t), ~OpenSource(t) PROVE AloneInv'
  <2>1. UNCHANGED <<used, src>> /\ \A u \in Threads \ {t} : pc'[u] = pc[u]
    BY <1>4, OtherStepsKeepSources, StepFrame, OthersFrame DEF sourceVars, callVars
  <2>2. Holding(t)
    BY <1>4 DEF Step, CallFactory, RejectSize, ReadChunk, ReadFails, EndOfStream,
                CheckCancelled, WriteChunk, WriteFails, Verify, Holding, Reading
  <2> QED BY <2>1, <2>2 DEF AloneInv, Holding, Reading, Replayable
<1> QED BY <1>1, <1>2, <1>3, <1>4
        DEF Next, Register, Release, Cancel, vars, callVars, sourceVars

\* Which stream a step of t can read from or replace.
LEMMA UnreadFrame ==
  ASSUME TypeOK, NEW t \in Threads, Step(t)
  PROVE  /\ \A x \in (CallerStreams \cup Threads) \ {StreamId(t)} : unread'[x] = unread[x]
         /\ unread' # unread => Holding(t)
<1>1. CASE CallFactory(t)
  <2>1. StreamId(t) = t
    BY <1>1, SourceAssumption DEF CallFactory, TypeOK, StreamId
  <2> QED BY <1>1, <2>1 DEF CallFactory, TypeOK, Holding
<1>2. CASE ReadChunk(t)
  BY <1>2 DEF ReadChunk, TypeOK, Holding, Reading
<1>3. CASE UNCHANGED unread
  BY <1>3
<1> QED BY <1>1, <1>2, <1>3 DEF Step, OpenSource, RejectSize, ReadFails, EndOfStream,
                                CheckCancelled, WriteChunk, WriteFails, Verify

\* No other thread reads the stream of a source that is not shared.
LEMMA NoIntruder ==
  ASSUME TypeOK, AloneInv, NEW t \in Threads, NEW u \in Threads \ {t},
         Holding(t), Holding(u), Exclusive(src[u])
  PROVE  StreamId(t) # StreamId(u)
<1>1. src[t] \in Sources /\ src[u] \in Sources
  BY DEF TypeOK, Holding, Active
<1>2. CASE src[t] \in StreamSources /\ src[u] \in StreamSources
  <2>1. src[t] # src[u]
    BY <1>2, SourceAssumption DEF AloneInv, Replayable, Factories
  <2> QED BY <1>2, <2>1 DEF StreamId, Exclusive
<1>3. CASE ~(src[t] \in StreamSources /\ src[u] \in StreamSources)
  BY <1>1, <1>3, StreamAssumption DEF StreamId
<1> QED BY <1>2, <1>3

\* The stream a call reads is a caller's or its own.
LEMMA StreamIdType ==
  ASSUME NEW t \in Threads
  PROVE  StreamId(t) \in CallerStreams \cup Threads
BY StreamAssumption DEF StreamId

\* No step reads from the stream of a source that nobody opened.
LEMMA NextFreshInv == TypeOK /\ AloneInv /\ FreshInv /\ [Next]_vars => FreshInv'
<1> SUFFICES ASSUME TypeOK, AloneInv, FreshInv, [Next]_vars PROVE FreshInv'
  OBVIOUS
<1>1. CASE UNCHANGED <<unread, used>>
  BY <1>1 DEF FreshInv, Exclusive, ContentOf
<1>2. ASSUME NEW t \in Threads, Step(t) PROVE FreshInv'
  <2> SUFFICES ASSUME NEW s \in StreamSources \ used', Exclusive(s)
               PROVE  unread'[StreamOf[s]] = ContentOf(s)
    BY DEF FreshInv, Exclusive, ContentOf
  <2>1. s \notin used
    BY <1>2, OtherStepsKeepSources DEF OpenSource, sourceVars
  <2>2. CASE Holding(t)
    <3>1. src[t] # s
      BY <2>1, <2>2 DEF AloneInv
    <3>2. StreamId(t) # StreamOf[s]
      BY <3>1, StreamAssumption DEF StreamId, Exclusive
    <3>3. unread'[StreamOf[s]] = unread[StreamOf[s]]
      BY <1>2, <3>2, UnreadFrame, StreamAssumption
    <3> QED BY <2>1, <3>3 DEF FreshInv
  <2>3. CASE ~Holding(t)
    BY <1>2, <2>1, <2>3, UnreadFrame DEF FreshInv
  <2> QED BY <2>2, <2>3
<1> QED BY <1>1, <1>2
        DEF Next, Register, Release, BeginTransfer, Cancel, vars, sourceVars

\* Reading one's own stream takes no byte from another call.
LEMMA OthersSentOK ==
  ASSUME TypeOK, AloneInv, NEW t \in Threads, Step(t), NEW u \in Threads \ {t}, SentOK(u)
  PROVE  SentOK(u)'
<1>1. /\ pc'[u] = pc[u] /\ result'[u] = result[u] /\ chunk'[u] = chunk[u]
      /\ sink'[u] = sink[u] /\ src' = src
  BY OthersFrame, StepFrame DEF callVars
<1>2. StreamId(u)' = StreamId(u) /\ Reading(u)' = Reading(u)
  BY <1>1 DEF StreamId, Reading
<1>3. Reading(u) /\ Exclusive(src[u]) => unread'[StreamId(u)] = unread[StreamId(u)]
  BY NoIntruder, UnreadFrame, StreamIdType DEF Holding
<1>4. Exclusive(src[u])' = Exclusive(src[u]) /\ ContentOf(src[u])' = ContentOf(src[u])
  BY <1>1 DEF Exclusive, ContentOf
<1>5. Exclusive(src[u]) => Rest(u)' = Rest(u)
  BY <1>1, <1>2, <1>3 DEF Rest, Reading
<1> QED BY <1>1, <1>2, <1>4, <1>5 DEF SentOK

\* A call that ended without success has nothing left to show.
LEMMA EndedSentOK ==
  ASSUME NEW t \in Threads, pc'[t] = "ended", result'[t] # "ok"
  PROVE  SentOK(t)'
BY DEF SentOK, Reading

\* A running call keeps its source.
LEMMA SourceFrame ==
  ASSUME NEW t \in Threads, Step(t)
  PROVE  /\ src' = src /\ StreamId(t)' = StreamId(t)
         /\ Exclusive(src[t])' = Exclusive(src[t])
         /\ ContentOf(src[t])' = ContentOf(src[t])
BY StepFrame DEF callVars, StreamId, Exclusive, ContentOf

\* A call that opens a source has all of its content before it.
LEMMA OpenSentOK ==
  ASSUME TypeOK, DataInv, FreshInv, NEW t \in Threads, SentOK(t), OpenSource(t)
  PROVE  SentOK(t)'
<1> USE SourceFrame DEF Step
<1>1. CASE ~CanOpen(src[t])
  BY <1>1, EndedSentOK DEF OpenSource, TypeOK
<1>2. CASE CanOpen(src[t])
  <2>1. /\ sink[t] = << >> /\ UNCHANGED <<sink, unread, result>>
        /\ src[t] \in Sources /\ result[t] = "pending"
    BY <1>2 DEF OpenSource, SentOK, TypeOK, Active, DataInv, DataOK, dataVars
  <2>2. CASE src[t] \in StreamSources
    <3>1. pc'[t] = "read" /\ src[t] \notin used
      BY <1>2, <2>2, SourceAssumption
      DEF OpenSource, TypeOK, CanOpen, Replayable, Factories
    <3>2. Exclusive(src[t]) => unread[StreamId(t)] = ContentOf(src[t])
      BY <2>2, <3>1 DEF FreshInv, StreamId
    <3>3. unread[StreamId(t)] \in Seq(Bytes)
      BY StreamIdType DEF TypeOK
    <3>4. << >> \o unread[StreamId(t)] = unread[StreamId(t)]
      BY <3>3, ConcatEmptySeq
    <3>5. Rest(t)' = unread[StreamId(t)]
      BY <2>1, <3>1 DEF Rest
    <3> QED BY <2>1, <3>1, <3>2, <3>4, <3>5 DEF SentOK
  <2>3. CASE src[t] \notin StreamSources
    <3>1. pc'[t] = "factory"
      BY <1>2, <2>3 DEF OpenSource, TypeOK
    <3> QED BY <2>1, <3>1 DEF SentOK, Reading
  <2> QED BY <2>2, <2>3
<1> QED BY <1>1, <1>2

\* A factory call gives the whole content to read.
LEMMA FactorySentOK ==
  ASSUME TypeOK, DataInv, NEW t \in Threads, SentOK(t), CallFactory(t)
  PROVE  SentOK(t)'
<1> USE SourceFrame DEF Step
<1>1. CASE pc' = [pc EXCEPT ![t] = "ended"]
  <2>1. result'[t] # "ok" /\ pc'[t] = "ended"
    BY <1>1 DEF CallFactory, DataInv, DataOK, Active, TypeOK
  <2> QED BY <2>1, EndedSentOK
<1>2. CASE pc' = [pc EXCEPT ![t] = "read"]
  <2>1. /\ src[t] \in Factories /\ src[t] \notin StreamSources
        /\ StreamId(t) = t /\ Content[src[t]] \in Seq(Bytes)
    BY SourceAssumption, StreamAssumption DEF CallFactory, TypeOK, StreamId
  <2>2. pc'[t] = "read" /\ UNCHANGED sink /\ sink[t] = << >>
    BY <1>2 DEF CallFactory, SentOK, TypeOK, dataVars
  <2>3. unread'[t] = Content[src[t]]
    <3>1. pc' # [pc EXCEPT ![t] = "ended"]
      BY <2>2 DEF TypeOK
    <3> QED BY <3>1 DEF CallFactory, TypeOK
  <2>4. Rest(t)' = ContentOf(src[t])
    BY <2>1, <2>2, <2>3 DEF Rest, ContentOf
  <2>5. << >> \o ContentOf(src[t]) = ContentOf(src[t])
    BY <2>1, ConcatEmptySeq DEF ContentOf
  <2> QED BY <2>2, <2>4, <2>5 DEF SentOK
<1> QED BY <1>1, <1>2 DEF CallFactory

\* A read moves bytes from the stream to the chunk and loses none.
LEMMA ReadSentOK ==
  ASSUME TypeOK, NEW t \in Threads, SentOK(t), ReadChunk(t)
  PROVE  SentOK(t)'
<1> USE SourceFrame DEF Step
<1> DEFINE x == StreamId(t)
<1>1. CASE Leave(t, "ObjectInvalidRequest")
  BY <1>1, LeaveEnds, EndedSentOK
<1>2. CASE ~Leave(t, "ObjectInvalidRequest")
  <2>1. PICK n \in 1 .. Len(unread[x]) :
          /\ unread' = [unread EXCEPT ![x] = Drop(@, n)]
          /\ chunk' = [chunk EXCEPT ![t] = Take(unread[x], n)]
    BY DEF ReadChunk
  <2>2. /\ pc[t] = "read" /\ pc'[t] = "check"
        /\ UNCHANGED <<sink, result>>
    BY <1>2 DEF ReadChunk, TypeOK
  <2>3. x \in CallerStreams \cup Threads /\ unread[x] \in Seq(Bytes)
    BY StreamIdType DEF TypeOK
  <2>4. unread'[x] = Drop(unread[x], n) /\ chunk'[t] = Take(unread[x], n)
    BY <2>1, <2>3 DEF TypeOK
  <2>5. n \in 0 .. Len(unread[x])
    BY <2>3
  <2>6. chunk'[t] \o unread'[x] = unread[x]
    BY <2>3, <2>4, <2>5, TakeDrop
  <2>7. Rest(t)' = Rest(t)
    BY <2>2, <2>6 DEF Rest, Reading
  <2> QED BY <2>2, <2>7 DEF SentOK, Reading
<1> QED BY <1>1, <1>2

\* A full write moves the chunk to the sink and loses none.
LEMMA WriteSentOK ==
  ASSUME TypeOK, NEW t \in Threads, SentOK(t), WriteChunk(t)
  PROVE  SentOK(t)'
<1> USE SourceFrame DEF Step
<1> DEFINE x == StreamId(t)
<1>1. CASE Leave(t, "IncompleteUpload")
  BY <1>1, LeaveEnds, EndedSentOK
<1>2. CASE ~Leave(t, "IncompleteUpload")
  <2>1. /\ sink' = [sink EXCEPT ![t] = @ \o Take(chunk[t], Len(chunk[t]))]
        /\ pc[t] = "write" /\ pc'[t] = "read" /\ UNCHANGED <<result, unread>>
    BY <1>2, ReportedWrite DEF TypeOK
  <2>2. chunk[t] \in Seq(Bytes) /\ sink[t] \in Seq(Bytes) /\ unread[x] \in Seq(Bytes)
    BY StreamIdType DEF TypeOK
  <2>3. sink'[t] = sink[t] \o chunk[t]
    BY <2>1, <2>2, TakeAll DEF TypeOK
  <2>4. sink'[t] \o unread[x] = sink[t] \o (chunk[t] \o unread[x])
    <3>1. (sink[t] \o chunk[t]) \o unread[x] = sink[t] \o (chunk[t] \o unread[x])
      BY <2>2, BytesAssociative
    <3> QED BY <2>3, <3>1
  <2>5. Rest(t) = chunk[t] \o unread[x] /\ Rest(t)' = unread[x]
    BY <2>1 DEF Rest, Reading
  <2> QED BY <2>1, <2>4, <2>5 DEF SentOK, Reading
<1> QED BY <1>1, <1>2

\* No step of a transfer loses a byte of its source.
LEMMA StepSentOK ==
  ASSUME TypeOK, DataInv, FreshInv, NEW t \in Threads, SentOK(t), Step(t)
  PROVE  SentOK(t)'
<1> USE SourceFrame
<1>1. CASE OpenSource(t)
  BY <1>1, OpenSentOK
<1>2. CASE CallFactory(t)
  BY <1>2, FactorySentOK
<1>3. CASE RejectSize(t)
  BY <1>3, LeaveEnds, EndedSentOK DEF RejectSize, SizeError
<1>4. CASE ReadChunk(t)
  BY <1>4, ReadSentOK
<1>5. CASE ReadFails(t)
  BY <1>5, LeaveEnds, EndedSentOK DEF ReadFails
<1>6. CASE EndOfStream(t)
  <2>1. CASE Leave(t, "StreamError")
    BY <2>1, LeaveEnds, EndedSentOK
  <2>2. CASE ~Leave(t, "StreamError")
    <3>1. /\ pc[t] = "read" /\ pc'[t] = "verify" /\ UNCHANGED <<sink, result>>
          /\ unread[StreamId(t)] = << >>
      BY <1>6, <2>2 DEF EndOfStream, TypeOK, dataVars
    <3>2. Rest(t) = << >> /\ Rest(t)' = << >>
      BY <3>1 DEF Rest, Reading
    <3> QED BY <3>1, <3>2 DEF SentOK, Reading
  <2> QED BY <2>1, <2>2
<1>7. CASE CheckCancelled(t)
  <2>1. CASE Leave(t, "TransferCancelled") \/ Leave(t, "CallbackError")
    BY <2>1, LeaveEnds, EndedSentOK
  <2>2. CASE ~(Leave(t, "TransferCancelled") \/ Leave(t, "CallbackError"))
    <3>1. /\ pc[t] = "check" /\ pc'[t] = "write"
          /\ UNCHANGED <<sink, result, chunk, unread>>
      BY <1>7, <2>2 DEF CheckCancelled, TypeOK, dataVars
    <3>2. Rest(t)' = Rest(t)
      BY <3>1 DEF Rest, Reading
    <3> QED BY <3>1, <3>2 DEF SentOK, Reading
  <2> QED BY <2>1, <2>2
<1>8. CASE WriteChunk(t)
  BY <1>8, WriteSentOK
<1>9. CASE WriteFails(t)
  BY <1>9, LeaveEnds, EndedSentOK DEF WriteFails
<1>10. CASE Verify(t)
  <2>1. pc[t] = "verify" /\ pc'[t] = "ended" /\ UNCHANGED sink
    BY <1>10 DEF Verify, TypeOK, dataVars
  <2>2. Rest(t) = << >> /\ Rest(t)' = << >>
    BY <2>1 DEF Rest, Reading
  <2> QED BY <2>1, <2>2 DEF SentOK, Reading
<1> QED BY <1>1, <1>2, <1>3, <1>4, <1>5, <1>6, <1>7, <1>8, <1>9, <1>10 DEF Step

\* No step of any thread loses a byte of a running transfer.
LEMMA NextSentInv ==
  TypeOK /\ DataInv /\ AloneInv /\ FreshInv /\ SentInv /\ [Next]_vars => SentInv'
<1> SUFFICES ASSUME TypeOK, DataInv, AloneInv, FreshInv, SentInv, [Next]_vars
             PROVE  SentInv'
  OBVIOUS
<1>1. CASE UNCHANGED <<pc, src, unread, chunk, sink, result>>
  BY <1>1 DEF SentInv, SentOK, Rest, Reading, StreamId, Exclusive, ContentOf
<1>2. ASSUME NEW t \in Threads, NEW r \in References, NEW n \in ChunkSizes,
             BeginTransfer(t, r, n)
      PROVE  SentInv'
  <2>1. sink'[t] = << >> /\ pc'[t] \in {"open", "ended"} /\ result'[t] # "ok"
    BY <1>2 DEF BeginTransfer, TypeOK
  <2>2. SentOK(t)'
    BY <2>1 DEF SentOK, Reading
  <2>3. ASSUME NEW u \in Threads \ {t} PROVE SentOK(u)'
    <3>1. /\ pc'[u] = pc[u] /\ result'[u] = result[u] /\ src'[u] = src[u]
          /\ sink'[u] = sink[u] /\ chunk'[u] = chunk[u] /\ UNCHANGED unread
      BY <1>2 DEF BeginTransfer, TypeOK
    <3>2. Rest(u)' = Rest(u)
      BY <3>1 DEF Rest, Reading, StreamId
    <3> QED BY <3>1, <3>2 DEF SentInv, SentOK, Reading, Exclusive, ContentOf
  <2> QED BY <2>2, <2>3 DEF SentInv
<1>3. ASSUME NEW t \in Threads, Step(t) PROVE SentInv'
  BY <1>3, StepSentOK, OthersSentOK DEF SentInv
<1> QED BY <1>1, <1>2, <1>3
        DEF Next, Register, Release, Cancel, vars, callVars, dataVars

\* Sink, chunk and stream make up the content, in every behaviour.
LEMMA ContentInvariance == Spec => []ContentInv
<1>1. Init => ContentInv
  <2> SUFFICES ASSUME Init PROVE ContentInv
    OBVIOUS
  <2>1. \A t \in Threads : pc[t] = "idle" /\ result[t] = "pending"
    BY DEF Init
  <2>2. AloneInv
    BY <2>1 DEF AloneInv, Holding, Reading
  <2>3. FreshInv
    BY StreamAssumption DEF Init, FreshInv, ContentOf
  <2>4. SentInv
    BY <2>1 DEF SentInv, SentOK, Reading
  <2> QED BY <2>2, <2>3, <2>4 DEF ContentInv
<1>2. TypeOK /\ DataInv /\ ContentInv /\ [Next]_vars => ContentInv'
  BY NextAloneInv, NextFreshInv, NextSentInv DEF ContentInv
<1> QED BY <1>1, <1>2, Typed, DataInvariance, PTL DEF Spec

\* A transfer that succeeds delivered exactly the content of its source, if no
\* second StreamPayloadSource wraps the same stream: retries, aliases, races
\* and short writes cannot make it lose or repeat bytes.
THEOREM TransfersAreComplete == Spec => []CompleteContent
<1>1. TypeOK /\ DataInv /\ ContentInv => CompleteContent
  <2> SUFFICES ASSUME TypeOK, DataInv, ContentInv, NEW t \in Threads,
                      result[t] = "ok", Exclusive(src[t])
               PROVE  sink[t] = ContentOf(src[t])
    BY DEF CompleteContent
  <2>1. sink[t] \o Rest(t) = ContentOf(src[t]) /\ sink[t] \in Seq(Bytes)
    BY DEF ContentInv, SentInv, SentOK, TypeOK
  <2>2. Rest(t) = << >>
    BY DEF DataInv, DataOK, Active, Rest, Reading
  <2> QED BY <2>1, <2>2, ConcatEmptySeq
<1> QED BY <1>1, Typed, DataInvariance, ContentInvariance, PTL

-----------------------------------------------------------------------------
(* Calls run out of steps *)

LEMMA StepsAt ==
  ASSUME NEW t
  PROVE  /\ pc[t] = "open" => StepsLeft(t) = 3 * ToRead(t) + 4
         /\ pc[t] = "factory" => StepsLeft(t) = 3 * ToRead(t) + 3
         /\ pc[t] = "read" => StepsLeft(t) = 3 * ToRead(t) + 2
         /\ pc[t] = "check" => StepsLeft(t) = 3 * ToRead(t) + 4
         /\ pc[t] = "write" => StepsLeft(t) = 3 * ToRead(t) + 3
         /\ pc[t] = "verify" => StepsLeft(t) = 1
         /\ pc[t] = "ended" => StepsLeft(t) = 0
BY DEF StepsLeft

LEMMA ToReadType ==
  ASSUME TypeOK, NEW t \in Threads
  PROVE  ToRead(t) \in Nat
<1>1. StreamId(t) \in CallerStreams \cup Threads
  BY StreamIdType
<1>2. Len(unread[StreamId(t)]) \in Nat
  BY <1>1 DEF TypeOK
<1>3. src[t] \in Factories => Len(Content[src[t]]) \in Nat
  BY StreamAssumption
<1> QED BY <1>2, <1>3 DEF ToRead

LEMMA ActiveHasSteps ==
  ASSUME TypeOK, NEW t \in Threads, Active(t)
  PROVE  StepsLeft(t) \in Nat \ {0}
BY StepsAt, ToReadType DEF Active, Reading

\* A step of the call itself uses up one of the steps that it had left.
LEMMA OwnStep ==
  ASSUME TypeOK, TypeOK', NEW t \in Threads, Step(t)
  PROVE  StepsLeft(t)' \in Nat /\ StepsLeft(t)' < StepsLeft(t)
<1> DEFINE x == StreamId(t)
<1>1. /\ pc'[t] = "open" => StepsLeft(t)' = 3 * ToRead(t)' + 4
      /\ pc'[t] = "factory" => StepsLeft(t)' = 3 * ToRead(t)' + 3
      /\ pc'[t] = "read" => StepsLeft(t)' = 3 * ToRead(t)' + 2
      /\ pc'[t] = "check" => StepsLeft(t)' = 3 * ToRead(t)' + 4
      /\ pc'[t] = "write" => StepsLeft(t)' = 3 * ToRead(t)' + 3
      /\ pc'[t] = "verify" => StepsLeft(t)' = 1
      /\ pc'[t] = "ended" => StepsLeft(t)' = 0
  BY DEF StepsLeft
<1>2. ToRead(t) \in Nat /\ ToRead(t)' \in Nat
  <2>1. ToRead(t)' \in Nat
    <3>1. StreamId(t)' \in CallerStreams \cup Threads
      BY StreamAssumption DEF StreamId
    <3>2. Len(unread'[StreamId(t)']) \in Nat
      BY <3>1 DEF TypeOK
    <3>3. src'[t] \in Factories => Len(Content[src'[t]]) \in Nat
      BY StreamAssumption
    <3> QED BY <3>2, <3>3 DEF ToRead
  <2> QED BY <2>1, ToReadType
<1>3. src'[t] = src[t] /\ StreamId(t)' = x
  BY StepFrame DEF callVars, StreamId
<1>4. Active(t)
  BY DEF Step, OpenSource, CallFactory, RejectSize, ReadChunk, ReadFails, EndOfStream,
         CheckCancelled, WriteChunk, WriteFails, Verify, Active, Reading
<1>5. CASE pc'[t] = "ended"
  BY <1>1, <1>4, <1>5, ActiveHasSteps
<1>6. \A e : Leave(t, e) => pc'[t] = "ended"
  BY DEF Leave, TypeOK
<1>7. CASE OpenSource(t) /\ pc'[t] # "ended"
  <2>1. /\ pc[t] = "open" /\ UNCHANGED unread /\ src[t] \in Sources
        /\ pc'[t] = IF src[t] \in StreamSources THEN "read" ELSE "factory"
    BY <1>7 DEF OpenSource, TypeOK, Active
  <2>2. ToRead(t)' = ToRead(t)
    BY <1>3, <2>1, SourceAssumption DEF ToRead, Sources
  <2> QED BY <1>1, <1>2, <2>1, <2>2, StepsAt
<1>8. CASE CallFactory(t) /\ pc'[t] # "ended"
  <2>1. /\ pc[t] = "factory" /\ pc'[t] = "read" /\ src[t] \in Factories
        /\ unread' = [unread EXCEPT ![t] = Content[src[t]]]
    BY <1>8 DEF CallFactory, TypeOK
  <2>2. x = t
    BY <2>1, SourceAssumption DEF StreamId
  <2>3. unread'[x] = Content[src[t]]
    BY <2>1, <2>2 DEF TypeOK
  <2>4. ToRead(t)' = ToRead(t)
    BY <1>3, <2>1, <2>3 DEF ToRead
  <2> QED BY <1>1, <1>2, <2>1, <2>4, StepsAt
<1>9. CASE ReadChunk(t) /\ pc'[t] # "ended"
  <2>1. PICK n \in 1 .. Len(unread[x]) : unread' = [unread EXCEPT ![x] = Drop(@, n)]
    BY <1>9 DEF ReadChunk
  <2>2. pc[t] = "read" /\ pc'[t] = "check"
    BY <1>6, <1>9 DEF ReadChunk, TypeOK
  <2>3. x \in CallerStreams \cup Threads /\ unread[x] \in Seq(Bytes)
    BY StreamIdType DEF TypeOK
  <2>4. unread'[x] = Drop(unread[x], n)
    BY <2>1, <2>3 DEF TypeOK
  <2>5. Len(Drop(unread[x], n)) = Len(unread[x]) - n
    BY <2>3, LenOfDrop
  <2>6. ToRead(t) = Len(unread[x]) /\ ToRead(t)' = Len(unread[x]) - n
    BY <1>3, <2>2, <2>4, <2>5 DEF ToRead
  <2>7. 3 * ToRead(t)' + 4 < 3 * ToRead(t) + 2
    BY <1>2, <2>6
  <2> QED BY <1>1, <1>2, <2>2, <2>7, StepsAt
<1>10. CASE EndOfStream(t) /\ pc'[t] # "ended"
  <2>1. pc[t] = "read" /\ pc'[t] = "verify"
    BY <1>6, <1>10 DEF EndOfStream, TypeOK
  <2> QED BY <1>1, <1>2, <2>1, StepsAt
<1>11. CASE CheckCancelled(t) /\ pc'[t] # "ended"
  <2>1. pc[t] = "check" /\ pc'[t] = "write" /\ UNCHANGED unread
    BY <1>6, <1>11 DEF CheckCancelled, TypeOK
  <2>2. ToRead(t)' = ToRead(t)
    BY <1>3, <2>1 DEF ToRead
  <2> QED BY <1>1, <1>2, <2>1, <2>2, StepsAt
<1>12. CASE WriteChunk(t) /\ pc'[t] # "ended"
  <2>1. pc[t] = "write" /\ pc'[t] = "read" /\ UNCHANGED unread
    BY <1>6, <1>12 DEF WriteChunk, TypeOK
  <2>2. ToRead(t)' = ToRead(t)
    BY <1>3, <2>1 DEF ToRead
  <2> QED BY <1>1, <1>2, <2>1, <2>2, StepsAt
<1>13. RejectSize(t) \/ ReadFails(t) \/ WriteFails(t) \/ Verify(t) => pc'[t] = "ended"
  BY <1>6 DEF RejectSize, ReadFails, WriteFails, Verify, TypeOK
<1> QED BY <1>5, <1>7, <1>8, <1>9, <1>10, <1>11, <1>12, <1>13 DEF Step

\* A step of another thread never adds to what a call has left to read.
LEMMA OthersStep ==
  ASSUME TypeOK, NEW u \in Threads, Step(u), NEW t \in Threads \ {u}
  PROVE  /\ pc'[t] = pc[t] /\ src'[t] = src[t]
         /\ ToRead(t)' \in Nat /\ ToRead(t)' <= ToRead(t)
<1> DEFINE x == StreamId(t)
<1>1. pc'[t] = pc[t] /\ src'[t] = src[t] /\ StreamId(t)' = x
  BY OthersFrame, StepFrame DEF callVars, StreamId
<1>2. x \in CallerStreams \cup Threads /\ unread[x] \in Seq(Bytes)
  BY StreamIdType DEF TypeOK
<1>3. Len(unread'[x]) \in Nat /\ Len(unread'[x]) <= Len(unread[x])
  <2>1. CASE CallFactory(u)
    <3>1. x # u
      BY StreamAssumption DEF StreamId
    <3>2. unread'[x] = unread[x]
      BY <1>2, <2>1, <3>1 DEF CallFactory, TypeOK
    <3> QED BY <1>2, <3>2
  <2>2. CASE ReadChunk(u)
    <3>1. PICK n \in 1 .. Len(unread[StreamId(u)]) :
            unread' = [unread EXCEPT ![StreamId(u)] = Drop(@, n)]
      BY <2>2 DEF ReadChunk
    <3>2. CASE StreamId(u) = x
      <4>1. unread'[x] = Drop(unread[x], n) /\ n \in 1 .. Len(unread[x])
        BY <1>2, <3>1, <3>2 DEF TypeOK
      <4>2. Len(Drop(unread[x], n)) = Len(unread[x]) - n
        BY <1>2, <4>1, LenOfDrop
      <4> QED BY <1>2, <4>1, <4>2
    <3>3. CASE StreamId(u) # x
      <4>1. unread'[x] = unread[x]
        BY <1>2, <3>1, <3>3 DEF TypeOK
      <4> QED BY <1>2, <4>1
    <3> QED BY <3>2, <3>3
  <2>3. CASE UNCHANGED unread
    BY <1>2, <2>3
  <2> QED BY <2>1, <2>2, <2>3 DEF Step, OpenSource, RejectSize, ReadFails, EndOfStream,
                                  CheckCancelled, WriteChunk, WriteFails, Verify
<1>4. src[t] \in Factories => Len(Content[src[t]]) \in Nat
  BY StreamAssumption
<1>5. ToRead(t)' = IF src[t] \in Factories /\ pc[t] \in {"open", "factory"}
                     THEN Len(Content[src[t]]) ELSE Len(unread'[x])
  BY <1>1 DEF ToRead
<1>6. ToRead(t) = IF src[t] \in Factories /\ pc[t] \in {"open", "factory"}
                    THEN Len(Content[src[t]]) ELSE Len(unread[x])
  BY DEF ToRead
<1> QED BY <1>1, <1>3, <1>4, <1>5, <1>6

\* Every step of a call uses up one of at most 3 * n + 4 steps, where n is the
\* number of bytes its stream holds, and no other thread adds to them: whatever
\* streams, factories and sinks answer, no call goes on for ever.
THEOREM TransfersConverge == Spec => TransferConverges
<1> DEFINE Converges ==
      \A t \in Threads : Active(t) =>
        IF pc'[t] = pc[t] THEN StepsLeft(t)' <= StepsLeft(t)
                          ELSE StepsLeft(t)' < StepsLeft(t)
<1>1. TypeOK /\ TypeOK' /\ [Next]_vars => [Converges]_vars
  <2> SUFFICES ASSUME TypeOK, TypeOK', Next, NEW t \in Threads, Active(t)
               PROVE  IF pc'[t] = pc[t] THEN StepsLeft(t)' <= StepsLeft(t)
                                        ELSE StepsLeft(t)' < StepsLeft(t)
    OBVIOUS
  <2>1. StepsLeft(t) \in Nat
    BY ActiveHasSteps
  <2>2. CASE pc'[t] = pc[t] /\ src'[t] = src[t] /\ UNCHANGED unread
    <3>1. StepsLeft(t)' = StepsLeft(t)
      BY <2>2 DEF StepsLeft, ToRead, StreamId
    <3> QED BY <2>1, <2>2, <3>1
  <2>3. ASSUME NEW u \in Threads, NEW r \in References, NEW n \in ChunkSizes,
               BeginTransfer(u, r, n)
        PROVE  pc'[t] = pc[t] /\ src'[t] = src[t] /\ UNCHANGED unread
    <3>1. u # t
      BY <2>3 DEF BeginTransfer, Active, Reading
    <3>2. /\ UNCHANGED unread
          /\ \E p, s : /\ pc' = [pc EXCEPT ![u] = p]
                       /\ src' = [src EXCEPT ![u] = s]
      BY <2>3 DEF BeginTransfer, sourceVars
    <3> QED BY <3>1, <3>2 DEF TypeOK
  <2>4. ASSUME NEW u \in Threads, Step(u), u # t
        PROVE  pc'[t] = pc[t] /\ StepsLeft(t)' <= StepsLeft(t)
    <3>1. /\ pc'[t] = pc[t] /\ src'[t] = src[t]
          /\ ToRead(t)' \in Nat /\ ToRead(t)' <= ToRead(t)
      BY <2>4, OthersStep
    <3>2. ToRead(t) \in Nat
      BY ToReadType
    <3>3. 3 * ToRead(t)' <= 3 * ToRead(t)
      BY <3>1, <3>2
    <3> QED BY <2>1, <3>1, <3>2, <3>3 DEF StepsLeft
  <2>5. CASE Step(t)
    BY <2>1, <2>5, OwnStep
  <2> QED BY <2>2, <2>3, <2>4, <2>5 DEF Next, Register, Release, Cancel, callVars
<1> QED BY <1>1, Typed, PTL DEF Spec, TransferConverges

=============================================================================
