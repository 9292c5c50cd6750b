------------------------ MODULE PayloadDeliveryProofs ------------------------
(***************************************************************************)
(* PayloadTransfer implements PayloadDelivery when no two                  *)
(* StreamPayloadSources wrap one stream.  The mapping: a call works on its *)
(* source from the moment source.open() lets it in until it ends, and has  *)
(* handed over the bytes of its sink when it returned an identity.         *)
(***************************************************************************)
EXTENDS PayloadTransferProofs

\* The three abstract variables under the refinement mapping.
Taken == used \ ReplayFactories
Job == [t \in Threads |-> IF Holding(t) THEN src[t] ELSE None]
Got == [t \in Threads |-> IF result[t] = "ok" THEN sink[t] ELSE None]

Abstract == <<Taken, Job, Got>>

\* A step of t leaves the abstract state of the other threads alone.
LEMMA OthersRefine ==
  ASSUME TypeOK, NEW t \in Threads, Step(t), NEW u \in Threads \ {t}
  PROVE  /\ Holding(u)' = Holding(u) /\ src'[u] = src[u]
         /\ result'[u] = result[u] /\ sink'[u] = sink[u]
BY OthersFrame, StepFrame DEF Holding, Reading, callVars

\* A call that ends without success fails in the abstract specification.
LEMMA FailRefines ==
  ASSUME TypeOK, NEW t \in Threads, UNCHANGED used,
         ~Holding(t)', result'[t] # "ok",
         \A u \in Threads \ {t} : /\ Holding(u)' = Holding(u) /\ src'[u] = src[u]
                                  /\ result'[u] = result[u] /\ sink'[u] = sink[u]
  PROVE  Delivery!Next
<1>1. Job' = [Job EXCEPT ![t] = None]
  BY DEF Job
<1>2. Got' = [Got EXCEPT ![t] = None]
  BY DEF Got
<1>3. Delivery!Fail(t)
  BY <1>1, <1>2 DEF Delivery!Fail, Job, Got, Taken, Holding, Reading
<1> QED BY <1>3 DEF Delivery!Next

\* source.open() lets a call in exactly when the abstract source can be taken.
LEMMA OpenRefines ==
  ASSUME TypeOK, DataInv, NEW t \in Threads, OpenSource(t)
  PROVE  Delivery!Next
<1>1. /\ src[t] \in Sources /\ result[t] = "pending" /\ ~Holding(t)
  BY DEF OpenSource, TypeOK, DataInv, DataOK, Active, Holding, Reading
<1>2. \A u \in Threads \ {t} : /\ Holding(u)' = Holding(u) /\ src'[u] = src[u]
                               /\ result'[u] = result[u] /\ sink'[u] = sink[u]
  BY OthersRefine DEF Step
<1>3. UNCHANGED src
  BY DEF OpenSource, callVars
<1>4. CASE CanOpen(src[t])
  <2>1. used' = used \cup {src[t]} /\ UNCHANGED result
    BY <1>4 DEF OpenSource
  <2>2. Holding(t)'
    BY <1>4 DEF OpenSource, TypeOK, Holding, Reading
  <2>3. src[t] \notin Taken
    BY <1>4 DEF CanOpen, Replayable, Taken
  <2>4. Taken' = Taken \cup ({src[t]} \cap (StreamSources \cup OneShotFactories))
    BY <1>1, <2>1, SourceAssumption DEF Taken, Sources, Factories
  <2>5. Job[t] = None /\ Job' = [Job EXCEPT ![t] = src[t]]
    BY <1>1, <1>2, <1>3, <2>2 DEF Job
  <2>6. Got' = [Got EXCEPT ![t] = None]
    BY <1>1, <1>2, <2>1 DEF Got
  <2>7. PICK s \in Sources : s = src[t]
    BY <1>1
  <2>8. Delivery!Start(t, s)
    BY <2>3, <2>4, <2>5, <2>6, <2>7 DEF Delivery!Start, Taken, Job, Got, Holding, Reading
  <2> QED BY <2>8 DEF Delivery!Next
<1>5. CASE ~CanOpen(src[t])
  <2>1. pc'[t] = "ended" /\ result'[t] = "PayloadUnavailable" /\ UNCHANGED used
    BY <1>5 DEF OpenSource, TypeOK, sourceVars
  <2> QED BY <1>2, <2>1, FailRefines DEF Holding, Reading
<1> QED BY <1>4, <1>5

\* Verify either fails or hands over the whole content.
LEMMA VerifyRefines ==
  ASSUME TypeOK, ContentInv, NEW t \in Threads, Exclusive(src[t]), Verify(t)
  PROVE  Delivery!Next
<1>1. \A u \in Threads \ {t} : /\ Holding(u)' = Holding(u) /\ src'[u] = src[u]
                               /\ result'[u] = result[u] /\ sink'[u] = sink[u]
  BY OthersRefine DEF Step
<1>2. /\ pc[t] = "verify" /\ pc'[t] = "ended" /\ UNCHANGED <<used, sink, src>>
      /\ src[t] \in Sources /\ sink[t] \in Seq(Bytes)
  BY DEF Verify, TypeOK, sourceVars, dataVars, callVars, Active
<1>3. CASE result'[t] # "ok"
  BY <1>1, <1>2, <1>3, FailRefines DEF Holding, Reading
<1>4. CASE result'[t] = "ok"
  <2>1. sink[t] = ContentOf(src[t])
    <3>1. sink[t] \o Rest(t) = ContentOf(src[t]) /\ Rest(t) = << >>
      BY <1>2 DEF ContentInv, SentInv, SentOK, Rest, Reading
    <3> QED BY <1>2, <3>1, ConcatEmptySeq
  <2>2. Job[t] = src[t] /\ src[t] # None
    BY <1>2, SourceAssumption DEF Job, Holding
  <2>3. Job' = [Job EXCEPT ![t] = None]
    BY <1>1, <1>2 DEF Job, Holding, Reading
  <2>4. Got' = [Got EXCEPT ![t] = ContentOf(src[t])]
    BY <1>1, <1>2, <1>4, <2>1 DEF Got
  <2>5. [q \in Sources |-> ContentOf(q)][Job[t]] = ContentOf(src[t])
    BY <1>2, <2>2
  <2>6. Delivery!Deliver(t)
    <3>1. Taken' = Taken
      BY <1>2 DEF Taken
    <3> QED BY <2>2, <2>3, <2>4, <2>5, <3>1
            DEF Delivery!Deliver, Taken, Job, Got, Holding, Reading
  <2> QED BY <2>6 DEF Delivery!Next
<1> QED BY <1>3, <1>4

\* The other steps of a call go unseen, or fail it.
LEMMA InnerRefines ==
  ASSUME TypeOK, DataInv, NEW t \in Threads, Step(t), ~OpenSource(t), ~Verify(t)
  PROVE  Delivery!Next \/ UNCHANGED Abstract
<1>1. \A u \in Threads \ {t} : /\ Holding(u)' = Holding(u) /\ src'[u] = src[u]
                               /\ result'[u] = result[u] /\ sink'[u] = sink[u]
  BY OthersRefine
<1>2. UNCHANGED <<used, src>>
  BY OtherStepsKeepSources, StepFrame DEF sourceVars, callVars
<1>3. Holding(t) /\ result[t] = "pending"
  BY DEF Step, CallFactory, RejectSize, ReadChunk, ReadFails, EndOfStream, CheckCancelled,
         WriteChunk, WriteFails, Holding, Reading, DataInv, DataOK, Active
<1>4. ASSUME NEW e, e # "ok", Leave(t, e) PROVE Delivery!Next
  BY <1>1, <1>2, <1>4, LeaveEnds, FailRefines DEF Holding, Reading
<1>5. CASE Holding(t)' /\ UNCHANGED result
  <2>1. Job' = Job
    BY <1>1, <1>2, <1>3, <1>5 DEF Job
  <2>2. Got' = Got
    BY <1>1, <1>3, <1>5 DEF Got
  <2> QED BY <1>2, <2>1, <2>2 DEF Abstract, Taken
<1>6. CASE CallFactory(t)
  <2>1. CASE result' = [result EXCEPT ![t] = "FactoryError"] /\ pc'[t] = "ended"
    BY <1>1, <1>2, <2>1, FailRefines DEF TypeOK, Holding, Reading
  <2> QED BY <1>6, <1>5, <2>1 DEF CallFactory, TypeOK, Holding, Reading
<1>7. CASE RejectSize(t)
  BY <1>7, <1>4 DEF RejectSize, SizeError
<1>8. CASE ReadChunk(t)
  BY <1>8, <1>4, <1>5 DEF ReadChunk, TypeOK, Holding, Reading
<1>9. CASE ReadFails(t)
  BY <1>9, <1>4 DEF ReadFails
<1>10. CASE EndOfStream(t)
  BY <1>10, <1>4, <1>5 DEF EndOfStream, TypeOK, Holding, Reading
<1>11. CASE CheckCancelled(t)
  BY <1>11, <1>4, <1>5 DEF CheckCancelled, TypeOK, Holding, Reading
<1>12. CASE WriteChunk(t)
  <2>1. \/ Leave(t, "IncompleteUpload")
        \/ pc' = [pc EXCEPT ![t] = "read"] /\ UNCHANGED result
    BY <1>12 DEF WriteChunk
  <2> QED BY <2>1, <1>4, <1>5 DEF TypeOK, Holding, Reading
<1>13. CASE WriteFails(t)
  BY <1>13, <1>4 DEF WriteFails
<1> QED BY <1>6, <1>7, <1>8, <1>9, <1>10, <1>11, <1>12, <1>13 DEF Step

\* Every step of the payload path is a start, a delivery, a failure or a
\* stutter of PayloadDelivery.
LEMMA NextRefines ==
  ASSUME \A s \in Sources : Exclusive(s),
         TypeOK, DataInv, ContentInv, [Next]_vars
  PROVE  [Delivery!Next]_Abstract
<1>1. CASE UNCHANGED <<pc, src, used, sink, result>>
  BY <1>1 DEF Abstract, Taken, Job, Got, Holding, Reading
<1>2. ASSUME NEW t \in Threads, NEW r \in References, NEW n \in ChunkSizes,
             BeginTransfer(t, r, n)
      PROVE  Delivery!Next
  <2>1. pc'[t] \in {"open", "ended"} /\ result'[t] # "ok" /\ UNCHANGED used
    BY <1>2 DEF BeginTransfer, TypeOK, sourceVars
  <2>2. \A u \in Threads \ {t} : /\ Holding(u)' = Holding(u) /\ src'[u] = src[u]
                                 /\ result'[u] = result[u] /\ sink'[u] = sink[u]
    BY <1>2 DEF BeginTransfer, TypeOK, Holding, Reading
  <2> QED BY <2>1, <2>2, FailRefines DEF Holding, Reading
<1>3. ASSUME NEW t \in Threads, Step(t) PROVE [Delivery!Next]_Abstract
  <2>1. CASE OpenSource(t)
    BY <2>1, OpenRefines
  <2>2. CASE Verify(t)
    <3>1. src[t] \in Sources
      BY <2>2 DEF Verify, TypeOK, Active
    <3> QED BY <2>2, <3>1, VerifyRefines
  <2>3. CASE ~OpenSource(t) /\ ~Verify(t)
    BY <1>3, <2>3, InnerRefines
  <2> QED BY <2>1, <2>2, <2>3
<1> QED BY <1>1, <1>2, <1>3
        DEF Next, Register, Release, Cancel, vars, callVars, dataVars, sourceVars

\* With exclusive streams, registry, sources and transfer loop together are a
\* delivery of whole payloads: each call hands over all of its source or
\* nothing, and a one-shot source serves one call ever.
THEOREM Refinement ==
  ASSUME \A s \in Sources : Exclusive(s)
  PROVE  Spec => DeliversWholePayloads
<1>1. Init => Delivery!Init
  BY DEF Init, Delivery!Init, Reading
<1>2. TypeOK /\ DataInv /\ ContentInv /\ [Next]_vars => [Delivery!Next]_Abstract
  BY NextRefines
<1> QED
  BY <1>1, <1>2, Typed, DataInvariance, ContentInvariance, PTL
  DEF Spec, DeliversWholePayloads, Delivery!Spec, Abstract, Taken, Job, Got, Holding
=============================================================================
