--------------------------- MODULE PayloadDelivery ---------------------------
(***************************************************************************)
(* What the payload path promises its callers: a call works on one source, *)
(* a one-shot source is worked on by one call ever, and a call hands over  *)
(* the whole content of its source or nothing.                             *)
(***************************************************************************)
CONSTANTS Threads, Sources, OneShot, Data, None

VARIABLES
  taken,  \* one-shot sources that some call has worked on
  job,    \* the source a thread works on, or None
  got     \* what a thread's last call handed over, or None

Init ==
  /\ taken = {}
  /\ job = [t \in Threads |-> None]
  /\ got = [t \in Threads |-> None]

Start(t, s) ==
  /\ job[t] = None
  /\ s \notin taken
  /\ taken' = taken \cup ({s} \cap OneShot)
  /\ job' = [job EXCEPT ![t] = s]
  /\ got' = [got EXCEPT ![t] = None]

Deliver(t) ==
  /\ job[t] # None
  /\ got' = [got EXCEPT ![t] = Data[job[t]]]
  /\ job' = [job EXCEPT ![t] = None]
  /\ UNCHANGED taken

Fail(t) ==
  /\ job' = [job EXCEPT ![t] = None]
  /\ got' = [got EXCEPT ![t] = None]
  /\ UNCHANGED taken

Next ==
  \E t \in Threads : (\E s \in Sources : Start(t, s)) \/ Deliver(t) \/ Fail(t)

Spec == Init /\ [][Next]_<<taken, job, got>>

=============================================================================
