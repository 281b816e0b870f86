--------------------------- MODULE RequestsProofs ---------------------------
(* What starting, continuing and ending a request does to the handlers,    *)
(* for any number of them.                                                 *)
EXTENDS Requests, FiniteSets, FiniteSetTheorems, TLAPS

JobsTotal == jobs = [k \in Servers |-> jobs[k]]

\* Before any request there is nothing in progress.
LEMMA Resting ==
  ASSUME NoRequests
  PROVE  JobsTotal /\ alone \in BOOLEAN /\ \A k \in Servers : jobs[k] = Idle
BY DEF NoRequests, JobsTotal

\* A request is taken by a handler that rests, and the others go on as they were.
LEMMA Starting ==
  ASSUME NEW k \in Servers, NEW call, JobsTotal, Starts(k, call)
  PROVE  /\ JobsTotal' /\ jobs[k] = Idle /\ jobs'[k] = call
         /\ \A j \in Servers : j # k => jobs'[j] = jobs[j]
BY DEF JobsTotal, Starts

\* When requests are still served one at a time, no handler was busy.
LEMMA StartingAlone ==
  ASSUME NEW k \in Servers, NEW call, alone \in BOOLEAN, Starts(k, call)
  PROVE  /\ alone' \in BOOLEAN
         /\ alone' => alone /\ \A h \in Servers : jobs[h] = Idle
BY Zenon DEF Starts, Rests

\* A handler's next statement changes no other handler.
LEMMA Continuing ==
  ASSUME NEW k \in Servers, NEW call, JobsTotal, Continues(k, call)
  PROVE  /\ JobsTotal' /\ jobs'[k] = call /\ alone' = alone
         /\ \A j \in Servers : j # k => jobs'[j] = jobs[j]
BY DEF JobsTotal, Continues

\* A set without two different members has at most one.
LEMMA AtMostOne ==
  ASSUME NEW S, \A x, y \in S : x = y
  PROVE  Cardinality(S) <= 1
PROOF
<1>1. CASE S = {}
  BY <1>1, FS_EmptySet
<1>2. CASE S # {}
  <2> PICK x : x \in S
    BY <1>2
  <2>1. S = {x}
    OBVIOUS
  <2> QED
    BY <2>1, FS_Singleton
<1> QED
  BY <1>1, <1>2

=============================================================================
