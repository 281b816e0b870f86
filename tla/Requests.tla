------------------------------ MODULE Requests ------------------------------
(***************************************************************************)
(* The process that serves requests.  A handler serves one at a time, and  *)
(* at every await, that is between any two of its statements, the handlers *)
(* of other requests run.  Modules that extend this one say what the       *)
(* statements are; what a handler has read and will write is in its job.   *)
(***************************************************************************)
CONSTANTS
  Servers,    \* handlers, each serving one request at a time
  MayFail,    \* whether statements and handlers may fail
  NULL

VARIABLES
  jobs,       \* what each handler is doing
  alone       \* whether requests have been served one at a time so far

Idle == [step |-> "idle"]

NoRequests == jobs = [h \in Servers |-> Idle] /\ alone = TRUE

Rests == \A h \in Servers : jobs[h] = Idle

At(h, step) == jobs[h].step = step

Starts(h, job) ==
  /\ jobs[h] = Idle
  /\ jobs' = [jobs EXCEPT ![h] = job]
  /\ alone' = (alone /\ Rests)

\* Handler h has run its statement, and runs the next one of its job later.
Continues(h, job) == jobs' = [jobs EXCEPT ![h] = job] /\ UNCHANGED alone

Ends(h) == Continues(h, Idle)

=============================================================================
