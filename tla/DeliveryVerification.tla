------------------------ MODULE DeliveryVerification ------------------------
(***************************************************************************)
(* The one-time code that confirms a delivery (delivery-verifications).    *)
(* The rider reports an outcome, a code goes to the merchant or customer,  *)
(* the rider enters it, and the outcome is booked on the parcel.           *)
(*                                                                         *)
(* A handler reads a row, and saves what it made of it in later            *)
(* statements; verifyOtp runs four of them: save the verification as       *)
(* verified, read it again with its parcel, save the parcel, save the      *)
(* verification as completed.  Between any two the process may die, a      *)
(* statement may fail, and other handlers run.  A save writes the whole    *)
(* row as it was read.                                                     *)
(*                                                                         *)
(* Codes are right or wrong; time is a clock that ticks in minutes.        *)
(***************************************************************************)
EXTENDS Integers

CONSTANTS
  Parcels, Riders, Handlers, NULL,
  Outcomes,      \* statuses riders report in this instance
  Cooldown,      \* minutes before a code may be sent again
  Validity,      \* minutes a code is valid
  MaxClock,      \* bound on the clock
  MayFail        \* whether statements fail and processes die in this instance

MaxAttempts == 3

RiderOutcomes ==
  {"DELIVERED", "PARTIAL_DELIVERY", "EXCHANGE", "DELIVERY_RESCHEDULED",
   "PAID_RETURN", "RETURNED"}

ASSUME OutcomesAssumption == Outcomes \subseteq RiderOutcomes
ASSUME TimesAssumption == Cooldown \in Nat /\ Validity \in Nat /\ MaxClock \in Nat
ASSUME MayFailAssumption == MayFail \in BOOLEAN

Time == 0..MaxClock

\* booked is the outcome that the parcel's financial columns were set for
\* (cod_collected_amount, the charges, payment_status, paid_to_merchant).
Parcel ==
  [status : RiderOutcomes \cup {"IN_HUB", "OUT_FOR_DELIVERY"},
   rider  : Riders \cup {NULL},
   booked : RiderOutcomes \cup {NULL}]

VerificationStatus ==
  {"PENDING", "OTP_SENT", "OTP_VERIFIED", "OTP_FAILED", "COMPLETED"}

Verification ==
  [status   : VerificationStatus,
   outcome  : RiderOutcomes,         \* selected_status
   sent     : Time,                  \* otp_sent_at, otp_expires_at follows it
   hasCode  : BOOLEAN,               \* otp_code and otp_sent_at are set
   attempts : 0..MaxAttempts,        \* otp_attempts
   approved : BOOLEAN]               \* merchant_approved

Steps ==
  {"insert",    \* initiateDelivery: insert the verification, then send the code
   "save",      \* deliveryVerificationRepo.save, then respond
   "verified",  \* verifyOtp: save OTP_VERIFIED, then complete the delivery
   "complete",  \* completeDelivery: read verification and parcel
   "book",      \* completeDelivery: save the parcel
   "close"}     \* completeDelivery: save the verification

Request ==
  [step : Steps, parcel : Parcels, row : Verification, copy : Parcel]

ASSUME NullIsNothing ==
  NULL \notin Riders /\ NULL \notin RiderOutcomes
  /\ NULL \notin Verification /\ NULL \notin Request

VARIABLES
  parcels,    \* the columns of parcels that this service reads and writes
  ver,        \* the verification of each parcel, NULL when there is none
  clock,
  wrong,      \* wrong codes answered since the last code was sent
  inflight    \* what each handler is doing, NULL when it serves no request

vars == <<parcels, ver, clock, wrong, inflight>>

TypeOK ==
  /\ parcels \in [Parcels -> Parcel]
  /\ ver \in [Parcels -> Verification \cup {NULL}]
  /\ clock \in Time
  /\ wrong \in [Parcels -> Nat]
  /\ inflight \in [Handlers -> Request \cup {NULL}]

Init ==
  /\ parcels = [p \in Parcels |-> [status |-> "IN_HUB", rider |-> NULL, booked |-> NULL]]
  /\ ver = [p \in Parcels |-> NULL]
  /\ clock = 0
  /\ wrong = [p \in Parcels |-> 0]
  /\ inflight = [h \in Handlers |-> NULL]

-----------------------------------------------------------------------------
(* What handlers make of a verification.                                   *)

Pending(outcome) ==
  [status |-> "PENDING", outcome |-> outcome, sent |-> 0, hasCode |-> FALSE,
   attempts |-> 0, approved |-> FALSE]

CodeSent(v) ==
  [status |-> "OTP_SENT", outcome |-> v.outcome, sent |-> clock, hasCode |-> TRUE,
   attempts |-> 0, approved |-> v.approved]

Cooled(v)  == v.hasCode => clock - v.sent >= Cooldown
Expired(v) == clock > v.sent + Validity

Do(h, step, p, v, copy) ==
  inflight' = [inflight EXCEPT ![h] =
                 [step |-> step, parcel |-> p, row |-> v, copy |-> copy]]

Responds(h) == inflight' = [inflight EXCEPT ![h] = NULL]

\* h reads the verification of p for rider r.
Opens(h, p, r) ==
  /\ inflight[h] = NULL
  /\ ver[p] # NULL
  /\ parcels[p].rider = r
  /\ UNCHANGED <<parcels, ver, clock, wrong>>

InitiateDelivery(h, p, r, outcome) ==
  /\ inflight[h] = NULL
  /\ parcels[p].rider = r
  /\ parcels[p].status = "OUT_FOR_DELIVERY"
  /\ ver[p] = NULL
  /\ Do(h, "insert", p, Pending(outcome), parcels[p])
  /\ UNCHANGED <<parcels, ver, clock, wrong>>

RequestOtp(h, p, r) ==
  /\ Opens(h, p, r)
  /\ ver[p].status \in {"PENDING", "OTP_SENT"}
  /\ Do(h, "save", p, CodeSent(ver[p]), parcels[p])

\* The status of the verification is not looked at.
ResendOtp(h, p, r) ==
  /\ Opens(h, p, r)
  /\ Cooled(ver[p])
  /\ Do(h, "save", p, CodeSent(ver[p]), parcels[p])

EntersCode(h, p, r) ==
  /\ Opens(h, p, r)
  /\ ver[p].status = "OTP_SENT"
  /\ ~Expired(ver[p])

TooManyAttempts(h, p, r) ==
  /\ EntersCode(h, p, r)
  /\ ver[p].attempts >= MaxAttempts
  /\ Do(h, "save", p, [ver[p] EXCEPT !.status = "OTP_FAILED"], parcels[p])

\* Mutant: the limit is off by one.
WrongCode_OneMore(h, p, r) ==
  /\ EntersCode(h, p, r)
  /\ ver[p].attempts <= MaxAttempts
  /\ Do(h, "save", p, [ver[p] EXCEPT !.attempts = @ + 1], parcels[p])

WrongCode(h, p, r) ==
  /\ EntersCode(h, p, r)
  /\ ver[p].attempts < MaxAttempts
  /\ Do(h, "save", p, [ver[p] EXCEPT !.attempts = @ + 1], parcels[p])

RightCode(h, p, r) ==
  /\ EntersCode(h, p, r)
  /\ ver[p].attempts < MaxAttempts
  /\ Do(h, "verified", p, [ver[p] EXCEPT !.status = "OTP_VERIFIED", !.approved = TRUE],
        parcels[p])

-----------------------------------------------------------------------------
(* The statements that follow.                                             *)

At(h, step) == inflight[h] # NULL /\ inflight[h].step = step

\* parcel_id is unique; the same object is saved again with the code.
InsertPending(h) ==
  /\ At(h, "insert")
  /\ LET p == inflight[h].parcel
     IN  /\ ver[p] = NULL
         /\ ver' = [ver EXCEPT ![p] = inflight[h].row]
         /\ Do(h, "save", p, CodeSent(inflight[h].row), inflight[h].copy)
  /\ UNCHANGED <<parcels, clock, wrong>>

\* A new code starts its attempts again; an answer to a wrong code counts one.
Counted(p, v) ==
  IF v.status = "OTP_SENT"
  THEN IF v.attempts = 0 THEN 0 ELSE wrong[p] + 1
  ELSE wrong[p]

SaveVerification(h) ==
  /\ At(h, "save")
  /\ LET p == inflight[h].parcel
         v == inflight[h].row
     IN  /\ ver' = [ver EXCEPT ![p] = v]
         /\ wrong' = [wrong EXCEPT ![p] = Counted(p, v)]
  /\ Responds(h)
  /\ UNCHANGED <<parcels, clock>>

\* Mutant: the handler answers before it completes the delivery.
SaveVerified_AnswersFirst(h) ==
  /\ At(h, "verified")
  /\ ver' = [ver EXCEPT ![inflight[h].parcel] = inflight[h].row]
  /\ Responds(h)
  /\ UNCHANGED <<parcels, clock, wrong>>

\* Mutant: the delivery is completed before the verification is saved.
SaveVerified_Later(h) ==
  /\ At(h, "verified")
  /\ Do(h, "complete", inflight[h].parcel, inflight[h].row, inflight[h].copy)
  /\ UNCHANGED <<parcels, ver, clock, wrong>>

SaveVerified(h) ==
  /\ At(h, "verified")
  /\ ver' = [ver EXCEPT ![inflight[h].parcel] = inflight[h].row]
  /\ Do(h, "complete", inflight[h].parcel, inflight[h].row, inflight[h].copy)
  /\ UNCHANGED <<parcels, clock, wrong>>

\* Mutant: the verification is completed first.
CompleteDelivery_ClosesFirst(h) ==
  /\ At(h, "complete")
  /\ LET p == inflight[h].parcel
     IN  /\ Do(h, "book", p, ver[p],
               [parcels[p] EXCEPT !.status = ver[p].outcome, !.booked = ver[p].outcome])
         /\ ver' = [ver EXCEPT ![p].status = "COMPLETED"]
  /\ UNCHANGED <<parcels, clock, wrong>>

CompleteDelivery(h) ==
  /\ At(h, "complete")
  /\ LET p == inflight[h].parcel
     IN  Do(h, "book", p, ver[p],
            [parcels[p] EXCEPT !.status = ver[p].outcome, !.booked = ver[p].outcome])
  /\ UNCHANGED <<parcels, ver, clock, wrong>>

BookOutcome(h) ==
  /\ At(h, "book")
  /\ LET p == inflight[h].parcel
     IN  /\ parcels' = [parcels EXCEPT ![p] = inflight[h].copy]
         /\ Do(h, "close", p, [inflight[h].row EXCEPT !.status = "COMPLETED"],
               inflight[h].copy)
  /\ UNCHANGED <<ver, clock, wrong>>

CloseVerification(h) ==
  /\ At(h, "close")
  /\ ver' = [ver EXCEPT ![inflight[h].parcel] = inflight[h].row]
  /\ Responds(h)
  /\ UNCHANGED <<parcels, clock, wrong>>

\* The statement fails or the process dies; nothing resumes the handler.
Abandon(h) ==
  /\ MayFail
  /\ inflight[h] # NULL
  /\ Responds(h)
  /\ UNCHANGED <<parcels, ver, clock, wrong>>

-----------------------------------------------------------------------------
(* Elsewhere.                                                              *)

\* assignToRider and riderAcceptParcel.
GoesOut(p, r) ==
  /\ parcels[p].status = "IN_HUB"
  /\ parcels' = [parcels EXCEPT ![p].status = "OUT_FOR_DELIVERY", ![p].rider = r]
  /\ UNCHANGED <<ver, clock, wrong, inflight>>

\* prepareForRedelivery: a rescheduled parcel is in the hub again.
ComesBack(p) ==
  /\ parcels[p].status = "DELIVERY_RESCHEDULED"
  /\ parcels' = [parcels EXCEPT ![p].status = "IN_HUB", ![p].rider = NULL]
  /\ UNCHANGED <<ver, clock, wrong, inflight>>

Tick ==
  /\ clock < MaxClock
  /\ clock' = clock + 1
  /\ UNCHANGED <<parcels, ver, wrong, inflight>>

-----------------------------------------------------------------------------
RiderStep(h) ==
  \E p \in Parcels, r \in Riders :
    \/ \E outcome \in Outcomes : InitiateDelivery(h, p, r, outcome)
    \/ RequestOtp(h, p, r)
    \/ ResendOtp(h, p, r)
    \/ TooManyAttempts(h, p, r)
    \/ WrongCode(h, p, r)
    \/ RightCode(h, p, r)

Continue(h) ==
  \/ InsertPending(h)
  \/ SaveVerification(h)
  \/ SaveVerified(h)
  \/ CompleteDelivery(h)
  \/ BookOutcome(h)
  \/ CloseVerification(h)

Next ==
  \/ \E h \in Handlers : RiderStep(h) \/ Continue(h) \/ Abandon(h)
  \/ \E p \in Parcels : ComesBack(p) \/ \E r \in Riders : GoesOut(p, r)
  \/ Tick

Spec == Init /\ [][Next]_vars

\* The event loop runs the continuation of every statement that has answered.
FairSpec == Spec /\ \A h \in Handlers : WF_vars(Continue(h))

-----------------------------------------------------------------------------
(* Properties.                                                             *)

Has(p, status) == ver[p] # NULL /\ ver[p].status = status

\* A verification is completed only after its outcome was booked on the
\* parcel, whatever handlers interleave and wherever they die: a completed
\* delivery is never missing from the merchant's account.
CompletedIsBooked ==
  \A p \in Parcels :
    Has(p, "COMPLETED") => parcels[p].booked = ver[p].outcome

\* An outcome is booked only when the right code for it was entered and that
\* is on record, so that the audit trail survives a crash.
BookedIsApproved ==
  \A p \in Parcels : parcels[p].booked # NULL => ver[p] # NULL /\ ver[p].approved

\* One request at a time: no more than MaxAttempts wrong codes are answered
\* for one code, and the row knows how many.
AttemptsCounted ==
  \A p \in Parcels :
    /\ wrong[p] <= MaxAttempts
    /\ ver[p] # NULL => ver[p].attempts = wrong[p]

\* "Delivery already verified", "Please contact support": a verification that
\* is completed or failed stays so.
ClosedStaysClosed ==
  [][\A p \in Parcels :
       \A s \in {"COMPLETED", "OTP_FAILED"} : Has(p, s) => Has(p, s)']_vars

\* While statements succeed, a verified delivery does not stay half done: it
\* is completed (or the code was sent again meanwhile).
VerifiedIsCompleted ==
  \A p \in Parcels :
    Has(p, "OTP_VERIFIED") ~> ~Has(p, "OTP_VERIFIED")

=============================================================================
