--------------------- MODULE DeliveryVerificationProofs ---------------------
(***************************************************************************)
(* DeliveryVerification is well-typed, and a completed verification has    *)
(* its outcome booked, for any number of handlers that interleave and die; *)
(* for one handler, bookings are approved and attempts are counted.        *)
(***************************************************************************)
EXTENDS DeliveryVerification, TLAPS

\* What a handler between two statements relies on: from the insert on the
\* verification exists and keeps its outcome; what it is about to book is that
\* outcome, and it closes the verification only after booking.
RequestOK(h) ==
  LET req == inflight[h]
      p   == req.parcel
  IN  /\ req.step \in {"insert", "save", "verified"} => req.row.status # "COMPLETED"
      /\ req.step # "insert" => ver[p] # NULL /\ ver[p].outcome = req.row.outcome
      /\ req.step = "book" => req.copy.booked = req.row.outcome
      /\ req.step = "close" => parcels[p].booked = req.row.outcome

RequestsOK == \A h \in Handlers : inflight[h] # NULL => RequestOK(h)

BookedOK ==
  \A p \in Parcels :
    parcels[p].booked # NULL => ver[p] # NULL /\ parcels[p].booked = ver[p].outcome

Inv == TypeOK /\ CompletedIsBooked /\ BookedOK /\ RequestsOK

-----------------------------------------------------------------------------
LEMMA CodeSentType ==
  ASSUME NEW v \in Verification, clock \in Time
  PROVE  /\ CodeSent(v) \in Verification
         /\ CodeSent(v).outcome = v.outcome
         /\ CodeSent(v).status # "COMPLETED"
<1>1. 0 \in 0..MaxAttempts
  BY DEF MaxAttempts
<1>2. v.outcome \in RiderOutcomes /\ v.approved \in BOOLEAN
  BY DEF Verification
<1> QED
  BY <1>1, <1>2 DEF CodeSent, Verification, VerificationStatus

-----------------------------------------------------------------------------
(* A handler that reads and leaves a write changes its own request only.   *)

LEMMA Reads ==
  ASSUME Inv, NEW h \in Handlers, NEW step \in Steps, NEW p \in Parcels,
         NEW v \in Verification, NEW copy \in Parcel,
         Do(h, step, p, v, copy),
         UNCHANGED <<parcels, ver, clock, wrong>>,
         step \in {"insert", "save", "verified"} => v.status # "COMPLETED",
         step # "insert" => ver[p] # NULL /\ ver[p].outcome = v.outcome,
         step = "book" => copy.booked = v.outcome,
         step # "close"
  PROVE  Inv'
<1> DEFINE req == [step |-> step, parcel |-> p, row |-> v, copy |-> copy]
<1>1. inflight' = [inflight EXCEPT ![h] = req]
  BY DEF Do
<1>3. req \in Request
  BY DEF Request
<1>4. TypeOK'
  BY <1>1, <1>3 DEF Inv, TypeOK
<1>5. (CompletedIsBooked /\ BookedOK)'
  BY DEF Inv, CompletedIsBooked, BookedOK, Has
<1>6. ASSUME NEW g \in Handlers, inflight'[g] # NULL
      PROVE  RequestOK(g)'
  <2>1. CASE g = h
    <3>1. inflight'[g] = req
      BY <1>1, <2>1 DEF Inv, TypeOK
    <3> QED
      BY <3>1 DEF RequestOK
  <2>2. CASE g # h
    <3>1. inflight'[g] = inflight[g]
      BY <1>1, <2>2 DEF Inv, TypeOK
    <3> QED
      BY <1>6, <3>1 DEF Inv, RequestsOK, RequestOK
  <2> QED
    BY <2>1, <2>2
<1> QED
  BY <1>4, <1>5, <1>6 DEF Inv, RequestsOK

LEMMA RiderKeepsInv ==
  ASSUME Inv, NEW h \in Handlers, RiderStep(h)
  PROVE  Inv'
<1> USE DEF Inv, TypeOK
<1>1. PICK p \in Parcels, r \in Riders :
        \/ \E outcome \in Outcomes : InitiateDelivery(h, p, r, outcome)
        \/ RequestOtp(h, p, r)
        \/ ResendOtp(h, p, r)
        \/ TooManyAttempts(h, p, r)
        \/ WrongCode(h, p, r)
        \/ RightCode(h, p, r)
  BY DEF RiderStep
<1>2. parcels[p] \in Parcel
  OBVIOUS
<1>3. ASSUME NEW outcome \in Outcomes, InitiateDelivery(h, p, r, outcome)
      PROVE  Inv'
  <2>1. Pending(outcome) \in Verification
    BY OutcomesAssumption, TimesAssumption
    DEF Pending, Verification, VerificationStatus, Time, MaxAttempts
  <2>2. Pending(outcome).status # "COMPLETED"
    BY DEF Pending
  <2>3. Do(h, "insert", p, Pending(outcome), parcels[p])
    BY <1>3 DEF InitiateDelivery
  <2> QED
    BY <1>2, <1>3, <2>1, <2>2, <2>3, Reads DEF InitiateDelivery, Steps
<1>4. ASSUME Opens(h, p, r), NEW v \in Verification, NEW step \in {"save", "verified"},
             v.status # "COMPLETED", v.outcome = ver[p].outcome,
             Do(h, step, p, v, parcels[p])
      PROVE  Inv'
  BY <1>2, <1>4, Reads DEF Opens, Steps
<1>5. ver[p] # NULL => ver[p] \in Verification
  OBVIOUS
<1>6. ASSUME ver[p] # NULL
      PROVE  /\ CodeSent(ver[p]) \in Verification
             /\ CodeSent(ver[p]).outcome = ver[p].outcome
             /\ CodeSent(ver[p]).status # "COMPLETED"
  BY <1>5, <1>6, CodeSentType
<1>7. CASE RequestOtp(h, p, r)
  BY <1>4, <1>6, <1>7 DEF RequestOtp, Opens
<1>8. CASE ResendOtp(h, p, r)
  BY <1>4, <1>6, <1>8 DEF ResendOtp, Opens
<1>9. CASE TooManyAttempts(h, p, r)
  <2> DEFINE v == [ver[p] EXCEPT !.status = "OTP_FAILED"]
  <2>1. v \in Verification /\ v.outcome = ver[p].outcome /\ v.status # "COMPLETED"
    BY <1>5, <1>9 DEF TooManyAttempts, EntersCode, Opens, Verification, VerificationStatus
  <2> QED
    BY <1>4, <1>9, <2>1 DEF TooManyAttempts, EntersCode
<1>10. CASE WrongCode(h, p, r)
  <2> DEFINE v == [ver[p] EXCEPT !.attempts = @ + 1]
  <2>1. v \in Verification /\ v.outcome = ver[p].outcome /\ v.status # "COMPLETED"
    BY <1>5, <1>10
    DEF WrongCode, EntersCode, Opens, Verification, VerificationStatus, MaxAttempts
  <2> QED
    BY <1>4, <1>10, <2>1 DEF WrongCode, EntersCode
<1>11. CASE RightCode(h, p, r)
  <2> DEFINE v == [ver[p] EXCEPT !.status = "OTP_VERIFIED", !.approved = TRUE]
  <2>1. v \in Verification /\ v.outcome = ver[p].outcome /\ v.status # "COMPLETED"
    BY <1>5, <1>11 DEF RightCode, EntersCode, Opens, Verification, VerificationStatus
  <2> QED
    BY <1>4, <1>11, <2>1 DEF RightCode, EntersCode
<1> QED
  BY <1>1, <1>3, <1>7, <1>8, <1>9, <1>10, <1>11

-----------------------------------------------------------------------------
(* The statements that follow.                                             *)

\* h puts a row with the same outcome in the place of the verification of p.
LEMMA Replaces ==
  ASSUME Inv, NEW h \in Handlers, inflight[h] # NULL,
         NEW p \in Parcels, NEW v \in Verification,
         NEW next \in Request \cup {NULL},
         ver' = [ver EXCEPT ![p] = v],
         inflight' = [inflight EXCEPT ![h] = next],
         UNCHANGED parcels,
         clock' \in Time, wrong' \in [Parcels -> Nat],
         ver[p] # NULL => ver[p].outcome = v.outcome,
         ver[p] = NULL => parcels[p].booked = NULL,
         v.status = "COMPLETED" => parcels[p].booked = v.outcome,
         next # NULL =>
           /\ next.parcel = p
           /\ next.step \in {"save", "complete"}
           /\ next.step = "save" => next.row.status # "COMPLETED"
           /\ next.row.outcome = v.outcome
  PROVE  Inv'
<1> USE DEF Inv, TypeOK
<1>1. v # NULL
  BY NullIsNothing
<1>2. ver'[p] = v /\ \A q \in Parcels : q # p => ver'[q] = ver[q]
  OBVIOUS
<1>3. TypeOK'
  OBVIOUS
<1>4. CompletedIsBooked'
  BY <1>2 DEF CompletedIsBooked, Has
<1>5. BookedOK'
  BY <1>1, <1>2 DEF BookedOK
<1>6. ASSUME NEW g \in Handlers, inflight'[g] # NULL
      PROVE  RequestOK(g)'
  <2>1. CASE g = h
    <3>1. inflight'[g] = next
      BY <2>1
    <3> QED
      BY <1>1, <1>2, <1>6, <3>1 DEF RequestOK
  <2>2. CASE g # h
    <3>1. inflight'[g] = inflight[g] /\ inflight[g] \in Request
      BY <1>6, <2>2
    <3>2. inflight[g].parcel \in Parcels
      BY <3>1 DEF Request
    <3> QED
      BY <1>1, <1>2, <1>6, <3>1, <3>2 DEF RequestsOK, RequestOK
  <2> QED
    BY <2>1, <2>2
<1> QED
  BY <1>3, <1>4, <1>5, <1>6 DEF RequestsOK

LEMMA WriteKeepsInv ==
  ASSUME Inv, NEW h \in Handlers, Continue(h)
  PROVE  Inv'
<1> USE DEF Inv, TypeOK
<1> DEFINE req == inflight[h]
           p   == req.parcel
<1>1. req # NULL
  BY DEF Continue, InsertPending, SaveVerification, SaveVerified, CompleteDelivery,
         BookOutcome, CloseVerification, At
<1>2. req \in Request /\ RequestOK(h)
  BY <1>1 DEF RequestsOK
<1>3. p \in Parcels /\ req.row \in Verification /\ req.copy \in Parcel
  BY <1>2 DEF Request
<1>4. parcels[p].booked = NULL \/ (ver[p] # NULL /\ parcels[p].booked = ver[p].outcome)
  BY <1>3 DEF BookedOK
<1>5. CASE InsertPending(h)
  <2> DEFINE next == [step |-> "save", parcel |-> p, row |-> CodeSent(req.row),
                      copy |-> req.copy]
  <2>1. /\ CodeSent(req.row) \in Verification
        /\ CodeSent(req.row).outcome = req.row.outcome
        /\ CodeSent(req.row).status # "COMPLETED"
    BY <1>3, CodeSentType
  <2>2. next \in Request
    BY <1>3, <2>1 DEF Request, Steps
  <2>3. req.row.status # "COMPLETED"
    BY <1>2, <1>5 DEF InsertPending, At, RequestOK
  <2> QED
    BY <1>1, <1>3, <1>4, <1>5, <2>1, <2>2, <2>3, Replaces DEF InsertPending, Do
<1>6. CASE SaveVerification(h)
  <2>1. Counted(p, req.row) \in Nat
    BY <1>3 DEF Counted
  <2>2. wrong' \in [Parcels -> Nat]
    BY <1>3, <1>6, <2>1 DEF SaveVerification
  <2>3. req.row.status # "COMPLETED" /\ ver[p] # NULL /\ ver[p].outcome = req.row.outcome
    BY <1>2, <1>6 DEF SaveVerification, At, RequestOK
  <2> QED
    BY <1>1, <1>3, <1>6, <2>2, <2>3, Replaces DEF SaveVerification, Responds
<1>7. CASE SaveVerified(h)
  <2> DEFINE next == [step |-> "complete", parcel |-> p, row |-> req.row, copy |-> req.copy]
  <2>1. next \in Request
    BY <1>3 DEF Request, Steps
  <2>2. req.row.status # "COMPLETED" /\ ver[p] # NULL /\ ver[p].outcome = req.row.outcome
    BY <1>2, <1>7 DEF SaveVerified, At, RequestOK
  <2> QED
    BY <1>1, <1>3, <1>7, <2>1, <2>2, Replaces DEF SaveVerified, Do
<1>8. CASE CompleteDelivery(h)
  <2> DEFINE copy == [parcels[p] EXCEPT !.status = ver[p].outcome, !.booked = ver[p].outcome]
  <2>1. ver[p] # NULL /\ ver[p] \in Verification
    BY <1>2, <1>3, <1>8 DEF CompleteDelivery, At, RequestOK
  <2>2. copy \in Parcel /\ copy.booked = ver[p].outcome
    BY <1>3, <2>1 DEF Parcel, Verification
  <2> QED
    BY <1>3, <1>8, <2>1, <2>2, Reads DEF CompleteDelivery, Steps
<1>9. CASE BookOutcome(h)
  <2> DEFINE closed == [req.row EXCEPT !.status = "COMPLETED"]
             next   == [step |-> "close", parcel |-> p, row |-> closed, copy |-> req.copy]
  <2>1. closed \in Verification /\ closed.outcome = req.row.outcome
    BY <1>3 DEF Verification, VerificationStatus
  <2>2. next \in Request
    BY <1>3, <2>1 DEF Request, Steps
  <2>3. /\ ver[p] # NULL
        /\ ver[p].outcome = req.row.outcome
        /\ req.copy.booked = ver[p].outcome
    BY <1>2, <1>9 DEF BookOutcome, At, RequestOK
  <2>4. /\ parcels' = [parcels EXCEPT ![p] = req.copy]
        /\ inflight' = [inflight EXCEPT ![h] = next]
        /\ UNCHANGED <<ver, clock, wrong>>
    BY <1>9 DEF BookOutcome, Do
  <2>5. /\ parcels'[p].booked = ver[p].outcome
        /\ \A q \in Parcels : q # p => parcels'[q] = parcels[q]
    BY <1>3, <2>3, <2>4
  <2>6. TypeOK'
    BY <1>3, <2>2, <2>4
  <2>7. (CompletedIsBooked /\ BookedOK)'
    BY <2>3, <2>4, <2>5 DEF CompletedIsBooked, BookedOK, Has
  <2>8. ASSUME NEW g \in Handlers, inflight'[g] # NULL
        PROVE  RequestOK(g)'
    <3>1. CASE g = h
      <4>1. inflight'[g] = next
        BY <2>4, <3>1
      <4> QED
        <5>1. /\ inflight'[g].step = "close"
              /\ inflight'[g].parcel = p
              /\ inflight'[g].row = closed
          BY <4>1
        <5>2. ver'[p] # NULL /\ ver'[p].outcome = closed.outcome
          BY <2>1, <2>3, <2>4
        <5>3. parcels'[p].booked = closed.outcome
          BY <2>1, <2>3, <2>5
        <5> HIDE DEF closed, p
        <5> QED
          BY <5>1, <5>2, <5>3 DEF RequestOK
    <3>2. CASE g # h
      <4>1. inflight'[g] = inflight[g] /\ inflight[g] \in Request
        BY <2>4, <2>8, <3>2
      <4>2. inflight[g].parcel \in Parcels
        BY <4>1 DEF Request
      <4> QED
        BY <2>4, <2>5, <2>8, <4>1, <4>2 DEF RequestsOK, RequestOK
    <3> QED
      BY <3>1, <3>2
  <2> QED
    BY <2>6, <2>7, <2>8 DEF RequestsOK
<1>10. CASE CloseVerification(h)
  <2>1. /\ ver[p] # NULL
        /\ ver[p].outcome = req.row.outcome
        /\ parcels[p].booked = req.row.outcome
    BY <1>2, <1>10 DEF CloseVerification, At, RequestOK
  <2> QED
    BY <1>1, <1>3, <1>10, <2>1, Replaces DEF CloseVerification, Responds
<1> QED
  BY <1>5, <1>6, <1>7, <1>8, <1>9, <1>10 DEF Continue

-----------------------------------------------------------------------------
(* The other steps.                                                        *)

LEMMA AbandonKeepsInv ==
  ASSUME Inv, NEW h \in Handlers, Abandon(h)
  PROVE  Inv'
<1> USE DEF Inv, TypeOK
<1>1. inflight' = [inflight EXCEPT ![h] = NULL] /\ UNCHANGED <<parcels, ver, clock, wrong>>
  BY DEF Abandon, Responds
<1>2. (TypeOK /\ CompletedIsBooked /\ BookedOK)'
  BY <1>1 DEF CompletedIsBooked, BookedOK, Has
<1>3. ASSUME NEW g \in Handlers, inflight'[g] # NULL
      PROVE  inflight'[g] = inflight[g] /\ RequestOK(g)
  BY <1>1, <1>3 DEF RequestsOK
<1> QED
  BY <1>1, <1>2, <1>3 DEF RequestsOK, RequestOK

\* Elsewhere the parcel moves, and keeps what was booked.
LEMMA ElsewhereKeepsInv ==
  ASSUME Inv, parcels' \in [Parcels -> Parcel], clock' \in Time,
         \A p \in Parcels : parcels'[p].booked = parcels[p].booked,
         UNCHANGED <<ver, wrong, inflight>>
  PROVE  Inv'
<1> USE DEF Inv, TypeOK
<1>1. (TypeOK /\ CompletedIsBooked /\ BookedOK)'
  BY DEF CompletedIsBooked, BookedOK, Has
<1>2. ASSUME NEW h \in Handlers, inflight'[h] # NULL
      PROVE  RequestOK(h)'
  <2>1. inflight[h] \in Request /\ inflight[h].parcel \in Parcels /\ RequestOK(h)
    BY <1>2 DEF RequestsOK, Request
  <2> QED
    BY <2>1 DEF RequestOK
<1> QED
  BY <1>1, <1>2 DEF RequestsOK

LEMMA InitInv == Init => Inv
<1> SUFFICES ASSUME Init PROVE Inv
  OBVIOUS
<1>1. TypeOK
  BY TimesAssumption DEF Init, TypeOK, Parcel, Time
<1> QED
  BY <1>1 DEF Init, Inv, CompletedIsBooked, BookedOK, RequestsOK, Has

LEMMA NextKeepsInv == Inv /\ [Next]_vars => Inv'
<1> SUFFICES ASSUME Inv, [Next]_vars
             PROVE  Inv'
  OBVIOUS
<1>1. ASSUME NEW h \in Handlers, RiderStep(h)
      PROVE  Inv'
  BY <1>1, RiderKeepsInv
<1>2. ASSUME NEW h \in Handlers, Continue(h)
      PROVE  Inv'
  BY <1>2, WriteKeepsInv
<1>3. ASSUME NEW h \in Handlers, Abandon(h)
      PROVE  Inv'
  BY <1>3, AbandonKeepsInv
<1>4. ASSUME NEW p \in Parcels, NEW r \in Riders, GoesOut(p, r)
      PROVE  Inv'
  BY <1>4, ElsewhereKeepsInv DEF GoesOut, Inv, TypeOK, Parcel
<1>5. ASSUME NEW p \in Parcels, ComesBack(p)
      PROVE  Inv'
  BY <1>5, ElsewhereKeepsInv DEF ComesBack, Inv, TypeOK, Parcel
<1>6. CASE Tick
  BY <1>6, TimesAssumption, ElsewhereKeepsInv DEF Tick, Inv, TypeOK, Time
<1>7. CASE UNCHANGED vars
  BY <1>7, ElsewhereKeepsInv DEF vars, Inv, TypeOK
<1> QED
  BY <1>1, <1>2, <1>3, <1>4, <1>5, <1>6, <1>7 DEF Next

-----------------------------------------------------------------------------
\* The rows and requests of the verification service are well-typed, whatever
\* its handlers interleave.
THEOREM TypeCorrect == Spec => []TypeOK
<1>1. Inv => TypeOK
  BY DEF Inv
<1> QED
  BY <1>1, InitInv, NextKeepsInv, PTL DEF Spec

\* A completed verification has its outcome booked on the parcel, for any
\* number of handlers, in any interleaving of their saves, with any crash.
THEOREM CompletedBooked == Spec => []CompletedIsBooked
<1>1. Inv => CompletedIsBooked
  BY DEF Inv
<1> QED
  BY <1>1, InitInv, NextKeepsInv, PTL DEF Spec

-----------------------------------------------------------------------------
(* Requests one at a time.                                                 *)

OneHandler == \A g, h \in Handlers : g = h

NoneUncounted == \A p \in Parcels : ver[p] = NULL => wrong[p] = 0

\* What the one handler relies on is still so: the attempts in its row are the
\* answers there were, and no row takes an approval back.
Holds(step, p, row) ==
  /\ step = "insert" => row.attempts = 0
  /\ step = "save" =>
       /\ Counted(p, row) = row.attempts
       /\ ver[p] # NULL /\ ver[p].approved => row.approved
  /\ step \in {"verified", "book", "close"} => row.approved /\ row.attempts = wrong[p]
  /\ step \in {"complete", "book"} => ver[p].approved

RequestsHold ==
  \A h \in Handlers : inflight[h] # NULL =>
    Holds(inflight[h].step, inflight[h].parcel, inflight[h].row)

Serial == BookedIsApproved /\ AttemptsCounted /\ NoneUncounted /\ RequestsHold

LEMMA ReadKeepsSerial ==
  ASSUME OneHandler, Inv, Serial, NEW h \in Handlers, NEW step, NEW p, NEW row, NEW copy,
         Do(h, step, p, row, copy), UNCHANGED <<parcels, ver, clock, wrong>>,
         Holds(step, p, row)
  PROVE  Serial'
<1>1. \A g \in Handlers :
        inflight'[g] = [step |-> step, parcel |-> p, row |-> row, copy |-> copy]
  BY DEF Do, OneHandler, Inv, TypeOK
<1>2. RequestsHold'
  BY <1>1 DEF RequestsHold, Holds, Counted
<1>3. (BookedIsApproved /\ AttemptsCounted /\ NoneUncounted)'
  BY DEF Serial, BookedIsApproved, AttemptsCounted, NoneUncounted
<1> QED
  BY <1>2, <1>3 DEF Serial

LEMMA RiderKeepsSerial ==
  ASSUME OneHandler, Inv, Serial, NEW h \in Handlers, RiderStep(h)
  PROVE  Serial'
<1>1. PICK p \in Parcels, r \in Riders :
        \/ \E outcome \in Outcomes : InitiateDelivery(h, p, r, outcome)
        \/ RequestOtp(h, p, r)
        \/ ResendOtp(h, p, r)
        \/ TooManyAttempts(h, p, r)
        \/ WrongCode(h, p, r)
        \/ RightCode(h, p, r)
  BY DEF RiderStep
<1>2. /\ ver[p] # NULL => ver[p] \in Verification /\ ver[p].attempts = wrong[p]
      /\ wrong[p] \in Nat
  BY DEF Inv, TypeOK, Serial, AttemptsCounted
<1>3. ASSUME NEW outcome \in Outcomes, InitiateDelivery(h, p, r, outcome) PROVE Serial'
  <2>1. Holds("insert", p, Pending(outcome))
    BY DEF Holds, Pending
  <2> QED
    BY <1>3, <2>1, ReadKeepsSerial DEF InitiateDelivery
<1>4. CASE RequestOtp(h, p, r) \/ ResendOtp(h, p, r)
  <2>1. Holds("save", p, CodeSent(ver[p]))
    BY DEF Holds, CodeSent, Counted
  <2> QED
    BY <1>4, <2>1, ReadKeepsSerial DEF RequestOtp, ResendOtp, Opens
<1>5. CASE TooManyAttempts(h, p, r)
  <2> DEFINE row == [ver[p] EXCEPT !.status = "OTP_FAILED"]
  <2>1. row.status = "OTP_FAILED" /\ row.attempts = wrong[p] /\ row.approved = ver[p].approved
    BY <1>2, <1>5 DEF TooManyAttempts, EntersCode, Opens, Verification
  <2>2. Holds("save", p, row)
    BY <2>1 DEF Holds, Counted
  <2> QED
    BY <1>5, <2>2, ReadKeepsSerial DEF TooManyAttempts, EntersCode, Opens
<1>6. CASE WrongCode(h, p, r)
  <2> DEFINE row == [ver[p] EXCEPT !.attempts = @ + 1]
  <2>1. /\ row.status = "OTP_SENT" /\ row.attempts = wrong[p] + 1
        /\ row.approved = ver[p].approved
    BY <1>2, <1>6 DEF WrongCode, EntersCode, Opens, Verification
  <2>2. Holds("save", p, row)
    BY <1>2, <2>1 DEF Holds, Counted
  <2> QED
    BY <1>6, <2>2, ReadKeepsSerial DEF WrongCode, EntersCode, Opens
<1>7. CASE RightCode(h, p, r)
  <2> DEFINE row == [ver[p] EXCEPT !.status = "OTP_VERIFIED", !.approved = TRUE]
  <2>1. row.approved /\ row.attempts = wrong[p]
    BY <1>2, <1>7 DEF RightCode, EntersCode, Opens, Verification
  <2>2. Holds("verified", p, row)
    BY <2>1 DEF Holds
  <2> QED
    BY <1>7, <2>2, ReadKeepsSerial DEF RightCode, EntersCode, Opens
<1> QED
  BY <1>1, <1>3, <1>4, <1>5, <1>6, <1>7

\* h puts a row that counts and approves right in the place of the one there.
LEMMA RowKeepsSerial ==
  ASSUME OneHandler, Inv, Serial, NEW h \in Handlers, NEW p \in Parcels,
         NEW row \in Verification, NEW next,
         ver' = [ver EXCEPT ![p] = row], UNCHANGED parcels,
         inflight' = [inflight EXCEPT ![h] = next],
         wrong' = [wrong EXCEPT ![p] = row.attempts],
         parcels[p].booked # NULL => row.approved,
         next # NULL =>
           /\ next.parcel = p
           /\ \/ next.step = "complete" /\ row.approved
              \/ /\ next.step = "save" /\ next.row.status = "OTP_SENT"
                 /\ next.row.attempts = 0 /\ next.row.approved = row.approved
  PROVE  Serial'
<1>1. row # NULL /\ row.attempts \in 0..MaxAttempts
  BY NullIsNothing DEF Verification
<1>2. \A q \in Parcels :
        /\ ver'[q] = IF q = p THEN row ELSE ver[q]
        /\ wrong'[q] = IF q = p THEN row.attempts ELSE wrong[q]
  BY DEF Inv, TypeOK
<1>3. \A g \in Handlers : inflight'[g] = next
  BY DEF Inv, TypeOK, OneHandler
<1>4. (BookedIsApproved /\ AttemptsCounted /\ NoneUncounted)'
  BY <1>1, <1>2 DEF Serial, BookedIsApproved, AttemptsCounted, NoneUncounted, MaxAttempts
<1>5. RequestsHold'
  BY <1>2, <1>3 DEF RequestsHold, Holds, Counted
<1> QED
  BY <1>4, <1>5 DEF Serial

LEMMA WriteKeepsSerial ==
  ASSUME OneHandler, Inv, Serial, NEW h \in Handlers, Continue(h)
  PROVE  Serial'
<1> DEFINE req == inflight[h]
           p   == req.parcel
           row == req.row
<1>1. req # NULL
  BY DEF Continue, InsertPending, SaveVerification, SaveVerified, CompleteDelivery,
         BookOutcome, CloseVerification, At
<1>2. req \in Request /\ RequestOK(h) /\ Holds(req.step, p, row)
  BY <1>1 DEF Inv, TypeOK, RequestsOK, Serial, RequestsHold
<1>3. p \in Parcels /\ row \in Verification
  BY <1>2 DEF Request
<1>4. /\ parcels[p].booked # NULL => ver[p] # NULL /\ ver[p].approved
      /\ ver[p] # NULL => ver[p].attempts = wrong[p]
      /\ ver[p] = NULL => wrong[p] = 0
      /\ wrong \in [Parcels -> Nat]
  BY <1>3 DEF Serial, BookedIsApproved, AttemptsCounted, NoneUncounted, Inv, TypeOK
<1>5. CASE InsertPending(h)
  <2> DEFINE next == [step |-> "save", parcel |-> p, row |-> CodeSent(row), copy |-> req.copy]
  <2>1. row.attempts = 0 /\ ver[p] = NULL
    BY <1>2, <1>5 DEF InsertPending, At, Holds
  <2>2. ver' = [ver EXCEPT ![p] = row] /\ inflight' = [inflight EXCEPT ![h] = next]
        /\ UNCHANGED <<parcels, wrong>>
    BY <1>5 DEF InsertPending, Do
  <2>3. wrong' = [wrong EXCEPT ![p] = row.attempts]
    BY <1>3, <1>4, <2>1, <2>2
  <2>4. CodeSent(row).status = "OTP_SENT" /\ CodeSent(row).attempts = 0
        /\ CodeSent(row).approved = row.approved
    BY DEF CodeSent
  <2> QED
    BY <1>3, <1>4, <2>1, <2>2, <2>3, <2>4, RowKeepsSerial
<1>6. CASE SaveVerification(h)
  <2>1. /\ Counted(p, row) = row.attempts
        /\ ver[p] # NULL /\ ver[p].approved => row.approved
    BY <1>2, <1>6 DEF SaveVerification, At, Holds
  <2> QED
    BY <1>3, <1>4, <1>6, <2>1, RowKeepsSerial DEF SaveVerification, Responds
<1>7. CASE SaveVerified(h) \/ CloseVerification(h)
  <2>1. row.approved /\ row.attempts = wrong[p]
    BY <1>2, <1>7 DEF SaveVerified, CloseVerification, At, Holds
  <2>2. wrong' = [wrong EXCEPT ![p] = row.attempts]
    BY <1>3, <1>4, <1>7, <2>1 DEF SaveVerified, CloseVerification
  <2>3. ver' = [ver EXCEPT ![p] = row] /\ UNCHANGED parcels
    BY <1>7 DEF SaveVerified, CloseVerification
  <2>4. CASE CloseVerification(h)
    BY <1>3, <2>1, <2>2, <2>3, <2>4, RowKeepsSerial DEF CloseVerification, Responds
  <2>5. CASE SaveVerified(h)
    <3> DEFINE next == [step |-> "complete", parcel |-> p, row |-> row, copy |-> req.copy]
    <3>1. inflight' = [inflight EXCEPT ![h] = next]
      BY <2>5 DEF SaveVerified, Do
    <3> QED
      BY <1>3, <2>1, <2>2, <2>3, <3>1, RowKeepsSerial
  <2> QED
    BY <1>7, <2>4, <2>5
<1>8. CASE CompleteDelivery(h)
  <2>1. ver[p].approved /\ ver[p].attempts = wrong[p]
    BY <1>2, <1>4, <1>8 DEF CompleteDelivery, At, Holds, RequestOK
  <2>2. Holds("book", p, ver[p])
    BY <2>1 DEF Holds
  <2> QED
    BY <1>8, <2>2, ReadKeepsSerial DEF CompleteDelivery
<1>9. CASE BookOutcome(h)
  <2> DEFINE closed == [row EXCEPT !.status = "COMPLETED"]
             next   == [step |-> "close", parcel |-> p, row |-> closed, copy |-> req.copy]
  <2>1. /\ row.approved /\ row.attempts = wrong[p]
        /\ ver[p] # NULL /\ ver[p].approved
    BY <1>2, <1>9 DEF BookOutcome, At, Holds, RequestOK
  <2>2. closed.approved /\ closed.attempts = wrong[p]
    BY <1>3, <2>1 DEF Verification
  <2>3. /\ inflight' = [inflight EXCEPT ![h] = next] /\ UNCHANGED <<ver, wrong>>
        /\ parcels' = [parcels EXCEPT ![p] = req.copy]
    BY <1>9 DEF BookOutcome, Do
  <2>4. (BookedIsApproved /\ AttemptsCounted /\ NoneUncounted)'
    BY <2>1, <2>3 DEF Serial, BookedIsApproved, AttemptsCounted, NoneUncounted, Inv, TypeOK
  <2>5. \A g \in Handlers : inflight'[g] = next
    BY <2>3 DEF Inv, TypeOK, OneHandler
  <2>6. \A g \in Handlers :
          /\ inflight'[g].step = "close" /\ inflight'[g].parcel = p
          /\ inflight'[g].row = closed
    BY <2>5
  <2> HIDE DEF closed, p
  <2>7. RequestsHold'
    BY <2>2, <2>3, <2>6 DEF RequestsHold, Holds
  <2> QED
    BY <2>4, <2>7 DEF Serial
<1> QED
  BY <1>5, <1>6, <1>7, <1>8, <1>9 DEF Continue

LEMMA OtherKeepsSerial ==
  ASSUME Serial, TypeOK, UNCHANGED <<ver, wrong>>,
         \A h \in Handlers : inflight'[h] \in {inflight[h], NULL},
         \A p \in Parcels : parcels'[p].booked = parcels[p].booked
  PROVE  Serial'
<1>1. (BookedIsApproved /\ AttemptsCounted /\ NoneUncounted)'
  BY DEF Serial, BookedIsApproved, AttemptsCounted, NoneUncounted
<1>2. RequestsHold'
  BY DEF Serial, RequestsHold, Holds, Counted
<1> QED
  BY <1>1, <1>2 DEF Serial

LEMMA SerialInvariant ==
  ASSUME OneHandler
  PROVE  Spec => []Serial
<1>1. Init => Serial
  BY DEF Init, Serial, BookedIsApproved, AttemptsCounted, NoneUncounted, RequestsHold, MaxAttempts
<1>2. Inv /\ Serial /\ [Next]_vars => Serial'
  <2> SUFFICES ASSUME Inv, Serial, [Next]_vars PROVE Serial'
    OBVIOUS
  <2>1. TypeOK
    BY DEF Inv
  <2>2. ASSUME NEW h \in Handlers, RiderStep(h) \/ Continue(h) PROVE Serial'
    BY <2>2, RiderKeepsSerial, WriteKeepsSerial
  <2>3. ASSUME NEW h \in Handlers, Abandon(h) PROVE Serial'
    BY <2>1, <2>3, OtherKeepsSerial DEF Abandon, Responds, TypeOK
  <2>4. ASSUME NEW p \in Parcels, ComesBack(p) \/ \E r \in Riders : GoesOut(p, r)
        PROVE  Serial'
    BY <2>1, <2>4, OtherKeepsSerial DEF ComesBack, GoesOut, TypeOK, Parcel
  <2>5. CASE Tick \/ UNCHANGED vars
    BY <2>1, <2>5, OtherKeepsSerial DEF Tick, vars
  <2> QED
    BY <2>2, <2>3, <2>4, <2>5 DEF Next
<1> QED
  BY <1>1, <1>2, InitInv, NextKeepsInv, PTL DEF Spec

\* Served one at a time, nothing is booked without the right code on record,
\* wherever a handler dies.
THEOREM BookedApproved ==
  ASSUME OneHandler
  PROVE  Spec => []BookedIsApproved
<1>1. Serial => BookedIsApproved
  BY DEF Serial
<1> QED
  BY <1>1, SerialInvariant, PTL

\* Served one at a time, the row counts the wrong codes answered for the last
\* code sent, and there are no more of them than allowed.
THEOREM AttemptsAreCounted ==
  ASSUME OneHandler
  PROVE  Spec => []AttemptsCounted
<1>1. Serial => AttemptsCounted
  BY DEF Serial
<1> QED
  BY <1>1, SerialInvariant, PTL

=============================================================================
