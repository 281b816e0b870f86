-------------------------- MODULE RiderSettlement --------------------------
(***************************************************************************)
(* The cash that riders collect and hand to their hub (the settlement half *)
(* of hubs.service.ts).                                                    *)
(*                                                                         *)
(* A settlement covers the deliveries a rider completed since his last one *)
(* and carries on what he then still owed.  recordSettlement reads the     *)
(* last settlement, then the deliveries, and stamps the new row with the   *)
(* time at which it writes it; no statement holds a lock.  A delivery is   *)
(* stamped before it is saved as completed.                                *)
(*                                                                         *)
(* A rider stays with the hub he was created for: riders.service.ts        *)
(* assigns hub_id on a row whose relation object keeps the old one.        *)
(***************************************************************************)
EXTENDS Integers, FiniteSets, FiniteSetsExt

CONSTANTS
  Riders, Deliveries,
  RiderOf,          \* who carries each delivery
  Collected,        \* collected_amount of each delivery
  Cash,             \* amounts of cash that managers enter in this instance
  Tills,            \* handlers of settlements and verifications
  NULL,
  ManagerInToken,   \* whether a request carries the id of the hub manager
  MaxClock,         \* bound on the clock
  MayFail           \* whether statements fail and processes die in this instance

ASSUME CashAssumption ==
  /\ RiderOf \in [Deliveries -> Riders]
  /\ Collected \in [Deliveries -> Nat]
  /\ Cash \subseteq Nat
  /\ IsFiniteSet(Deliveries)
  /\ MaxClock \in Nat
  /\ ManagerInToken \in BOOLEAN /\ MayFail \in BOOLEAN

Time == 0..MaxClock

SettlementStatus == {"PENDING", "PARTIAL", "COMPLETED"}

\* deliveries are those whose amounts are in total_collected_amount.
Settlement ==
  [rider : Riders, at : Time, deliveries : SUBSET Deliveries, cash : Nat,
   previous : Nat, due : Nat, status : SettlementStatus]

Errand ==
  [step : {"last"}, rider : Riders, cash : Nat]
    \cup [step : {"deliveries"}, rider : Riders, cash : Nat, since : Time, previous : Nat]
    \cup [step : {"record"}, rider : Riders, cash : Nat, previous : Nat,
          deliveries : SUBSET Deliveries]
    \cup [step : {"delivered"}, delivery : Deliveries, at : Time]

ASSUME NullIsNoErrand == NULL \notin Errand /\ NULL \notin Time

VARIABLES
  done,          \* delivery_completed_at of completed verifications, else NULL
  settlements,   \* the rider_settlements table
  clock,
  till           \* what each handler is doing, NULL when it serves no request

settlementVars == <<done, settlements, clock, till>>

SettlementTypeOK ==
  /\ done \in [Deliveries -> Time \cup {NULL}]
  /\ settlements \subseteq Settlement
  /\ clock \in Time
  /\ till \in [Tills -> Errand \cup {NULL}]

\* Riders were created at 0.
SettlementInit ==
  /\ done = [d \in Deliveries |-> NULL]
  /\ settlements = {}
  /\ clock = 1
  /\ till = [h \in Tills |-> NULL]

-----------------------------------------------------------------------------
Turns(h, step) == till[h] # NULL /\ till[h].step = step
Takes(h, errand) == till' = [till EXCEPT ![h] = errand]
Answers(h) == Takes(h, NULL)

\* Stamps of different requests differ.
TimePasses == clock < MaxClock /\ clock' = clock + 1

Sum(S) == MapThenSumSet(LAMBDA d : Collected[d], S)

(* Deliveries.                                                             *)

\* completeDelivery stamps the verification ...
Delivers(h, d) ==
  /\ till[h] = NULL
  /\ done[d] = NULL
  /\ Takes(h, [step |-> "delivered", delivery |-> d, at |-> clock])
  /\ UNCHANGED <<done, settlements, clock>>

\* ... and saves it.
SaveDelivered(h) ==
  /\ Turns(h, "delivered")
  /\ done' = [done EXCEPT ![till[h].delivery] = till[h].at]
  /\ TimePasses
  /\ Answers(h)
  /\ UNCHANGED settlements

\* resendOtp on a completed verification; the rider verifies it again later.
ReopensDelivery(h, d) ==
  /\ till[h] = NULL
  /\ done[d] # NULL
  /\ done' = [done EXCEPT ![d] = NULL]
  /\ UNCHANGED <<settlements, clock, till>>

(* Settlement.                                                             *)

Of(r) == {s \in settlements : s.rider = r}

IsLast(s) == \A t \in Of(s.rider) : t.at <= s.at

\* Mutant: what was received counts, not what is owed.
Outcome_Received(collected, previous, cash) ==
  [due |-> IF collected > cash THEN collected - cash ELSE 0,
   status |-> IF cash >= collected THEN "COMPLETED" ELSE "PARTIAL"]

\* What recordSettlement writes, and calculateSettlementDiscrepancy shows.
Outcome(collected, previous, cash) ==
  LET owed == collected + previous
  IN  [due    |-> IF owed > cash THEN owed - cash ELSE 0,
       status |-> IF owed <= cash THEN "COMPLETED"
                  ELSE IF cash > 0 THEN "PARTIAL" ELSE "PENDING"]

RecordSettlement(h, r, cash) ==
  /\ till[h] = NULL
  /\ Takes(h, [step |-> "last", rider |-> r, cash |-> cash])
  /\ UNCHANGED <<done, settlements, clock>>

\* Mutant: the period of a later settlement starts now.
ReadLast_Now(h) ==
  /\ Turns(h, "last")
  /\ LET r == till[h].rider
         next(since, previous) ==
           Takes(h, [step |-> "deliveries", rider |-> r, cash |-> till[h].cash,
                     since |-> since, previous |-> previous])
     IN  \/ Of(r) = {} /\ next(0, 0)
         \/ \E s \in Of(r) : IsLast(s) /\ next(clock, s.due)
  /\ UNCHANGED <<done, settlements, clock>>

ReadLast(h) ==
  /\ Turns(h, "last")
  /\ LET r == till[h].rider
         next(since, previous) ==
           Takes(h, [step |-> "deliveries", rider |-> r, cash |-> till[h].cash,
                     since |-> since, previous |-> previous])
     IN  \/ Of(r) = {} /\ next(0, 0)
         \/ \E s \in Of(r) : IsLast(s) /\ next(s.at, s.due)
  /\ UNCHANGED <<done, settlements, clock>>

ReadDeliveries(h) ==
  /\ Turns(h, "deliveries")
  /\ LET e == till[h]
     IN  Takes(h, [step |-> "record", rider |-> e.rider, cash |-> e.cash,
                   previous |-> e.previous,
                   deliveries |-> {d \in Deliveries :
                      /\ RiderOf[d] = e.rider
                      /\ done[d] # NULL /\ done[d] >= e.since}])
  /\ UNCHANGED <<done, settlements, clock>>

\* hub_manager_id may not be null: without it the insert fails.
InsertSettlement(h) ==
  /\ Turns(h, "record")
  /\ IF ManagerInToken
     THEN LET e == till[h]
              o == Outcome(Sum(e.deliveries), e.previous, e.cash)
          IN  /\ settlements' = settlements \cup
                   {[rider |-> e.rider, at |-> clock, deliveries |-> e.deliveries,
                     cash |-> e.cash, previous |-> e.previous,
                     due |-> o.due, status |-> o.status]}
              /\ TimePasses
     ELSE UNCHANGED <<settlements, clock>>
  /\ Answers(h)
  /\ UNCHANGED done

TillFails(h) ==
  /\ MayFail
  /\ till[h] # NULL
  /\ Answers(h)
  /\ UNCHANGED <<done, settlements, clock>>

-----------------------------------------------------------------------------
TillStep(h) ==
  \/ \E d \in Deliveries : Delivers(h, d) \/ ReopensDelivery(h, d)
  \/ \E r \in Riders, cash \in Cash : RecordSettlement(h, r, cash)
  \/ SaveDelivered(h)
  \/ ReadLast(h) \/ ReadDeliveries(h) \/ InsertSettlement(h)
  \/ TillFails(h)

SettlementNext == \E h \in Tills : TillStep(h)

SettlementSpec == SettlementInit /\ [][SettlementNext]_settlementVars

-----------------------------------------------------------------------------
(* Properties.                                                             *)

\* One request at a time: a delivery that is in no settlement of its rider is
\* one the next settlement will find, although a delivery and a settlement are
\* only told apart by their stamps.
NothingSkipped ==
  \A d \in Deliveries :
    LET of == Of(RiderOf[d])
    IN  done[d] # NULL /\ (\A s \in of : d \notin s.deliveries)
          => \A s \in of : done[d] >= s.at

Excess(s) == IF s.cash > Sum(s.deliveries) + s.previous
             THEN s.cash - Sum(s.deliveries) - s.previous ELSE 0

\* One request at a time: what a rider still owes after his last settlement is
\* all that his settlements say he collected, less all that he handed over and
\* that was not in excess; no part of a debt is lost on the way.
DebtIsCarried ==
  \A s \in settlements : IsLast(s) =>
    s.due = MapThenSumSet(LAMBDA t : Sum(t.deliveries) - t.cash + Excess(t), Of(s.rider))

\* "Total COD collected by rider since last settlement": no delivery is in two
\* settlements.
SettledOnce ==
  \A s, t \in settlements : s # t => s.deliveries \cap t.deliveries = {}

\* "/record endpoint creates permanent settlement record": the request that
\* inserts it does insert it.
SettlementRecorded ==
  [][\A h \in Tills :
       Turns(h, "record") /\ till'[h] = NULL => settlements' # settlements]_settlementVars

=============================================================================
