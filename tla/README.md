# delivery_backend: TLA+ models, model checking and proofs

`delivery_backend` is a NestJS service over PostgreSQL (TypeORM) that runs a
courier company: merchants post parcels, hubs receive them, riders deliver them
with a one-time code, cash on delivery is settled with the hub and paid out to
the merchant by invoices, and some parcels are handed to an outside courier,
CarryBee. This directory holds TLA+ models of that service, the TLC
configurations that check them and TLAPS proofs about them. Paths below are
relative to `src/src/`.

## The system

All state is in the database. A request is an HTTP handler that reads rows,
checks them, and writes them with a later statement; Node's event loop
interleaves handlers at every `await`, nothing locks a row between the read and
the write, and only the invoice and finance services use transactions. A
process that dies leaves each handler's remaining writes undone. Three facts of
TypeORM shape almost everything:

* `save(entity)` writes every column of the object as it was read (TypeORM
  computes which columns differ from the row and updates those, so a stale copy
  overwrites what others changed), and inserts the row if it is gone;
  `update(id, {...})` writes only the named columns.
* A relation object that was loaded with the entity can decide the value of its
  join column, so `x_id = null` next to a loaded `x` may have no effect. The
  models carry this as the constant `RelationObjectWins` and are checked both
  ways.
* Unique columns are the only protection between concurrent requests.

| component | state | operations | interacts with |
|---|---|---|---|
| Parcel lifecycle (`parcels`, routes in `hubs`, `riders`) | `parcels` row: status, hubs, rider, provider | receive, assign, accept, transfer, accept incoming, return, redeliver, edit, delete; the lists of managers, riders and merchants | riders, stores, verifications, CarryBee |
| Order intake (`parcels`, `pickup-requests`, `customer`) | new `parcels` rows, one pickup request per store and day, customers by phone | post a parcel (request, customer, number, insert, count), announce, confirm, assign, collect, cancel, edit customers | stores; the parcel then lives in the lifecycle |
| Delivery verification (`delivery-verifications`) | one row per parcel: outcome, cash, code, attempts, expiry | initiate, request/resend/verify code, complete | writes the parcel; SMS |
| CarryBee (`carrybee`) | provider and consignment columns; the courier's order book | sync store, assign parcel, webhook | writes the parcel; HTTP |
| Merchant invoices (`merchant`) | invoices; `invoice_id`, `paid_to_merchant`, `financial_status` of parcels | generate, change status, pay; lists, dashboards | parcels, finance |
| Merchant finance (`merchant-finance`) | balances and ledger per merchant | move, record payment, adjust, hold, release, sync | called by invoices after their commit |
| Rider settlement (`hubs`) | settlements per rider and hub | calculate, record | reads verifications |
| Hub transfer records (`hubs`, `admin`) | records of cash sent to the head office | create, edit, delete, approve, reject | managers and admins |
| Merchants, payout methods, stores (`merchant`, `stores`) | merchant and its user; payout methods and stores with a default each | sign up, approve, edit, add, verify, set default, remove, review | users, CarryBee |
| Authentication (`auth`, `users`) | password, refresh token, reset code of a user | log in, refresh, log out, change, forget and reset the password | everything that saves a user |
| Staff (`admin`, `hubs`, `riders`) | admins, hubs and hub managers, riders | create, change, (de)activate, remove | users |
| Pricing, coverage areas, CarryBee locations, providers, uploads, SMS, e-mail, guards | their tables | mostly create/read/update/delete, or input and output | not modelled |

### What is hard here

* Handlers that overlap on one row: stale whole-row saves, double assignment,
  saving a row that was deleted (`save` inserts it again).
* Operations of several statements without a transaction: the original of a
  return is saved before the return parcel is inserted, the outcome is written
  to the parcel before the verification is completed, a user is inserted before
  the hub and the manager that belong to him, a default is taken from one row
  before another gets it.
* Calls between services after the commit, whose failure is logged and
  forgotten: invoices and balances drift apart.
* Check before insert, with a unique index as the only referee (customers,
  tracking numbers, phone numbers), or none (pickup requests, settlements).
* Long legal sequences: a second transfer, a second delivery attempt, a parcel
  marked for return twice, a code that is sent again after completion, a debt
  carried over several partial settlements.
* Money that passes through several tables and handlers (verification, parcel,
  invoice, balances, settlement, transfer record).
* There are no tests in the repository, so none of this is exercised.

`PROJECT.json` lists each hazard at its line, with the properties about it.

## Modules

| module | what it is |
|---|---|
| `ParcelLifecycle` | the handlers that write the parcels table, each split at its database statements, with any number of requests in progress |
| `ParcelCustody`, `ParcelLifecycleCustody` | abstract specification (at every moment one party holds the parcel and it changes hands only between parties that meet) and the refinement mapping |
| `ParcelWorklists` | what managers, riders and merchants are shown, as functions of the state of `ParcelLifecycle` |
| `DeliveryVerification` | the one-time code: attempts, expiry, resends, and the four saves that end a delivery |
| `MerchantInvoice` | generation, status and payment of invoices, against other services that save parcels |
| `MerchantFinance` | the balances and the ledger, composed with `MerchantInvoice` (EXTENDS) at the call it leaves |
| `InvoiceViews` | lists and dashboards over the tables of both |
| `RiderSettlement` | the cash that riders hand to the hub |
| `HubTransferRecords` | the cash that the hub hands to the company; next to `RiderSettlement`, with handlers of its own |
| `Requests` | the process: handlers, and what each has read and still has to write |
| `OrderIntake` | posting a parcel, pickup requests, customers (on `Requests`) |
| `MerchantAccount`, `UserSessions`, `Staff` | accounts of merchants, of any user's session, and of the staff (on `Requests`) |
| `MCParcelLifecycle`, `MCDeliveryVerification`, `MCMerchantInvoice`, `MCMerchantFinance`, `MCHubCash`, `MCOrderIntake`, `MCAccounts` | symmetry, constraints and constant functions for TLC |
| `ParcelLifecycleProofs`, `DeliveryVerificationProofs`, `MerchantFinanceProofs`, `HubCashProofs`, `OrderIntakeProofs`, `AccountsProofs` | theorems |
| `RequestsProofs`, `SumsProofs` | lemmas that several of them cite: about handlers, and about sums over finite sets |

All models split a handler the same way. An action that reads and checks leaves
with handler `h` what it has read and has still to write (`inflight[h]`,
`till[h]`, `desk[h]`, or `jobs[h]` of `Requests`); each later database statement
is an action of its own that finds its data there. An action for failing
statements and dying processes (`Abandon`, `TillFails`, `HandlerFails`, ...) may
end the handler at any such point; the constant `MayFail` switches it off. A
save is one step, because TypeORM's `save` reloads and updates in one
transaction, and so is a transaction of the code whose reads lock nothing but
whose writes become visible together.

"Served one at a time" is either an instance with one handler, or `alone`, which
`Requests` keeps true until a request starts while another is served.

### ParcelLifecycle

`rows` is the parcels table, reduced to the columns handlers test or assign;
`chosen` is `selected_status` of the parcel's delivery verification (unique per
parcel); `live` the ids that exist and `unused` the ids nobody has had;
`storeHub` and `riders` the columns of other tables that guards read;
`inflight[h]` what handler `h` has read and still has to write. A handler is an
action that reads, checks and leaves a write in `inflight` (`MarkAsReceived`,
`AssignToRider`, ...) and a write (`SaveRow`, `UpdateAssignment`, `DeleteRow`,
`SaveOriginal` and `InsertReturn`, `InsertVerification`); `CompleteDelivery` is
a second read in the middle of `verifyOtp`. `Abandon` is a failing statement or
a crash at any of those points. `save`'s own reload and update run in one
transaction and are one step.

`ParcelWorklists` has no state: its operators are the `where` clauses of the
lists (`findAllForHub`, `getParcelsForAssignment`, `getIncomingParcels`, ...)
and the counts of the merchant's summary, and its properties say that who has to
move a parcel next can see it.

Amounts, addresses and texts are left out; timestamps that are only compared
with null are Booleans. `CreateParcel` and the staff actions are one statement
each. `HandleWebhook` takes any status of the constant `WebhookStatuses`, since
the courier decides which event comes when; `UpdateParcel` any status of
`EditableStatuses`, since the endpoint accepts them all.

### DeliveryVerification

`ver[p]` is the row of `delivery_verifications` for parcel `p` (`parcel_id` is
unique), reduced to status, `selected_status`, the time of the last code, the
attempts and `merchant_approved`. `parcels[p]` holds the columns that this
service reads or writes; `booked` stands for the financial columns that
`completeDelivery` sets, by the outcome they were set for. `wrong` is a history
variable that no handler reads: the wrong codes answered since the last code.

`RequestOtp`, `ResendOtp`, `TooManyAttempts`, `WrongCode` are one read and one
save. `RightCode` starts the chain of `verifyOtp`: `SaveVerified`,
`CompleteDelivery` (which reads verification and parcel again), `BookOutcome`,
`CloseVerification`. `InitiateDelivery` inserts the row and saves the same
object again with the code (`InsertPending`, `SaveVerification`). `GoesOut` and
`ComesBack` stand for the parcel's way between two attempts, which
`ParcelLifecycle` has in full.

Codes are right or wrong, amounts and the SMS are left out (an SMS that fails
is only logged), the clock ticks in the unit of the cooldown.

### MerchantInvoice, MerchantFinance, InvoiceViews

`parcels[p]` holds `invoice_id`, `paid_to_merchant`, `financial_status` and
whether the delivery is over; `invoices[i]` number, status and `items`, the
parcels from which `payable_amount` was computed. `settled` and `again` are
history variables: the invoices that `markInvoiceAsPaid` committed, once and
again. `GenerateInvoice` checks, `CreateInvoice` is the transaction;
`MarkInvoiceAsPaid` checks, `FindParcels` and `PayInvoice` are its transaction,
whose writes become visible together; `UpdateInvoiceStatus` checks, `SaveStatus`
saves. `CallsFinance` leaves the call that moves the merchant's balances, and
`FinanceCall` makes it. `Delivers` and `ReadsParcel` with `SaveParcel` are the
handlers of other services that save whole parcel rows. The number of an invoice
is what `generateInvoiceNumber` computes: its count asks for numbers in a list
of one literal that contains a percent sign, which no invoice has (`Literal`).

`MerchantFinance` conjoins to each of these steps what it means in money.
`finance[m]` is the row of `merchant_finance` (current, held, pending, invoiced,
processing, withdrawn), `net` the credits less the debits of
`merchant_finance_transactions`, `payable[i]` the amount of an invoice, computed
by `QuotesInvoice` from the parcels as they were read. A call reads the row
(`CallReads`), and saves what `Invoiced`, `Processing`, `Back` or `Withdrawn`
made of it by a later statement (`CallSaves`), or finds no row, which the caller
swallows (`CallFindsNothing`). Admins adjust (one column and a ledger entry in a
transaction), hold, release (whole rows) and recompute (`SyncCounts`,
`SyncSaves`). `missed` and `synced` remember merchants whose calls failed and
whose row was recomputed. The module extends `MerchantInvoice`, so that every
step of it is a step of the invoice service or leaves its variables alone
(proved: `BillingImplementsInvoicing`).

`InvoiceViews` has no state: eligible and unpaid parcels, the list of merchants
to pay, invoice pages, histories, summaries and dashboards are functions of the
tables.

### RiderSettlement, HubTransferRecords

`done[d]` is `delivery_completed_at` of a completed verification, `settlements`
the table, `clock` what `new Date()` answers. `RecordSettlement`, `ReadLast`,
`ReadDeliveries`, `InsertSettlement` are the statements of `recordSettlement`;
the stamp `settled_at` is taken at the last one. `Delivers` stamps a delivery,
`SaveDelivered` saves it; `ReopensDelivery` is a code sent again for a completed
delivery. A settlement keeps the set of deliveries it counted, where the code
stores their sum. Stamps of different requests differ.

`ManagerInToken` is whether the request's user carries the hub manager's id. In
the code it does not (`FALSE`: every insert of a settlement or a transfer record
fails, a finding); all else is checked as if it did.

`transfers[t]` is amount and status of a record, `shown[t]` the amount that the
request which approved it had read (history). Every change reads the record,
tests its status, and saves the whole row or removes it later.

### Requests, OrderIntake

`orders`, `requests` and `customers` are the tables `parcels` (as far as an
order concerns them), `pickup_requests` and `customers`. The chain of `create` in
the parcels service is `Create` (which finds the day's request or not),
`FindOrCreateActiveForStore`, `FindCustomer`, `CreateCustomerOfParcel` and
`FindCustomerAgain` (the insert that meets the unique index, and the second
look-up), `GenerateTrackingNumber` (a count), `SaveParcel`, `ReadRequest` and
`UpdateActualParcelsCount`. The last one saves a row with the list of parcels it
was read with, and TypeORM then detaches the others (`SetsParcels`). `Midnight`
may come between any two statements. `missed`, `touched`, `refused` and `gone`
are history.

### MerchantAccount, UserSessions, Staff

`MerchantAccount` is one merchant: `user` (inactive, active, or none),
`merchant` (its status), `rows` (payout methods and stores). A default is moved
by `UnsetDefaults` and `SaveRow`; a new store has its location validated in
between and is saved again after CarryBee (`SyncStore`).

`UserSessions` is one user: password, refresh token, reset code and its expiry.
A refresh token is the second it was issued in, because nothing else
distinguishes two tokens of the same user. `UpdateRefreshToken`,
`UpdatePassword`, `UpdateOtp` write columns; the staff's edits of riders and a
merchant's own profile save whole rows; admins are read and saved by selected
columns. `ForgetRefreshToken` is what logging out does to the row: nothing,
since the repository drops a column given as undefined.

`Staff` is many users: `users`, `riders`, `hubs`, `managers` (`hub_managers`).
Registrations insert two or three rows by as many statements; a failure leaves
the earlier ones (`cutOff`). Phones, identity cards and hub codes are unique.

## Runs

| run | instance | what it shows |
|---|---|---|
| `parcel_sequential` | 1 parcel, 2 hubs, 2 riders, 1 handler, relation objects win | custody refinement; outcomes backed by verifications; no rider loses a parcel to another; CarryBee and rider exclude each other; a leftover destination is the hub the parcel is in; a carried parcel is on its rider's lists, and what comes back is on the list of the hub he will bring it to; the merchant's summary counts as delivered or returned what a rider reported |
| `parcel_concurrent` | 1 parcel, 2 hubs, 2 handlers, columns win | every row stays consistent under stale saves |
| `parcel_returns` | 3 parcels, 2 handlers, one order, relation objects win | at most one return parcel per original |
| `verification_crash` | 1 parcel, 2 riders, 2 outcomes, 1 handler, crashes | outcomes on a parcel are approved on record, attempts are counted exactly |
| `verification_answers` | 1 parcel, 2 handlers, no failing statement, fairness | a completed verification is booked; a verified one is completed |
| `invoice_sequential` | 2 parcels (bring 3, cost 1), 1 merchant, 2 invoices, 2 months, 1 handler, crashes, lost calls, every status change, stale parcel saves, adjust and hold by 1 | billed once, paid once, links and payments only of billed parcels, `financial_status` follows the invoice; balances are conserved, agree with the open invoices and with the ledger; every delivered parcel is counted once in what is shown, and listed until paid |
| `hub_cash` | 1 rider, 2 deliveries of 2, 1 till, cash 1 or 3, 2 desks, 1 record, crashes | no delivery is skipped by settlements, no debt lost between them; a record is approved only at the amount the admin's request read |
| `order_intake` | 2 orders, 1 store, 1 hub, 2 customers, 1 phone, 2 pickup requests, 2 handlers, 2 days | one open pickup request per store and day, its count is that of its parcels; the next tracking number is free; no order is refused because two met at one new customer; types |
| `accounts` | 2 methods, 2 stores, 2 types; 3 users, 3 phones, 1 card, 1 hub code; 2 passwords, 2 codes; 2 handlers, crashes | an approved merchant can log in; default method verified, one default, default kept; what was replaced does not come back; an admin remains; riders and managers are whole; types |
| `parcel_redelivery`, `invoice_second_number`, `settlement_unrecorded` | smallest instance that reaches the case | the code does not keep what its own comment or document says (see `findings` in `PROJECT.json`) |

### Bounds

One parcel suffices where handlers touch one parcel only: parcels meet only in
the return number, in `unused`, in an invoice and in a pickup request, and the
runs about those have two or three. Two hubs are needed for transfers, two
riders for reassignment, two handlers for a race: every race found here is
between a reader and one writer. Hubs, riders, parcels, invoices, deliveries,
handlers and the like are interchangeable, hence the symmetry.

* Verification: `MaxClock` 4 with `Cooldown` 1 and `Validity` 2 lets a code
  expire and a second one be sent and expire, and the code is valid in some
  ticks in which it can be sent again (in the code: one minute and five). The
  three attempts are not scaled down.
* Invoices: `MaxMonth` 2 gives numbers of two months, and as a second number in
  a month is never free, two invoices are all that two months can have.
  `Patches` are the statuses an admin sets by hand. `MaxCurrent` 1 bounds the
  net balance. `InvoiceFails` loses at most one call per merchant, since what is
  stated of a merchant without lost calls says nothing of him afterwards. In
  `MCMerchantFinance`, `Apart` explores what admins adjust or hold with at most
  one invoice made out, as these columns and those of the invoices meet only in
  a row that is saved whole.
* Cash: `MaxClock` 5 is time for four stamps: two deliveries, one of them
  opened again, and settlements in any order between them.
* Order intake: two days, so that midnight falls between any two statements.
  `Apart` explores overlapping requests where stores have no hub yet: what is
  stated of them is about numbers and customers, and pickup requests are stated
  of one request at a time. Likewise for a second customer.
* Accounts: merchant, session and staff share nothing but the process and are
  explored one at a time (`explored`), methods and stores as well. `MaxTime` 3
  with `TokenLife` 2 and `CodeLife` 1 lets tokens and codes expire and be
  replaced within their life. Overlapping sessions are explored for admins, of
  whom alone something is stated, with one code and two seconds; overlapping
  staff as long as nobody is deactivated and no registration broke off.

`CourierParcelHasNoRider` and the custody refinement are checked for webhook
events that end the courier's work (`DELIVERED`, `RETURNED`); an `IN_HUB` event
brings a parcel back into the hub on purpose. `RowsConsistent` is checked and
proved for edits by hand that do not place the parcel.

Deadlock is checked for `ParcelLifecycle` and the invoice number. The others
really stop: when the clock, the days or the ids of the instance have run out,
there may be nothing left to do.

### Fairness

`VerifiedIsCompleted` is the only liveness property, under weak fairness of
`Continue(h)` for each handler: when a statement has answered, Node's event loop
runs the handler's continuation, however many other requests there are. Riders,
admins and the clock are never assumed to act, and the run excludes failing
statements, since nothing in the code resumes a handler that failed. No other
run assumes fairness.

### Statements that do not hold

These are stated in the modules, or are a stated property without one of its
exceptions, because a document, a comment or the purpose of the code suggests
them. TLC refutes each of them in the instance given, in a few steps. They are
not among the runs above. PS is `parcels.service.ts`, DV
`delivery-verifications.service.ts`, MI `merchant-invoice.service.ts`, MF
`merchant-finance.service.ts`, PR `pickup-requests.service.ts`.

| statement | instance | why |
|---|---|---|
| `NoLostAssignment` with two handlers | 1 hub, 2 riders | `assignToRider` (PS:1820) checks, looks up the rider and updates by id without repeating the check |
| `ReturnJourneyTracked` | 2 parcels, outcome `RETURNED` | `markReturnToMerchant` (PS:2530) saves the original before it inserts the return parcel; in between the process may die |
| `RemovedStaysRemoved` | 1 parcel, 2 handlers | a handler that read the row before `remove` (PS:1723) saves it afterwards, and `save` inserts it again |
| `IncomingIsListed` | 1 parcel, 2 hubs | `received_at_destination_hub` stays from the first transfer, and the second (PS:2325) is not listed as incoming |
| `ReadyIsListed` | 1 parcel, 2 hubs, columns win | the list (PS:1775) goes by the hub of the store, the assignment by the parcel's; BUG_FIX_ASSIGN_RIDER.md says "Works for all scenarios" |
| `SummaryAddsUp` | webhook status `FAILED_DELIVERY` | the merchant's summary has no row for that status |
| `AttemptsCounted` with two handlers | 1 parcel | two wrong codes read the same `otp_attempts` (DV:310) |
| `ClosedStaysClosed` | 1 parcel, 1 handler | a code sent again (DV:345) opens a completed or failed verification |
| `BilledOnce` with two handlers | 1 parcel, 2 months | both check before either commits; within a month only the clash of invoice numbers stops the second |
| `PaidOnce` with two handlers | 1 parcel | the status is tested on a row read before the transaction (MI:719) |
| `PaidStaysPaid` | 2 handlers, `Patches` = {`PROCESSING`} | `updateInvoiceStatus` (MI:812) saves a row read before the payment |
| `BilledWasDelivered` | 1 parcel, 1 handler | `generateInvoice` (MI:311) does not ask again for the terminal status that `getEligibleParcels` (:53) lists by |
| `LinkStays` | 1 parcel, 2 handlers | a service that read the parcel before the invoice saves it afterwards (DV:605); MERCHANT_INVOICE_API_DOCUMENTATION.md:31 says a parcel's link is what prevents billing it again |
| `PendingIsUninvoiced` | 1 parcel, 1 handler | nothing ever adds to the pending balance: `recordParcelTransaction` (MF:153) has no caller |
| `SyncReconciles` | 2 parcels, 1 handler | the synchronisation (MF:874) counts parcels in a terminal status only, invoices may hold others; and it leaves `processing` as it was |
| `ClearanceIsOwed` | 2 parcels, 1 handler | a status set to `PAID` by hand (MI:812) takes the invoice off the pending ones, and no call moves the balances |
| `DetailsAddUp` | 2 parcels, 1 handler | the page shows the parcels as they are now, the amount is of the day of the invoice: a parcel may be delivered after it was billed |
| `NothingSkipped` with two tills | 1 rider, 1 delivery | a delivery completed between the read of the deliveries and the stamp (hubs.service.ts:536) is before the next period |
| `SettledOnce` | 1 delivery, 1 till | a completed delivery is opened again by a resend (DV:425) and completed again in the next period |
| `ReviewedStays` | 1 record, 2 desks | whole rows overwrite each other (admin.service.ts:224) |
| `OnePickupPerDay`, `CountIsLinked` with two handlers | 2 orders | two orders find no request and make two (PR:122); the count is of a list that was read before (PR:415) |
| `StaysLinked` | 2 orders, 2 handlers | that stale list is saved, and detaches the order that has joined since (PR:415); served one at a time no order is detached (proved: `OrdersStayLinked`) |
| `NextTrackingAlwaysFree` | 2 orders, 1 handler | after a removal the count (PS:985) names a number that is taken, and each retry the same one |
| `OneDefault` with two handlers | 2 methods, or 2 stores | both take the flag away before either gives it (merchant.service.ts:423, stores.service.ts:143) |
| `DefaultIsKept` without its exceptions | 2 methods, or 2 stores | the default is taken before the location of the new store is refused (stores.service.ts:44), a deletion or failure ends in between (merchant.service.ts:227) |
| an approval stays; a user has a merchant | 2 handlers; 1 handler | a stale merchant row is saved over it; the signup (merchant.service.ts:84) breaks off after the user |
| `NothingComesBack` for others than admins with two handlers | 2 handlers | riders.service.ts:328 saves the whole user |
| `LoggedOutIsOut` | 1 handler | users.service.ts:52-59 passes no token as `undefined`, for which TypeORM keeps the column; the repository's README.md:343 says "Removes refresh token from database" |
| `LastAdminStays` | 2 admins, 2 handlers | counted before the deletion (admin.service.ts:105) |
| `hubs.manager_user_id` names the manager of `hub_managers`; a rider is active when his user is | 1 handler | `hubs.service.ts:209` changes the first only; `riders.service.ts:328` writes two rows by two statements |

## Proofs

Every safety property that a run checks is also a theorem, as are the action
property `NoLostAssignment` and the refinement `CustodySpec`. The proofs hold
for all values of the constants: any number of parcels, hubs, riders, invoices,
orders, people and concurrent handlers, any amounts and any clock. The
assumptions are the constants' types, that `NULL` is none of the values it
stands beside, and that the sets are finite over which something is counted or
summed (`Invoices`, `Parcels`, `Deliveries`). The rows of `OrderIntake` are not
assumed finite: that they are is part of the invariant, because each is inserted
by a step.

"Served one at a time" is stated in one of two ways. In `OrderIntake` and the
account modules the properties themselves ask for `alone`, and the theorems hold
for any number of handlers. Elsewhere the theorem assumes one handler
(`OneHandler`, `OneTill`): `NoneSkipped`, `DebtsAreCarried`, `OneBill`,
`OnePayment`, `StatusFollows`, `EachCountedOnce`, `LedgersAgree`,
`BalancesAreBacked` (which also asks that there is one), `BookedApproved`,
`AttemptsAreCounted`, and eight of `ParcelLifecycleProofs`, which also assume
`Undisturbed` (no status is edited in by hand, and the courier's events do not
put a parcel back among those that hubs and riders move); the instance
`parcel_sequential` satisfies both. `OutcomesListedAtRidersHub` assumes
`RelationObjectWins`, as that instance does: if an update could move a rider to
another hub, what he carries would come back to a hub that does not list it.
The theorems about settlements ask for `MaxClock > 0`, because the clock starts
at 1.

The type invariants of all modules are proved; only those of `OrderIntake` and of
the account modules are also run.

`ParcelLifecycleProofs`

* `TypeCorrect`: `Spec => []TypeOK`. The induction needs one more fact, that a
  handler's row belongs to a parcel that has existed (`RequestsKnown`).
* `RowsAlwaysConsistent`: `Spec => []RowsConsistent`, if hand edits do not set a
  status that places the parcel (`PlaceNotEdited`). `RowsConsistent` is not
  inductive: a handler may be holding a row that is about to overwrite the
  table. The invariant adds `WritesConsistent`. The heart is the relation
  `Replaces(old, row)`, proved for each row transformer: a handler that reads a
  consistent row proposes a consistent one. A stale save is then harmless to
  consistency, because it replaces one consistent row by another; it may still
  lose an update.
* `OneReturn`: `Spec => []OneReturnPerOriginal`, by an invariant about which
  rows and pending writes carry a return number.
* `OutcomesOnRecord`, `CourierParcelsHaveNoRider`, `NoDestinationStrays`,
  `NoAssignmentLost`, `CarriedParcelsAreListed`, `SummariesAreEarned` and
  `CustodyImplemented` (`Spec => CustodySpec`), one request at a time. One
  invariant, `Orderly`, carries all seven: what each row's
  provider, status and recorded outcome say of its hub, destination and rider
  (`Sound`), that a parcel without a row has no outcome, and what the one handler
  relies on until it writes (`Holds`). In particular the row it is about to save
  is sound and lies one passage away from the row it read (`Passes`, the steps of
  `ParcelCustody` as a relation between places), which no other handler changes in
  between. The argument needs that a delivered outcome is on record only while
  the parcel is out with the rider or delivered: `completeDelivery` checks no
  status, and an old verification can be completed again.
* `OutcomesListedAtRidersHub`, one request at a time. Its invariant beside
  `Orderly` is `RidersAtHome`: a parcel with a rider is in the rider's hub, also
  between the statement that looks the rider up and the one that assigns him.

`DeliveryVerificationProofs`

* `TypeCorrect`, and `CompletedBooked`: `Spec => []CompletedIsBooked`. The
  invariant adds that whatever is booked is the outcome of the verification
  (`BookedOK`), and, of the handlers (`RequestsOK`), that the outcome of a
  verification never changes once it is inserted, that a handler books this
  outcome, that it closes only what has been booked, and that no other pending
  save writes `COMPLETED`.
* `BookedApproved` and `AttemptsAreCounted`: with one handler,
  `Spec => []BookedIsApproved` and `Spec => []AttemptsCounted`. The invariant
  `Serial` adds that the attempts in the handler's row are the wrong codes
  answered so far, that no row it saves takes an approval back, and that a
  parcel without a verification has had no wrong code.

`MerchantFinanceProofs`, about `MerchantInvoice`

* `TypeCorrect`, `LinkedAreBilled`, `PaidAreBilled`. One predicate, `RowOK`,
  says of a parcel row, in the table or in a handler, that its link and its paid
  mark come from an invoice that counted the parcel. Invoices are never deleted,
  their items never change and `settled` only grows, so a stale row remains as
  right as it was (`RowStaysOK`): that is the argument why stale saves, which do
  erase links, never forge one.
* `OneBill`: with one handler, `Spec => []BilledOnce`. The invariant `Serial`
  adds that a billed parcel is linked, and that what the one handler has read is
  still true.
* `OnePayment` and `StatusFollows`: with one handler, `Spec => []PaidOnce` and
  `Spec => []FinancialStatusFollows`. Their invariant, `Books`, says that a
  settled invoice is `PAID`, that the link of a row tells its
  `financial_status`, and that the invoice the one handler holds is the one in
  the table.

`MerchantFinanceProofs`, about `MerchantFinance` and `InvoiceViews`

* `BillingImplementsInvoicing`: `BillingSpec => Spec`; what is proved of
  `MerchantInvoice` holds of the composition.
* `FinanceTypeCorrect`: `BillingSpec => []FinanceTypeOK`. It needs from the invoices
  that a call in progress is for one that exists (`RequestOK`), so that there is a
  merchant whose row it reads.
* `CallsConserve`: `BillingSpec => []Conserved`, for any number of handlers that
  overwrite each other. `BillingInv` says that every row, in the table or in a
  handler's hands, is balanced or of a merchant that was recomputed; each call
  turns a balanced row into a balanced one, so a stale save loses a move and
  never makes or destroys money.
* `BalancesAreBacked` and `LedgersAgree`: with one handler,
  `BillingSpec => []OpenInvoicesBacked` and `[]LedgerAgrees`. Neither is
  inductive, because the invoice and the balances are written by different
  transactions. The invariant `Agreement` says instead, at every moment, that what
  the row says is owed, with the amount of the call that is still to be saved
  (`Moving`), is the sum of the open invoices (`Backed`); that the ledger is what
  the row kept (`Ledger`); and that what the handler will save differs from the
  row by its call or adjustment alone (`DesksTell`). A status that is set by hand
  moves money between `invoiced` and `processing` only, and the payment takes the
  amount from both together, whatever the status was (`MovesAddUp`). It rests on
  `Books` above: an invoice is paid once, so that no amount leaves twice.
* `ListedUntilPaidFor`: `BillingSpec => []ListedUntilPaid` for any number of
  handlers, from `PaidAreBilled`. `EachCountedOnce`: with one handler,
  `BillingSpec => []CountedOnce`, because an invoice counts a parcel if and only if
  the parcel is linked to it, and an unlinked one is unpaid and `PENDING`
  (`Serial` and `Books`).

`HubCashProofs`

* `CashTypeCorrect`: `CashSpec => []SettlementTypeOK` and `[]TransferTypeOK`.
* `ApprovedAreShown`: `CashSpec => []ApprovedAsShown`, for any managers and
  admins at once; only the statement that shows an amount approves it.
* `NoneSkipped`: with one till, `CashSpec => []NothingSkipped`. The invariant
  adds that the clock is past every stamp and that what the one handler has read
  (last settlement, deliveries since) is still so when it writes.
* `DebtsAreCarried`: with one till, `CashSpec => []DebtIsCarried`. The invariant
  adds that the debt in the handler's hands is that of the rider's last settlement
  (`Carries`). The new row is later than all others, its due is that debt and
  what the row adds (`NewSettlement`), and the sum grows by just that (`SumGrows`).

`OrderIntakeProofs`

* `TypeCorrect`: `IntakeSpec => []IntakeTypeOK`. The invariant adds what a handler
  at each of its statements has found out before (`JobOK`): a store has a hub
  before a pickup request is inserted for it, an order a customer and a number
  before it is saved, and the row that will be saved is of a known request.
* `NextIsFree`: `IntakeSpec => []NextTrackingFree`, in every interleaving. Numbers
  are compared with the count of the day (`NumbersBehind`): no number of today is
  above it, one in the hands of a handler at most one above, and no number is of
  a day to come. So a number above the count is free, although the count and the
  insert are different statements and midnight may fall between them.
* `CustomersAreFound`: `IntakeSpec => []RaceSafe`, in every interleaving. The
  handler whose insert met the unique index will find that customer
  (`FoundAgain`).
* `OneRequestADay`, `CountsAreLinked` and `OrdersStayLinked`: served one at a time.
  The invariant `Serial` says that there is at most one open request for a store
  and a day, that counts are right unless somebody is counting, and that what the
  one handler has read is so still (`StillTrue`): when it is about to insert,
  there is no open request, and the list it will save with the row is the one in
  the table.

`AccountsProofs`

* `SessionTypeCorrect`, and `NothingReturns`: `SessionSpec => []NothingComesBack`.
  The invariant adds that codes in a handler's hands are fresh (`CodesFresh`), and
  that as long as requests are served one at a time the one handler's copy of
  the row is the row (`Serial`).
* `ApprovedCanLogIn` and `DefaultsAreVerified`: in every interleaving, because
  handlers hold only rows that may be saved at any time (`ErrandsOK`): an
  approval only after the user was activated, which is never undone, and a
  default flag only on a verified method.
* `OneDefaultAtMost` and `DefaultsAreKept`: served one at a time. `DefaultsInv` says
  what holds between the statements: a row on its way to be the default meets no
  other default (`Fits`), and where a default is missing, the handler is about to
  save one or to choose one (`Kept`). After a request that broke off only the
  first part remains.
* `AdminsRemain`: served one at a time, by what the removing handler has counted.
* `StaffTypeCorrect` and `EveryoneIsPlaced`: `StaffSpec => []EveryoneHasHisPlace`, in
  every interleaving. That nobody has two places is not inductive over rows, since
  a stale handler may insert the row of a deleted user again. `PlaceInv` therefore
  says that there is a constant assignment of positions to ids that all rows and
  all handlers respect (`KindsFit`): an id is given once, and he who gets it stays
  what he was registered as. `Everyone` adds that a user without his other rows is
  being registered, or his registration broke off.
* `AccountTypeCorrect`, and `AccountsTypeCorrect` for the three together.

Induction over data. `SumsProofs` proves what the others need of sums over finite
sets (an element may be taken out, one more adds its value) for the definition in
the community modules. The library's induction theorems take operators, which the
provers do not instantiate; but that inclusion among the finite subsets of a set
is well-founded is a theorem about sets. `SubsetInduction` states induction with a
set of the good subsets in the place of a predicate, and is proved from a smallest
counterexample. `PayableIsSum` and `AddsUp` carry the lemmas over to the sums that
the models write.

Only model-checked: the liveness property `VerifiedIsCompleted`; liveness under
fairness and ENABLED are out of the provers' reach. The other statements that are
not proved are those that do not hold.

## Not modelled

* Pricing: rows of rates and a charge computed from one of them. What a charge
  should come to is said nowhere but in the computation. Seen in it: the newest
  price may shadow the one in force (pricing.service.ts:36), and the charge is
  looked up by the merchant's id where prices are kept by store
  (parcels.service.ts:789).
* Address matching and coverage areas: similarity scores over the characters of
  addresses, and the import of a file. CarryBee locations: a copy.
* Third-party providers, SMS, e-mail, uploads, guards and filters: one-table
  create/read/update/delete, or input and output.
* CarryBee's own order book, which is not in the repository.
* Inside the modelled parts: amounts in `ParcelLifecycle`, texts, paging,
  search, spreadsheets, the bulk form of creating parcels, and that the prefix of a
  tracking number is the day in UTC while its count is of the local day.

### Seen on the way

Read in the code while modelling; no property is about them.

* GET `hubs/:id` (hubs.controller.ts:594) is declared before
  `hubs/transfer-records` (:670) and takes its requests.
* `confirm`, `markAsPickedUp` and `cancel` of pickup requests have no route.
* The bulk form of creating parcels passes the merchant's id where the user's is
  expected; `findAllForMerchant` and `remove` compare `merchant_id` with the id
  of the user.
* `updatePayoutMethod` may change the type of a verified method, which stays
  verified.
* The update of a rider cannot change the hub: the loaded relation wins.
* `refresh` does not ask whether the user is still active.
* Removing a hub with a manager fails by its foreign key.

## What could come next

The modules of the plan are done, and every safety property that is checked is
proved. What is left: theorems about two handlers where the property fails for two
(how much is lost, instead of nothing).
