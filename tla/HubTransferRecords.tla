------------------------ MODULE HubTransferRecords ------------------------
(***************************************************************************)
(* The hub's cash that managers transfer to the company's bank account:    *)
(* they file a record with a proof, and may change or delete it until an   *)
(* admin approves or rejects it (hubs.service.ts, admin.service.ts).       *)
(*                                                                         *)
(* Every change reads the record, looks at its status, and saves the whole *)
(* row by a later statement; a row that is gone by then is inserted again. *)
(***************************************************************************)
EXTENDS RiderSettlement

CONSTANTS Transfers, Amounts, Desks   \* records, their amounts, and handlers

TransferRecordStatus == {"PENDING", "APPROVED", "REJECTED"}

Transfer == [amount : Amounts, status : TransferRecordStatus]

Papers ==
  [step : {"save"}, transfer : Transfers, row : Transfer]
    \cup [step : {"remove"}, transfer : Transfers]

ASSUME NullIsNoTransfer == NULL \notin Transfer /\ NULL \notin Papers /\ NULL \notin Amounts

VARIABLES
  transfers,   \* the hub_transfer_records table, NULL where there is no row
  shown,       \* the amount that the request which approved a record had read
  desk         \* what each handler is doing, NULL when it serves no request

transferVars == <<transfers, shown, desk>>

TransferTypeOK ==
  /\ transfers \in [Transfers -> Transfer \cup {NULL}]
  /\ shown \in [Transfers -> Amounts \cup {NULL}]
  /\ desk \in [Desks -> Papers \cup {NULL}]

TransferInit ==
  /\ transfers = [t \in Transfers |-> NULL]
  /\ shown = [t \in Transfers |-> NULL]
  /\ desk = [h \in Desks |-> NULL]

-----------------------------------------------------------------------------
CreateTransferRecord(h, t, amount) ==
  /\ ManagerInToken
  /\ desk[h] = NULL
  /\ transfers[t] = NULL /\ shown[t] = NULL     \* ids are not given twice
  /\ transfers' = [transfers EXCEPT ![t] = [amount |-> amount, status |-> "PENDING"]]
  /\ UNCHANGED <<shown, desk>>

IsPending(t) == transfers[t] # NULL /\ transfers[t].status = "PENDING"

\* The record as it is, which must be pending, and what becomes of it.
Handles(h, t, papers) ==
  /\ desk[h] = NULL
  /\ IsPending(t)
  /\ desk' = [desk EXCEPT ![h] = papers]
  /\ UNCHANGED <<transfers, shown>>

Saves(h, t, row) == Handles(h, t, [step |-> "save", transfer |-> t, row |-> row])

UpdateTransferRecord(h, t, amount) == Saves(h, t, [transfers[t] EXCEPT !.amount = amount])
ApproveTransferRecord(h, t) == Saves(h, t, [transfers[t] EXCEPT !.status = "APPROVED"])
RejectTransferRecord(h, t)  == Saves(h, t, [transfers[t] EXCEPT !.status = "REJECTED"])
DeleteTransferRecord(h, t)  == Handles(h, t, [step |-> "remove", transfer |-> t])

\* Mutant: only the amount is written when only the amount was changed.
SaveTransfer_Columns(h) ==
  /\ desk[h] # NULL /\ desk[h].step = "save"
  /\ LET t   == desk[h].transfer
         row == desk[h].row
     IN  IF row.status = "PENDING" /\ transfers[t] # NULL
         THEN /\ transfers' = [transfers EXCEPT ![t].amount = row.amount]
              /\ UNCHANGED shown
         ELSE /\ transfers' = [transfers EXCEPT ![t] = row]
              /\ shown' = [shown EXCEPT ![t] =
                             IF row.status = "APPROVED" THEN row.amount ELSE @]
  /\ desk' = [desk EXCEPT ![h] = NULL]

SaveTransfer(h) ==
  /\ desk[h] # NULL /\ desk[h].step = "save"
  /\ LET t   == desk[h].transfer
         row == desk[h].row
     IN  /\ transfers' = [transfers EXCEPT ![t] = row]
         /\ shown' = [shown EXCEPT ![t] = IF row.status = "APPROVED" THEN row.amount ELSE @]
  /\ desk' = [desk EXCEPT ![h] = NULL]

RemoveTransfer(h) ==
  /\ desk[h] # NULL /\ desk[h].step = "remove"
  /\ transfers' = [transfers EXCEPT ![desk[h].transfer] = NULL]
  /\ desk' = [desk EXCEPT ![h] = NULL]
  /\ UNCHANGED shown

DeskFails(h) ==
  /\ MayFail
  /\ desk[h] # NULL
  /\ desk' = [desk EXCEPT ![h] = NULL]
  /\ UNCHANGED <<transfers, shown>>

-----------------------------------------------------------------------------
ManagerStep(h) ==
  \E t \in Transfers :
    \/ \E amount \in Amounts : CreateTransferRecord(h, t, amount) \/ UpdateTransferRecord(h, t, amount)
    \/ DeleteTransferRecord(h, t)

AdminStep(h) == \E t \in Transfers : ApproveTransferRecord(h, t) \/ RejectTransferRecord(h, t)

DeskStep(h) ==
  ManagerStep(h) \/ AdminStep(h) \/ SaveTransfer(h) \/ RemoveTransfer(h) \/ DeskFails(h)

CashNext ==
  \/ SettlementNext /\ UNCHANGED transferVars
  \/ (\E h \in Desks : DeskStep(h)) /\ UNCHANGED settlementVars

CashInit == SettlementInit /\ TransferInit

CashSpec == CashInit /\ [][CashNext]_<<settlementVars, transferVars>>

-----------------------------------------------------------------------------
(* Properties.                                                             *)

\* However requests interleave and overwrite each other, a record is approved
\* only at the amount that the approving request read.
ApprovedAsShown ==
  \A t \in Transfers :
    transfers[t] # NULL /\ transfers[t].status = "APPROVED" => transfers[t].amount = shown[t]

\* "Once reviewed, record becomes immutable".
ReviewedStays ==
  [][\A t \in Transfers :
       transfers[t] # NULL /\ transfers[t].status # "PENDING"
         => transfers'[t] = transfers[t]]_<<settlementVars, transferVars>>

=============================================================================
