------------------------------- MODULE Billing ------------------------------
(***************************************************************************)
(* BillingAdapter and BillingService: the record of each task in the       *)
(* billing_records collection, and the three calls initBilling, settle and *)
(* refund.  A call is a chain of awaits; between two of them any other     *)
(* handler of any process may run, so each await is an action of its own   *)
(* and call[c].step says which one caller c is about to make.  What is     *)
(* read early (the record's status) is acted on late: the branch taken is  *)
(* kept in the step, as it is in the code.                                 *)
(***************************************************************************)
EXTENDS Wallet

VARIABLES
  record,   \* record[t] : status of the billing record of t
  call,     \* call[c] : the adapter call caller c is inside
  held,     \* history: sum frozen for t and not released for t again
  debits    \* history: how many times t was debited

billingVars == <<wallet, record, call, held, debits>>

RecordStatus ==
  {"none", "estimated", "pre_deducted", "settled", "refunded", "failed"}

(* The steps at which a call is over: returned; refused by                 *)
(* InsufficientBalanceException; or ended by another exception.            *)
Ended == {"returned", "refused", "threw"}

Steps == Ended \cup
  {"initBilling", "freeze", "markPreDeducted",
   "settle", "release", "debit", "markSettled", "markFailed",
   "refund", "refundRelease", "markRefunded"}

NoCall == [step |-> "idle", task |-> None]

Calls == {NoCall} \cup [step : Steps, task : Tasks]

BillingType ==
  /\ wallet \in WalletType
  /\ record \in [Tasks -> RecordStatus]
  /\ call \in [Callers -> Calls]
  /\ held \in [Tasks -> Int]
  /\ debits \in [Tasks -> Nat]

BillingInit ==
  /\ WalletInit
  /\ record = [t \in Tasks |-> "none"]
  /\ call = [c \in Callers |-> NoCall]
  /\ held = [t \in Tasks |-> 0]
  /\ debits = [t \in Tasks |-> 0]

Key(c) == Owner[call[c].task]
(* Mutant of Internal: only exempt clients are spared *)
InternalUnlessExempt(c) == Policy[Key(c)] # "exempt"
Internal(c) == Policy[Key(c)] = "internal"
At(c, step) == call[c].step = step

(* A caller enters the adapter; it leaves by Forget once the call Ended *)
Begin(c, t, step) == call' = [call EXCEPT ![c] = [step |-> step, task |-> t]]
Forget(c) == call' = [call EXCEPT ![c] = NoCall]
Continue(c, step) == call' = [call EXCEPT ![c].step = step]

(* findOneAndUpdate of a record, filtered on its status *)
MoveRecord(t, from, to) ==
  record' = [record EXCEPT ![t] = IF @ \in from THEN to ELSE @]

Live == {"estimated", "pre_deducted"}

-----------------------------------------------------------------------------
(* initBilling *)

(* Policy and price are read, then the record is created.  A client with   *)
(* no policy makes resolvePolicy throw; an exempt one has no record; only  *)
(* an internal client's count and duration tasks are frozen for.           *)
CreateRecord(c) ==
  LET t == call[c].task
      policy == Policy[Key(c)]
  IN  /\ At(c, "initBilling")
      /\ record' = IF policy \in {"internal", "external"}
                   THEN [record EXCEPT ![t] = "estimated"] ELSE record
      /\ Continue(c, CASE policy = "unset" -> "threw"
                       [] policy = "internal" /\ t \in Prepaid -> "freeze"
                       [] OTHER -> "returned")
      /\ UNCHANGED <<wallet, held, debits>>

FreezeEstimate(c) ==
  LET t == call[c].task IN
  /\ At(c, "freeze")
  /\ \/ /\ Freeze(Key(c), EstimatedCost[t])
        /\ held' = [held EXCEPT ![t] = @ + EstimatedCost[t]]
        /\ Continue(c, "markPreDeducted")
     \/ /\ ~Covers(Key(c), EstimatedCost[t])
        /\ Continue(c, "refused")
        /\ UNCHANGED <<wallet, held>>
  /\ UNCHANGED <<record, debits>>

MarkPreDeducted(c) ==
  /\ At(c, "markPreDeducted")
  /\ MoveRecord(call[c].task, {"estimated"}, "pre_deducted")
  /\ Continue(c, "returned")
  /\ UNCHANGED <<wallet, held, debits>>

-----------------------------------------------------------------------------
(* settle *)

(* Mutant of ReadForSettle: the estimate is not released *)
ReadForSettleKeeping(c) ==
  LET status == record[call[c].task] IN
  /\ At(c, "settle")
  /\ Continue(c, CASE status = "none" -> "returned"
                   [] status # "none" /\ ~Internal(c) -> "markSettled"
                   [] OTHER -> "debit")
  /\ UNCHANGED <<wallet, record, held, debits>>

(* The branch is chosen on the status read here.  Any status other than    *)
(* pre_deducted, a finished one included, goes straight to the debit.      *)
ReadForSettle(c) ==
  LET status == record[call[c].task] IN
  /\ At(c, "settle")
  /\ Continue(c, CASE status = "none" -> "returned"
                   [] status # "none" /\ ~Internal(c) -> "markSettled"
                   [] status = "pre_deducted" /\ Internal(c) -> "release"
                   [] OTHER -> "debit")
  /\ UNCHANGED <<wallet, record, held, debits>>

(* unfreeze(estimatedCost) of the wallet: a shortage is only logged *)
UnfreezeFor(c) ==
  LET t == call[c].task IN
  /\ Unfreeze(Key(c), EstimatedCost[t])
  /\ held' = IF Unfreezes(Key(c), EstimatedCost[t])
             THEN [held EXCEPT ![t] = @ - EstimatedCost[t]] ELSE held

ReleaseForSettle(c) ==
  /\ At(c, "release")
  /\ UnfreezeFor(c)
  /\ Continue(c, "debit")
  /\ UNCHANGED <<record, debits>>

DebitActual(c) ==
  LET t == call[c].task IN
  /\ At(c, "debit")
  /\ \/ /\ Debit(Key(c), ActualCost[t])
        /\ debits' = [debits EXCEPT ![t] = @ + 1]
        /\ Continue(c, "markSettled")
     \/ /\ ~Covers(Key(c), ActualCost[t])
        /\ Continue(c, "markFailed")
        /\ UNCHANGED <<wallet, debits>>
  /\ UNCHANGED <<record, held>>

(* The one update of a record that is not conditional on its status *)
MarkFailed(c) ==
  /\ At(c, "markFailed")
  /\ record' = [record EXCEPT ![call[c].task] = "failed"]
  /\ Continue(c, "threw")
  /\ UNCHANGED <<wallet, held, debits>>

MarkSettled(c) ==
  /\ At(c, "markSettled")
  /\ MoveRecord(call[c].task, Live, "settled")
  /\ Continue(c, "returned")
  /\ UNCHANGED <<wallet, held, debits>>

-----------------------------------------------------------------------------
(* refund *)

(* Mutant of ReadForRefund: the record is closed, the money stays frozen *)
ReadForRefundKeeping(c) ==
  LET status == record[call[c].task] IN
  /\ At(c, "refund")
  /\ Continue(c, IF status = "none" THEN "returned" ELSE "markRefunded")
  /\ UNCHANGED <<wallet, record, held, debits>>

ReadForRefund(c) ==
  LET status == record[call[c].task] IN
  /\ At(c, "refund")
  /\ Continue(c, CASE status = "none" -> "returned"
                   [] status = "pre_deducted" /\ Internal(c) -> "refundRelease"
                   [] OTHER -> "markRefunded")
  /\ UNCHANGED <<wallet, record, held, debits>>

(* retryUnfreeze: some attempt gets through, or (below) all three throw    *)
(* and the refund goes on without the money having been released.          *)
ReleaseForRefund(c) ==
  /\ At(c, "refundRelease")
  /\ UnfreezeFor(c)
  /\ Continue(c, "markRefunded")
  /\ UNCHANGED <<record, debits>>

GiveUpRelease(c) ==
  /\ At(c, "refundRelease")
  /\ "storeError" \in Environment
  /\ Continue(c, "markRefunded")
  /\ UNCHANGED <<wallet, record, held, debits>>

MarkRefunded(c) ==
  /\ At(c, "markRefunded")
  /\ MoveRecord(call[c].task, Live, "refunded")
  /\ Continue(c, "returned")
  /\ UNCHANGED <<wallet, held, debits>>

-----------------------------------------------------------------------------
(* Any other await may throw, which ends the call where it stands *)
CallThrows(c) ==
  /\ "storeError" \in Environment
  /\ call[c].step \notin Ended \cup {"idle", "refundRelease"}
  /\ Continue(c, "threw")
  /\ UNCHANGED <<wallet, record, held, debits>>

BillingStep(c) ==
  \/ CreateRecord(c) \/ FreezeEstimate(c) \/ MarkPreDeducted(c)
  \/ ReadForSettle(c) \/ ReleaseForSettle(c) \/ DebitActual(c)
  \/ MarkFailed(c) \/ MarkSettled(c)
  \/ ReadForRefund(c) \/ ReleaseForRefund(c) \/ GiveUpRelease(c)
  \/ MarkRefunded(c) \/ CallThrows(c)
=============================================================================
