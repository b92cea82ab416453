----------------------------- MODULE TaskClaims -----------------------------
(***************************************************************************)
(* What documents and a comment of the repository say of the task path and *)
(* the code does not do: TLC shows a behaviour of TaskLifecycle that       *)
(* breaks it.                                                              *)
(***************************************************************************)
EXTENDS MCTask

(* docs/billing-system.md 1.1 and the comment on BillingService.settle:    *)
(* conditional updates make settlement idempotent, "not changed twice".    *)
(* The debit comes before the conditional update and is not covered by it. *)
SettlementIsIdempotent == \A t \in Tasks : debits[t] <= 1

(* docs/billing-system.md 5.1: "the balance cannot be negative", which the *)
(* guards of freeze and debit are there for.  They compare amounts whose   *)
(* sign nobody looked at, and money frozen for a quantity below zero makes *)
(* more available than there is.                                           *)
BalanceIsNeverNegative == \A k \in ApiKeys : wallet[k].balance >= 0
=============================================================================
