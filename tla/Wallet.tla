------------------------------- MODULE Wallet -------------------------------
(***************************************************************************)
(* The wallets collection: one document per API key, changed only by the   *)
(* single-document findOneAndUpdate of freeze, unfreeze, debit and credit. *)
(* Every update is one atomic step, whose $expr guard is the conjunct on   *)
(* the amount.  This is the contract the rest of the billing relies on: it *)
(* says nothing of who calls, in which order, or how often.  No update     *)
(* looks at the sign of the amount.                                        *)
(***************************************************************************)
EXTENDS HubParams

VARIABLE wallet   \* wallet[k] : the document of API key k; open = it exists

WalletType == [ApiKeys -> [open : BOOLEAN, balance : Int, frozen : Int]]

(* balance - frozenAmount, the amount a freeze or a debit may take *)
Available(k) == wallet[k].balance - wallet[k].frozen

(* Mutant of Covers: money already frozen is lent out again *)
CoversBalanceOnly(k, a) == wallet[k].open /\ wallet[k].balance >= a

(* The guard shared by freeze and debit: a document matches the filter *)
Covers(k, a) == wallet[k].open /\ Available(k) >= a

Freeze(k, a) ==
  /\ Covers(k, a)
  /\ wallet' = [wallet EXCEPT ![k].frozen = @ + a]

(* unfreeze returns silently when no document matches its filter *)
Unfreezes(k, a) == wallet[k].open /\ wallet[k].frozen >= a

Unfreeze(k, a) ==
  wallet' = IF Unfreezes(k, a)
            THEN [wallet EXCEPT ![k].frozen = @ - a]
            ELSE wallet

Debit(k, a) ==
  /\ Covers(k, a)
  /\ wallet' = [wallet EXCEPT ![k].balance = @ - a]

(* credit first upserts the wallet (ensureWallet), then adds the amount *)
Credit(k, a) ==
  wallet' = [wallet EXCEPT ![k] =
    [open |-> TRUE, balance |-> @.balance + a, frozen |-> @.frozen]]

-----------------------------------------------------------------------------
(* A client that never got money has no wallet document yet *)
WalletInit ==
  wallet = [k \in ApiKeys |-> [open |-> OpeningBalance[k] > 0,
                               balance |-> OpeningBalance[k], frozen |-> 0]]

(* No task of the client has a negative estimate, the only amount that is  *)
(* ever frozen.                                                            *)
EstimatesCount(k) == \A t \in Tasks : Owner[t] = k => EstimatedCost[t] >= 0

(* wallet.service.ts: concurrent freezes, debits and releases never take   *)
(* the frozen part below zero or above the balance.  freeze and unfreeze   *)
(* look at no sign, so this is promised to a client none of whose tasks    *)
(* has a negative estimate; with one, frozenAmount goes below zero and     *)
(* lets other tasks spend what is not there.                               *)
NeverOverdrawn ==
  \A k \in ApiKeys : EstimatesCount(k) =>
    0 <= wallet[k].frozen /\ wallet[k].frozen <= wallet[k].balance
=============================================================================
