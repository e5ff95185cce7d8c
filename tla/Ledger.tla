------------------------------- MODULE Ledger -------------------------------
(***************************************************************************)
(* The in-memory prepaid ledger (internal/ledger/ledger.go).  One mutex    *)
(* guards the balances and the idempotency keys, so each operation of the  *)
(* ledger is one step.                                                     *)
(*                                                                         *)
(* The code keeps both kinds of idempotency key in one map of strings:     *)
(* "agent|source|tx" for a credit and "agent|pipeline|charge|bucket" for a *)
(* charge.  A credit's source is one of a few fixed words and never a      *)
(* session identifier, so the two kinds never meet and are two sets here.  *)
(***************************************************************************)
EXTENDS Integers

CONSTANTS
    Agents,     \* agents that have prepaid balances (the empty agent ID is not one)
    Sessions,   \* pipeline sessions, whose usage is charged
    Receipts,   \* (source, sourceTxID) pairs that a top-up may carry
    Worth,      \* Worth[r]: the units that the payment behind receipt r buys
    NoReceipt   \* a credit whose sourceTxID is empty

ASSUME LedgerAssumption ==
    /\ Worth \in [Receipts -> Nat \ {0}]
    /\ NoReceipt \notin Receipts

VARIABLES
    balance,      \* balances: prepaid units left to each agent
    creditKeys,   \* keys of the credits already applied
    chargeKeys,   \* keys of the charges already applied
    unreceipted,  \* history: units credited to each agent without a receipt
    debited       \* history: units that charges for a session took from a balance

ledgerVars == <<balance, creditKeys, chargeKeys, unreceipted, debited>>

LedgerTypeOK ==
    /\ balance \in [Agents -> Nat]
    /\ creditKeys \subseteq Agents \X Receipts
    /\ chargeKeys \subseteq Agents \X Sessions \X (Nat \ {0})
    /\ unreceipted \in [Agents -> Nat]
    /\ debited \in [Sessions -> Nat]

LedgerInit ==
    /\ balance = [a \in Agents |-> 0]
    /\ creditKeys = {}
    /\ chargeKeys = {}
    /\ unreceipted = [a \in Agents |-> 0]
    /\ debited = [s \in Sessions |-> 0]

-----------------------------------------------------------------------------
(* Credits *)

\* A mutated Credit: a receipt presented again is paid out again.
CreditForgetsKey(a, r) ==
    /\ creditKeys' = creditKeys \union {<<a, r>>}
    /\ balance' = [balance EXCEPT ![a] = @ + Worth[r]]
    /\ UNCHANGED <<chargeKeys, unreceipted, debited>>

\* Credit with a source transaction: applied once per (agent, source, tx),
\* a repeated call returns without an error and changes nothing.
Credit(a, r) ==
    /\ creditKeys' = creditKeys \union {<<a, r>>}
    /\ balance' = IF <<a, r>> \in creditKeys
                    THEN balance
                    ELSE [balance EXCEPT ![a] = @ + Worth[r]]
    /\ UNCHANGED <<chargeKeys, unreceipted, debited>>

\* Credit with an empty source transaction: every call adds to the balance.
CreditUnreceipted(a, amount) ==
    /\ balance' = [balance EXCEPT ![a] = @ + amount]
    /\ unreceipted' = [unreceipted EXCEPT ![a] = @ + amount]
    /\ UNCHANGED <<creditKeys, chargeKeys, debited>>

-----------------------------------------------------------------------------
(* Charges *)

CanAfford(a, units) == balance[a] >= units

AlreadyCharged(a, s, bucket) == <<a, s, bucket>> \in chargeKeys

\* A mutated ChargeAccepted: the funds are compared with one unit too few.
ChargeAcceptedShort(a, s, units, bucket) ==
    AlreadyCharged(a, s, bucket) \/ balance[a] + 1 >= units

\* ChargeUsage returns no error: the bucket was charged before, or the agent
\* has the funds.  Otherwise it returns ErrInsufficientFunds.
ChargeAccepted(a, s, units, bucket) ==
    AlreadyCharged(a, s, bucket) \/ balance[a] >= units

\* The effect of an accepted ChargeUsage: none for a bucket charged before.
ChargeUsage(a, s, units, bucket) ==
    /\ ChargeAccepted(a, s, units, bucket)
    /\ chargeKeys' = chargeKeys \union {<<a, s, bucket>>}
    /\ IF AlreadyCharged(a, s, bucket)
         THEN UNCHANGED <<balance, debited>>
         ELSE /\ balance' = [balance EXCEPT ![a] = @ - units]
              /\ debited' = [debited EXCEPT ![s] = @ + units]
    /\ UNCHANGED <<creditKeys, unreceipted>>
=============================================================================
