------------------------------ MODULE ChainCall ------------------------------
(***************************************************************************)
(* What submit_tx() promises its callers, apart from nonces, receipts and  *)
(* the node: a call sends its transaction at most once and returns a       *)
(* receipt only of its own transaction, executed with success.  It may     *)
(* raise at any moment, and what it has sent may still be executed then.   *)
(* This is what TicketPurchase, EventLifecycle and BuybackFlow assume.     *)
(***************************************************************************)
CONSTANT Calls      \* invocations of submit_tx()

VARIABLES
    transaction,    \* call -> what became of its transaction
    result          \* call -> what submit_tx() gave

vars == <<transaction, result>>

Init ==
    /\ transaction = [c \in Calls |-> "none"]
    /\ result = [c \in Calls |-> "none"]

Send(c) ==
    /\ transaction[c] = "none" /\ result[c] = "none"
    /\ transaction' = [transaction EXCEPT ![c] = "sent"]
    /\ UNCHANGED result

\* "gone": reverted or dropped.
Settle(c) ==
    /\ transaction[c] = "sent"
    /\ \E outcome \in {"executed", "gone"} :
          transaction' = [transaction EXCEPT ![c] = outcome]
    /\ UNCHANGED result

Return(c) ==
    /\ transaction[c] = "executed" /\ result[c] = "none"
    /\ result' = [result EXCEPT ![c] = "receipt"]
    /\ UNCHANGED transaction

\* ContractCallError, or another exception.
Raise(c) ==
    /\ result[c] = "none"
    /\ result' = [result EXCEPT ![c] = "raised"]
    /\ UNCHANGED transaction

Next == \E c \in Calls : Send(c) \/ Settle(c) \/ Return(c) \/ Raise(c)

Spec == Init /\ [][Next]_vars
=============================================================================
