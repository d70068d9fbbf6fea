------------------------------ MODULE TicketSale ------------------------------
(***************************************************************************)
(* What the sale of tickets promises fans, apart from requests, tasks,     *)
(* retries and the chain: tickets are sold once, against their price.  A   *)
(* sold ticket becomes valid when the vault holds its price, or its price  *)
(* goes back to the wallet, once, or it is forfeited; each of these is     *)
(* final.  The price may reach the vault at any time after the sale, too   *)
(* late as well.                                                           *)
(***************************************************************************)
EXTENDS Integers, FiniteSets

CONSTANTS
    Users,
    Tickets,
    Prices,         \* what a ticket may cost
    InitialBalance, \* of every wallet
    Withdrawals     \* amounts that fans withdraw

VARIABLES
    sale,           \* ticket -> what became of it, who paid and how much
    wallet,         \* fan -> balance
    withdrawn,      \* fan -> what the fan has withdrawn
    vault           \* tickets whose price the vault holds

vars == <<sale, wallet, withdrawn, vault>>

NotSold == [fate |-> "none"]

Sold == {t \in Tickets : sale[t] # NotSold}

Init ==
    /\ sale = [t \in Tickets |-> NotSold]
    /\ wallet = [u \in Users |-> InitialBalance]
    /\ withdrawn = [u \in Users |-> 0]
    /\ vault = {}

\* A fan who can pay for them buys tickets of one price.
Buy(u, new, price) ==
    /\ new # {} /\ new \cap Sold = {}
    /\ wallet[u] >= price * Cardinality(new)
    /\ wallet' = [wallet EXCEPT ![u] = @ - price * Cardinality(new)]
    /\ sale' = [t \in Tickets |->
                  IF t \in new THEN [fate |-> "paid", user |-> u, price |-> price]
                  ELSE sale[t]]
    /\ UNCHANGED <<withdrawn, vault>>

Deposit(t) ==
    /\ t \in Sold
    /\ vault' = vault \cup {t}
    /\ UNCHANGED <<sale, wallet, withdrawn>>

\* The only way on from "paid".
Settle(t, fate) ==
    /\ t \in Sold /\ sale[t].fate = "paid"
    /\ sale' = [sale EXCEPT ![t].fate = fate]

Validate(t) ==
    /\ t \in vault
    /\ Settle(t, "valid")
    /\ UNCHANGED <<wallet, withdrawn, vault>>

Refund(t) ==
    /\ Settle(t, "refunded")
    /\ wallet' = [wallet EXCEPT ![sale[t].user] = @ + sale[t].price]
    /\ UNCHANGED <<withdrawn, vault>>

\* The price is kept without a ticket.
Forfeit(t) ==
    /\ Settle(t, "forfeited")
    /\ UNCHANGED <<wallet, withdrawn, vault>>

Withdraw(u, amount) ==
    /\ wallet[u] >= amount
    /\ wallet' = [wallet EXCEPT ![u] = @ - amount]
    /\ withdrawn' = [withdrawn EXCEPT ![u] = @ + amount]
    /\ UNCHANGED <<sale, vault>>

Next ==
    \/ \E u \in Users, new \in SUBSET Tickets, price \in Prices : Buy(u, new, price)
    \/ \E t \in Tickets : Deposit(t) \/ Validate(t) \/ Refund(t) \/ Forfeit(t)
    \/ \E u \in Users, amount \in Withdrawals : Withdraw(u, amount)

Spec == Init /\ [][Next]_vars
=============================================================================
