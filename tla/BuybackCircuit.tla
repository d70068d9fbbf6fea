---------------------------- MODULE BuybackCircuit ----------------------------
(***************************************************************************)
(* The money circuit of a buyback: the BuybackPool and PayoutVault         *)
(* contracts of this repository, wired as the deployment script wires      *)
(* them.  requestBuyback() calls the vault's markReturned(), which sends   *)
(* the ticket's deposit to the pool and calls nothing there.  A revert in  *)
(* either contract reverts the transaction.                                *)
(***************************************************************************)
EXTENDS BuybackPool

CONSTANTS Events, EventOf, Price, Kickoffs, FeeBps, PayoutDelay, MaxTime    \* of PayoutVault

VARIABLES events, tickets, buybackPool, vaultTreasury, vaultBalance, now, paid, fees

Vault == INSTANCE PayoutVault WITH treasury <- vaultTreasury, balance <- vaultBalance

vaultVars == <<events, tickets, buybackPool, vaultTreasury, vaultBalance, now, paid, fees>>

circuitVars == <<vaultVars, vars>>

CircuitInit == Vault!Init /\ Init

\* Sent by the vault, registered by nobody.
Buyback(t, type) ==
    /\ Vault!MarkReturned(t)
    /\ RequestBuyback(t, type, Price[t], FALSE)

\* The transactions of the vault that leave the pool alone.
VaultStep ==
    /\ \/ Vault!SetBuybackPool
       \/ \E e \in Events, kickoff \in Kickoffs : Vault!SetKickoff(e, kickoff)
       \/ \E e \in Events : Vault!SetRefundable(e)
       \/ \E t \in Tickets : Vault!Deposit(t)
       \/ \E t \in Tickets : Vault!RefundOne(t)
       \/ \E t \in Tickets : Vault!ClaimRefund(t)
       \/ \E e \in Events : Vault!ClaimPayout(e)
       \/ \E a \in Treasuries : Vault!SetTreasury(a)
       \/ Vault!Tick
    /\ UNCHANGED vars

\* The vault at payoutVault never calls receiveDeposit().
PoolStep ==
    /\ \/ \E t \in Tickets, amount \in Amounts : DepositResale(t, amount)
       \/ \E amount \in Amounts : FundPool(amount)
       \/ SetPayoutVault
       \/ \E a \in Treasuries : SetTreasury(a)
    /\ UNCHANGED vaultVars

CircuitNext ==
    \/ \E t \in Tickets, type \in TicketType : Buyback(t, type)
    \/ VaultStep
    \/ PoolStep

CircuitSpec == CircuitInit /\ [][CircuitNext]_circuitVars

-----------------------------------------------------------------------------
\* "Fan returns: BuybackPool.requestBuyback() calls PayoutVault.markReturned(),
\* $100 moves to BuybackPool, $90 to fan": with the contracts wired, a ticket
\* whose money is in the vault can be bought back.
BuybackPossible ==
    \A t \in Tickets :
        (buybackPool /\ payoutVault /\ Vault!Refundable(t) /\ vaultBalance >= Price[t])
            => ENABLED Buyback(t, "SINGLE")
=============================================================================
