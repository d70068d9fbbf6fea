------------------------------- MODULE SubmitTx -------------------------------
(***************************************************************************)
(* submit_tx(): every worker process signs with the one platform account,  *)
(* reads the account's pending nonce from the node and sends a transaction *)
(* with it, without a lock between the two.  The node holds at most one    *)
(* transaction of a nonce and executes them in the order of nonces.        *)
(***************************************************************************)
EXTENDS Integers

CONSTANT Calls      \* invocations of submit_tx(), by any worker

VARIABLES
    pc,         \* call -> where submit_tx() is
    nonce,      \* call -> the nonce it read
    pool,       \* calls whose transaction is pending at the node
    mined,      \* the account's transaction count
    executed,   \* calls whose transaction was mined with status 1
    reverted,   \* calls whose transaction was mined with status 0
    dropped     \* calls whose transaction the node has dropped

submitVars == <<pc, nonce, pool, mined, executed, reverted, dropped>>

SubmitInit ==
    /\ pc = [c \in Calls |-> "start"]
    /\ nonce = [c \in Calls |-> 0]
    /\ mined = 0
    /\ pool = {} /\ executed = {} /\ reverted = {} /\ dropped = {}

Goto(c, label) == pc' = [pc EXCEPT ![c] = label]

Pending(n) == \E c \in pool : nonce[c] = n

-----------------------------------------------------------------------------
(* The worker. *)

\* The gas estimate succeeds: the call would not revert now.
Estimate(c) ==
    /\ pc[c] = "start"
    /\ Goto(c, "estimated")
    /\ UNCHANGED <<nonce, pool, mined, executed, reverted, dropped>>

\* Mutant: a nonce is reserved after all that were handed out.
ReserveNonce(c) ==
    /\ pc[c] = "estimated"
    /\ \E n \in {mined} \cup {nonce[d] + 1 : d \in Calls} :
          /\ n >= mined
          /\ \A d \in Calls : pc[d] \in {"signed", "waiting"} => nonce[d] < n
          /\ nonce' = [nonce EXCEPT ![c] = n]
    /\ Goto(c, "signed")
    /\ UNCHANGED <<pool, mined, executed, reverted, dropped>>

\* get_transaction_count(account, "pending"): the first nonce that is free.  The
\* transaction is built and signed with it.
ReadNonce(c) ==
    /\ pc[c] = "estimated"
    /\ \E n \in {mined} \cup {nonce[d] + 1 : d \in pool} :
          /\ ~Pending(n)
          /\ \A k \in mined..(n - 1) : Pending(k)
          /\ nonce' = [nonce EXCEPT ![c] = n]
    /\ Goto(c, "signed")
    /\ UNCHANGED <<pool, mined, executed, reverted, dropped>>

\* The node accepts the transaction. It refuses a nonce that is used, or taken
\* by another pending transaction, which every call pays the same tip for.
Broadcast(c) ==
    /\ pc[c] = "signed"
    /\ nonce[c] >= mined /\ ~Pending(nonce[c])
    /\ pool' = pool \cup {c}
    /\ Goto(c, "waiting")
    /\ UNCHANGED <<nonce, mined, executed, reverted, dropped>>

\* Mutant: the status of the receipt is not looked at.
ReturnAnyReceipt(c) ==
    /\ pc[c] = "waiting"
    /\ c \in executed \cup reverted
    /\ Goto(c, "returned")
    /\ UNCHANGED <<nonce, pool, mined, executed, reverted, dropped>>

\* The receipt comes before the timeout, with status 1.
Return(c) ==
    /\ pc[c] = "waiting"
    /\ c \in executed
    /\ Goto(c, "returned")
    /\ UNCHANGED <<nonce, pool, mined, executed, reverted, dropped>>

\* The estimate fails, the node refuses or its answer is lost, the receipt has
\* status 0 or does not come in time, another request to the node raises, or
\* the worker dies.
Raise(c) ==
    /\ pc[c] \in {"start", "estimated", "signed", "waiting"}
    /\ Goto(c, "raised")
    /\ UNCHANGED <<nonce, pool, mined, executed, reverted, dropped>>

-----------------------------------------------------------------------------
(* The node and the chain. *)

\* The account's next transaction is mined, and is executed or reverts.
Mine(c) ==
    /\ c \in pool /\ nonce[c] = mined
    /\ mined' = mined + 1
    /\ pool' = pool \ {c}
    /\ \/ executed' = executed \cup {c} /\ UNCHANGED reverted
       \/ reverted' = reverted \cup {c} /\ UNCHANGED executed
    /\ UNCHANGED <<pc, nonce, dropped>>

\* The node loses a pending transaction.
Drop(c) ==
    /\ c \in pool
    /\ pool' = pool \ {c}
    /\ dropped' = dropped \cup {c}
    /\ UNCHANGED <<pc, nonce, mined, executed, reverted>>

SubmitNext ==
    \/ \E c \in Calls : Estimate(c)
    \/ \E c \in Calls : ReadNonce(c)
    \/ \E c \in Calls : Broadcast(c)
    \/ \E c \in Calls : Return(c)
    \/ \E c \in Calls : Raise(c)
    \/ \E c \in Calls : Mine(c)
    \/ \E c \in Calls : Drop(c)

SubmitSpec == SubmitInit /\ [][SubmitNext]_submitVars

-----------------------------------------------------------------------------
\* Every variable keeps its type.
SubmitTypeOK ==
    /\ pc \in [Calls -> {"start", "estimated", "signed", "waiting", "returned", "raised"}]
    /\ nonce \in [Calls -> Nat]
    /\ mined \in Nat
    /\ pool \subseteq Calls /\ executed \subseteq Calls
    /\ reverted \subseteq Calls /\ dropped \subseteq Calls

\* However workers race for nonces, one that is missing before a pending
\* transaction, which then cannot be mined, is the nonce of a transaction the
\* node dropped: a refused, dead or timed out worker leaves no gap.
GapWasDropped ==
    \A c \in pool : \A n \in mined..(nonce[c] - 1) :
        Pending(n) \/ \E d \in dropped : nonce[d] = n

\* submit_tx() as its callers see it.
Interface ==
    INSTANCE ChainCall WITH
        transaction <- [c \in Calls |-> IF c \in executed THEN "executed"
                                        ELSE IF c \in pool THEN "sent"
                                        ELSE IF c \in reverted \cup dropped THEN "gone"
                                        ELSE "none"],
        result <- [c \in Calls |-> IF pc[c] = "returned" THEN "receipt"
                                   ELSE IF pc[c] = "raised" THEN "raised"
                                   ELSE "none"]

\* Whatever nonces collide and whatever the node does, submit_tx() keeps its
\* promise to its callers.
ImplementsChainCall == Interface!Spec
=============================================================================
