----------------------------- MODULE StakeEscrow -----------------------------
(***************************************************************************)
(* The StakeEscrow contract: vendors lock a stake to be allowed to create  *)
(* events, the platform slashes 15% of it when a vendor cancels an event,  *)
(* and the rest is claimed back after a 30-day exit timelock.              *)
(*                                                                         *)
(* One action is one transaction that the chain executes.  A transaction   *)
(* that reverts changes nothing, so a revert condition is the negation of  *)
(* a guard.  forceMajeure() changes no state and has no action.            *)
(***************************************************************************)
EXTENDS Integers, Sums

CONSTANTS
    Vendors,        \* addresses that may stake
    Treasuries,     \* addresses the owner may name as treasury
    Escrow,         \* the contract's own address
    SmallStake,     \* SMALL_STAKE
    BigStake,       \* BIG_STAKE
    SlashBps,       \* SLASH_BPS
    BpsDenom,       \* BPS_DENOM
    ExitDelay,      \* EXIT_DELAY, in ticks of the modelled clock
    InitialFunds,   \* USDC in each vendor's wallet at the start
    MaxTime         \* bound on the modelled clock

ASSUME AddressAssumption ==
    /\ IsFiniteSet(Vendors)
    /\ Vendors \cap Treasuries = {}
    /\ Escrow \notin Vendors \cup Treasuries

ASSUME AmountAssumption ==
    /\ SmallStake \in Nat \ {0} /\ BigStake \in Nat \ {0}
    /\ InitialFunds \in Nat
    /\ BpsDenom \in Nat \ {0}
    /\ SlashBps \in Nat

ASSUME TimeAssumption == ExitDelay \in Nat /\ MaxTime \in Nat

VARIABLES
    vendors,        \* vendor -> VendorState
    treasury,       \* where slashed funds go
    usdc,           \* address -> USDC balance
    now,            \* block.timestamp
    lastSlashAt,    \* history: when the vendor was last slashed, 0 if never
    lost            \* history: what slashes took from the vendor over all its stakes

vars == <<vendors, treasury, usdc, now, lastSlashAt, lost>>

Address == Vendors \cup Treasuries \cup {Escrow}

Tier == {"NONE", "SMALL", "BIG"}

VendorStatus == {"NONE", "ACTIVE", "EXITING", "EXITED", "SUSPENDED"}

VendorState == [tier            : Tier,
                status          : VendorStatus,
                stakedAmount    : Nat,
                claimableAmount : Nat,
                slashedAmount   : Nat,
                exitRequestedAt : Nat]

StakeOf(tier) == IF tier = "SMALL" THEN SmallStake ELSE BigStake

\* A vendor whose stake is in the contract.
Staked(v) == vendors[v].status \notin {"NONE", "EXITED"}

-----------------------------------------------------------------------------
Init ==
    /\ vendors = [v \in Vendors |->
                    [tier |-> "NONE", status |-> "NONE", stakedAmount |-> 0,
                     claimableAmount |-> 0, slashedAmount |-> 0,
                     exitRequestedAt |-> 0]]
    /\ treasury \in Treasuries
    /\ usdc = [a \in Address |-> IF a \in Vendors THEN InitialFunds ELSE 0]
    /\ now = 1
    /\ lastSlashAt = [v \in Vendors |-> 0]
    /\ lost = [v \in Vendors |-> 0]

\* USDC moves between two accounts, or the transaction reverts.
Transfer(from, to, amount) ==
    /\ usdc[from] >= amount
    /\ usdc' = [usdc EXCEPT ![from] = @ - amount, ![to] = @ + amount]

\* A vendor stakes for the first time, or again after it has exited.
Stake(v, tier) ==
    /\ ~Staked(v)
    /\ Transfer(v, Escrow, StakeOf(tier))
    /\ vendors' = [vendors EXCEPT ![v] =
                    [tier |-> tier, status |-> "ACTIVE",
                     stakedAmount |-> StakeOf(tier),
                     claimableAmount |-> StakeOf(tier),
                     slashedAmount |-> 0, exitRequestedAt |-> 0]]
    /\ UNCHANGED <<treasury, now, lastSlashAt, lost>>

\* Starts the exit timelock of an active or a suspended vendor.
RequestExit(v) ==
    /\ vendors[v].status \in {"ACTIVE", "SUSPENDED"}
    /\ vendors' = [vendors EXCEPT ![v].status = "EXITING",
                                    ![v].exitRequestedAt = now]
    /\ UNCHANGED <<treasury, usdc, now, lastSlashAt, lost>>

\* Mutant: the claim stays on the books after it is paid.
ClaimStakeKeepsClaim(v) ==
    /\ vendors[v].status = "EXITING"
    /\ now >= vendors[v].exitRequestedAt + ExitDelay
    /\ vendors[v].claimableAmount > 0
    /\ Transfer(Escrow, v, vendors[v].claimableAmount)
    /\ vendors' = [vendors EXCEPT ![v].status = "EXITED"]
    /\ UNCHANGED <<treasury, now, lastSlashAt, lost>>

\* Pays the remaining stake out once the timelock has run.
ClaimStake(v) ==
    /\ vendors[v].status = "EXITING"
    /\ now >= vendors[v].exitRequestedAt + ExitDelay
    /\ vendors[v].claimableAmount > 0
    /\ Transfer(Escrow, v, vendors[v].claimableAmount)
    /\ vendors' = [vendors EXCEPT ![v].status = "EXITED",
                                    ![v].claimableAmount = 0]
    /\ UNCHANGED <<treasury, now, lastSlashAt, lost>>

\* 15% of the original stake, or what is left of it.
SlashAmount(v) ==
    LET penalty == (vendors[v].stakedAmount * SlashBps) \div BpsDenom
    IN  IF penalty > vendors[v].claimableAmount
        THEN vendors[v].claimableAmount
        ELSE penalty

\* Takes the penalty off the stake and sets the vendor's status.
Penalize(v, status) ==
    /\ Staked(v)
    /\ vendors' = [vendors EXCEPT ![v].claimableAmount = @ - SlashAmount(v),
                                    ![v].slashedAmount = @ + SlashAmount(v),
                                    ![v].status = status]
    /\ lastSlashAt' = [lastSlashAt EXCEPT ![v] = now]
    /\ lost' = [lost EXCEPT ![v] = @ + SlashAmount(v)]
    /\ UNCHANGED <<treasury, now>>

\* Mutant: the slashed amount is not sent to the treasury.
SlashWithoutTransfer(v) == Penalize(v, "SUSPENDED") /\ UNCHANGED usdc

\* Mutant: the vendor keeps its status.
SlashWithoutSuspension(v) ==
    Penalize(v, vendors[v].status) /\ Transfer(Escrow, treasury, SlashAmount(v))

\* Mutant: a vendor that is leaving goes on leaving.
SlashKeepsExiting(v) ==
    /\ Penalize(v, IF vendors[v].status = "EXITING" THEN "EXITING" ELSE "SUSPENDED")
    /\ Transfer(Escrow, treasury, SlashAmount(v))

\* The owner slashes a vendor, whatever the stage of its exit.
Slash(v) ==
    /\ Penalize(v, "SUSPENDED")
    /\ Transfer(Escrow, treasury, SlashAmount(v))

SetTreasury(a) ==
    /\ treasury' = a
    /\ UNCHANGED <<vendors, usdc, now, lastSlashAt, lost>>

\* Time passes between blocks, up to the bound MaxTime.
Tick ==
    /\ now < MaxTime
    /\ now' = now + 1
    /\ UNCHANGED <<vendors, treasury, usdc, lastSlashAt, lost>>

Next ==
    \/ \E v \in Vendors, tier \in {"SMALL", "BIG"} : Stake(v, tier)
    \/ \E v \in Vendors : RequestExit(v)
    \/ \E v \in Vendors : ClaimStake(v)
    \/ \E v \in Vendors : Slash(v)
    \/ \E a \in Treasuries : SetTreasury(a)
    \/ Tick

Spec == Init /\ [][Next]_vars

-----------------------------------------------------------------------------
\* Every variable keeps its type; amounts never go below zero.
TypeOK ==
    /\ vendors \in [Vendors -> VendorState]
    /\ treasury \in Treasuries
    /\ usdc \in [Address -> Nat]
    /\ now \in Nat \ {0}
    /\ lastSlashAt \in [Vendors -> Nat]
    /\ lost \in [Vendors -> Nat]

\* What a vendor may still claim and what slashes have taken add up to the
\* stake it made, through any sequence of slashes, exits and re-stakes
\* (stake(), slash() and claimStake() each write only part of the record).
StakeAccounting ==
    \A v \in Vendors :
        /\ Staked(v) =>
             vendors[v].claimableAmount + vendors[v].slashedAmount
                = vendors[v].stakedAmount
        /\ ~Staked(v) => vendors[v].claimableAmount = 0

\* Across all its stakes a vendor is out of pocket by exactly its slashes:
\* wallet, claimable stake and slashed total always add up to what it owned.
FundsConserved ==
    \A v \in Vendors :
        usdc[v] + vendors[v].claimableAmount + lost[v] = InitialFunds

Claims == [v \in Vendors |-> vendors[v].claimableAmount]

\* The contract holds exactly what vendors can still claim, so no claim can
\* fail for want of funds and no dust is left behind by a slash.
EscrowHoldsClaims == usdc[Escrow] = Total(Vendors, Claims)

\* A vendor that has been slashed is not active, and so may not create events,
\* until it has claimed the rest of its stake and staked anew: no order of
\* requestExit() and slash() gets it back to ACTIVE.
SlashedIsNotActive ==
    \A v \in Vendors :
        vendors[v].slashedAmount > 0 => vendors[v].status # "ACTIVE"

\* A running exit timelock started no earlier than the last slash.
TimelockStartsAfterSlash ==
    \A v \in Vendors :
        vendors[v].status = "EXITING" =>
            lastSlashAt[v] <= vendors[v].exitRequestedAt

\* A slash restarts the timelock: a vendor gets its stake out only a full
\* EXIT_DELAY after it was last slashed, even when the slash came after the
\* exit request (slash() moves an EXITING vendor back to SUSPENDED).
FullTimelockAfterSlash ==
    [][\A v \in Vendors :
          (Staked(v) /\ ~Staked(v)') => now >= lastSlashAt[v] + ExitDelay]_vars
=============================================================================
