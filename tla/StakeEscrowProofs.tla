-------------------------- MODULE StakeEscrowProofs --------------------------
(***************************************************************************)
(* Safety of the StakeEscrow contract for every set of vendors, every      *)
(* amount, penalty and delay, and without the bound of the model's clock.  *)
(***************************************************************************)
EXTENDS StakeEscrow, SumsProofs

\* The inductive invariant: types, the accounting of each stake, and that no
\* history variable runs ahead of the clock.
Inv ==
    /\ TypeOK
    /\ StakeAccounting
    /\ FundsConserved
    /\ SlashedIsNotActive
    /\ TimelockStartsAfterSlash
    /\ \A v \in Vendors : lastSlashAt[v] <= now

-----------------------------------------------------------------------------
\* Integer division of a natural number gives a natural number.
LEMMA DivIsNat ==
    ASSUME NEW a \in Nat, NEW b \in Nat \ {0}
    PROVE  a \div b \in Nat
  OBVIOUS

\* slash() takes between nothing and everything that is left of the stake.
LEMMA SlashAmountBounded ==
    ASSUME TypeOK, NEW v \in Vendors
    PROVE  SlashAmount(v) \in Nat /\ SlashAmount(v) <= vendors[v].claimableAmount
<1>1. /\ vendors[v].stakedAmount \in Nat
      /\ vendors[v].claimableAmount \in Nat
  BY DEF TypeOK, VendorState
<1>2. vendors[v].stakedAmount * SlashBps \in Nat
  BY <1>1, AmountAssumption
<1>3. (vendors[v].stakedAmount * SlashBps) \div BpsDenom \in Nat
  BY <1>2, DivIsNat, AmountAssumption
<1>4. QED
  BY <1>1, <1>3 DEF SlashAmount

-----------------------------------------------------------------------------
\* The constructor establishes the invariant.
LEMMA InitInv == Init => Inv
  BY AddressAssumption, AmountAssumption
  DEF Init, Inv, TypeOK, VendorState, Tier, VendorStatus, Address, Staked,
      StakeAccounting, FundsConserved, SlashedIsNotActive,
      TimelockStartsAfterSlash

\* Every transaction preserves it.
LEMMA NextInv == Inv /\ [Next]_vars => Inv'
<1> SUFFICES ASSUME Inv, [Next]_vars
             PROVE  Inv'
  OBVIOUS
<1> USE DEF Inv
<1>1. ASSUME NEW v \in Vendors, NEW tier \in {"SMALL", "BIG"}, Stake(v, tier)
      PROVE  Inv'
  <2>1. StakeOf(tier) \in Nat
    BY AmountAssumption DEF StakeOf
  <2>2. /\ v \in Address /\ Escrow \in Address /\ v # Escrow
        /\ Vendors \subseteq Address /\ Escrow \notin Vendors
    BY AddressAssumption DEF Address
  <2>3. /\ usdc' \in [Address -> Nat]
        /\ usdc'[v] = usdc[v] - StakeOf(tier)
        /\ \A w \in Vendors \ {v} : usdc'[w] = usdc[w]
    BY <1>1, <2>1, <2>2 DEF Stake, Transfer, TypeOK
  <2>4. TypeOK'
    BY <1>1, <2>1, <2>3 DEF Stake, TypeOK, VendorState, Tier, VendorStatus
  <2>5. StakeAccounting'
    BY <1>1, <2>1 DEF Stake, TypeOK, StakeAccounting, Staked
  <2>6. FundsConserved'
    BY <1>1, <2>1, <2>3
    DEF Stake, TypeOK, VendorState, FundsConserved, StakeAccounting, Address
  <2>7. SlashedIsNotActive' /\ TimelockStartsAfterSlash'
    BY <1>1 DEF Stake, TypeOK, SlashedIsNotActive, TimelockStartsAfterSlash
  <2>8. QED
    BY <1>1, <2>4, <2>5, <2>6, <2>7 DEF Stake
<1>2. ASSUME NEW v \in Vendors, RequestExit(v)
      PROVE  Inv'
  <2>1. TypeOK'
    BY <1>2 DEF RequestExit, TypeOK, VendorState, VendorStatus
  <2>2. StakeAccounting' /\ FundsConserved' /\ SlashedIsNotActive'
    BY <1>2
    DEF RequestExit, TypeOK, VendorState, StakeAccounting, FundsConserved,
        SlashedIsNotActive, Staked
  <2>3. TimelockStartsAfterSlash'
    BY <1>2 DEF RequestExit, TypeOK, VendorState, TimelockStartsAfterSlash
  <2>4. QED
    BY <1>2, <2>1, <2>2, <2>3 DEF RequestExit
<1>3. ASSUME NEW v \in Vendors, ClaimStake(v)
      PROVE  Inv'
  <2> DEFINE amount == vendors[v].claimableAmount
  <2>1. amount \in Nat
    BY DEF TypeOK, VendorState
  <2>2. /\ v \in Address /\ Escrow \in Address /\ v # Escrow
        /\ Vendors \subseteq Address /\ Escrow \notin Vendors
    BY AddressAssumption DEF Address
  <2>3. /\ usdc' \in [Address -> Nat]
        /\ usdc'[v] = usdc[v] + amount
        /\ \A w \in Vendors \ {v} : usdc'[w] = usdc[w]
    BY <1>3, <2>1, <2>2 DEF ClaimStake, Transfer, TypeOK
  <2>4. TypeOK'
    BY <1>3, <2>3 DEF ClaimStake, TypeOK, VendorState, VendorStatus
  <2>5. StakeAccounting' /\ SlashedIsNotActive' /\ TimelockStartsAfterSlash'
    BY <1>3
    DEF ClaimStake, TypeOK, VendorState, StakeAccounting, SlashedIsNotActive,
        TimelockStartsAfterSlash, Staked
  <2>6. FundsConserved'
    BY <1>3, <2>1, <2>3
    DEF ClaimStake, TypeOK, VendorState, FundsConserved, Address
  <2>7. QED
    BY <1>3, <2>4, <2>5, <2>6 DEF ClaimStake
<1>4. ASSUME NEW v \in Vendors, Slash(v)
      PROVE  Inv'
  <2>1. /\ SlashAmount(v) \in Nat
        /\ SlashAmount(v) <= vendors[v].claimableAmount
    BY SlashAmountBounded
  <2>2. /\ Escrow \in Address /\ treasury \in Address /\ Escrow # treasury
        /\ treasury \notin Vendors /\ Escrow \notin Vendors
        /\ Vendors \subseteq Address
    BY AddressAssumption DEF Address, TypeOK
  <2>3. /\ usdc' \in [Address -> Nat]
        /\ \A w \in Vendors : usdc'[w] = usdc[w]
    BY <1>4, <2>1, <2>2 DEF Slash, Penalize, Transfer, TypeOK
  <2>4. TypeOK'
    <3>1. vendors[v].claimableAmount - SlashAmount(v) \in Nat
      BY <2>1 DEF TypeOK, VendorState
    <3>2. vendors[v].slashedAmount + SlashAmount(v) \in Nat
      BY <2>1 DEF TypeOK, VendorState
    <3> DEFINE slashed == [vendors[v] EXCEPT
                             !.claimableAmount = @ - SlashAmount(v),
                             !.slashedAmount = @ + SlashAmount(v),
                             !.status = "SUSPENDED"]
    <3>3. slashed \in VendorState
      BY <3>1, <3>2 DEF TypeOK, VendorState, VendorStatus
    <3>4. vendors' = [vendors EXCEPT ![v] = slashed]
      BY <1>4 DEF Slash, Penalize, TypeOK, VendorState
    <3>5. vendors' \in [Vendors -> VendorState]
      BY <3>3, <3>4 DEF TypeOK
    <3>6. QED
      BY <1>4, <2>1, <2>3, <3>5 DEF Slash, Penalize, TypeOK
  <2>5. StakeAccounting'
    BY <1>4, <2>1 DEF Slash, Penalize, TypeOK, VendorState, StakeAccounting, Staked
  <2>6. FundsConserved'
    BY <1>4, <2>1, <2>3
    DEF Slash, Penalize, TypeOK, VendorState, FundsConserved, Address
  <2>7. SlashedIsNotActive' /\ TimelockStartsAfterSlash'
    BY <1>4
    DEF Slash, Penalize, TypeOK, VendorState, SlashedIsNotActive,
        TimelockStartsAfterSlash
  <2>8. \A w \in Vendors : lastSlashAt'[w] <= now'
    BY <1>4 DEF Slash, Penalize, TypeOK
  <2>9. QED
    BY <2>4, <2>5, <2>6, <2>7, <2>8
<1>5. ASSUME NEW a \in Treasuries, SetTreasury(a)
      PROVE  Inv'
  BY <1>5
  DEF SetTreasury, TypeOK, StakeAccounting, FundsConserved,
      SlashedIsNotActive, TimelockStartsAfterSlash, Staked
<1>6. CASE Tick
  BY <1>6
  DEF Tick, TypeOK, StakeAccounting, FundsConserved, SlashedIsNotActive,
      TimelockStartsAfterSlash, Staked
<1>7. CASE UNCHANGED vars
  BY <1>7
  DEF vars, TypeOK, StakeAccounting, FundsConserved, SlashedIsNotActive,
      TimelockStartsAfterSlash, Staked
<1>8. QED
  BY <1>1, <1>2, <1>3, <1>4, <1>5, <1>6, <1>7 DEF Next

-----------------------------------------------------------------------------
\* The invariant holds in every reachable state.
THEOREM SpecInv == Spec => []Inv
<1>1. QED
  BY InitInv, NextInv, PTL DEF Spec

-----------------------------------------------------------------------------
\* A step that changes one vendor's claim and the contract's balance by the
\* same amount keeps the contract's balance equal to the sum of the claims.
LEMMA ClaimChange ==
    ASSUME TypeOK, TypeOK', EscrowHoldsClaims, NEW v \in Vendors,
           \A w \in Vendors \ {v} :
               vendors'[w].claimableAmount = vendors[w].claimableAmount,
           usdc'[Escrow] = usdc[Escrow] - vendors[v].claimableAmount
                              + vendors'[v].claimableAmount
    PROVE  EscrowHoldsClaims'
<1> DEFINE before == Claims
           after == Claims'
<1>1. /\ \A w \in Vendors : before[w] \in Nat /\ after[w] \in Nat
      /\ \A w \in Vendors \ {v} : before[w] = after[w]
      /\ before[v] = vendors[v].claimableAmount
      /\ after[v] = vendors'[v].claimableAmount
  BY DEF TypeOK, VendorState, Claims
<1>2. /\ usdc[Escrow] = Total(Vendors, before)
      /\ EscrowHoldsClaims' <=> usdc'[Escrow] = Total(Vendors, after)
  BY DEF EscrowHoldsClaims, Total, Units
<1> HIDE DEF before, after
<1>3. Total(Vendors, after) = Total(Vendors, before) - before[v] + after[v]
  BY <1>1, AddressAssumption, TotalUpdate
<1>4. QED
  BY <1>1, <1>2, <1>3

\* Every transaction keeps the contract's balance equal to the claims on it.
LEMMA EscrowStep == Inv /\ Inv' /\ EscrowHoldsClaims /\ [Next]_vars => EscrowHoldsClaims'
<1> SUFFICES ASSUME TypeOK, TypeOK', Inv, EscrowHoldsClaims, [Next]_vars
             PROVE  EscrowHoldsClaims'
  BY DEF Inv
<1> USE DEF TypeOK
<1>0. /\ Escrow \in Address /\ Escrow \notin Vendors \cup Treasuries
      /\ Vendors \subseteq Address /\ Treasuries \subseteq Address
      /\ usdc[Escrow] \in Nat
      /\ \A v \in Vendors : vendors[v].claimableAmount \in Nat
  BY AddressAssumption DEF Address, VendorState
<1>1. ASSUME NEW v \in Vendors, NEW tier \in {"SMALL", "BIG"}, Stake(v, tier)
      PROVE  EscrowHoldsClaims'
  <2>1. StakeOf(tier) \in Nat
    BY AmountAssumption DEF StakeOf
  <2>2. vendors[v].claimableAmount = 0
    BY <1>1 DEF Inv, StakeAccounting, Stake
  <2>3. /\ usdc'[Escrow] = usdc[Escrow] + StakeOf(tier)
        /\ vendors'[v].claimableAmount = StakeOf(tier)
        /\ \A w \in Vendors \ {v} : vendors'[w] = vendors[w]
    BY <1>0, <1>1 DEF Stake, Transfer
  <2>4. QED
    BY <1>0, <2>1, <2>2, <2>3, ClaimChange
<1>2. ASSUME NEW v \in Vendors, RequestExit(v)
      PROVE  EscrowHoldsClaims'
  <2>1. /\ \A w \in Vendors : vendors'[w].claimableAmount = vendors[w].claimableAmount
        /\ usdc'[Escrow] = usdc[Escrow]
    BY <1>2 DEF RequestExit, VendorState
  <2>2. QED
    BY <1>0, <2>1, ClaimChange
<1>3. ASSUME NEW v \in Vendors, ClaimStake(v)
      PROVE  EscrowHoldsClaims'
  <2>1. /\ usdc'[Escrow] = usdc[Escrow] - vendors[v].claimableAmount
        /\ vendors'[v].claimableAmount = 0
        /\ \A w \in Vendors \ {v} : vendors'[w] = vendors[w]
    BY <1>0, <1>3 DEF ClaimStake, Transfer, VendorState
  <2>2. QED
    BY <1>0, <2>1, ClaimChange
<1>4. ASSUME NEW v \in Vendors, Slash(v)
      PROVE  EscrowHoldsClaims'
  <2>1. SlashAmount(v) \in Nat
    BY SlashAmountBounded
  <2>2. /\ usdc'[Escrow] = usdc[Escrow] - SlashAmount(v)
        /\ vendors'[v].claimableAmount = vendors[v].claimableAmount - SlashAmount(v)
        /\ \A w \in Vendors \ {v} : vendors'[w] = vendors[w]
    BY <1>0, <1>4 DEF Slash, Penalize, Transfer, VendorState
  <2>3. QED
    BY <1>0, <2>1, <2>2, ClaimChange
<1>5. CASE UNCHANGED <<vendors, usdc>>
  BY <1>5 DEF EscrowHoldsClaims, Claims, Total, Units
<1>6. QED
  BY <1>1, <1>2, <1>3, <1>4, <1>5 DEF Next, vars, SetTreasury, Tick

\* The contract's balance is what vendors can still claim.
THEOREM EscrowCoversClaims == Spec => []EscrowHoldsClaims
<1>1. Init => EscrowHoldsClaims
  <2> SUFFICES ASSUME Init PROVE EscrowHoldsClaims
    OBVIOUS
  <2>1. \A v \in Vendors : Claims[v] = 0
    BY DEF Init, Claims
  <2>2. Total(Vendors, Claims) = 0
    BY <2>1, AddressAssumption, TotalOfZeros
  <2>3. usdc[Escrow] = 0
    BY AddressAssumption DEF Init, Address
  <2>4. QED
    BY <2>2, <2>3 DEF EscrowHoldsClaims
<1>2. QED
  BY <1>1, EscrowStep, SpecInv, PTL DEF Spec

\* Type correctness: in particular no balance and no amount is ever negative,
\* so the unsigned subtractions of slash() never underflow.
THEOREM TypeCorrect == Spec => []TypeOK
<1>1. Inv => TypeOK
  BY DEF Inv
<1>2. QED
  BY <1>1, SpecInv, PTL

\* Claimable and slashed amounts of a stake always add up to the stake.
THEOREM StakeAccounted == Spec => []StakeAccounting
<1>1. Inv => StakeAccounting
  BY DEF Inv
<1>2. QED
  BY <1>1, SpecInv, PTL

\* A vendor is out of pocket by exactly what it was slashed.
THEOREM VendorFundsConserved == Spec => []FundsConserved
<1>1. Inv => FundsConserved
  BY DEF Inv
<1>2. QED
  BY <1>1, SpecInv, PTL

\* No order of slashes and exit requests makes a slashed vendor active again.
THEOREM SlashedVendorNotActive == Spec => []SlashedIsNotActive
<1>1. Inv => SlashedIsNotActive
  BY DEF Inv
<1>2. QED
  BY <1>1, SpecInv, PTL

\* No stake leaves the contract for its vendor within EXIT_DELAY of a slash.
THEOREM SlashRestartsTimelock == Spec => FullTimelockAfterSlash
<1>1. Inv /\ [Next]_vars =>
        [\A v \in Vendors :
            (Staked(v) /\ ~Staked(v)') => now >= lastSlashAt[v] + ExitDelay]_vars
  <2> SUFFICES ASSUME Inv, Next, NEW v \in Vendors, Staked(v), ~Staked(v)'
               PROVE  now >= lastSlashAt[v] + ExitDelay
    OBVIOUS
  <2>1. ASSUME NEW w \in Vendors, ClaimStake(w)
        PROVE  now >= lastSlashAt[v] + ExitDelay
    <3>1. v = w
      BY <2>1 DEF ClaimStake, Inv, TypeOK, Staked
    <3>2. QED
      BY <2>1, <3>1, TimeAssumption
      DEF ClaimStake, Inv, TypeOK, VendorState, TimelockStartsAfterSlash
  <2>2. ASSUME NEW w \in Vendors, NEW tier \in {"SMALL", "BIG"}, Stake(w, tier)
        PROVE  FALSE
    BY <2>2 DEF Stake, Inv, TypeOK, Staked
  <2>3. ASSUME NEW w \in Vendors, RequestExit(w)
        PROVE  FALSE
    BY <2>3 DEF RequestExit, Inv, TypeOK, VendorState, Staked
  <2>4. ASSUME NEW w \in Vendors, Slash(w)
        PROVE  FALSE
    BY <2>4 DEF Slash, Penalize, Inv, TypeOK, VendorState, Staked
  <2>5. ASSUME NEW a \in Treasuries, SetTreasury(a)
        PROVE  FALSE
    BY <2>5 DEF SetTreasury, Staked
  <2>6. CASE Tick
    BY <2>6 DEF Tick, Staked
  <2>7. QED
    BY <2>1, <2>2, <2>3, <2>4, <2>5, <2>6 DEF Next
<1>2. QED
  BY <1>1, SpecInv, PTL DEF Spec, FullTimelockAfterSlash
=============================================================================
