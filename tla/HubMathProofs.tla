--------------------------- MODULE HubMathProofs ---------------------------
(***************************************************************************)
(* What the arithmetic of the hub guarantees for every amount, fee rate,   *)
(* price and choice of decimals.                                           *)
(***************************************************************************)
EXTENDS HubMath, TLAPS

(* Truncating division, in the form the other lemmas need. *)
LEMMA DivBounds ==
  ASSUME NEW a \in Nat, NEW b \in Nat \ {0}
  PROVE  /\ a \div b \in Nat
         /\ (a \div b) * b <= a
         /\ a < (a \div b + 1) * b
  BY SMTT(30)

LEMMA DivAtMost ==
  ASSUME NEW a \in Nat, NEW b \in Nat \ {0}, NEW c \in Nat, a <= c * b
  PROVE  a \div b <= c
  BY SMTT(30)

LEMMA DivAtLeastOne ==
  ASSUME NEW a \in Nat, NEW b \in Nat \ {0}, a >= b
  PROVE  a \div b >= 1
  BY SMTT(30)

LEMMA ProductNat == ASSUME NEW a \in Nat, NEW b \in Nat PROVE a * b \in Nat
  BY SMT

LEMMA ProductMonotone ==
  ASSUME NEW a \in Nat, NEW b \in Nat, NEW c \in Nat, a <= b
  PROVE  a * c <= b * c
  BY SMTT(30)

(* A fee of at most BPS_DENOMINATOR basis points never exceeds the amount  *)
(* it is charged on: `amount - fee` in requestSubscription, in             *)
(* requestSubscriptionServicedOffchain and in claimRedemption cannot       *)
(* underflow.                                                              *)
LEMMA FeeAtMostAmount ==
  ASSUME NEW amount \in Nat, NEW rate \in Nat, rate <= BPS_DENOMINATOR
  PROVE  /\ GetMintFees(amount, rate) \in Nat
         /\ GetMintFees(amount, rate) <= amount
         /\ GetRedemptionFees(amount, rate) \in Nat
         /\ GetRedemptionFees(amount, rate) <= amount
<1>1. amount * rate \in Nat
  BY ProductNat
<1>2. amount * rate <= amount * BPS_DENOMINATOR
  BY BpsAssumption, SMTT(30)
<1>3. (amount * rate) \div BPS_DENOMINATOR \in Nat
  BY <1>1, DivBounds, BpsAssumption
<1>4. (amount * rate) \div BPS_DENOMINATOR <= amount
  BY <1>1, <1>2, DivAtMost, BpsAssumption
<1> QED
  BY <1>3, <1>4 DEF GetMintFees, GetRedemptionFees

(* An amount of at least BPS_DENOMINATOR (what the setters of the minimum  *)
(* amounts insist on) pays a fee whenever the rate is not zero: truncation *)
(* cannot make a subscription free.                                        *)
THEOREM FeeNeverRoundsToZero ==
  ASSUME NEW amount \in Nat, NEW rate \in Nat \ {0},
         amount >= BPS_DENOMINATOR
  PROVE  GetMintFees(amount, rate) >= 1 /\ GetRedemptionFees(amount, rate) >= 1
<1>1. amount * rate \in Nat
  BY ProductNat
<1>2. amount * rate >= amount
  BY SMTT(30)
<1>3. amount * rate >= BPS_DENOMINATOR
  BY <1>1, <1>2, BpsAssumption
<1>4. (amount * rate) \div BPS_DENOMINATOR >= 1
  BY <1>1, <1>3, DivAtLeastOne, BpsAssumption
<1> QED
  BY <1>4 DEF GetMintFees, GetRedemptionFees

(* claimMint never issues more `rwa` than the deposit is worth at the      *)
(* price it used: the tokens, valued back at that price, stay within it.   *)
THEOREM MintWorthAtMostDeposit ==
  ASSUME NEW deposit \in Nat, NEW price \in Nat \ {0}
  PROVE  /\ GetMintAmountForPrice(deposit, price) \in Nat
         /\ GetMintAmountForPrice(deposit, price) * price
              <= ScaleUp(deposit) * PriceUnit
<1>1. ScaleUp(deposit) \in Nat
  BY ProductNat, ScaleAssumption DEF ScaleUp
<1>2. ScaleUp(deposit) * PriceUnit \in Nat
  BY <1>1, ProductNat, PriceUnitAssumption
<1> QED
  BY <1>2, DivBounds DEF GetMintAmountForPrice

LEMMA RedemptionAmountNat ==
  ASSUME NEW burned \in Nat, NEW price \in Nat
  PROVE  GetRedemptionAmountForRwa(burned, price) \in Nat
<1>1. burned * price \in Nat
  BY ProductNat
<1>2. (burned * price) \div PriceUnit \in Nat
  BY <1>1, DivBounds, PriceUnitAssumption
<1> QED
  BY <1>2, DivBounds, ScaleAssumption DEF GetRedemptionAmountForRwa, ScaleDown

(* What a redemption pays, valued in the units of the tokens, stays within *)
(* the worth of the tokens at the price used.                              *)
LEMMA RedemptionWithinWorth ==
  ASSUME NEW burned \in Nat, NEW price \in Nat
  PROVE  GetRedemptionAmountForRwa(burned, price) * DecimalsMultiplier * PriceUnit
           <= burned * price
<1> DEFINE scaled == (burned * price) \div PriceUnit
<1>1. burned * price \in Nat
  BY ProductNat
<1>2. scaled \in Nat /\ scaled * PriceUnit <= burned * price
  BY <1>1, DivBounds, PriceUnitAssumption
<1> HIDE DEF scaled
<1>3. /\ scaled \div DecimalsMultiplier \in Nat
      /\ (scaled \div DecimalsMultiplier) * DecimalsMultiplier <= scaled
  BY <1>2, DivBounds, ScaleAssumption
<1>4. (scaled \div DecimalsMultiplier) * DecimalsMultiplier \in Nat
  BY <1>3, ProductNat, ScaleAssumption
<1>5. (scaled \div DecimalsMultiplier) * DecimalsMultiplier * PriceUnit
        <= scaled * PriceUnit
  BY <1>2, <1>3, <1>4, ProductMonotone, PriceUnitAssumption
<1>6. (scaled \div DecimalsMultiplier) * DecimalsMultiplier * PriceUnit
        <= burned * price
  <2>1. (scaled \div DecimalsMultiplier) * DecimalsMultiplier * PriceUnit \in Nat
    BY <1>4, ProductNat, PriceUnitAssumption
  <2>2. scaled * PriceUnit \in Nat
    BY <1>2, ProductNat, PriceUnitAssumption
  <2> QED BY <1>1, <1>2, <1>5, <2>1, <2>2
<1> QED
  BY <1>6 DEF GetRedemptionAmountForRwa, ScaleDown, scaled

(* Minting a deposit and redeeming the tokens at the same price never      *)
(* returns more collateral than was deposited: both conversions truncate   *)
(* in the hub's favour, whatever the decimals of the two tokens.           *)
THEOREM RoundTripNeverProfits ==
  ASSUME NEW deposit \in Nat, NEW price \in Nat \ {0}
  PROVE  GetRedemptionAmountForRwa(GetMintAmountForPrice(deposit, price), price)
           <= deposit
<1> DEFINE minted == GetMintAmountForPrice(deposit, price)
<1> DEFINE scaled == ScaleUp(deposit)
<1>1. scaled \in Nat
  BY ProductNat, ScaleAssumption DEF ScaleUp
<1>2. minted \in Nat /\ minted * price <= scaled * PriceUnit
  BY MintWorthAtMostDeposit
<1>3. minted * price \in Nat
  BY <1>2, ProductNat
<1>4. (minted * price) \div PriceUnit \in Nat
  BY <1>3, DivBounds, PriceUnitAssumption
<1>5. (minted * price) \div PriceUnit <= deposit * DecimalsMultiplier
  <2>1. (minted * price) \div PriceUnit <= scaled
    <3> HIDE DEF minted, scaled
    <3> QED BY <1>1, <1>2, <1>3, DivAtMost, PriceUnitAssumption
  <2> QED BY <2>1 DEF ScaleUp
<1> HIDE DEF minted
<1>6. ((minted * price) \div PriceUnit) \div DecimalsMultiplier <= deposit
  BY <1>4, <1>5, DivAtMost, ScaleAssumption
<1> QED
  BY <1>6 DEF GetRedemptionAmountForRwa, ScaleDown, minted

=============================================================================
