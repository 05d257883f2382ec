------------------------------ MODULE HubMath ------------------------------
(***************************************************************************)
(* The arithmetic of RWAHub.sol: fees in basis points and the conversions  *)
(* between `collateral` and `rwa` amounts at a price.  Solidity's unsigned *)
(* division truncates, which is \div on naturals.  A product that leaves   *)
(* uint256 makes the call revert (Solidity 0.8), and amounts anywhere near *)
(* 2^256 / 10^36 are not amounts of any token: width is not modelled.      *)
(***************************************************************************)
EXTENDS Naturals

CONSTANTS
  BPS_DENOMINATOR,    \* 10_000 in the code
  DecimalsMultiplier, \* 10^(rwa decimals - collateral decimals), >= 1
  PriceUnit           \* 1e18: the fixed-point unit of a price

ASSUME BpsAssumption == BPS_DENOMINATOR \in Nat \ {0}
ASSUME ScaleAssumption == DecimalsMultiplier \in Nat \ {0}
ASSUME PriceUnitAssumption == PriceUnit \in Nat \ {0}

\* _getMintFees and _getRedemptionFees differ only in the rate they read.
GetMintFees(collateralAmount, mintFee) ==
  (collateralAmount * mintFee) \div BPS_DENOMINATOR

GetRedemptionFees(collateralAmount, redemptionFee) ==
  (collateralAmount * redemptionFee) \div BPS_DENOMINATOR

ScaleUp(amount) == amount * DecimalsMultiplier
ScaleDown(amount) == amount \div DecimalsMultiplier

\* Mutant: the division rounds up.
GetMintAmountRoundedUp(depositAmt, price) ==
  (ScaleUp(depositAmt) * PriceUnit + price - 1) \div price

\* Only for price # 0: the code reverts on a division by zero.
GetMintAmountForPrice(depositAmt, price) ==
  (ScaleUp(depositAmt) * PriceUnit) \div price

GetRedemptionAmountForRwa(rwaTokenAmountBurned, price) ==
  ScaleDown((rwaTokenAmountBurned * price) \div PriceUnit)

=============================================================================
