--------------------------- MODULE MCRedemptions ---------------------------
(* Values of the constants of Redemptions for TLC.                         *)
EXTENDS Redemptions, TLC

CONSTANTS u1, u2, manager, pauser, pricing, treasury, pricer1, list1, list2

MCAccounts == Users \cup {manager, pauser, pricing, treasury}

MCRoles == [role \in Roles |->
  CASE role = "MANAGER_ADMIN" -> {manager}
    [] role = "PAUSER_ADMIN" -> {pauser}
    [] role = "PRICE_ID_SETTER_ROLE" -> {pricing}
    [] OTHER -> {}]

\* A deployment in which nobody holds PAUSER_ADMIN.
MCRolesNoPauser == [MCRoles EXCEPT !["PAUSER_ADMIN"] = {}]

MCConstructorAmounts == [name \in OnChainAmounts |->
  IF name \in {"minimumDepositAmount", "minimumRedemptionAmount"} THEN 2 ELSE 3]

MCConstructorPointers == [name \in TransferPointers |-> treasury]

NoAmounts == [name \in AmountNames |-> {}]
MCFeeOnly == [NoAmounts EXCEPT !["redemptionFee"] = {1, 3}]
MCRedemptionAmounts ==
  [NoAmounts EXCEPT !["redemptionFee"] = {1, 3},
                    !["minimumOffChainRedemptionAmount"] = {4}]

NoPointers == [name \in PointerNames |-> {}]
MCOnePricer == [NoPointers EXCEPT !["pricer"] = {pricer1}]
MCMovingPointers ==
  [NoPointers EXCEPT !["pricer"] = {pricer1, ZeroAddress},
                     !["feeRecipient"] = {ZeroAddress},
                     !["blocklist"] = {list2, ZeroAddress}]

=============================================================================
