-------------------------- MODULE MCSubscriptions --------------------------
(* Values of the constants of Subscriptions for TLC.                       *)
EXTENDS Subscriptions, TLC

CONSTANTS u1, u2, manager, pauser, pricing, relayer, timing, treasury,
          pricer1, pricer2, list1, list2

MCAccounts == Users \cup {manager, pauser, pricing, relayer, timing, treasury}

MCRoles == [role \in Roles |->
  CASE role = "MANAGER_ADMIN" -> {manager}
    [] role = "PAUSER_ADMIN" -> {pauser}
    [] role = "PRICE_ID_SETTER_ROLE" -> {pricing}
    [] role = "RELAYER_ROLE" -> {relayer}
    [] role = "TIMESTAMP_SETTER_ROLE" -> {timing}]

\* A deployment in which nobody holds PAUSER_ADMIN.
MCRolesNoPauser == [MCRoles EXCEPT !["PAUSER_ADMIN"] = {}]

MCConstructorAmounts == [name \in OnChainAmounts |->
  IF name \in {"minimumDepositAmount", "minimumRedemptionAmount"} THEN 2 ELSE 3]

\* The maximum for deposits below the maximum for redemptions.
MCDepositMaximumLower == [MCConstructorAmounts EXCEPT !["maximumDepositAmount"] = 2]

MCConstructorPointers == [name \in TransferPointers |-> treasury]

NoAmounts == [name \in AmountNames |-> {}]

\* A fee of half the amount, switched on and off; 3 must be rejected.
MCFeeOnly == [NoAmounts EXCEPT !["mintFee"] = {0, 1, 3}]

\* A minimum under the floor must be rejected too.
MCSubscriptionAmounts == [MCFeeOnly EXCEPT !["minimumDepositAmount"] = {1}]

NoPointers == [name \in PointerNames |-> {}]
MCOnePricer == [NoPointers EXCEPT !["pricer"] = {pricer1}]

=============================================================================
