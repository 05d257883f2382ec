--------------------------- MODULE MCUSDYManager ---------------------------
(* Values of the constants of USDYManager for TLC.                         *)
EXTENDS USDYManager, TLC

CONSTANTS u1, u2, manager, pauser, pricing, relayer, timing, treasury,
          pricer1, list1, list2

MCAccounts == Users \cup {manager, pauser, pricing, relayer, timing, treasury}

MCRoles == [role \in Roles |->
  CASE role = "MANAGER_ADMIN" -> {manager}
    [] role = "PAUSER_ADMIN" -> {pauser}
    [] role = "PRICE_ID_SETTER_ROLE" -> {pricing}
    [] role = "RELAYER_ROLE" -> {relayer}
    [] role = "TIMESTAMP_SETTER_ROLE" -> {timing}]

\* A deployment in which nobody holds PAUSER_ADMIN.
MCRolesNoPauser == [MCRoles EXCEPT !["PAUSER_ADMIN"] = {}]

\* A deployment before the servicing roles are granted: requests only.  The
\* relayer is a user too, with an allowance of its own.
MCRolesRequestsOnly ==
  [MCRolesNoPauser EXCEPT !["PRICE_ID_SETTER_ROLE"] = {}, !["TIMESTAMP_SETTER_ROLE"] = {},
                           !["RELAYER_ROLE"] = {u2}]

MCConstructorAmounts == [name \in OnChainAmounts |->
  IF name \in {"minimumDepositAmount", "minimumRedemptionAmount"} THEN 2 ELSE 3]

MCConstructorPointers == [name \in TransferPointers |-> treasury]

NoAmounts == [name \in AmountNames |-> {}]
MCFeeOnly == [NoAmounts EXCEPT !["mintFee"] = {1}]

\* A minimum that a deposit of 2 does not reach any more, off chain only.
MCRequestAmounts ==
  [NoAmounts EXCEPT !["mintFee"] = {1}, !["minimumOffChainSubscriptionAmount"] = {3}]

NoPointers == [name \in PointerNames |-> {}]
MCOnePricer == [NoPointers EXCEPT !["pricer"] = {pricer1}]

=============================================================================
