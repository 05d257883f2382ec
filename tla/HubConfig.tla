----------------------------- MODULE HubConfig -----------------------------
(***************************************************************************)
(* The parameters, pointers and pause switches of the hub, and the         *)
(* functions of MANAGER_ADMIN and PAUSER_ADMIN that change them.  A call   *)
(* that reverts changes nothing, so a revert is an action that is not      *)
(* enabled.                                                                *)
(***************************************************************************)
EXTENDS HubEnvironment

CONSTANTS
  Accounts,            \* msg.sender of a call, user and operator addresses
  RoleMembers,         \* role -> the accounts AccessControl granted it to
  ConstructorAmounts,  \* the four amounts passed to the constructor
  ConstructorPointers, \* assetSender, feeRecipient, assetRecipient, blocklist
  AmountInputs,        \* bound: the values a setter of an amount is called with
  PointerInputs        \* bound: the addresses a setter of a pointer is called with

Roles == {"MANAGER_ADMIN", "PAUSER_ADMIN", "PRICE_ID_SETTER_ROLE",
          "RELAYER_ROLE", "TIMESTAMP_SETTER_ROLE"}

OnChainAmounts == {"minimumDepositAmount", "minimumRedemptionAmount",
                   "maximumDepositAmount", "maximumRedemptionAmount"}
OffChainMinimums == {"minimumOffChainSubscriptionAmount",
                     "minimumOffChainRedemptionAmount"}
OffChainMaximums == {"maximumOffChainSubscriptionAmount",
                     "maximumOffChainRedemptionAmount"}
Fees == {"mintFee", "redemptionFee"}
AmountNames == OnChainAmounts \cup OffChainMinimums \cup OffChainMaximums \cup Fees

TransferPointers == {"assetSender", "feeRecipient", "assetRecipient"}
PointerNames == TransferPointers \cup {"pricer", "blocklist"}

\* Every address a pointer can hold in the model.
Addresses == Accounts \cup Pricers \cup Blocklists \cup {ZeroAddress}

Features == {"subscription", "redemption",
             "offChainSubscription", "offChainRedemption"}

ASSUME ConfigAssumption ==
  /\ Users \subseteq Accounts
  /\ ZeroAddress \notin Accounts
  /\ RoleMembers \in [Roles -> SUBSET Accounts]
  /\ ConstructorAmounts \in [OnChainAmounts -> Nat]
  /\ ConstructorPointers \in [TransferPointers -> Accounts]
  /\ AmountInputs \in [AmountNames -> SUBSET Nat]
  /\ PointerInputs \in [PointerNames -> SUBSET Addresses]
  /\ Blocklists # {}

VARIABLES
  amounts,   \* the uint256 parameters of the hub, by name
  pointers,  \* its address parameters, by name
  paused     \* its pause switches, by feature

config == <<amounts, pointers, paused>>

ConfigTypeOK ==
  /\ amounts \in [AmountNames -> Nat]
  /\ pointers \in [PointerNames -> Addresses]
  /\ pointers["blocklist"] \in Blocklists
  /\ paused \in [Features -> BOOLEAN]

\* The constructors: on-chain and off-chain limits start equal, fees and
\* switches at their defaults, no pricer yet.
ConfigInit ==
  /\ amounts = [name \in AmountNames |->
       CASE name \in OnChainAmounts -> ConstructorAmounts[name]
         [] name = "minimumOffChainSubscriptionAmount" ->
              ConstructorAmounts["minimumDepositAmount"]
         [] name = "maximumOffChainSubscriptionAmount" ->
              ConstructorAmounts["maximumDepositAmount"]
         [] name = "minimumOffChainRedemptionAmount" ->
              ConstructorAmounts["minimumRedemptionAmount"]
         [] name = "maximumOffChainRedemptionAmount" ->
              ConstructorAmounts["maximumRedemptionAmount"]
         [] name \in Fees -> 0]
  /\ \E blocklist \in Blocklists :
       pointers = [name \in PointerNames |->
         CASE name \in TransferPointers -> ConstructorPointers[name]
           [] name = "pricer" -> ZeroAddress
           [] name = "blocklist" -> blocklist]
  /\ paused = [feature \in Features |-> FALSE]

OnlyRole(role, caller) == caller \in RoleMembers[role]

\* Mutant: the floor is missing.
SetAmountUnchecked(caller, name, amount) ==
  /\ OnlyRole("MANAGER_ADMIN", caller)
  /\ name \in OnChainAmounts
  /\ amounts' = [amounts EXCEPT ![name] = amount]
  /\ UNCHANGED <<pointers, paused>>

\* setMinimum/setMaximum Deposit/Redemption Amount
SetAmount(caller, name, amount) ==
  /\ OnlyRole("MANAGER_ADMIN", caller)
  /\ name \in OnChainAmounts
  /\ amount >= BPS_DENOMINATOR
  /\ amounts' = [amounts EXCEPT ![name] = amount]
  /\ UNCHANGED <<pointers, paused>>

\* Mutant: the upper bound is missing.
SetFeeUnchecked(caller, name, rate) ==
  /\ OnlyRole("MANAGER_ADMIN", caller)
  /\ name \in Fees
  /\ amounts' = [amounts EXCEPT ![name] = rate]
  /\ UNCHANGED <<pointers, paused>>

\* setMintFee, setRedemptionFee
SetFee(caller, name, rate) ==
  /\ OnlyRole("MANAGER_ADMIN", caller)
  /\ name \in Fees
  /\ rate <= BPS_DENOMINATOR
  /\ amounts' = [amounts EXCEPT ![name] = rate]
  /\ UNCHANGED <<pointers, paused>>

SetOffChainRedemptionMinimum(caller, amount) ==
  /\ OnlyRole("MANAGER_ADMIN", caller)
  /\ amounts' = [amounts EXCEPT !["minimumOffChainRedemptionAmount"] = amount]
  /\ UNCHANGED <<pointers, paused>>

SetOffChainSubscriptionMinimum(caller, amount) ==
  /\ OnlyRole("MANAGER_ADMIN", caller)
  /\ amounts' = [amounts EXCEPT !["minimumOffChainSubscriptionAmount"] = amount]
  /\ UNCHANGED <<pointers, paused>>

\* setPricer, setFeeRecipient, setAssetSender, setAssetRecipient: the zero
\* address is accepted.
SetPointer(caller, name, address) ==
  /\ OnlyRole("MANAGER_ADMIN", caller)
  /\ name \in TransferPointers \cup {"pricer"}
  /\ pointers' = [pointers EXCEPT ![name] = address]
  /\ UNCHANGED <<amounts, paused>>

SetBlocklist(caller, blocklist) ==
  /\ OnlyRole("MANAGER_ADMIN", caller)
  /\ blocklist # ZeroAddress
  /\ blocklist \in Blocklists
  /\ pointers' = [pointers EXCEPT !["blocklist"] = blocklist]
  /\ UNCHANGED <<amounts, paused>>

\* pauseSubscription, pauseRedemption
Pause(caller, feature) ==
  /\ OnlyRole("PAUSER_ADMIN", caller)
  /\ feature \in {"subscription", "redemption"}
  /\ paused' = [paused EXCEPT ![feature] = TRUE]
  /\ UNCHANGED <<amounts, pointers>>

\* Mutant: the switch of off-chain redemptions is cleared instead.
UnpauseOffChainInstead(caller, feature) ==
  /\ OnlyRole("MANAGER_ADMIN", caller)
  /\ feature \in {"subscription", "redemption"}
  /\ paused' = [paused EXCEPT !["offChainRedemption"] = FALSE]
  /\ UNCHANGED <<amounts, pointers>>

\* unpauseSubscription, unpauseRedemption
Unpause(caller, feature) ==
  /\ OnlyRole("MANAGER_ADMIN", caller)
  /\ feature \in {"subscription", "redemption"}
  /\ paused' = [paused EXCEPT ![feature] = FALSE]
  /\ UNCHANGED <<amounts, pointers>>

PauseOffChainRedemption(caller) ==
  /\ OnlyRole("PAUSER_ADMIN", caller)
  /\ paused' = [paused EXCEPT !["offChainRedemption"] = TRUE]
  /\ UNCHANGED <<amounts, pointers>>

UnpauseOffChainRedemption(caller) ==
  /\ OnlyRole("MANAGER_ADMIN", caller)
  /\ paused' = [paused EXCEPT !["offChainRedemption"] = FALSE]
  /\ UNCHANGED <<amounts, pointers>>

\* The code writes offChainRedemptionPaused here too.
PauseOffChainSubscription(caller) ==
  /\ OnlyRole("PAUSER_ADMIN", caller)
  /\ paused' = [paused EXCEPT !["offChainRedemption"] = TRUE]
  /\ UNCHANGED <<amounts, pointers>>

UnpauseOffChainSubscription(caller) ==
  /\ OnlyRole("MANAGER_ADMIN", caller)
  /\ paused' = [paused EXCEPT !["offChainRedemption"] = FALSE]
  /\ UNCHANGED <<amounts, pointers>>

AmountStep(caller) ==
  \E name \in AmountNames : \E amount \in AmountInputs[name] :
    \/ SetAmount(caller, name, amount)
    \/ SetFee(caller, name, amount)
    \/ name = "minimumOffChainRedemptionAmount"
         /\ SetOffChainRedemptionMinimum(caller, amount)
    \/ name = "minimumOffChainSubscriptionAmount"
         /\ SetOffChainSubscriptionMinimum(caller, amount)

PointerStep(caller) ==
  \E name \in PointerNames : \E address \in PointerInputs[name] :
    \/ SetPointer(caller, name, address)
    \/ name = "blocklist" /\ SetBlocklist(caller, address)

PauseStep(caller) ==
  \/ \E feature \in Features : Pause(caller, feature) \/ Unpause(caller, feature)
  \/ PauseOffChainRedemption(caller)
  \/ UnpauseOffChainRedemption(caller)
  \/ PauseOffChainSubscription(caller)
  \/ UnpauseOffChainSubscription(caller)

ConfigNext ==
  \E caller \in Accounts :
    AmountStep(caller) \/ PointerStep(caller) \/ PauseStep(caller)

\* What the setters keep true of the amounts.
FeesBounded == \A name \in Fees : amounts[name] <= BPS_DENOMINATOR

\* The constructor does not check the amounts it is given; the deployment
\* scripts pass minimums far above BPS_DENOMINATOR.
ConstructorFloors ==
  /\ ConstructorAmounts["minimumDepositAmount"] >= BPS_DENOMINATOR
  /\ ConstructorAmounts["minimumRedemptionAmount"] >= BPS_DENOMINATOR

MinimumsFloored ==
  /\ amounts["minimumDepositAmount"] >= BPS_DENOMINATOR
  /\ amounts["minimumRedemptionAmount"] >= BPS_DENOMINATOR

\* _checkRestrictions: the hub's current blocklist, asked at the call.
Restricted(account) == account \in blocked[pointers["blocklist"]]

\* pricer.getPrice reverts when no pricer is set; 0 for an undefined id.
PriceAvailable == pointers["pricer"] \in Pricers
GetPrice(priceId) == prices[pointers["pricer"]][priceId]

\* collateral.safeTransferFrom(_, to, _): ERC20 refuses the zero address.
Payable(to) == to # ZeroAddress

=============================================================================
