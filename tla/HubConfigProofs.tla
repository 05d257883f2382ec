-------------------------- MODULE HubConfigProofs --------------------------
(***************************************************************************)
(* The parts of the hub's state that every operation reads: what the       *)
(* environment and the admin setters preserve.  The proofs of the          *)
(* components cite these lemmas for their environment and setter steps.    *)
(***************************************************************************)
EXTENDS HubConfig, HubMathProofs

EnvInv == EnvTypeOK /\ PricesSubmitted

ConfigInv == ConfigTypeOK /\ FeesBounded

LEMMA EnvInitOK == EnvInit => EnvInv
  BY EnvironmentAssumption, SMT DEF EnvInit, EnvInv, EnvTypeOK, PricesSubmitted

LEMMA EnvStep == EnvInv /\ EnvNext => EnvInv'
<1> SUFFICES ASSUME EnvInv, EnvNext PROVE EnvInv'
  OBVIOUS
<1> USE EnvironmentAssumption DEF EnvInv, EnvTypeOK, PricesSubmitted
<1>1. CASE Tick
  BY <1>1 DEF Tick
<1>2. ASSUME NEW pricer \in Pricers, NEW priceId \in PriceIds, NEW price \in PriceValues,
             AddPrice(pricer, priceId, price) \/ UpdatePrice(pricer, priceId, price)
      PROVE  EnvInv'
  <2>1. /\ prices' = [prices EXCEPT ![pricer][priceId] = price]
        /\ UNCHANGED <<blockTimestamp, blocked, holders>>
    BY <1>2 DEF AddPrice, UpdatePrice
  <2>2. price \in Nat
    OBVIOUS
  <2>3. prices' \in [Pricers -> [PriceIds -> Nat]]
    BY <2>1, <2>2
  <2>4. PricesSubmitted'
    BY <2>1
  <2> QED BY <2>1, <2>3, <2>4
<1>3. ASSUME NEW listed \in [Blocklists -> SUBSET ListedUsers],
             NEW accepted \in SUBSET ListedUsers, ListsChange(listed, accepted)
      PROVE  EnvInv'
  BY <1>3 DEF ListsChange
<1> QED
  BY <1>1, <1>2, <1>3 DEF EnvNext

LEMMA ConfigInitOK == ConfigInit => ConfigInv
<1> SUFFICES ASSUME ConfigInit PROVE ConfigInv
  OBVIOUS
<1> USE ConfigAssumption, BpsAssumption
<1>1. amounts \in [AmountNames -> Nat] /\ FeesBounded
  BY DEF ConfigInit, AmountNames, OnChainAmounts, OffChainMinimums,
         OffChainMaximums, Fees, FeesBounded
<1>2. pointers \in [PointerNames -> Addresses] /\ pointers["blocklist"] \in Blocklists
  BY DEF ConfigInit, PointerNames, TransferPointers, Addresses
<1>3. paused \in [Features -> BOOLEAN]
  BY DEF ConfigInit
<1> QED
  BY <1>1, <1>2, <1>3 DEF ConfigInv, ConfigTypeOK

LEMMA FloorsInit == ConstructorFloors /\ ConfigInit => MinimumsFloored
<1> SUFFICES ASSUME ConstructorFloors, ConfigInit PROVE MinimumsFloored
  OBVIOUS
<1>1. amounts["minimumDepositAmount"] = ConstructorAmounts["minimumDepositAmount"]
  BY DEF ConfigInit, AmountNames, OnChainAmounts, Fees
<1>2. amounts["minimumRedemptionAmount"] = ConstructorAmounts["minimumRedemptionAmount"]
  BY DEF ConfigInit, AmountNames, OnChainAmounts, Fees
<1> QED
  BY <1>1, <1>2 DEF ConstructorFloors, MinimumsFloored

LEMMA AmountStepOK ==
  ASSUME ConfigInv, NEW caller \in Accounts, AmountStep(caller)
  PROVE  ConfigInv' /\ (MinimumsFloored => MinimumsFloored')
<1> USE ConfigAssumption, BpsAssumption
    DEF ConfigInv, ConfigTypeOK, FeesBounded, MinimumsFloored,
        AmountNames, OnChainAmounts, OffChainMinimums, OffChainMaximums, Fees
<1>0. PICK name \in AmountNames :
        \E amount \in AmountInputs[name] :
          \/ SetAmount(caller, name, amount)
          \/ SetFee(caller, name, amount)
          \/ SetOffChainRedemptionMinimum(caller, amount)
          \/ SetOffChainSubscriptionMinimum(caller, amount)
  BY DEF AmountStep
<1>1. PICK amount \in AmountInputs[name] :
        \/ SetAmount(caller, name, amount)
        \/ SetFee(caller, name, amount)
        \/ SetOffChainRedemptionMinimum(caller, amount)
        \/ SetOffChainSubscriptionMinimum(caller, amount)
  BY <1>0
<1>2. amount \in Nat
  BY <1>1
<1>3. CASE SetAmount(caller, name, amount)
  BY <1>2, <1>3 DEF SetAmount
<1>4. CASE SetFee(caller, name, amount)
  BY <1>2, <1>4 DEF SetFee
<1>5. CASE \/ SetOffChainRedemptionMinimum(caller, amount)
           \/ SetOffChainSubscriptionMinimum(caller, amount)
  BY <1>2, <1>5 DEF SetOffChainRedemptionMinimum, SetOffChainSubscriptionMinimum
<1> QED
  BY <1>1, <1>3, <1>4, <1>5

LEMMA ConfigStep ==
  ASSUME ConfigInv, ConfigNext
  PROVE  ConfigInv' /\ (MinimumsFloored => MinimumsFloored')
<1>1. PICK caller \in Accounts :
        AmountStep(caller) \/ PointerStep(caller) \/ PauseStep(caller)
  BY DEF ConfigNext
<1>2. CASE AmountStep(caller)
  BY <1>2, AmountStepOK
<1>3. CASE PointerStep(caller)
  <2>0. PICK name \in PointerNames :
          \E address \in PointerInputs[name] :
            SetPointer(caller, name, address) \/ SetBlocklist(caller, address)
    BY <1>3 DEF PointerStep
  <2>1. PICK address \in PointerInputs[name] :
          SetPointer(caller, name, address) \/ SetBlocklist(caller, address)
    BY <2>0
  <2>2. address \in Addresses
    BY <2>1, ConfigAssumption
  <2>3. UNCHANGED <<amounts, paused>>
    BY <2>1 DEF SetPointer, SetBlocklist
  <2>4. /\ pointers' \in [PointerNames -> Addresses]
        /\ pointers'["blocklist"] \in Blocklists
    BY <2>1, <2>2 DEF SetPointer, SetBlocklist, ConfigInv, ConfigTypeOK,
                      PointerNames, TransferPointers
  <2> QED
    BY <2>3, <2>4 DEF ConfigInv, ConfigTypeOK, FeesBounded, MinimumsFloored
<1>4. CASE PauseStep(caller)
  <2>1. UNCHANGED <<amounts, pointers>>
    BY <1>4 DEF PauseStep, Pause, Unpause, PauseOffChainRedemption,
       UnpauseOffChainRedemption, PauseOffChainSubscription, UnpauseOffChainSubscription
  <2>2. paused' \in [Features -> BOOLEAN]
    BY <1>4 DEF ConfigInv, ConfigTypeOK, Features, PauseStep, Pause, Unpause,
       PauseOffChainRedemption, UnpauseOffChainRedemption,
       PauseOffChainSubscription, UnpauseOffChainSubscription
  <2> QED
    BY <2>1, <2>2 DEF ConfigInv, ConfigTypeOK, FeesBounded, MinimumsFloored
<1> QED
  BY <1>1, <1>2, <1>3, <1>4

=============================================================================
